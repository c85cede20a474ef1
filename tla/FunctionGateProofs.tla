-------------------------- MODULE FunctionGateProofs --------------------------
(***************************************************************************)
(* Proofs about FunctionGate, for every original, declaration, scout pool, *)
(* job answer and bound.  FuzzInv relates the parts of a round: which      *)
(* cases are kept, what the declaration was let through with, and what a   *)
(* faithful job has answered so far.                                       *)
(***************************************************************************)
EXTENDS FunctionGate, TLAPS, SequenceTheorems

Case == [point : Points, by : {"scout", "declared"}]

\* What a stage has not reached yet is still empty; what it has is whole.
Progress ==
  /\ stage \in {"idle", "draw"} => cases = <<>> /\ wants = <<>> /\ kept = <<>>
  /\ stage \in {"idle", "draw", "call"} => results = <<>>
  /\ stage \notin {"judge", "done"} => answer = "none"
  /\ stage # "done" => verdict = NoVerdict
  /\ stage \notin {"idle", "done"} => spec \in Specs /\ SpecReason(spec) = "none"
  /\ stage \in {"call", "job", "judge"} => cases \in [1..N_FUZZ -> Case]
  /\ stage \in {"job", "judge"} =>
       Len(wants) = Len(cases) /\ FloorReason(wants) = "none"

\* A declared case is a point of the declaration.
DeclaredInSpace ==
  \A i \in DOMAIN cases :
    cases[i].by = "declared" => cases[i].point \in spec.space

\* The kept positions are those of the cases the original survived.
KeptSurvived ==
  /\ Len(kept) <= Len(wants)
  /\ \A j \in DOMAIN kept : kept[j] \in Survivors(wants)
  /\ \A i \in Survivors(wants) : \E j \in DOMAIN kept : kept[j] = i

\* A faithful job's answers agree with the original, position by position.
FaithfulSoFar ==
  model = "faithful" =>
    /\ Len(results) <= Len(kept)
    /\ \A j \in DOMAIN results :
         /\ results[j] \in Values
         /\ SameMem(wants[kept[j]], results[j]) /\ SameRet(wants[kept[j]], results[j])
    /\ answer = "listed" => Len(results) = Len(kept)

Judged == AcceptIsEarned /\ RoundNotVacuous /\ FaithfulNeverBlamed

FuzzInv ==
  /\ TypeOK /\ Progress /\ DeclaredInSpace /\ KeptSurvived /\ FaithfulSoFar
  /\ Judged

-----------------------------------------------------------------------------
(* The operators.                                                          *)

LEMMA LeastIsMin ==
  ASSUME NEW m \in Nat, NEW n \in Nat
  PROVE  Least(m, n) \in Nat /\ Least(m, n) <= m /\ Least(m, n) <= n
BY DEF Least

LEMMA LeastWithin ==
  ASSUME NEW m \in Nat, NEW n \in Nat, m \in 1..n
  PROVE  m \in 1..m /\ Least(n, m) = m /\ (~(m < n) => m = n)
BY DEF Least

\* A round is N_FUZZ cases, the declared ones drawn from the declaration.
LEMMA MergedIsRound ==
  ASSUME NEW s \in Specs, NEW draws \in Draws(s), NEW pool \in Scouts(s)
  PROVE  /\ Merged(draws, pool) \in [1..N_FUZZ -> Case]
         /\ \A i \in 1..N_FUZZ :
              Merged(draws, pool)[i].by = "declared" =>
                Merged(draws, pool)[i].point \in s.space
<1>1. s.space \subseteq Points
  BY SpecAssumption
<1>2. pool \in Seq(Points)
  <2>1. pool = <<>> \/ pool \in ScoutPools
    BY DEF Scouts
  <2>. QED  BY <2>1, SpecAssumption, EmptySeq
<1>3. N_FUZZ \div 4 \in Nat
  BY BoundsAssumption
<1>4. ScoutCount(pool) \in Nat /\ ScoutCount(pool) <= Len(pool)
  <2>1. SCOUT_SLICE_MAX \in Nat /\ Len(pool) \in Nat
    BY <1>2, BoundsAssumption
  <2>2. Least(SCOUT_SLICE_MAX, N_FUZZ \div 4) \in Nat
    BY <1>3, <2>1, LeastIsMin
  <2>. QED  BY <2>1, <2>2, LeastIsMin DEF ScoutCount
<1>5. ASSUME NEW i \in 1..N_FUZZ
      PROVE  /\ Merged(draws, pool)[i] \in Case
             /\ Merged(draws, pool)[i].by = "declared" =>
                  Merged(draws, pool)[i].point \in s.space
  <2>1. CASE i <= ScoutCount(pool)
    <3>1. pool[i] \in Points
      BY <1>2, <1>4, <2>1, BoundsAssumption
    <3>. QED  BY <2>1, <3>1 DEF Merged, Case
  <2>2. CASE ~(i <= ScoutCount(pool))
    <3>1. draws[i] \in s.space
      BY DEF Draws
    <3>. QED  BY <1>1, <2>2, <3>1 DEF Merged, Case
  <2>. QED  BY <2>1, <2>2
<1>6. Merged(draws, pool) = [i \in 1..N_FUZZ |-> Merged(draws, pool)[i]]
  BY DEF Merged
<1>. QED  BY <1>5, <1>6

LEMMA RoundLength ==
  ASSUME NEW cs \in [1..N_FUZZ -> Case]
  PROVE  cs \in Seq(Case) /\ Len(cs) = N_FUZZ /\ DOMAIN cs = 1..N_FUZZ
BY BoundsAssumption

-----------------------------------------------------------------------------
(* The steps.                                                              *)

LEMMA InitFuzz == Init => FuzzInv
<1>. SUFFICES ASSUME Init PROVE FuzzInv
  OBVIOUS
<1>1. TypeOK
  BY BoundsAssumption DEF Init, TypeOK, NoVerdict, Reasons
<1>2. Progress /\ DeclaredInSpace /\ FaithfulSoFar /\ Judged
  BY DEF Init, Progress, DeclaredInSpace, FaithfulSoFar, Judged, NoVerdict,
         AcceptIsEarned, RoundNotVacuous, FaithfulNeverBlamed
<1>3. KeptSurvived
  BY DEF Init, KeptSurvived, Survivors
<1>. QED  BY <1>1, <1>2, <1>3 DEF FuzzInv

\* A verdict other than "accepted", before any answer of the job.
LEMMA EarlyVerdict ==
  ASSUME FuzzInv, stage # "done",
         NEW r \in Reasons \ {"accepted"}, Return(r, 0),
         spec' = spec, cases' = cases, wants' = wants, kept' = kept,
         results' = results, answer' = answer, answer' # "listed" \/ model' # "faithful",
         model' \in {"none", "faithful", "forged"},
         FaithfulSoFar'
  PROVE  FuzzInv'
<1>1. TypeOK'
  BY BoundsAssumption DEF FuzzInv, TypeOK, Return, Reasons
<1>2. Progress' /\ DeclaredInSpace'
  BY DEF FuzzInv, Progress, DeclaredInSpace, Return
<1>3. KeptSurvived'
  BY DEF FuzzInv, KeptSurvived, Survivors
<1>4. Judged'
  BY DEF Judged, AcceptIsEarned, RoundNotVacuous, FaithfulNeverBlamed, Return
<1>. QED  BY <1>1, <1>2, <1>3, <1>4 DEF FuzzInv

LEMMA SubmitFuzz ==
  ASSUME FuzzInv, NEW c \in Candidates, NEW s \in Specs \cup {BadSpec},
         NEW m \in {"faithful", "forged"}, Submit(c, s, m)
  PROVE  FuzzInv'
<1>1. /\ stage = "idle" /\ results = <<>> /\ wants = <<>> /\ kept = <<>>
      /\ cases = <<>> /\ answer = "none"
  BY DEF Submit, FuzzInv, Progress
<1>2. FaithfulSoFar'
  BY <1>1 DEF Submit, FaithfulSoFar
<1>3. CASE stage' = "done"
  <2>1. PICK r \in Reasons \ {"accepted"} : Return(r, 0) /\ UNCHANGED spec
    BY <1>3 DEF Submit, Reasons, SpecReason
  <2>. QED
    BY <1>1, <1>2, <2>1, EarlyVerdict DEF Submit
<1>4. CASE stage' # "done"
  <2>1. /\ spec' = s /\ stage' = "draw" /\ UNCHANGED verdict
        /\ s \in Specs /\ SpecReason(s) = "none"
    BY <1>4 DEF Submit, Return, CandidateFault, ParamsFault
  <2>2. TypeOK'
    BY <2>1 DEF Submit, FuzzInv, TypeOK
  <2>3. Progress' /\ DeclaredInSpace'
    BY <1>1, <2>1 DEF Submit, FuzzInv, Progress, DeclaredInSpace, SpecReason
  <2>4. KeptSurvived'
    BY <1>1 DEF Submit, KeptSurvived, Survivors
  <2>5. Judged'
    BY <1>1, <2>1
       DEF FuzzInv, Progress, NoVerdict, Judged, AcceptIsEarned, RoundNotVacuous,
           FaithfulNeverBlamed
  <2>. QED  BY <1>2, <2>2, <2>3, <2>4, <2>5 DEF FuzzInv
<1>. QED  BY <1>3, <1>4

\* Before the job's end a verdict is still to come.
LEMMA NoVerdictYet ==
  ASSUME verdict' = NoVerdict, stage' # "done"
  PROVE  Judged'
BY DEF Judged, AcceptIsEarned, RoundNotVacuous, FaithfulNeverBlamed, NoVerdict

LEMMA DrawFuzz ==
  ASSUME FuzzInv, Draw
  PROVE  FuzzInv'
<1>1. /\ spec \in Specs /\ SpecReason(spec) = "none" /\ verdict = NoVerdict
      /\ wants = <<>> /\ kept = <<>> /\ results = <<>> /\ answer = "none"
  BY DEF Draw, FuzzInv, Progress
<1>2. PICK draws \in Draws(spec), pool \in Scouts(spec) : cases' = Merged(draws, pool)
  BY DEF Draw
<1>3. /\ cases' \in [1..N_FUZZ -> Case]
      /\ \A i \in 1..N_FUZZ : cases'[i].by = "declared" => cases'[i].point \in spec.space
  BY <1>1, <1>2, MergedIsRound
<1>4. cases' \in Seq(Case) /\ Len(cases') = N_FUZZ /\ DOMAIN cases' = 1..N_FUZZ
  BY <1>3, RoundLength
<1>5. TypeOK'
  BY <1>1, <1>3, <1>4, BoundsAssumption DEF Draw, FuzzInv, TypeOK, Case
<1>6. Progress' /\ DeclaredInSpace'
  BY <1>1, <1>3, <1>4 DEF Draw, Progress, DeclaredInSpace, SpecReason
<1>7. KeptSurvived' /\ FaithfulSoFar'
  BY <1>1 DEF Draw, KeptSurvived, Survivors, FaithfulSoFar
<1>8. Judged'
  BY <1>1, NoVerdictYet DEF Draw
<1>. QED  BY <1>5, <1>6, <1>7, <1>8 DEF FuzzInv

\* A scout that cannot be packed ends the check, and nothing else changes.
LEMMA CallRaises ==
  ASSUME FuzzInv, CallOriginal, stage' = "raised"
  PROVE  FuzzInv'
<1>1. /\ stage = "call" /\ spec \in Specs /\ SpecReason(spec) = "none"
      /\ verdict = NoVerdict /\ answer = "none" /\ results = <<>>
  BY DEF CallOriginal, FuzzInv, Progress
<1>2. UNCHANGED <<wants, kept, spec, model, cases, answer, results, verdict>>
  BY <1>1 DEF CallOriginal
<1>3. TypeOK'
  BY <1>2 DEF FuzzInv, TypeOK
<1>4. Progress' /\ DeclaredInSpace'
  BY <1>1, <1>2 DEF FuzzInv, Progress, DeclaredInSpace, SpecReason
<1>5. KeptSurvived' /\ FaithfulSoFar'
  BY <1>1, <1>2 DEF FuzzInv, KeptSurvived, Survivors, FaithfulSoFar
<1>6. Judged'
  BY <1>1, <1>2, NoVerdictYet
<1>. QED  BY <1>3, <1>4, <1>5, <1>6 DEF FuzzInv

LEMMA CallFuzz ==
  ASSUME FuzzInv, CallOriginal, stage' # "raised"
  PROVE  FuzzInv'
<1>. DEFINE i == Len(wants) + 1
<1>1. /\ stage = "call" /\ cases \in [1..N_FUZZ -> Case] /\ results = <<>>
      /\ answer = "none" /\ verdict = NoVerdict /\ spec \in Specs
  BY DEF CallOriginal, FuzzInv, Progress
<1>2. /\ wants \in Seq(Truths) /\ Len(wants) \in Nat /\ i \in 1..N_FUZZ
      /\ Len(cases) = N_FUZZ /\ kept \in Seq(1..N_FUZZ) /\ Len(kept) \in Nat
  BY <1>1, RoundLength, LenProperties, BoundsAssumption DEF CallOriginal, FuzzInv, TypeOK
<1>3. PICK w \in Outcomes[cases[i].point] :
        wants' = Append(wants, w) /\ kept' = Keep(i, w) /\ UNCHANGED stage
  BY DEF CallOriginal
<1>4. w \in Truths
  <2>1. cases[i].point \in Points
    BY <1>1, <1>2 DEF Case
  <2>. QED  BY <1>3, <2>1, OriginalAssumption
<1>5. /\ wants' \in Seq(Truths) /\ Len(wants') = i /\ wants'[i] = w
      /\ \A k \in 1..Len(wants) : wants'[k] = wants[k]
      /\ DOMAIN wants = 1..Len(wants) /\ DOMAIN wants' = 1..i
  BY <1>2, <1>3, <1>4, AppendProperties, LenProperties
<1>6. \A j \in DOMAIN kept : kept[j] \in Survivors(wants) /\ kept[j] < i
  BY <1>2, <1>5 DEF FuzzInv, KeptSurvived, Survivors
<1>7. Survivors(wants)' = Survivors(wants) \cup (IF w \in Values THEN {i} ELSE {})
  BY <1>2, <1>5 DEF Survivors
<1>8. ASSUME w \in Values PROVE TypeOK' /\ KeptSurvived'
  <2>1. /\ kept' \in Seq(1..N_FUZZ) /\ Len(kept') = Len(kept) + 1
        /\ kept'[Len(kept) + 1] = i
        /\ \A j \in 1..Len(kept) : kept'[j] = kept[j]
        /\ DOMAIN kept = 1..Len(kept) /\ DOMAIN kept' = 1..(Len(kept) + 1)
    BY <1>2, <1>3, <1>8, AppendProperties, LenProperties DEF Keep
  <2>2. \A j, k \in DOMAIN kept' : j < k => kept'[j] < kept'[k]
    <3>. SUFFICES ASSUME NEW j \in DOMAIN kept', NEW k \in DOMAIN kept', j < k
                  PROVE  kept'[j] < kept'[k]
      OBVIOUS
    <3>1. j \in 1..Len(kept)
      BY <1>2, <2>1
    <3>2. CASE k \in 1..Len(kept)
      BY <2>1, <3>1, <3>2 DEF FuzzInv, TypeOK
    <3>3. CASE k = Len(kept) + 1
      BY <1>6, <2>1, <3>1, <3>3
    <3>. QED  BY <2>1, <3>2, <3>3, <1>2
  <2>3. TypeOK'
    BY <1>1, <1>2, <1>3, <1>5, <2>1, <2>2 DEF CallOriginal, FuzzInv, TypeOK
  <2>4. KeptSurvived'
    <3>1. Len(kept') <= Len(wants')
      BY <1>2, <1>5, <2>1 DEF FuzzInv, KeptSurvived
    <3>2. ASSUME NEW j \in DOMAIN kept' PROVE kept'[j] \in Survivors(wants)'
      <4>1. j \in 1..Len(kept) \/ j = Len(kept) + 1
        BY <1>2, <2>1, <3>2
      <4>2. CASE j \in 1..Len(kept)
        BY <1>6, <1>7, <2>1, <4>2
      <4>3. CASE j = Len(kept) + 1
        BY <1>7, <1>8, <2>1, <4>3
      <4>. QED  BY <4>1, <4>2, <4>3
    <3>3. ASSUME NEW k \in Survivors(wants)'
          PROVE  \E j \in DOMAIN kept' : kept'[j] = k
      <4>1. CASE k = i
        <5>1. Len(kept) + 1 \in DOMAIN kept' /\ kept'[Len(kept) + 1] = k
          BY <1>2, <2>1, <4>1
        <5>. QED  BY <5>1
      <4>2. CASE k \in Survivors(wants)
        <5>1. PICK j \in DOMAIN kept : kept[j] = k
          BY <4>2 DEF FuzzInv, KeptSurvived
        <5>2. j \in DOMAIN kept' /\ kept'[j] = k
          BY <2>1, <5>1, <1>2
        <5>. QED  BY <5>2
      <4>. QED  BY <1>7, <1>8, <3>3, <4>1, <4>2
    <3>. QED  BY <3>1, <3>2, <3>3 DEF KeptSurvived
  <2>. QED  BY <2>3, <2>4
<1>9. ASSUME w \notin Values PROVE TypeOK' /\ KeptSurvived'
  <2>1. kept' = kept
    BY <1>3, <1>9 DEF Keep
  <2>2. TypeOK'
    BY <1>1, <1>2, <1>3, <1>5, <2>1 DEF CallOriginal, FuzzInv, TypeOK
  <2>3. Survivors(wants)' = Survivors(wants)
    BY <1>7, <1>9
  <2>4. KeptSurvived'
    BY <1>2, <1>5, <2>1, <2>3 DEF FuzzInv, KeptSurvived
  <2>. QED  BY <2>2, <2>4
<1>10. TypeOK' /\ KeptSurvived'
  BY <1>8, <1>9
<1>11. Progress' /\ DeclaredInSpace'
  BY <1>1, <1>3 DEF CallOriginal, FuzzInv, Progress, DeclaredInSpace, SpecReason
<1>12. FaithfulSoFar'
  BY <1>1, <1>10 DEF CallOriginal, FaithfulSoFar, KeptSurvived, TypeOK
<1>13. Judged'
  BY <1>1, <1>3, NoVerdictYet DEF CallOriginal
<1>. QED  BY <1>10, <1>11, <1>12, <1>13 DEF FuzzInv

\* A stage that moves on with the round as it stands.
LEMMA StageMoves ==
  ASSUME FuzzInv, stage \in {"call", "job"}, stage' \in {"job", "judge"},
         UNCHANGED <<spec, model, cases, wants, kept, verdict>>,
         Len(wants) = Len(cases), FloorReason(wants) = "none",
         results' \in Seq(Values \cup Claims),
         answer' \in {"none", "listed", "stage", "failed"},
         stage' = "job" => answer' = "none", FaithfulSoFar'
  PROVE  FuzzInv'
<1>1. verdict = NoVerdict /\ spec \in Specs /\ SpecReason(spec) = "none"
  BY DEF FuzzInv, Progress
<1>2. TypeOK'
  BY DEF FuzzInv, TypeOK
<1>3. FloorReason(wants)'= FloorReason(wants)
  BY DEF FloorReason, Survivors, DeclaredFault, Varied, Declared
<1>4. Progress' /\ DeclaredInSpace'
  BY <1>1, <1>3 DEF FuzzInv, Progress, DeclaredInSpace, SpecReason
<1>5. KeptSurvived'
  BY DEF FuzzInv, KeptSurvived, Survivors
<1>6. Judged'
  BY <1>1, NoVerdictYet
<1>. QED  BY <1>2, <1>4, <1>5, <1>6 DEF FuzzInv

LEMMA FloorsFuzz ==
  ASSUME FuzzInv, Floors
  PROVE  FuzzInv'
<1>1. stage = "call" /\ answer = "none" /\ Len(wants) = Len(cases)
  BY DEF Floors, FuzzInv, Progress
<1>2. FaithfulSoFar'
  BY <1>1 DEF Floors, FuzzInv, FaithfulSoFar, SameMem, SameRet
<1>3. CASE FloorReason(wants) # "none"
  <2>1. FloorReason(wants) \in Reasons \ {"accepted"}
    BY DEF FloorReason, Reasons
  <2>2. Return(FloorReason(wants), 0)
    BY <1>3 DEF Floors
  <2>3. model \in {"none", "faithful", "forged"}
    BY DEF FuzzInv, TypeOK
  <2>. QED  BY <1>1, <1>2, <2>1, <2>2, <2>3, EarlyVerdict DEF Floors
<1>4. CASE FloorReason(wants) = "none"
  BY <1>1, <1>2, <1>4, StageMoves DEF Floors, FuzzInv, TypeOK
<1>. QED  BY <1>3, <1>4

LEMMA ReportsFuzz ==
  ASSUME FuzzInv, WorkerReports
  PROVE  FuzzInv'
<1>1. /\ stage = "job" /\ answer = "none"
      /\ Len(wants) = Len(cases) /\ FloorReason(wants) = "none"
      /\ results \in Seq(Values \cup Claims) /\ Len(results) \in Nat /\ Len(kept) \in Nat
  BY DEF WorkerReports, FuzzInv, Progress, TypeOK
<1>2. PICK g \in Values \cup Claims :
        /\ results' = Append(results, g)
        /\ model = "faithful" =>
             /\ Len(results) < Len(kept) /\ g \in Values
             /\ SameMem(wants[kept[Len(results) + 1]], g)
             /\ SameRet(wants[kept[Len(results) + 1]], g)
  BY DEF WorkerReports, SameMem, SameRet
<1>3. /\ results' \in Seq(Values \cup Claims) /\ Len(results') = Len(results) + 1
      /\ results'[Len(results) + 1] = g
      /\ \A j \in 1..Len(results) : results'[j] = results[j]
      /\ DOMAIN results = 1..Len(results) /\ DOMAIN results' = 1..(Len(results) + 1)
  BY <1>1, <1>2, AppendProperties, LenProperties
<1>4. FaithfulSoFar'
  <2>. SUFFICES ASSUME model = "faithful"
                PROVE  /\ Len(results') <= Len(kept)
                       /\ \A j \in DOMAIN results' :
                            /\ results'[j] \in Values
                            /\ SameMem(wants[kept[j]], results'[j])
                            /\ SameRet(wants[kept[j]], results'[j])
    BY <1>1 DEF FaithfulSoFar, WorkerReports, SameMem, SameRet
  <2>1. Len(results') <= Len(kept)
    BY <1>1, <1>2, <1>3
  <2>2. ASSUME NEW j \in DOMAIN results'
        PROVE  /\ results'[j] \in Values
               /\ SameMem(wants[kept[j]], results'[j])
               /\ SameRet(wants[kept[j]], results'[j])
    <3>1. CASE j = Len(results) + 1
      BY <1>2, <1>3, <3>1
    <3>2. CASE j \in 1..Len(results)
      BY <1>3, <3>2 DEF FuzzInv, FaithfulSoFar
    <3>. QED  BY <1>1, <1>3, <2>2, <3>1, <3>2
  <2>. QED  BY <2>1, <2>2
<1>. QED  BY <1>1, <1>3, <1>4, StageMoves DEF WorkerReports

LEMMA EndsFuzz ==
  ASSUME FuzzInv, NEW a \in {"listed", "stage", "failed"}, JobEnds(a)
  PROVE  FuzzInv'
<1>1. /\ stage = "job" /\ Len(wants) = Len(cases) /\ FloorReason(wants) = "none"
      /\ results' \in Seq(Values \cup Claims) /\ answer' = a
  BY DEF JobEnds, FuzzInv, Progress, TypeOK
<1>2. FaithfulSoFar'
  BY DEF JobEnds, FuzzInv, FaithfulSoFar, SameMem, SameRet
<1>. QED  BY <1>1, <1>2, StageMoves DEF JobEnds

\* The kept list is whole and lies within the round.
LEMMA KeptWhole ==
  ASSUME FuzzInv, stage \in {"job", "judge"}
  PROVE  /\ cases \in [1..N_FUZZ -> Case] /\ Len(cases) = N_FUZZ
         /\ DOMAIN cases = 1..N_FUZZ /\ DOMAIN wants = 1..N_FUZZ
         /\ Len(kept) \in 1..N_FUZZ
         /\ {kept[j] : j \in DOMAIN kept} = {i \in DOMAIN cases : wants[i] \in Values}
         /\ Varied(wants) /\ ~DeclaredFault(wants)
<1>1. /\ cases \in [1..N_FUZZ -> Case] /\ Len(wants) = Len(cases)
      /\ FloorReason(wants) = "none"
  BY DEF FuzzInv, Progress
<1>2. Len(cases) = N_FUZZ /\ DOMAIN cases = 1..N_FUZZ /\ DOMAIN wants = 1..N_FUZZ
  BY <1>1, RoundLength DEF FuzzInv, TypeOK
<1>3. Survivors(wants) # {} /\ Varied(wants) /\ ~DeclaredFault(wants)
  BY <1>1 DEF FloorReason
<1>4. Len(kept) \in 1..N_FUZZ
  <2>1. DOMAIN kept # {}
    BY <1>3 DEF FuzzInv, KeptSurvived
  <2>. QED  BY <1>1, <1>2, <2>1, BoundsAssumption DEF FuzzInv, TypeOK, KeptSurvived
<1>5. {kept[j] : j \in DOMAIN kept} = Survivors(wants)
  BY DEF FuzzInv, KeptSurvived
<1>6. Survivors(wants) = {i \in DOMAIN cases : wants[i] \in Values}
  BY <1>2 DEF Survivors
<1>. QED  BY <1>1, <1>2, <1>3, <1>4, <1>5, <1>6

\* A faithful job that lists its results lists an agreeing value per kept case.
LEMMA FaithfulPasses ==
  ASSUME FuzzInv, stage = "judge", model = "faithful", answer = "listed"
  PROVE  JobReason = "none" /\ Mismatches = {}
<1>1. /\ Len(results) = Len(kept) /\ Len(kept) \in 1..N_FUZZ /\ DOMAIN results = 1..Len(kept)
      /\ \A j \in DOMAIN results :
           /\ results[j] \in Values
           /\ SameMem(wants[kept[j]], results[j]) /\ SameRet(wants[kept[j]], results[j])
  BY KeptWhole DEF FuzzInv, FaithfulSoFar, TypeOK
<1>2. WellShaped(results, Len(kept))
  BY <1>1, BoundsAssumption DEF WellShaped
<1>3. \A j \in 1..Len(kept) : Mismatch(wants[kept[j]], results[j]) = "none"
  BY <1>1, SpecAssumption DEF Mismatch
<1>4. Least(Len(kept), Len(results)) = Len(kept)
  BY <1>1 DEF Least
<1>. QED  BY <1>2, <1>3, <1>4 DEF JobReason, Mismatches

\* Results of the right shape without a mismatch are one agreeing value per
\* kept case: a list that stops early ends in a crash, which is a mismatch.
LEMMA NoMismatchIsAgreement ==
  ASSUME FuzzInv, stage = "judge", JobReason = "none", Mismatches = {}
  PROVE  /\ Len(results) = Len(kept) /\ Least(Len(kept), Len(results)) = Len(kept)
         /\ \A j \in DOMAIN kept :
              /\ results[j] \in Values
              /\ SameMem(wants[kept[j]], results[j]) /\ SameRet(wants[kept[j]], results[j])
<1>1. /\ Len(kept) \in 1..N_FUZZ /\ DOMAIN kept = 1..Len(kept)
      /\ Len(results) \in Nat /\ DOMAIN results = 1..Len(results) /\ N_FUZZ \in Nat
  BY KeptWhole, BoundsAssumption DEF FuzzInv, TypeOK
<1>2. WellShaped(results, Len(kept))
  BY DEF JobReason
<1>3. /\ Len(results) \in 1..Len(results) /\ Least(Len(kept), Len(results)) = Len(results)
      /\ ~(Len(results) < Len(kept)) => Len(results) = Len(kept)
  <2>1. Len(results) \in 1..Len(kept)
    BY <1>2 DEF WellShaped
  <2>2. Len(kept) \in Nat /\ Len(results) \in Nat
    BY <1>1
  <2>. QED  BY <2>1, <2>2, LeastWithin
<1>4. \A j \in 1..Len(results) : Mismatch(wants[kept[j]], results[j]) = "none"
  BY <1>3 DEF Mismatches
<1>5. \A j \in 1..Len(results) :
        /\ results[j] # CrashReport
        /\ SameMem(wants[kept[j]], results[j]) /\ SameRet(wants[kept[j]], results[j])
  BY <1>4 DEF Mismatch
<1>6. Len(results) = Len(kept)
  <2>1. ~(Len(results) < Len(kept))
    BY <1>2, <1>3, <1>5 DEF WellShaped
  <2>. QED  BY <1>3, <2>1
<1>7. \A j \in 1..Len(results) : results[j] \in Values
  BY <1>1, <1>2, <1>5 DEF WellShaped
<1>. QED  BY <1>1, <1>3, <1>5, <1>6, <1>7

\* A round that passed the floors compared something.
LEMMA PassedFloors ==
  ASSUME FuzzInv, stage = "judge"
  PROVE  /\ \E i, j \in DOMAIN cases :
              /\ cases[i].by = "declared" /\ cases[j].by = "declared"
              /\ {cases[i].point, cases[j].point} \subseteq spec.space
              /\ cases[i].point # cases[j].point
              /\ {wants[i], wants[j]} \subseteq Values
         /\ \A i \in DOMAIN cases : cases[i].by = "declared" => wants[i] # MemFault
         /\ spec.ret = "i32" \/ spec.memory
<1>1. /\ DOMAIN cases = 1..N_FUZZ /\ DOMAIN wants = 1..N_FUZZ
      /\ Varied(wants) /\ ~DeclaredFault(wants)
  BY KeptWhole
<1>2. \E i, j \in DOMAIN cases :
        /\ cases[i].by = "declared" /\ cases[j].by = "declared"
        /\ {cases[i].point, cases[j].point} \subseteq spec.space
        /\ cases[i].point # cases[j].point
        /\ {wants[i], wants[j]} \subseteq Values
  <2>1. PICK i, j \in Survivors(wants) :
          Declared(i) /\ Declared(j) /\ cases[i].point # cases[j].point
    BY <1>1 DEF Varied
  <2>2. i \in DOMAIN cases /\ j \in DOMAIN cases /\ {wants[i], wants[j]} \subseteq Values
    BY <1>1 DEF Survivors
  <2>3. {cases[i].point, cases[j].point} \subseteq spec.space
    BY <2>1, <2>2 DEF FuzzInv, DeclaredInSpace, Declared
  <2>. QED  BY <2>1, <2>2, <2>3 DEF Declared
<1>3. \A i \in DOMAIN cases : cases[i].by = "declared" => wants[i] # MemFault
  BY <1>1 DEF DeclaredFault, Declared
<1>4. spec.ret = "i32" \/ spec.memory
  <2>1. spec \in Specs /\ SpecReason(spec) = "none"
    BY DEF FuzzInv, Progress
  <2>2. spec.args \in Nat /\ spec.ret \in {"i32", "void"} /\ (spec.args = 0 => spec.ret = "i32")
    BY <2>1, SpecAssumption
  <2>. QED  BY <2>1, <2>2, BoundsAssumption DEF SpecReason
<1>. QED  BY <1>2, <1>3, <1>4

LEMMA JudgeFuzz ==
  ASSUME FuzzInv, Judge
  PROVE  FuzzInv'
<1>1. stage = "judge" /\ UNCHANGED <<spec, model, cases, wants, kept, answer, results>>
  BY DEF Judge
<1>2. ASSUME NEW r \in Reasons, NEW n \in 0..N_FUZZ, Return(r, n), Judged'
      PROVE  FuzzInv'
  <2>1. TypeOK'
    BY <1>1, <1>2 DEF Return, FuzzInv, TypeOK
  <2>2. Progress' /\ DeclaredInSpace'
    BY <1>1, <1>2 DEF Return, FuzzInv, Progress, DeclaredInSpace
  <2>3. KeptSurvived' /\ FaithfulSoFar'
    BY <1>1 DEF FuzzInv, KeptSurvived, Survivors, FaithfulSoFar, SameMem, SameRet
  <2>. QED  BY <1>2, <2>1, <2>2, <2>3 DEF FuzzInv
<1>3. CASE JobReason # "none"
  <2>1. JobReason \in Reasons \ {"accepted"} /\ Return(JobReason, 0)
    BY <1>3 DEF Judge, JobReason, Reasons
  <2>2. ~(model = "faithful" /\ answer = "listed")
    BY <1>1, <1>3, FaithfulPasses
  <2>3. Judged'
    BY <1>1, <2>1, <2>2
       DEF Judged, AcceptIsEarned, RoundNotVacuous, FaithfulNeverBlamed, Return
  <2>. QED  BY <1>2, <2>1, <2>3, BoundsAssumption
<1>4. CASE JobReason = "none" /\ Mismatches # {}
  <2>1. PICK j \in Mismatches : Return(Mismatch(wants[kept[j]], results[j]), j)
    BY <1>4 DEF Judge
  <2>. DEFINE r == Mismatch(wants[kept[j]], results[j])
  <2>2. r \in Reasons \ {"accepted"}
    BY DEF Mismatch, Reasons
  <2>3. j \in 0..N_FUZZ
    <3>1. Len(kept) \in 1..N_FUZZ /\ Len(results) \in Nat /\ N_FUZZ \in Nat
      BY <1>1, KeptWhole, BoundsAssumption DEF FuzzInv, TypeOK
    <3>2. j \in 1..Least(Len(kept), Len(results))
      BY DEF Mismatches
    <3>3. Len(kept) \in Nat
      BY <3>1
    <3>4. /\ Least(Len(kept), Len(results)) \in Nat
          /\ Least(Len(kept), Len(results)) <= Len(kept)
      BY <3>1, <3>3, LeastIsMin
    <3>. QED  BY <3>1, <3>2, <3>4
  <2>4. ~(model = "faithful" /\ answer = "listed")
    BY <1>1, <1>4, FaithfulPasses
  <2>5. Judged'
    BY <1>1, <2>1, <2>2, <2>4
       DEF Judged, AcceptIsEarned, RoundNotVacuous, FaithfulNeverBlamed, Return
  <2>. QED  BY <1>2, <2>1, <2>2, <2>3, <2>5
<1>5. CASE JobReason = "none" /\ Mismatches = {}
  <2>1. /\ Len(results) = Len(kept) /\ Least(Len(kept), Len(results)) = Len(kept)
        /\ \A j \in DOMAIN kept :
             /\ results[j] \in Values
             /\ SameMem(wants[kept[j]], results[j]) /\ SameRet(wants[kept[j]], results[j])
    BY <1>1, <1>5, NoMismatchIsAgreement
  <2>2. Return("accepted", Len(kept))
    BY <1>5, <2>1 DEF Judge
  <2>3. /\ Len(kept) \in 1..N_FUZZ
        /\ {kept[j] : j \in DOMAIN kept} = {i \in DOMAIN cases : wants[i] \in Values}
    BY <1>1, KeptWhole
  <2>4. AcceptIsEarned'
    BY <1>1, <2>1, <2>2, <2>3 DEF AcceptIsEarned, Return, SameMem, SameRet
  <2>5. RoundNotVacuous'
    BY <1>1, PassedFloors DEF RoundNotVacuous
  <2>6. FaithfulNeverBlamed'
    BY <2>2 DEF FaithfulNeverBlamed, Return
  <2>7. "accepted" \in Reasons /\ Len(kept) \in 0..N_FUZZ
    BY <2>3, BoundsAssumption DEF Reasons
  <2>. QED  BY <1>2, <2>2, <2>4, <2>5, <2>6, <2>7 DEF Judged
<1>. QED  BY <1>3, <1>4, <1>5

LEMMA StepFuzz == FuzzInv /\ [Next]_vars => FuzzInv'
<1>. SUFFICES ASSUME FuzzInv, [Next]_vars PROVE FuzzInv'
  OBVIOUS
<1>1. CASE \E c \in Candidates, s \in Specs \cup {BadSpec}, m \in {"faithful", "forged"} :
             Submit(c, s, m)
  BY <1>1, SubmitFuzz
<1>2. CASE Draw
  BY <1>2, DrawFuzz
<1>3. CASE CallOriginal
  BY <1>3, CallRaises, CallFuzz
<1>4. CASE Floors
  BY <1>4, FloorsFuzz
<1>5. CASE WorkerReports
  BY <1>5, ReportsFuzz
<1>6. CASE \E a \in {"listed", "stage", "failed"} : JobEnds(a)
  BY <1>6, EndsFuzz
<1>7. CASE Judge
  BY <1>7, JudgeFuzz
<1>8. CASE NextSubmission
  <2>1. TypeOK'
    BY <1>8, BoundsAssumption DEF NextSubmission, TypeOK, NoVerdict, Reasons
  <2>2. Progress' /\ DeclaredInSpace' /\ FaithfulSoFar'
    BY <1>8 DEF NextSubmission, Progress, DeclaredInSpace, FaithfulSoFar
  <2>3. KeptSurvived'
    BY <1>8 DEF NextSubmission, KeptSurvived, Survivors
  <2>4. Judged'
    BY <1>8, NoVerdictYet DEF NextSubmission
  <2>. QED  BY <2>1, <2>2, <2>3, <2>4 DEF FuzzInv
<1>9. CASE UNCHANGED vars
  <2>1. TypeOK' /\ Progress'
    BY <1>9 DEF vars, FuzzInv, TypeOK, Progress, FloorReason, Survivors,
                DeclaredFault, Varied, Declared, SpecReason
  <2>2. DeclaredInSpace' /\ KeptSurvived' /\ FaithfulSoFar'
    BY <1>9 DEF vars, FuzzInv, DeclaredInSpace, KeptSurvived, Survivors,
                FaithfulSoFar, SameMem, SameRet
  <2>3. Judged'
    BY <1>9 DEF vars, FuzzInv, Judged, AcceptIsEarned, RoundNotVacuous, FaithfulNeverBlamed
  <2>. QED  BY <2>1, <2>2, <2>3 DEF FuzzInv
<1>. QED
  BY <1>1, <1>2, <1>3, <1>4, <1>5, <1>6, <1>7, <1>8, <1>9 DEF Next

-----------------------------------------------------------------------------

\* The inductive invariant of a function check.
THEOREM FuzzInvariant == Spec => []FuzzInv
BY InitFuzz, StepFuzz, PTL DEF Spec

\* Every variable of the check keeps its type, and the kept positions stay in
\* round order.
THEOREM FuzzTypeCorrect == Spec => []TypeOK
<1>1. FuzzInv => TypeOK
  BY DEF FuzzInv
<1>. QED  BY <1>1, FuzzInvariant, PTL

\* validate_function accepts only when every case the original survived was
\* compared and agreed, whatever the job's answer looks like.
THEOREM FuzzAcceptIsEarned == Spec => []AcceptIsEarned
<1>1. FuzzInv => AcceptIsEarned
  BY DEF FuzzInv, Judged
<1>. QED  BY <1>1, FuzzInvariant, PTL

\* An accepted round compared two different declared points on a channel there
\* is, and no declared point faulted.
THEOREM FuzzNotVacuous == Spec => []RoundNotVacuous
<1>1. FuzzInv => RoundNotVacuous
  BY DEF FuzzInv, Judged
<1>. QED  BY <1>1, FuzzInvariant, PTL

\* A faithful model whose job lists its results is accepted, whatever the
\* original does on the cases it does not survive.
THEOREM FuzzFaithfulNeverBlamed == Spec => []FaithfulNeverBlamed
<1>1. FuzzInv => FaithfulNeverBlamed
  BY DEF FuzzInv, Judged
<1>. QED  BY <1>1, FuzzInvariant, PTL

\* What the original did on the scouts does not enter the floors.
LEMMA FloorsIgnoreScouts ==
  ASSUME NEW ws, NEW other, DOMAIN other = DOMAIN ws,
         \A i \in DOMAIN ws : Declared(i) => other[i] = ws[i]
  PROVE  (FloorReason(other) = "none") <=> (FloorReason(ws) = "none")
<1>1. \A i \in DOMAIN ws : Declared(i) => (i \in Survivors(other) <=> i \in Survivors(ws))
  BY DEF Survivors
<1>2. Varied(other) <=> Varied(ws)
  BY <1>1 DEF Varied, Survivors
<1>3. DeclaredFault(other) <=> DeclaredFault(ws)
  BY DEF DeclaredFault
<1>4. \A x : FloorReason(x) = "none" <=> Varied(x) /\ ~DeclaredFault(x)
  BY DEF FloorReason, Varied
<1>. QED  BY <1>2, <1>3, <1>4

\* Whether a round passes the floors never depends on the scout cases.
THEOREM FuzzScoutsDecideNothing == Spec => []ScoutsDecideNothing
<1>1. ScoutsDecideNothing
  <2>. SUFFICES ASSUME NEW w \in Truths
       PROVE  LET other == [i \in DOMAIN wants |->
                              IF cases[i].by = "declared" THEN wants[i] ELSE w]
              IN (FloorReason(other) = "none") <=> (FloorReason(wants) = "none")
    BY DEF ScoutsDecideNothing
  <2>. DEFINE other == [i \in DOMAIN wants |->
                          IF cases[i].by = "declared" THEN wants[i] ELSE w]
  <2>1. DOMAIN other = DOMAIN wants
    OBVIOUS
  <2>2. \A i \in DOMAIN wants : Declared(i) => other[i] = wants[i]
    BY DEF Declared
  <2>. HIDE DEF other
  <2>3. (FloorReason(other) = "none") <=> (FloorReason(wants) = "none")
    BY <2>1, <2>2, FloorsIgnoreScouts
  <2>. QED  BY <2>3 DEF other
<1>. QED  BY <1>1, PTL
=============================================================================
