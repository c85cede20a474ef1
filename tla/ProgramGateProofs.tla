-------------------------- MODULE ProgramGateProofs --------------------------
(***************************************************************************)
(* Proofs about ProgramGate, for every input space, original, job output   *)
(* and bound.  TypeInv is inductive by itself; GateInv adds what relates   *)
(* the parts of a check to each other.                                     *)
(***************************************************************************)
EXTENDS ProgramGate, TLAPS, SequenceTheorems

\* What a stage has not reached yet is still empty.
Clean ==
  /\ stage = "idle" => cases = <<>>
  /\ stage \in {"idle", "parse"} => rec = <<>>
  /\ stage \in {"idle", "parse", "record"} =>
       hidden = <<>> /\ attempts = 0 /\ discarded = {}
  /\ stage \in {"idle", "parse", "record", "draw"} => lines = <<>>
  /\ stage # "done" => verdict = NoVerdict

TypeInv == TypeOK /\ Clean

\* Every truth was recorded on the input it stands for, in case order.
Recorded ==
  \A k \in DOMAIN rec :
    rec[k].input = cases[k].input /\ rec[k].trace \in Outcomes[rec[k].input]
RecordingOver ==
  stage \in {"draw", "replay", "judge"} =>
    Len(rec) = Len(cases) /\ InputsOf(rec) \subseteq known

\* No draw can repeat what the suite holds or what was thrown away.
DrawnOnce ==
  HiddenSuiteSound /\ InputsOf(hidden) \subseteq known /\ discarded \subseteq known
DrawingOver ==
  stage \in {"replay", "judge"} => Len(hidden) = HIDDEN_N \/ attempts = DrawBudget

\* A faithful job's k-th line is an outcome of the k-th input of the suite.
Replayed ==
  model = "faithful" =>
    /\ Len(lines) <= Len(Suite)
    /\ \A k \in DOMAIN lines : lines[k] \in Outcomes[Suite[k].input]
ReplayOver ==
  /\ stage \notin {"judge", "done", "raised"} => exit = "running"
  /\ model = "faithful" /\ exit = "exit0" => Len(lines) = Len(Suite)

Judged == AcceptIsEarned /\ StarvationIsSpent /\ FaithfulNeverBlamed

GateInv ==
  /\ TypeInv /\ Recorded /\ RecordingOver /\ DrawnOnce /\ DrawingOver
  /\ Replayed /\ ReplayOver /\ Judged

\* The draw budget is a number.
LEMMA LimitType == DrawBudget \in Nat
BY BoundsAssumption DEF DrawBudget

\* check starts with nothing done.
LEMMA InitTypeInv == Init => TypeInv
BY LimitType, BoundsAssumption
DEF Init, TypeInv, TypeOK, Clean, Stages, Models, Exits, NoVerdict, Reasons, Points,
  Divergences, JobReasons

\* Rejecting a candidate, or taking its nominations, is well typed.
LEMMA SubmitTypeInv ==
  ASSUME TypeInv, NEW c \in Candidates, NEW m \in Models, Submit(c, m)
  PROVE  TypeInv'
<1> USE DEF TypeInv, TypeOK, Clean, Stages, Models, Exits, NoVerdict, Reasons, Points,
  Divergences, JobReasons, Return
<1>1. CASE CandidateFault(c)
  BY <1>1 DEF Submit
<1>2. CASE ~CandidateFault(c)
  <2>1. PICK s \in Nominations(c) :
          \/ Len(s) > MAX_CASES /\ Return("cases", "candidate") /\ UNCHANGED todo
          \/ /\ Len(s) <= MAX_CASES /\ todo' = s /\ stage' = "parse"
             /\ UNCHANGED verdict
    BY <1>2 DEF Submit
  <2>2. s \in Seq(RawCases \cup {BadCase})
    <3>1. CASE "cases.json" \in Names(c)
      <4>1. PICK n \in 0..(MAX_CASES + 1) : s \in [1..n -> RawCases \cup {BadCase}]
        BY <3>1 DEF Nominations
      <4>2. n \in Nat
        BY BoundsAssumption
      <4> QED
        BY <4>1, <4>2
    <3>2. CASE "cases.json" \notin Names(c)
      BY <3>2 DEF Nominations
    <3> QED
      BY <3>1, <3>2
  <2> QED
    BY <2>1, <2>2, BoundsAssumption DEF Submit
<1> QED
  BY <1>1, <1>2

\* A turn of the parse loop consumes one entry and adds at most one case.
LEMMA ParseTypeInv ==
  ASSUME TypeInv, ParseCase \/ ParseDone
  PROVE  TypeInv'
<1> USE DEF TypeInv, TypeOK, Clean, Stages, Models, Exits, NoVerdict, Reasons, Points,
  Divergences, JobReasons, Return
<1>1. CASE ParseCase
  <2>1. /\ Head(todo) \in RawCases \cup {BadCase}
        /\ Tail(todo) \in Seq(RawCases \cup {BadCase})
        /\ Len(Tail(todo)) = Len(todo) - 1
    BY <1>1, HeadTailProperties DEF ParseCase
  <2>2. CASE Head(todo) = BadCase
    BY <1>1, <2>1, <2>2, BoundsAssumption DEF ParseCase
  <2>3. CASE Head(todo) # BadCase /\ Seen(cases, Head(todo))
    BY <1>1, <2>1, <2>3, BoundsAssumption DEF ParseCase
  <2>4. CASE Head(todo) # BadCase /\ ~Seen(cases, Head(todo))
    <3>1. Head(todo) \in RawCases
      BY <2>1, <2>4
    <3>2. cases' = Append(cases, Head(todo)) /\ todo' = Tail(todo)
      BY <1>1, <2>4 DEF ParseCase
    <3>3. cases' \in Seq(RawCases) /\ Len(cases') = Len(cases) + 1
      BY <3>1, <3>2, AppendProperties
    <3>4. Len(cases') + Len(todo') <= MAX_CASES
      BY <2>1, <3>2, <3>3, BoundsAssumption, LenProperties
    <3> QED
      BY <1>1, <2>1, <2>4, <3>2, <3>3, <3>4, BoundsAssumption DEF ParseCase
  <2> QED
    BY <2>2, <2>3, <2>4
<1>2. CASE ParseDone
  BY <1>2 DEF ParseDone
<1> QED
  BY <1>1, <1>2

\* Recording adds one truth per nominated case.
LEMMA RecordTypeInv ==
  ASSUME TypeInv, RecordCase \/ RecordDone
  PROVE  TypeInv'
<1> USE DEF TypeInv, TypeOK, Clean, Stages, Models, Exits, NoVerdict, Reasons, Points,
  Divergences, JobReasons, Return
<1>1. CASE RecordCase
  <2> DEFINE i == cases[Len(rec) + 1].input
  <2>1. i \in Inputs
    <3>1. Len(rec) + 1 \in 1..Len(cases)
      BY <1>1, LenProperties DEF RecordCase
    <3>2. cases[Len(rec) + 1] \in RawCases
      BY <3>1, ElementOfSeq
    <3> QED
      BY <3>2 DEF RawCases
  <2>2. PICK a, b \in Outcomes[i] :
          \/ ~Stable(a, b) /\ Return("flaky-case", "recorded") /\ UNCHANGED rec
          \/ /\ Stable(a, b) /\ rec' = Append(rec, [input |-> i, trace |-> a])
             /\ UNCHANGED <<stage, verdict>>
    BY <1>1 DEF RecordCase
  <2>3. [input |-> i, trace |-> a] \in Cases
    BY <2>1, DataAssumption DEF Cases
  <2>4. CASE ~Stable(a, b) /\ Return("flaky-case", "recorded") /\ UNCHANGED rec
    BY <1>1, <2>4 DEF RecordCase
  <2>5. CASE /\ Stable(a, b) /\ rec' = Append(rec, [input |-> i, trace |-> a])
             /\ UNCHANGED <<stage, verdict>>
    <3>1. rec' \in Seq(Cases) /\ Len(rec') = Len(rec) + 1
      BY <2>3, <2>5, AppendProperties
    <3>2. Len(rec') <= Len(cases')
      BY <1>1, <3>1, LenProperties DEF RecordCase
    <3> QED
      BY <1>1, <2>5, <3>1, <3>2 DEF RecordCase
  <2> QED
    BY <2>2, <2>4, <2>5
<1>2. CASE RecordDone
  <2>1. \A k \in DOMAIN rec : rec[k] \in Cases
    BY LenProperties, ElementOfSeq
  <2>2. InputsOf(rec) \subseteq Inputs
    BY <2>1 DEF InputsOf, Cases
  <2> QED
    BY <1>2, <2>2 DEF RecordDone
<1> QED
  BY <1>1, <1>2

\* A draw spends one attempt and adds at most one hidden case.
LEMMA DrawTypeInv ==
  ASSUME TypeInv, DrawKnown \/ DrawFresh \/ DrawDone
  PROVE  TypeInv'
<1> USE DEF TypeInv, TypeOK, Clean, Stages, Models, Exits, NoVerdict, Reasons, Points,
  Divergences, JobReasons, Wanting
<1>a. ASSUME DrawsLeft, attempts' = attempts + 1
      PROVE  attempts' \in 0..DrawBudget
  <2>1. attempts < DrawBudget
    BY <1>a DEF DrawsLeft
  <2>2. attempts \in 0..DrawBudget
    OBVIOUS
  <2> QED
    BY LimitType, <1>a, <2>1, <2>2
<1>1. CASE DrawKnown
  <2>1. attempts' \in 0..DrawBudget
    BY <1>1, <1>a DEF DrawKnown
  <2> QED
    BY <1>1, <2>1 DEF DrawKnown
<1>2. CASE DrawFresh
  <2>1. attempts' \in 0..DrawBudget
    BY <1>2, <1>a DEF DrawFresh
  <2>2. PICK i \in Stream \ known : \E a, b \in Outcomes[i] :
         /\ known' = Remember(i, Usable(a, b))
         /\ \/ /\ Usable(a, b)
               /\ hidden' = Append(hidden, [input |-> i, trace |-> a])
               /\ UNCHANGED discarded
            \/ /\ ~Usable(a, b)
               /\ discarded' = discarded \cup {i}
               /\ UNCHANGED hidden
    BY <1>2 DEF DrawFresh
  <2>3. PICK a, b \in Outcomes[i] :
         /\ known' = Remember(i, Usable(a, b))
         /\ \/ /\ Usable(a, b)
               /\ hidden' = Append(hidden, [input |-> i, trace |-> a])
               /\ UNCHANGED discarded
            \/ /\ ~Usable(a, b)
               /\ discarded' = discarded \cup {i}
               /\ UNCHANGED hidden
    BY <2>2
  <2>4. i \in Inputs /\ [input |-> i, trace |-> a] \in Cases
    BY DataAssumption DEF Cases
  <2>5. known' \subseteq Inputs /\ discarded' \subseteq Inputs
    BY <2>3, <2>4 DEF Remember
  <2>6. hidden' \in Seq(Cases) /\ Len(hidden') <= HIDDEN_N
    <3>1. Len(hidden) < HIDDEN_N /\ Len(hidden) \in Nat /\ HIDDEN_N \in Nat
      BY <1>2, LenProperties, BoundsAssumption DEF DrawFresh
    <3>2. CASE hidden' = Append(hidden, [input |-> i, trace |-> a])
      <4>1. hidden' \in Seq(Cases) /\ Len(hidden') = Len(hidden) + 1
        BY <2>4, <3>2, AppendProperties
      <4> QED
        BY <3>1, <4>1
    <3>3. CASE UNCHANGED hidden
      BY <3>3
    <3> QED
      BY <2>3, <3>2, <3>3
  <2> QED
    BY <1>2, <2>1, <2>5, <2>6 DEF DrawFresh
<1>3. CASE DrawDone
  BY <1>3 DEF DrawDone
<1> QED
  BY <1>1, <1>2, <1>3

\* Whatever the job prints, and however it ends, is a line and an ending.
LEMMA JobTypeInv ==
  ASSUME TypeInv, ReplayLine \/ JobEnds
  PROVE  TypeInv'
<1> USE DEF TypeInv, TypeOK, Clean, Stages, Models, Exits, NoVerdict, Reasons, Points,
  Divergences, JobReasons
<1>1. CASE ReplayLine
  <2>1. PICK l \in Lines : lines' = Append(lines, l)
    <3>1. CASE model = "faithful" /\ Len(lines) < Len(Suite)
      <4> DEFINE i == Suite[Len(lines) + 1].input
      <4>1. Suite \in Seq(Cases)
        BY ConcatProperties DEF Suite
      <4>2. Len(lines) + 1 \in 1..Len(Suite)
        BY <3>1, <4>1, LenProperties
      <4>3. Suite[Len(lines) + 1] \in Cases
        BY <4>1, <4>2, ElementOfSeq
      <4>4. i \in Inputs
        BY <4>3 DEF Cases
      <4>5. Outcomes[i] \subseteq Lines
        BY <4>4, DataAssumption DEF Lines
      <4> QED
        BY <1>1, <3>1, <4>5 DEF ReplayLine
    <3>2. CASE model # "faithful"
      BY <1>1, <3>2, DataAssumption DEF ReplayLine
    <3> QED
      BY <1>1, <3>1, <3>2 DEF ReplayLine
  <2>2. lines' \in Seq(Lines)
    BY <2>1, AppendProperties
  <2> QED
    BY <1>1, <2>2 DEF ReplayLine
<1>2. CASE JobEnds
  BY <1>2 DEF JobEnds, JobExits
<1> QED
  BY <1>1, <1>2

\* A judgement is the end of the check, and one that raises has no verdict.
LEMMA JudgeEnds ==
  ASSUME Judge
  PROVE  stage' = "done" \/ (stage' = "raised" /\ UNCHANGED verdict)
BY DEF Judge, RejectJob, RejectRecorded, RejectStarved, RejectHidden, Accept,
       compare, Reject, Return, Raise

\* Every verdict has a reason and a stage.
LEMMA JudgeTypeInv ==
  ASSUME TypeInv, Judge
  PROVE  TypeInv'
<1> USE DEF TypeInv, TypeOK, Clean, Stages, Models, Exits, NoVerdict, Reasons, Points,
  Divergences, JobReasons
<1>1. \/ stage' = "done" /\ verdict' \in [reason : Reasons, at : Points]
      \/ stage' = "raised" /\ UNCHANGED verdict
  <2>1. \A t, g : Divergence(t, g) \in Reasons
    BY DEF Divergence
  <2>2. JobReason(exit, lines, Len(Suite)) \in Reasons
    BY DEF JobReason
  <2>3. CASE RejectJob
    BY <2>2, <2>3 DEF RejectJob, Return
  <2>4. CASE RejectRecorded
    BY <2>1, <2>4 DEF RejectRecorded, compare, Reject, Return, Raise
  <2>5. CASE RejectStarved
    BY <2>5 DEF RejectStarved, Return
  <2>6. CASE RejectHidden
    BY <2>1, <2>6 DEF RejectHidden, compare, Reject, Return, Raise
  <2>7. CASE Accept
    BY <2>7 DEF Accept, Return
  <2> QED
    BY <2>3, <2>4, <2>5, <2>6, <2>7 DEF Judge
<1>2. stage = "judge"
  BY DEF Judge, RejectJob, RejectRecorded, RejectStarved, RejectHidden, Accept,
         Sound
<1> QED
  BY <1>1, <1>2 DEF Judge

\* The next submission starts from nothing.
LEMMA NextSubmissionTypeInv ==
  ASSUME TypeInv, NextSubmission
  PROVE  TypeInv'
BY LimitType, BoundsAssumption
DEF NextSubmission, TypeInv, TypeOK, Clean, Stages, Models, Exits, NoVerdict, Reasons, Points,
  Divergences, JobReasons

\* No step of the check leaves the types.
LEMMA NextTypeInv == TypeInv /\ [Next]_vars => TypeInv'
<1> SUFFICES ASSUME TypeInv, [Next]_vars PROVE TypeInv'
  OBVIOUS
<1>1. CASE \E c \in Candidates, m \in Models : Submit(c, m)
  BY <1>1, SubmitTypeInv
<1>2. CASE HostStep
  BY <1>2, ParseTypeInv, RecordTypeInv, DrawTypeInv, JudgeTypeInv DEF HostStep
<1>3. CASE ReplayLine \/ JobEnds
  BY <1>3, JobTypeInv
<1>4. CASE NextSubmission
  BY <1>4, NextSubmissionTypeInv
<1>5. CASE UNCHANGED vars
  BY <1>5 DEF vars, TypeInv, TypeOK, Clean
<1> QED
  BY <1>1, <1>2, <1>3, <1>4, <1>5 DEF Next

\* The loops of check stay within MAX_CASES, HIDDEN_N and the draw budget,
\* and every variable keeps its type, for all constants.
THEOREM TypeCorrect == Spec => []TypeOK
<1>1. Init => TypeInv
  BY InitTypeInv
<1>2. TypeInv /\ [Next]_vars => TypeInv'
  BY NextTypeInv
<1>3. TypeInv => TypeOK
  BY DEF TypeInv
<1> QED
  BY <1>1, <1>2, <1>3, PTL DEF Spec

-----------------------------------------------------------------------------
(* The rest of the inductive invariant, conjunct by conjunct.              *)

\* Truths follow their cases, and the draw starts from all of them.
LEMMA RecordedStep ==
  ASSUME GateInv, [Next]_vars
  PROVE  Recorded' /\ RecordingOver'
<1> USE DEF GateInv, TypeInv, Clean, TypeOK
<1>1. ASSUME NEW c \in Candidates, NEW m \in Models, Submit(c, m)
      PROVE  Recorded' /\ RecordingOver'
  BY <1>1 DEF Submit, Return, Recorded, RecordingOver
<1>2. CASE ParseCase
  BY <1>2 DEF ParseCase, Return, Recorded, RecordingOver
<1>3. CASE ParseDone
  BY <1>3 DEF ParseDone, Recorded, RecordingOver
<1>4. CASE RecordCase
  <2> DEFINE i == cases[Len(rec) + 1].input
  <2>1. PICK a, b \in Outcomes[i] :
          \/ ~Stable(a, b) /\ Return("flaky-case", "recorded") /\ UNCHANGED rec
          \/ /\ Stable(a, b) /\ rec' = Append(rec, [input |-> i, trace |-> a])
             /\ UNCHANGED <<stage, verdict>>
    BY <1>4 DEF RecordCase
  <2>2. CASE Return("flaky-case", "recorded") /\ UNCHANGED rec
    BY <1>4, <2>2 DEF RecordCase, Return, Recorded, RecordingOver
  <2>3. CASE /\ rec' = Append(rec, [input |-> i, trace |-> a])
             /\ UNCHANGED <<stage, verdict>>
    <3>1. rec \in Seq(Cases) /\ Len(rec) \in Nat
      BY LenProperties
    <3>2. Len(rec) + 1 \in 1..Len(cases)
      BY <1>4, <3>1, LenProperties DEF RecordCase
    <3>3. cases[Len(rec) + 1] \in RawCases
      BY <3>2, ElementOfSeq
    <3>4. [input |-> i, trace |-> a] \in Cases
      BY <3>3, DataAssumption DEF RawCases, Cases
    <3>5. /\ DOMAIN rec' = 1..(Len(rec) + 1)
          /\ \A k \in 1..Len(rec) : rec'[k] = rec[k]
          /\ rec'[Len(rec) + 1] = [input |-> i, trace |-> a]
      BY <2>3, <3>4, AppendProperties, LenProperties
    <3>6. UNCHANGED cases /\ DOMAIN rec = 1..Len(rec)
      BY <1>4, LenProperties DEF RecordCase
    <3>7. \A k \in 1..Len(rec) :
            /\ rec'[k].input = cases'[k].input
            /\ rec'[k].trace \in Outcomes[rec'[k].input]
      BY <3>5, <3>6 DEF Recorded
    <3>8. /\ rec'[Len(rec) + 1].input = cases'[Len(rec) + 1].input
          /\ rec'[Len(rec) + 1].trace \in Outcomes[rec'[Len(rec) + 1].input]
      BY <3>5, <3>6
    <3> QED
      BY <1>4, <2>3, <3>1, <3>5, <3>7, <3>8
      DEF RecordCase, Recorded, RecordingOver
  <2> QED
    BY <2>1, <2>2, <2>3
<1>5. CASE RecordDone
  BY <1>5 DEF RecordDone, Recorded, RecordingOver, InputsOf
<1>6. CASE DrawKnown
  BY <1>6 DEF DrawKnown, Wanting, Recorded, RecordingOver, InputsOf
<1>7. CASE DrawFresh
  <2>1. known \subseteq known' /\ UNCHANGED <<rec, cases, stage>> /\ stage = "draw"
    BY <1>7 DEF DrawFresh, Remember, Wanting
  <2> QED
    BY <2>1 DEF Recorded, RecordingOver, InputsOf
<1>8. CASE DrawDone \/ ReplayLine \/ JobEnds
  BY <1>8 DEF DrawDone, ReplayLine, JobEnds, JobExits, Recorded,
              RecordingOver, InputsOf
<1>9. CASE Judge
  <2>1. stage' \in {"done", "raised"}
    BY <1>9, JudgeEnds
  <2> QED
    BY <1>9, <2>1 DEF Judge, Recorded, RecordingOver
<1>10. CASE NextSubmission
  BY <1>10 DEF NextSubmission, Recorded, RecordingOver
<1>11. CASE UNCHANGED vars
  BY <1>11 DEF vars, Recorded, RecordingOver, InputsOf
<1> QED
  BY <1>1, <1>2, <1>3, <1>4, <1>5, <1>6, <1>7, <1>8, <1>9, <1>10, <1>11
  DEF Next, HostStep

\* An input enters known before it is recorded, so it is drawn only once.
LEMMA DrawnOnceStep ==
  ASSUME GateInv, [Next]_vars
  PROVE  DrawnOnce' /\ DrawingOver'
<1> USE DEF GateInv, TypeInv, Clean, TypeOK
<1>0. ASSUME hidden' = <<>>, discarded' = {}, stage' \notin {"replay", "judge"}
      PROVE  DrawnOnce' /\ DrawingOver'
  BY <1>0 DEF DrawnOnce, HiddenSuiteSound, InputsOf, DrawingOver
<1>f. ASSUME UNCHANGED <<hidden, rec, discarded, known>>
      PROVE  DrawnOnce'
  <2>1. InputsOf(hidden)' = InputsOf(hidden) /\ InputsOf(rec)' = InputsOf(rec)
    BY <1>f DEF InputsOf
  <2> QED
    BY <1>f, <2>1 DEF DrawnOnce, HiddenSuiteSound
<1>1. ASSUME NEW c \in Candidates, NEW m \in Models, Submit(c, m)
      PROVE  DrawnOnce' /\ DrawingOver'
  BY <1>0, <1>1 DEF Submit, Return
<1>2. CASE ParseCase \/ ParseDone
  BY <1>0, <1>2 DEF ParseCase, ParseDone, Return
<1>3. CASE RecordCase \/ RecordDone
  BY <1>0, <1>3 DEF RecordCase, RecordDone, Return
<1>4. CASE DrawKnown
  BY <1>4, <1>f DEF DrawKnown, Wanting, DrawingOver
<1>5. CASE DrawFresh
  <2>1. PICK i \in Stream \ known : \E a, b \in Outcomes[i] :
         /\ known' = Remember(i, Usable(a, b))
         /\ \/ /\ Usable(a, b)
               /\ hidden' = Append(hidden, [input |-> i, trace |-> a])
               /\ UNCHANGED discarded
            \/ /\ ~Usable(a, b)
               /\ discarded' = discarded \cup {i}
               /\ UNCHANGED hidden
    BY <1>5 DEF DrawFresh
  <2>2. PICK a, b \in Outcomes[i] :
         /\ known' = Remember(i, Usable(a, b))
         /\ \/ /\ Usable(a, b)
               /\ hidden' = Append(hidden, [input |-> i, trace |-> a])
               /\ UNCHANGED discarded
            \/ /\ ~Usable(a, b)
               /\ discarded' = discarded \cup {i}
               /\ UNCHANGED hidden
    BY <2>1
  <2>3. stage' = "draw" /\ UNCHANGED rec /\ InputsOf(rec) \subseteq known
    BY <1>5 DEF DrawFresh, Wanting, RecordingOver
  <2>4. DrawingOver'
    BY <2>3 DEF DrawingOver
  <2>5. known' = known \cup {i} /\ i \notin known
    BY <2>2 DEF Remember
  <2>6. CASE discarded' = discarded \cup {i} /\ UNCHANGED hidden
    <3>1. InputsOf(hidden)' = InputsOf(hidden) /\ InputsOf(rec)' = InputsOf(rec)
      BY <2>3, <2>6 DEF InputsOf
    <3> QED
      BY <2>4, <2>5, <2>6, <3>1 DEF DrawnOnce, HiddenSuiteSound
  <2>7. CASE /\ Usable(a, b) /\ UNCHANGED discarded
             /\ hidden' = Append(hidden, [input |-> i, trace |-> a])
    <3>1. [input |-> i, trace |-> a] \in Cases
      BY DataAssumption DEF Cases
    <3>2. /\ DOMAIN hidden' = 1..(Len(hidden) + 1)
          /\ DOMAIN hidden = 1..Len(hidden)
          /\ \A k \in 1..Len(hidden) : hidden'[k] = hidden[k]
          /\ hidden'[Len(hidden) + 1] = [input |-> i, trace |-> a]
          /\ Len(hidden) \in Nat
      BY <2>7, <3>1, AppendProperties, LenProperties
    <3>3. \A k \in DOMAIN hidden' :
            k \in DOMAIN hidden \/ k = Len(hidden) + 1
      BY <3>2
    <3>4. \A k \in DOMAIN hidden : hidden[k].input \in known
      BY DEF DrawnOnce, InputsOf
    <3>5. InputsOf(hidden)' = InputsOf(hidden) \cup {i}
      <4>1. \A k \in DOMAIN hidden' :
              hidden'[k].input \in InputsOf(hidden) \cup {i}
        <5>1. \A k \in DOMAIN hidden :
                hidden'[k] = hidden[k] /\ hidden[k].input \in InputsOf(hidden)
          BY <3>2 DEF InputsOf
        <5>2. hidden'[Len(hidden) + 1].input = i
          BY <3>2
        <5> QED
          BY <3>3, <5>1, <5>2
      <4>2. \A x \in InputsOf(hidden) \cup {i} :
              \E k \in DOMAIN hidden' : hidden'[k].input = x
        <5>1. \A x \in InputsOf(hidden) :
                \E k \in DOMAIN hidden : hidden[k].input = x
          BY DEF InputsOf
        <5>2. \A k \in DOMAIN hidden : k \in DOMAIN hidden' /\ hidden'[k] = hidden[k]
          BY <3>2
        <5>3. /\ Len(hidden) + 1 \in DOMAIN hidden'
              /\ hidden'[Len(hidden) + 1].input = i
          BY <3>2
        <5> QED
          BY <5>1, <5>2, <5>3
      <4>3. \A x : x \in InputsOf(hidden)' <=>
                    \E k \in DOMAIN hidden' : hidden'[k].input = x
        BY DEF InputsOf
      <4>4. \A x : x \in InputsOf(hidden)' <=> x \in InputsOf(hidden) \cup {i}
        BY <4>1, <4>2, <4>3
      <4> QED
        BY <4>4
    <3>6. \A j, k \in DOMAIN hidden' :
            hidden'[j].input = hidden'[k].input => j = k
      <4>1. \A j, k \in DOMAIN hidden :
              hidden'[j].input = hidden'[k].input => j = k
        BY <3>2 DEF DrawnOnce, HiddenSuiteSound
      <4>2. \A j \in DOMAIN hidden :
              hidden'[j].input # hidden'[Len(hidden) + 1].input
        BY <2>5, <3>2, <3>4
      <4> QED
        BY <3>3, <4>1, <4>2
    <3>7. \A k \in DOMAIN hidden' :
            /\ hidden'[k].trace \in Outcomes[hidden'[k].input]
            /\ hidden'[k].trace.io \notin Crashes
      <4>1. \A k \in DOMAIN hidden :
              /\ hidden'[k].trace \in Outcomes[hidden'[k].input]
              /\ hidden'[k].trace.io \notin Crashes
        BY <3>2 DEF DrawnOnce, HiddenSuiteSound
      <4>2. /\ a \in Outcomes[i] /\ a.io \notin Crashes
            /\ hidden'[Len(hidden) + 1].trace = a
            /\ hidden'[Len(hidden) + 1].input = i
        BY <2>7, <3>2 DEF Usable
      <4> QED
        BY <3>3, <4>1, <4>2
    <3>8. InputsOf(hidden)' \cap (InputsOf(rec)' \cup discarded') = {}
      <4>1. InputsOf(rec)' = InputsOf(rec)
        BY <2>3 DEF InputsOf
      <4> QED
        BY <2>3, <2>5, <2>7, <3>5, <4>1 DEF DrawnOnce, HiddenSuiteSound
    <3>9. InputsOf(hidden)' \subseteq known' /\ discarded' \subseteq known'
      BY <2>5, <2>7, <3>5 DEF DrawnOnce
    <3> QED
      BY <2>4, <3>6, <3>7, <3>8, <3>9 DEF DrawnOnce, HiddenSuiteSound
  <2> QED
    BY <2>2, <2>6, <2>7
<1>6. CASE DrawDone
  <2>1. attempts = DrawBudget \/ Len(hidden) = HIDDEN_N
    BY <1>6, LimitType DEF DrawDone, DrawsLeft
  <2> QED
    BY <1>6, <1>f, <2>1 DEF DrawDone, DrawingOver
<1>7. CASE ReplayLine \/ JobEnds
  BY <1>7, <1>f DEF ReplayLine, JobEnds, JobExits, DrawingOver
<1>8. CASE Judge
  <2>1. stage' \in {"done", "raised"}
    BY <1>8, JudgeEnds
  <2> QED
    BY <1>8, <1>f, <2>1 DEF Judge, DrawingOver
<1>9. CASE NextSubmission
  BY <1>0, <1>9 DEF NextSubmission
<1>10. CASE UNCHANGED vars
  BY <1>10, <1>f DEF vars, DrawingOver
<1> QED
  BY <1>1, <1>2, <1>3, <1>4, <1>5, <1>6, <1>7, <1>8, <1>9, <1>10
  DEF Next, HostStep

\* The suite is the nominated cases followed by the hidden ones.
LEMMA SuiteLayout ==
  ASSUME TypeOK
  PROVE  /\ Suite \in Seq(Cases)
         /\ Len(Suite) = Len(rec) + Len(hidden)
         /\ Len(rec) \in Nat /\ Len(hidden) \in Nat
         /\ \A k \in 1..Len(rec) : Suite[k] = rec[k]
         /\ \A k \in 1..Len(hidden) : Suite[Len(rec) + k] = hidden[k]
<1>1. rec \in Seq(Cases) /\ hidden \in Seq(Cases)
  BY DEF TypeOK
<1>2. Len(rec) \in Nat /\ Len(hidden) \in Nat
  BY <1>1, LenProperties
<1>3. /\ Suite \in Seq(Cases)
      /\ Len(Suite) = Len(rec) + Len(hidden)
      /\ \A k \in 1..(Len(rec) + Len(hidden)) :
           Suite[k] = IF k <= Len(rec) THEN rec[k] ELSE hidden[k - Len(rec)]
  BY <1>1, ConcatProperties DEF Suite
<1>4. \A k \in 1..Len(rec) : Suite[k] = rec[k]
  BY <1>2, <1>3
<1>5. ASSUME NEW k \in 1..Len(hidden)
      PROVE  Suite[Len(rec) + k] = hidden[k]
  <2>1. Len(rec) + k \in 1..(Len(rec) + Len(hidden))
    BY <1>2
  <2>2. ~(Len(rec) + k <= Len(rec)) /\ (Len(rec) + k) - Len(rec) = k
    BY <1>2
  <2> QED
    BY <1>3, <2>1, <2>2
<1> QED
  BY <1>2, <1>3, <1>4, <1>5

\* A faithful job prints outcomes of the suite's inputs, in suite order.
LEMMA ReplayedStep ==
  ASSUME GateInv, [Next]_vars
  PROVE  Replayed' /\ ReplayOver'
<1>0. TypeOK /\ TypeOK' /\ Clean /\ Replayed /\ ReplayOver
  BY NextTypeInv DEF GateInv, TypeInv
<1>a. ASSUME lines' = <<>>, exit' = "running"
      PROVE  Replayed' /\ ReplayOver'
  <2>1. Suite' \in Seq(Cases)
    BY <1>0, ConcatProperties DEF TypeOK, Suite
  <2>2. Len(Suite') \in Nat
    BY <2>1, LenProperties
  <2> QED
    BY <1>a, <2>2 DEF Replayed, ReplayOver
<1>b. ASSUME UNCHANGED <<rec, hidden>>
      PROVE  UNCHANGED Suite
  BY <1>b DEF Suite
<1>1. ASSUME NEW c \in Candidates, NEW m \in Models, Submit(c, m)
      PROVE  Replayed' /\ ReplayOver'
  BY <1>0, <1>1, <1>a DEF Submit, Clean, ReplayOver
<1>2. CASE ParseCase \/ ParseDone \/ RecordCase \/ RecordDone
  BY <1>0, <1>2, <1>a
  DEF ParseCase, ParseDone, RecordCase, RecordDone, Clean, ReplayOver
<1>3. CASE DrawKnown \/ DrawFresh \/ DrawDone
  BY <1>0, <1>3, <1>a DEF DrawKnown, DrawFresh, DrawDone, Wanting, Clean, ReplayOver
<1>4. CASE ReplayLine
  <2>1. UNCHANGED <<Suite, model, exit, stage>> /\ stage = "replay"
    BY <1>4, <1>b DEF ReplayLine
  <2>2. exit' = "running"
    BY <1>0, <2>1 DEF ReplayOver
  <2>3. CASE model = "faithful"
    <3>1. Len(lines) < Len(Suite)
      BY <1>4, <2>3 DEF ReplayLine
    <3>2. PICK t \in Outcomes[Suite[Len(lines) + 1].input] :
            lines' = Append(lines, t)
      BY <1>4, <2>3 DEF ReplayLine
    <3>3. lines \in Seq(Lines) /\ Len(lines) \in Nat
      BY <1>0, LenProperties DEF TypeOK
    <3>4. Suite \in Seq(Cases) /\ Len(Suite) \in Nat
      BY <1>0, SuiteLayout, LenProperties
    <3>5. Suite[Len(lines) + 1] \in Cases
      BY <3>1, <3>3, <3>4, ElementOfSeq
    <3>6. t \in Lines
      BY <3>2, <3>5, DataAssumption DEF Cases, Lines
    <3>7. /\ Len(lines') = Len(lines) + 1
          /\ DOMAIN lines' = 1..(Len(lines) + 1) /\ DOMAIN lines = 1..Len(lines)
          /\ \A k \in 1..Len(lines) : lines'[k] = lines[k]
          /\ lines'[Len(lines) + 1] = t
      BY <3>2, <3>3, <3>6, AppendProperties, LenProperties
    <3>8. \A k \in 1..Len(lines) : lines'[k] \in Outcomes[Suite[k].input]
      BY <1>0, <2>3, <3>7 DEF Replayed
    <3>9. \A k \in DOMAIN lines' : k \in 1..Len(lines) \/ k = Len(lines) + 1
      BY <3>3, <3>7
    <3>10. \A k \in DOMAIN lines' : lines'[k] \in Outcomes[Suite'[k].input]
      BY <2>1, <3>2, <3>7, <3>8, <3>9
    <3>11. Len(lines') <= Len(Suite')
      BY <2>1, <3>1, <3>3, <3>4, <3>7
    <3> QED
      BY <2>2, <3>10, <3>11 DEF Replayed, ReplayOver
  <2>4. CASE model # "faithful"
    BY <2>1, <2>2, <2>4 DEF Replayed, ReplayOver
  <2> QED
    BY <2>3, <2>4
<1>5. CASE JobEnds
  <2>1. UNCHANGED <<Suite, model, lines>> /\ stage' = "judge"
    BY <1>5, <1>b DEF JobEnds, JobExits
  <2>2. model = "faithful" /\ exit' = "exit0" => Len(lines) = Len(Suite)
    BY <1>5 DEF JobEnds, JobExits
  <2> QED
    BY <1>0, <2>1, <2>2 DEF Replayed, ReplayOver
<1>6. CASE Judge
  <2>1. UNCHANGED <<Suite, model, lines, exit>>
    BY <1>6, <1>b DEF Judge
  <2>2. stage' \in {"done", "raised"}
    BY <1>6, JudgeEnds
  <2> QED
    BY <1>0, <2>1, <2>2 DEF Replayed, ReplayOver
<1>7. CASE NextSubmission
  BY <1>7, <1>a DEF NextSubmission
<1>8. CASE UNCHANGED vars
  <2>1. UNCHANGED <<Suite, model, lines, exit, stage>>
    BY <1>8, <1>b DEF vars
  <2> QED
    BY <1>0, <2>1 DEF Replayed, ReplayOver
<1> QED
  BY <1>1, <1>2, <1>3, <1>4, <1>5, <1>6, <1>7, <1>8 DEF Next, HostStep

\* A job that is not refused printed one trace per case, so compare looks at
\* every case of the suite and at its own line.
LEMMA SoundClaims ==
  ASSUME TypeOK, Sound
  PROVE  /\ exit = "exit0"
         /\ Len(lines) = Len(rec) + Len(hidden)
         /\ RecordedAgree <=>
              \A k \in 1..Len(rec) : Divergence(rec[k].trace, lines[k]) = "none"
         /\ HiddenAgree <=>
              \A k \in 1..Len(hidden) :
                Divergence(hidden[k].trace, lines[Len(rec) + k]) = "none"
<1>1. exit = "exit0" /\ Len(lines) = Len(Suite)
  <2>1. ~ReplayFault(exit, lines, Len(Suite))
    BY DEF Sound, JobReason
  <2> QED
    BY <2>1 DEF ReplayFault
<1>2. /\ Len(lines) = Len(rec) + Len(hidden)
      /\ Len(rec) \in Nat /\ Len(hidden) \in Nat
  BY <1>1, SuiteLayout
<1>3. \A k \in 1..Len(lines) : lines[k] \in Lines
  BY ElementOfSeq DEF TypeOK
<1>4. RecordedAgree <=>
        \A k \in 1..Len(rec) : Divergence(rec[k].trace, lines[k]) = "none"
  <2>1. /\ Len(RecordedClaims) = Len(rec)
        /\ \A k \in 1..Len(rec) : RecordedClaims[k] = lines[k]
    <3>1. \A k \in 1..Len(rec) : lines[k] \in Lines
      BY <1>2, <1>3
    <3>2. /\ Len(RecordedClaims) = IF 1 <= Len(rec) THEN Len(rec) - 1 + 1 ELSE 0
          /\ \A k \in 1..(Len(rec) - 1 + 1) : RecordedClaims[k] = lines[1 + k - 1]
      BY <1>2, <3>1, SubSeqProperties DEF RecordedClaims
    <3> QED
      BY <1>2, <3>2
  <2>2. Least(Len(rec), Len(RecordedClaims)) = Len(rec)
    BY <1>2, <2>1 DEF Least
  <2> QED
    BY <2>1, <2>2 DEF RecordedAgree, Diverging
<1>5. HiddenAgree <=>
        \A k \in 1..Len(hidden) :
          Divergence(hidden[k].trace, lines[Len(rec) + k]) = "none"
  <2> DEFINE m == Len(rec) + 1
             n == Len(lines)
  <2>1. \A k \in m..n : lines[k] \in Lines
    BY <1>2, <1>3
  <2>2. /\ Len(HiddenClaims) = IF m <= n THEN n - m + 1 ELSE 0
        /\ \A k \in 1..(n - m + 1) : HiddenClaims[k] = lines[m + k - 1]
    BY <1>2, <2>1, SubSeqProperties DEF HiddenClaims
  <2>3. /\ Len(HiddenClaims) = Len(hidden)
        /\ \A k \in 1..Len(hidden) : HiddenClaims[k] = lines[Len(rec) + k]
    <3>1. n - m + 1 = Len(hidden)
      BY <1>2
    <3>2. \A k \in 1..Len(hidden) : m + k - 1 = Len(rec) + k
      BY <1>2
    <3> QED
      BY <1>2, <2>2, <3>1, <3>2
  <2>4. Least(Len(hidden), Len(HiddenClaims)) = Len(hidden)
    BY <1>2, <2>3 DEF Least
  <2> QED
    BY <2>3, <2>4 DEF HiddenAgree, Diverging
<1> QED
  BY <1>1, <1>2, <1>4, <1>5

\* A faithful job that ends is never refused, and on steady inputs its lines
\* agree with every truth.
LEMMA FaithfulAgrees ==
  ASSUME GateInv, stage = "judge", model = "faithful", exit = "exit0",
         \A k \in DOMAIN Suite : Steady(Suite[k].input)
  PROVE  Sound /\ RecordedAgree /\ HiddenAgree
<1>1. /\ TypeOK /\ Recorded /\ Replayed
      /\ Len(lines) = Len(Suite)
      /\ \A k \in DOMAIN hidden : hidden[k].trace \in Outcomes[hidden[k].input]
  BY DEF GateInv, TypeInv, ReplayOver, DrawnOnce, HiddenSuiteSound
<1>2. /\ DOMAIN Suite = 1..Len(Suite) /\ DOMAIN lines = 1..Len(lines)
      /\ DOMAIN rec = 1..Len(rec) /\ DOMAIN hidden = 1..Len(hidden)
      /\ lines \in Seq(Lines)
  BY <1>1, SuiteLayout, LenProperties DEF TypeOK
<1>3. \A k \in 1..Len(Suite) :
        lines[k] \in Outcomes[Suite[k].input] /\ Suite[k] \in Cases
  BY <1>1, <1>2, SuiteLayout, ElementOfSeq DEF Replayed
<1>4. \A k \in 1..Len(Suite) : lines[k] \in Traces
  BY <1>3, DataAssumption DEF Cases
<1>5. Sound
  <2>1. ~CompileReport(exit, lines)
    <3>1. SUFFICES ASSUME CompileReport(exit, lines) PROVE FALSE
      OBVIOUS
    <3>2. lines # <<>> /\ lines[1] = CompileLine
      BY <3>1 DEF CompileReport
    <3>3. 1 \in 1..Len(lines)
      BY <1>2, <3>2, EmptySeq
    <3> QED
      BY <1>1, <1>4, <3>2, <3>3, MarkerAssumption
  <2>2. ~ReplayFault(exit, lines, Len(Suite))
    BY <1>1, <1>2, <1>4 DEF ReplayFault
  <2> QED
    BY <2>1, <2>2 DEF Sound, JobReason
<1>6. \A k \in 1..Len(rec) : Divergence(rec[k].trace, lines[k]) = "none"
  <2> SUFFICES ASSUME NEW k \in 1..Len(rec)
               PROVE  Divergence(rec[k].trace, lines[k]) = "none"
    OBVIOUS
  <2>1. k \in 1..Len(Suite) /\ Suite[k] = rec[k]
    BY <1>1, SuiteLayout
  <2>2. /\ rec[k].trace \in Outcomes[rec[k].input]
        /\ lines[k] \in Outcomes[rec[k].input]
    BY <1>1, <1>2, <1>3, <2>1 DEF Recorded
  <2> QED
    BY <1>2, <2>1, <2>2 DEF Steady
<1>7. \A k \in 1..Len(hidden) :
        Divergence(hidden[k].trace, lines[Len(rec) + k]) = "none"
  <2> SUFFICES ASSUME NEW k \in 1..Len(hidden)
               PROVE  Divergence(hidden[k].trace, lines[Len(rec) + k]) = "none"
    OBVIOUS
  <2>1. Len(rec) + k \in 1..Len(Suite) /\ Suite[Len(rec) + k] = hidden[k]
    BY <1>1, SuiteLayout
  <2>2. /\ hidden[k].trace \in Outcomes[hidden[k].input]
        /\ lines[Len(rec) + k] \in Outcomes[hidden[k].input]
    BY <1>1, <1>2, <1>3, <2>1
  <2> QED
    BY <1>2, <2>1, <2>2 DEF Steady
<1> QED
  BY <1>1, <1>5, <1>6, <1>7, SoundClaims

\* What the verdict says is true of the suite and of the job's lines.
LEMMA JudgedStep ==
  ASSUME GateInv, [Next]_vars
  PROVE  Judged'
<1>0. TypeOK /\ Clean /\ ReplayOver /\ Recorded /\ RecordingOver /\ DrawingOver
  BY DEF GateInv, TypeInv
<1>a. ASSUME verdict'.reason \notin {"accepted", "hidden-starvation"},
             exit' # "exit0" \/ stage' \notin {"done", "raised"}
      PROVE  Judged'
  BY <1>a DEF Judged, AcceptIsEarned, StarvationIsSpent, FaithfulNeverBlamed
<1>1. ASSUME NEW c \in Candidates, NEW m \in Models, Submit(c, m)
      PROVE  Judged'
  BY <1>0, <1>1, <1>a DEF Submit, Return, Clean, NoVerdict, ReplayOver
<1>2. CASE ParseCase \/ ParseDone \/ RecordCase \/ RecordDone
  <2>1. exit' = "running"
    BY <1>0, <1>2
    DEF ParseCase, ParseDone, RecordCase, RecordDone, ReplayOver
  <2>2. CASE ParseCase
    BY <1>0, <1>a, <2>1, <2>2 DEF ParseCase, Return, Clean, NoVerdict
  <2>3. CASE ParseDone \/ RecordDone
    BY <1>0, <1>a, <2>1, <2>3 DEF ParseDone, RecordDone, Clean, NoVerdict
  <2>4. CASE RecordCase
    BY <1>0, <1>a, <2>1, <2>4 DEF RecordCase, Return, Clean, NoVerdict
  <2> QED
    BY <1>2, <2>2, <2>3, <2>4
<1>3. CASE DrawKnown \/ DrawFresh \/ DrawDone \/ ReplayLine \/ JobEnds
  BY <1>0, <1>3, <1>a DEF DrawKnown, DrawFresh, DrawDone, Wanting, ReplayLine,
                          JobEnds, JobExits, Clean, NoVerdict, ReplayOver
<1>4. CASE NextSubmission
  BY <1>4, <1>a DEF NextSubmission, NoVerdict
<1>5. CASE UNCHANGED vars
  <2>1. UNCHANGED <<stage, model, cases, rec, hidden, attempts, lines, exit,
                    verdict, Suite>>
    BY <1>5 DEF vars, Suite
  <2>2. AcceptIsEarned' /\ StarvationIsSpent'
    BY <2>1 DEF GateInv, Judged, AcceptIsEarned, StarvationIsSpent
  <2>3. FaithfulNeverBlamed'
    BY <2>1 DEF GateInv, Judged, FaithfulNeverBlamed
  <2> QED
    BY <2>2, <2>3 DEF Judged
<1>6. CASE Judge
  <2>1. /\ UNCHANGED <<model, cases, rec, hidden, attempts, lines, exit, Suite>>
        /\ stage = "judge"
    BY <1>6 DEF Judge, Suite, RejectJob, RejectRecorded, RejectStarved,
                RejectHidden, Accept, Sound
  <2>0. verdict.reason = "none"
    BY <1>0, <2>1 DEF Clean, NoVerdict
  <2>2. /\ Len(rec) = Len(cases) /\ Len(hidden) <= HIDDEN_N
        /\ Len(hidden) = HIDDEN_N \/ attempts = DrawBudget
        /\ Len(hidden) \in Nat /\ HIDDEN_N \in Nat
    BY <1>0, <2>1, SuiteLayout, BoundsAssumption
    DEF RecordingOver, DrawingOver, TypeOK
  <2>3. /\ DOMAIN cases = 1..Len(cases) /\ DOMAIN rec = 1..Len(rec)
        /\ DOMAIN hidden = 1..Len(hidden)
    BY <1>0, LenProperties DEF TypeOK
  <2>4. verdict'.reason = "accepted" => Accept
    <3>1. \A t, g : Divergence(t, g) # "accepted"
      BY DEF Divergence
    <3>2. JobReason(exit, lines, Len(Suite)) # "accepted"
      BY DEF JobReason
    <3> QED
      BY <1>6, <2>0, <3>1, <3>2
      DEF Judge, RejectJob, RejectRecorded, RejectStarved, RejectHidden, compare,
          Reject, Return, Raise
  <2>5. verdict'.reason = "hidden-starvation" => RejectStarved
    <3>1. \A t, g : Divergence(t, g) # "hidden-starvation"
      BY DEF Divergence
    <3>2. JobReason(exit, lines, Len(Suite)) # "hidden-starvation"
      BY DEF JobReason
    <3> QED
      BY <1>6, <2>0, <3>1, <3>2
      DEF Judge, RejectJob, RejectRecorded, RejectHidden, Accept, compare,
          Reject, Return, Raise
  <2>6. AcceptIsEarned'
    <3>1. SUFFICES ASSUME Accept
                   PROVE  /\ Len(hidden) = HIDDEN_N
                          /\ Len(rec) = Len(cases)
                          /\ \A k \in DOMAIN cases : rec[k].input = cases[k].input
                          /\ Len(lines) = Len(rec) + Len(hidden)
                          /\ \A k \in DOMAIN rec :
                               Divergence(rec[k].trace, lines[k]) = "none"
                          /\ \A k \in DOMAIN hidden :
                               Divergence(hidden[k].trace, lines[Len(rec) + k]) = "none"
      BY <2>1, <2>4 DEF AcceptIsEarned
    <3>2. Sound /\ RecordedAgree /\ HiddenAgree /\ Len(hidden) = HIDDEN_N
      BY <2>2, <3>1 DEF Accept, Starved
    <3>3. \A k \in DOMAIN cases : rec[k].input = cases[k].input
      BY <1>0, <2>2, <2>3 DEF Recorded
    <3> QED
      BY <1>0, <2>2, <2>3, <3>2, <3>3, SoundClaims
  <2>7. StarvationIsSpent'
    <3>1. SUFFICES ASSUME RejectStarved
                   PROVE  /\ Len(hidden) < HIDDEN_N /\ attempts = DrawBudget
                          /\ \A k \in DOMAIN rec :
                               Divergence(rec[k].trace, lines[k]) = "none"
      BY <2>1, <2>5 DEF StarvationIsSpent
    <3>2. Sound /\ RecordedAgree /\ Len(hidden) < HIDDEN_N
      BY <3>1 DEF RejectStarved, Starved
    <3>3. attempts = DrawBudget
      BY <2>2, <3>2
    <3>4. \A k \in 1..Len(rec) : Divergence(rec[k].trace, lines[k]) = "none"
      BY <1>0, <3>2, SoundClaims
    <3> QED
      BY <2>3, <3>2, <3>3, <3>4
  <2>8. FaithfulNeverBlamed'
    <3>1. SUFFICES ASSUME model = "faithful", exit = "exit0",
                          \A k \in DOMAIN Suite : Steady(Suite[k].input)
                   PROVE  verdict'.reason \in {"accepted", "hidden-starvation"}
      BY <2>1 DEF FaithfulNeverBlamed
    <3>2. Sound /\ RecordedAgree /\ HiddenAgree
      BY <2>1, <3>1, FaithfulAgrees
    <3>3. ~RejectJob /\ ~RejectRecorded /\ ~RejectHidden
      BY <3>2 DEF RejectJob, RejectRecorded, RejectHidden, compare, Sound,
                  RecordedAgree, HiddenAgree
    <3> QED
      BY <1>6, <3>3 DEF Judge, RejectStarved, Accept, Return
  <2> QED
    BY <2>6, <2>7, <2>8 DEF Judged
<1> QED
  BY <1>1, <1>2, <1>3, <1>4, <1>5, <1>6 DEF Next, HostStep

\* check starts with every part of the invariant true of nothing.
LEMMA InitGateInv == Init => GateInv
<1> SUFFICES ASSUME Init PROVE GateInv
  OBVIOUS
<1>1. TypeInv
  BY InitTypeInv
<1>2. Recorded /\ RecordingOver /\ DrawnOnce /\ DrawingOver
  BY DEF Init, Recorded, RecordingOver, DrawnOnce, DrawingOver,
         HiddenSuiteSound, InputsOf
<1>3. Replayed /\ ReplayOver /\ Judged
  BY DEF Init, NoVerdict, Replayed, ReplayOver, Judged, AcceptIsEarned,
         StarvationIsSpent, FaithfulNeverBlamed
<1> QED
  BY <1>1, <1>2, <1>3 DEF GateInv

\* GateInv is inductive.
LEMMA NextGateInv == GateInv /\ [Next]_vars => GateInv'
<1> SUFFICES ASSUME GateInv, [Next]_vars PROVE GateInv'
  OBVIOUS
<1>1. TypeInv'
  BY NextTypeInv DEF GateInv
<1> QED
  BY <1>1, RecordedStep, DrawnOnceStep, ReplayedStep, JudgedStep DEF GateInv

\* The inductive invariant holds in every reachable state.
THEOREM GateInvariant == Spec => []GateInv
BY InitGateInv, NextGateInv, PTL DEF Spec

\* No job output buys a PASSED verdict: it is given only when every nominated
\* and exactly HIDDEN_N hidden cases were compared, each with its own line.
THEOREM AcceptanceEarned == Spec => []AcceptIsEarned
<1>1. GateInv => AcceptIsEarned
  BY DEF GateInv, Judged
<1> QED
  BY <1>1, GateInvariant, PTL

\* The hidden suite is fresh and usable whatever the draws and recordings.
THEOREM HiddenSuiteIsSound == Spec => []HiddenSuiteSound
<1>1. GateInv => HiddenSuiteSound
  BY DEF GateInv, DrawnOnce
<1> QED
  BY <1>1, GateInvariant, PTL

\* A faithful model is never rejected for what the original does steadily.
THEOREM FaithfulSafe == Spec => []FaithfulNeverBlamed
<1>1. GateInv => FaithfulNeverBlamed
  BY DEF GateInv, Judged
<1> QED
  BY <1>1, GateInvariant, PTL

\* Starvation is a verdict about the draw, after the whole draw.
THEOREM StarvationSpent == Spec => []StarvationIsSpent
<1>1. GateInv => StarvationIsSpent
  BY DEF GateInv, Judged
<1> QED
  BY <1>1, GateInvariant, PTL
=============================================================================
