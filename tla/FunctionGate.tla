----------------------------- MODULE FunctionGate -----------------------------
(***************************************************************************)
(* The function-fuzz check: FunctionFuzz.check and validate_function judge *)
(* a candidate model of ONE function against the original machine code.    *)
(*                                                                         *)
(* The agent declares the parameters, so the declaration itself is under   *)
(* judgement: floors refuse a round that would compare nothing, or only    *)
(* what the original survives by luck.  Scout cases, read from the         *)
(* original's own immediates, join the round but never speak for the       *)
(* declaration.  The job's answer is untrusted, as in ProgramGate.         *)
(*                                                                         *)
(* A case input is a Point; a declaration is a record [args, ret, memory,  *)
(* space] whose space is the set of points gen_inputs may draw from it.    *)
(***************************************************************************)
EXTENDS Naturals, Sequences, Candidate

CONSTANTS
  Points,           \* case inputs
  Unpackable,       \* those with a buffer cell no i32 holds
  Values,           \* results of a call: records [ret, mem]
  Timeout, MemFault,\* the original's two ways not to return
  Outcomes,         \* Outcomes[p]: what calling the original on p may give
  Specs,            \* declarations _params accepts
  BadSpec,          \* one it refuses
  ScoutPools,       \* what scout_inputs may yield
  Claims,           \* entries an unfaithful job may put in its result list
  CrashReport,      \* an entry that says crash
  N_FUZZ,           \* cases per round
  SCOUT_SLICE_MAX,  \* most scouts per round
  MAX_ARGS          \* register-passed arguments

Truths == Values \cup {Timeout, MemFault}

ASSUME BoundsAssumption ==
  N_FUZZ \in Nat /\ SCOUT_SLICE_MAX \in Nat /\ MAX_ARGS \in Nat
ASSUME OriginalAssumption ==
  /\ Outcomes \in [Points -> SUBSET Truths]
  /\ \A p \in Points : Outcomes[p] # {}
  /\ \A p \in Points : \A v, w \in Outcomes[p] \cap Values : v = w
ASSUME SpecAssumption ==
  /\ Specs \subseteq [args : Nat, ret : {"i32", "void"}, memory : BOOLEAN,
                      space : (SUBSET Points) \ {{}}]
  /\ \A s \in Specs : s.args = 0 => s.ret = "i32"  \* "ret" is carried on params[0]
  /\ \A s \in Specs : s.space \cap Unpackable = {}  \* _params: ranges are i32s
  /\ BadSpec \notin Specs
  /\ ScoutPools \subseteq Seq(Points)
  /\ {Timeout, MemFault, CrashReport} \cap Values = {}

VARIABLES
  stage,    \* where the check is
  spec,     \* the declaration under judgement
  model,    \* does model.c reimplement the function?  (never read by the host)
  cases,    \* the round: points, and who asked for them
  wants,    \* the original's outcomes, case by case
  kept,     \* positions of the cases the original survived, in order
  answer,   \* how the job ended
  results,  \* the result list in its answer
  verdict   \* what check returned, and how many cases it compared

vars == <<stage, spec, model, cases, wants, kept, answer, results, verdict>>

NoVerdict == [reason |-> "none", compared |-> 0]

Init ==
  /\ stage = "idle" /\ spec = BadSpec /\ model = "none"
  /\ cases = <<>> /\ wants = <<>> /\ kept = <<>>
  /\ answer = "none" /\ results = <<>> /\ verdict = NoVerdict

Return(reason, compared) ==
  /\ stage' = "done"
  /\ verdict' = [reason |-> reason, compared |-> compared]

-----------------------------------------------------------------------------
(* The candidate and its declaration.                                      *)

\* _params: what it refuses is one value, BadSpec.
ParamsFault(s) == s = BadSpec

CandidateFault(c, s) ==
  \/ Malformed(c)
  \/ ~({"model.c", "params.json"} \subseteq Names(c))
  \/ "cases.json" \in Names(c)
  \/ ~c.utf8
  \/ ParamsFault(s)

\* A void function without a memory parameter compares nothing.  memory says
\* that a buffer or string is declared, not that it ever holds a cell: one
\* sized by a parameter that is never positive counts as a channel here.
MutNoVoidFloor(s) == "none"
SpecReason(s) ==
  IF s.args > MAX_ARGS THEN "arity"
  ELSE IF s.args > 0 /\ s.ret = "void" /\ ~s.memory THEN "spec-void"
  ELSE "none"

Submit(c, s, m) ==
  /\ stage = "idle"
  /\ model' = m
  /\ \/ /\ CandidateFault(c, s)
        /\ Return("candidate", 0) /\ UNCHANGED spec
     \/ /\ ~CandidateFault(c, s) /\ SpecReason(s) # "none"
        /\ Return(SpecReason(s), 0) /\ UNCHANGED spec
     \/ /\ ~CandidateFault(c, s) /\ SpecReason(s) = "none"
        /\ spec' = s /\ stage' = "draw" /\ UNCHANGED verdict
  /\ UNCHANGED <<cases, wants, kept, answer, results>>

-----------------------------------------------------------------------------
(* The round: declared draws, scouts over the first of them, ground truth. *)

Least(m, n) == IF m <= n THEN m ELSE n
ScoutCount(pool) == Least(Least(SCOUT_SLICE_MAX, N_FUZZ \div 4), Len(pool))

\* gen_inputs, and scout_inputs over the immediates of the original's code: a
\* function without parameters has nothing to put an immediate into.
Draws(s) == [1..N_FUZZ -> s.space]
Scouts(s) == IF s.args = 0 THEN {<<>>} ELSE ScoutPools

\* Scouts take the FIRST positions of the round.
Merged(draws, pool) ==
  LET k == ScoutCount(pool) IN
    [i \in 1..N_FUZZ |-> IF i <= k THEN [point |-> pool[i], by |-> "scout"]
                         ELSE [point |-> draws[i], by |-> "declared"]]

Draw ==
  /\ stage = "draw"
  /\ \E draws \in Draws(spec), pool \in Scouts(spec) :
       cases' = Merged(draws, pool)
  /\ stage' = "call"
  /\ UNCHANGED <<spec, model, wants, kept, answer, results, verdict>>

MutKeepsLastFirst(i, w) == IF w \in Values THEN <<i>> \o kept ELSE kept
Keep(i, w) == IF w \in Values THEN Append(kept, i) ELSE kept

\* A scout puts an immediate into a buffer as the unsigned number it reads,
\* and _marshal raises on one above an i32; nothing up to the caller of check
\* catches it, so that check has no verdict.
CallOriginal ==
  /\ stage = "call" /\ Len(wants) < Len(cases)
  /\ LET i == Len(wants) + 1
         x == cases[i].point
     IN \/ /\ x \in Unpackable
           /\ stage' = "raised" /\ UNCHANGED <<wants, kept>>
        \/ /\ x \notin Unpackable
           /\ \E w \in Outcomes[x] :
                wants' = Append(wants, w) /\ kept' = Keep(i, w)
           /\ UNCHANGED stage
  /\ UNCHANGED <<spec, model, cases, answer, results, verdict>>

\* The floors, as functions of the original's outcomes ws on the round.
Survivors(ws) == {i \in DOMAIN ws : ws[i] \in Values}
MutAnyoneDeclared(i) == TRUE
Declared(i) == cases[i].by = "declared"
DeclaredFault(ws) == \E i \in DOMAIN ws : Declared(i) /\ ws[i] = MemFault
Varied(ws) ==
  \E i, j \in Survivors(ws) :
    Declared(i) /\ Declared(j) /\ cases[i].point # cases[j].point

FloorReason(ws) ==
  IF Survivors(ws) = {} THEN "skip-starvation"
  ELSE IF DeclaredFault(ws) THEN "spec-fault"
  ELSE IF ~Varied(ws) THEN "spec-variation"
  ELSE "none"

Floors ==
  /\ stage = "call" /\ Len(wants) = Len(cases)
  /\ \/ FloorReason(wants) # "none" /\ Return(FloorReason(wants), 0)
     \/ FloorReason(wants) = "none" /\ stage' = "job" /\ UNCHANGED verdict
  /\ UNCHANGED <<spec, model, cases, wants, kept, answer, results>>

-----------------------------------------------------------------------------
(* The worker job.  "stage" is a refusal to compile, load or find the       *)
(* function; "failed" is no usable output at all.                           *)

SameMem(w, g) == w.mem = g.mem
MutVoidComparesRet(w, g) == w.ret = g.ret
SameRet(w, g) == spec.ret = "void" \/ w.ret = g.ret

WorkerReports ==
  /\ stage = "job"
  /\ \/ /\ model = "faithful" /\ Len(results) < Len(kept)
        /\ \E g \in Values :
             /\ LET w == wants[kept[Len(results) + 1]] IN
                  g.mem = w.mem /\ (spec.ret = "void" \/ g.ret = w.ret)
             /\ results' = Append(results, g)
     \/ /\ model = "forged" /\ Len(results) <= Len(kept)  \* one entry too many
        /\ \E g \in Claims : results' = Append(results, g)
  /\ UNCHANGED <<stage, spec, model, cases, wants, kept, answer, verdict>>

JobEnds(a) ==
  /\ stage = "job"
  /\ model = "faithful" => a = "failed" \/ (a = "listed" /\ Len(results) = Len(kept))
  /\ answer' = a
  /\ stage' = "judge"
  /\ UNCHANGED <<spec, model, cases, wants, kept, results, verdict>>

\* What _claim and validate_function take for a round's results: an entry
\* per surviving case, or fewer and a crash to end on.
MutShortListPasses(rs, n) ==
  /\ Len(rs) \in 1..n
  /\ \A j \in DOMAIN rs : rs[j] \in Values \/ (j = Len(rs) /\ rs[j] = CrashReport)
WellShaped(rs, n) ==
  /\ Len(rs) \in 1..n
  /\ \A j \in DOMAIN rs : rs[j] \in Values \/ (j = Len(rs) /\ rs[j] = CrashReport)
  /\ Len(rs) < n => rs[Len(rs)] = CrashReport

JobReason ==
  IF answer = "failed" THEN "worker"
  ELSE IF answer = "stage" THEN "stage"
  ELSE IF ~WellShaped(results, Len(kept)) THEN "worker"
  ELSE "none"

Mismatch(w, g) ==
  IF g = CrashReport THEN "crash"
  ELSE IF ~SameMem(w, g) THEN "mem"
  ELSE IF ~SameRet(w, g) THEN "ret"
  ELSE "none"
Mismatches ==
  {j \in 1..Least(Len(kept), Len(results)) :
     Mismatch(wants[kept[j]], results[j]) # "none"}

Judge ==
  /\ stage = "judge"
  /\ \/ JobReason # "none" /\ Return(JobReason, 0)
     \/ /\ JobReason = "none"
        /\ \E j \in Mismatches :
             /\ \A k \in Mismatches : j <= k
             /\ Return(Mismatch(wants[kept[j]], results[j]), j)
     \/ /\ JobReason = "none" /\ Mismatches = {}
        /\ Return("accepted", Least(Len(kept), Len(results)))
  /\ UNCHANGED <<spec, model, cases, wants, kept, answer, results>>

\* The check keeps nothing between calls.
NextSubmission ==
  /\ stage \in {"done", "raised"}
  /\ stage' = "idle" /\ spec' = BadSpec /\ model' = "none"
  /\ cases' = <<>> /\ wants' = <<>> /\ kept' = <<>>
  /\ answer' = "none" /\ results' = <<>> /\ verdict' = NoVerdict

Next ==
  \/ \E c \in Candidates, s \in Specs \cup {BadSpec}, m \in {"faithful", "forged"} :
       Submit(c, s, m)
  \/ Draw \/ CallOriginal \/ Floors \/ WorkerReports
  \/ \E a \in {"listed", "stage", "failed"} : JobEnds(a)
  \/ Judge \/ NextSubmission

Spec == Init /\ [][Next]_vars

-----------------------------------------------------------------------------
(* Properties.                                                             *)

Reasons ==
  {"none", "candidate", "arity", "spec-void", "spec-fault", "spec-variation",
   "skip-starvation", "worker", "stage", "crash", "mem", "ret", "accepted"}

\* Every variable has its type; the kept positions are in round order.
TypeOK ==
  /\ stage \in {"idle", "draw", "call", "job", "judge", "done", "raised"}
  /\ spec \in Specs \cup {BadSpec}
  /\ model \in {"none", "faithful", "forged"}
  /\ cases = <<>> \/ cases \in [1..N_FUZZ -> [point : Points, by : {"scout", "declared"}]]
  /\ wants \in Seq(Truths) /\ Len(wants) <= Len(cases)
  /\ kept \in Seq(1..N_FUZZ)
  /\ \A j, k \in DOMAIN kept : j < k => kept[j] < kept[k]
  /\ answer \in {"none", "listed", "stage", "failed"}
  /\ results \in Seq(Values \cup Claims)
  /\ verdict \in [reason : Reasons, compared : 0..N_FUZZ]

\* A PASSED verdict compared EVERY case the original survived, and each of
\* them agreed: memory always, the return value unless the function is void.
AcceptIsEarned ==
  verdict.reason = "accepted" =>
    /\ verdict.compared = Len(kept) /\ Len(results) = Len(kept)
    /\ {kept[j] : j \in DOMAIN kept} = {i \in DOMAIN cases : wants[i] \in Values}
    /\ \A j \in DOMAIN kept :
         LET w == wants[kept[j]] IN
           /\ results[j] \in Values /\ results[j].mem = w.mem
           /\ spec.ret = "i32" => results[j].ret = w.ret

\* Never vacuously: an accepted round compared the function on two different
\* points of its own declaration, no declared point drove the original into
\* invalid memory, and there was a channel to compare, in the code's sense of
\* one: a declared buffer counts also where its length leaves it empty.
RoundNotVacuous ==
  verdict.reason = "accepted" =>
    /\ \E i, j \in DOMAIN cases :
         /\ cases[i].by = "declared" /\ cases[j].by = "declared"
         /\ {cases[i].point, cases[j].point} \subseteq spec.space
         /\ cases[i].point # cases[j].point
         /\ {wants[i], wants[j]} \subseteq Values
    /\ \A i \in DOMAIN cases :
         cases[i].by = "declared" => wants[i] # MemFault
    /\ spec.ret = "i32" \/ spec.memory

\* Scouts never speak for the declaration: whether a round passes the floors
\* does not depend on what the original did on the scout cases.  (A scout that
\* cannot be packed ends the check before the floors.)
ScoutsDecideNothing ==
  stage = "call" /\ Len(wants) = Len(cases) =>
    \A w \in Truths :
      LET other == [i \in DOMAIN wants |->
                      IF cases[i].by = "declared" THEN wants[i] ELSE w]
      IN (FloorReason(other) = "none") <=> (FloorReason(wants) = "none")

\* A faithful model whose job delivered its results is accepted.
FaithfulNeverBlamed ==
  stage = "done" /\ model = "faithful" /\ answer = "listed" =>
    verdict.reason = "accepted"
=============================================================================
