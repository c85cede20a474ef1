-------------------------- MODULE NativeWorkerProofs --------------------------
(***************************************************************************)
(* Proofs about NativeWorker, for every number of cases and every size of  *)
(* pipe: a report is its child's fate or what its child's pipe held, and   *)
(* the round implements WorkerContract, whatever the model's code and its  *)
(* helpers do and write.                                                   *)
(***************************************************************************)
EXTENDS NativeWorker, TLAPS, SequenceTheorems

\* A case is only under way while there is one to run and nothing crashed.
CaseUnderWay ==
  pc \in {"poll", "clock", "read"} =>
    /\ Len(results) < N
    /\ \A k \in DOMAIN results : results[k] \notin Crash

\* Before the first case there is no report.
NothingYet == pc \in {"compile", "load"} => results = <<>>

\* Only the last report can be a crash.
CrashIsLast ==
  \A k \in DOMAIN results : results[k] \in Crash => k = Len(results)

\* The pipe is read once waitpid has told how its own child ended.
ReadAfterReap == pc = "read" => status \in Gone /\ child = status

RoundInv ==
  /\ TypeOK
  /\ NothingYet
  /\ CaseUnderWay
  /\ CrashIsLast
  /\ ReadAfterReap
  /\ ReportIsTrue

-----------------------------------------------------------------------------

\* What a report added to a list without crashes does to it.
LEMMA ReportAdded ==
  ASSUME NEW s \in Seq(Reports), NEW r \in Reports,
         \A k \in DOMAIN s : s[k] \notin Crash
  PROVE  /\ Append(s, r) \in Seq(Reports)
         /\ Len(Append(s, r)) = Len(s) + 1
         /\ Append(s, r) # <<>>
         /\ Append(s, r)[Len(s) + 1] = r
         /\ \A k \in DOMAIN Append(s, r) :
              Append(s, r)[k] \in Crash => k = Len(s) + 1
<1>1. /\ Append(s, r) \in Seq(Reports)
      /\ Len(Append(s, r)) = Len(s) + 1
      /\ Append(s, r)[Len(s) + 1] = r
      /\ \A k \in 1..Len(s) : Append(s, r)[k] = s[k]
      /\ DOMAIN s = 1..Len(s) /\ Len(s) \in Nat
      /\ DOMAIN Append(s, r) = 1..(Len(s) + 1)
  BY AppendProperties, LenProperties
<1>2. Append(s, r) # <<>>
  BY <1>1
<1>3. ASSUME NEW k \in DOMAIN Append(s, r), k # Len(s) + 1
      PROVE  Append(s, r)[k] \notin Crash
  BY <1>1, <1>3
<1>. QED  BY <1>1, <1>2, <1>3

LEMMA PipeGrows ==
  ASSUME NEW p \in Seq(Writes), NEW w \in Writes, Len(p) < MAX_WRITES
  PROVE  Append(p, w) \in Seq(Writes) /\ Len(Append(p, w)) <= MAX_WRITES
BY AppendProperties, LenProperties, RoundAssumption

LEMMA InitRound == Init => RoundInv
BY RoundAssumption
   DEF Init, RoundInv, TypeOK, NothingYet, CaseUnderWay, CrashIsLast,
       ReadAfterReap, ReportIsTrue, Reports, Crash, Writes

\* What ReportIsTrue says of report r of a child that went the way c.
Worth(r, c) ==
  /\ c = "dead" => r = "signal" \/ (r = "timeout" /\ clock = "late")
  /\ c = "exited" =>
       \/ r = "timeout" /\ clock = "late"
       \/ r \in Texts(pipe)
       \/ r = "error" /\ "junk" \in Texts(pipe)
  /\ c = "exited" /\ pipe = <<"value">> =>
       r = "value" \/ (r = "timeout" /\ clock = "late")

\* What an exited child's pipe reads as is a text of the alphabet, and the
\* parent makes a report of it unless it is a scalar.
LEMMA ParsedType ==
  ASSUME TypeOK, NEW t \in Parsed
  PROVE  t \in Reports \cup {"scalar"}
<1>1. Texts(pipe) \subseteq Writes
  <2>1. CASE Len(pipe) = 1
    BY <2>1 DEF Texts, TypeOK, Writes
  <2>2. CASE Len(pipe) # 1
    BY <2>2 DEF Texts, Writes
  <2>. QED  BY <2>1, <2>2
<1>. QED  BY <1>1 DEF Parsed, Writes, Reports, Crash

\* What is read of a child is worth what ReportIsTrue says.
LEMMA ParsedWorth ==
  ASSUME NEW t \in Parsed, t # "scalar", child = status, status \in Gone
  PROVE  Worth(t, child)
<1>1. CASE status = "dead"
  BY <1>1 DEF Parsed, Worth
<1>2. CASE status = "exited"
  <2>1. PICK x \in Texts(pipe) : t = IF x = "junk" THEN "error" ELSE x
    BY <1>2 DEF Parsed
  <2>2. pipe = <<"value">> => Texts(pipe) = {"value"}
    BY DEF Texts
  <2>. QED  BY <1>2, <2>1, <2>2 DEF Worth
<1>. QED  BY <1>1, <1>2 DEF Gone

\* The parent's report of a case, however it came about.
LEMMA ReportStep ==
  ASSUME RoundInv, pc \in {"clock", "read"}, NEW r \in Reports,
         results' = Append(results, r), pc' = "next",
         child' \in Gone, status' \in Gone, UNCHANGED <<clock, pipe, helper>>,
         Worth(r, child')
  PROVE  RoundInv'
<1>1. /\ results \in Seq(Reports) /\ Len(results) < N
      /\ \A k \in DOMAIN results : results[k] \notin Crash
  BY DEF RoundInv, TypeOK, CaseUnderWay
<1>2. /\ results' \in Seq(Reports)
      /\ Len(results') = Len(results) + 1
      /\ results' # <<>>
      /\ results'[Len(results')] = r
      /\ \A k \in DOMAIN results' : results'[k] \in Crash => k = Len(results')
  BY <1>1, ReportAdded
<1>3. Len(results') <= N
  BY <1>1, <1>2, LenProperties, RoundAssumption
<1>4. TypeOK'
  BY <1>2, <1>3 DEF RoundInv, TypeOK
<1>5. NothingYet' /\ CaseUnderWay' /\ CrashIsLast' /\ ReadAfterReap'
  BY <1>2 DEF NothingYet, CaseUnderWay, CrashIsLast, ReadAfterReap
<1>6. ReportIsTrue'
  BY <1>2 DEF ReportIsTrue, Worth, Texts
<1>. QED  BY <1>4, <1>5, <1>6 DEF RoundInv

\* A step that reports nothing and leaves the reading of the pipe alone.
LEMMA QuietStep ==
  ASSUME RoundInv, TypeOK', UNCHANGED results,
         pc' \in {"compile", "load"} => pc = pc',
         pc' \in {"poll", "clock", "read"} =>
           pc \in {"poll", "clock", "read"} \/ (Len(results) < N /\ ~Crashed),
         ReadAfterReap', ReportIsTrue'
  PROVE  RoundInv'
<1>1. NothingYet'
  BY DEF RoundInv, NothingYet
<1>2. CrashIsLast'
  BY DEF RoundInv, CrashIsLast
<1>3. ~Crashed => \A k \in DOMAIN results : results[k] \notin Crash
  <2>. SUFFICES ASSUME ~Crashed, NEW k \in DOMAIN results, results[k] \in Crash
                PROVE  FALSE
    OBVIOUS
  <2>1. k = Len(results)
    BY DEF RoundInv, CrashIsLast
  <2>2. results # <<>>
    BY DEF RoundInv, TypeOK
  <2>. QED  BY <2>1, <2>2 DEF Crashed
<1>4. CaseUnderWay'
  BY <1>3 DEF RoundInv, CaseUnderWay
<1>. QED  BY <1>1, <1>2, <1>4 DEF RoundInv

LEMMA StepRound == RoundInv /\ [Next]_vars => RoundInv'
<1>. SUFFICES ASSUME RoundInv, [Next]_vars PROVE RoundInv'
  OBVIOUS
<1>. USE DEF caseVars
<1>1. CASE Compile
  <2>1. TypeOK' /\ ReadAfterReap' /\ ReportIsTrue'
    BY <1>1 DEF Compile, RoundInv, TypeOK, ReadAfterReap, ReportIsTrue
  <2>2. pc' = "load" => results' = <<>>
    BY <1>1 DEF Compile, RoundInv, NothingYet
  <2>. QED
    BY <1>1, <2>1, <2>2
       DEF Compile, RoundInv, NothingYet, CaseUnderWay, CrashIsLast
<1>2. CASE SymbolCheck
  <2>1. results = <<>>
    BY <1>2 DEF SymbolCheck, RoundInv, NothingYet
  <2>2. TypeOK' /\ ReadAfterReap' /\ ReportIsTrue'
    BY <1>2, <2>1 DEF SymbolCheck, RoundInv, TypeOK, ReadAfterReap, ReportIsTrue
  <2>. QED  BY <1>2, <2>2, QuietStep DEF SymbolCheck
<1>3. CASE Fork
  <2>1. TypeOK'
    BY <1>3, RoundAssumption DEF Fork, RoundInv, TypeOK
  <2>2. ReadAfterReap' /\ ReportIsTrue'
    BY <1>3 DEF Fork, ReadAfterReap, ReportIsTrue
  <2>. QED  BY <1>3, <2>1, <2>2, QuietStep DEF Fork
<1>4. CASE ForkFails
  <2>1. TypeOK' /\ ReadAfterReap' /\ ReportIsTrue'
    BY <1>4 DEF ForkFails, RoundInv, TypeOK, ReadAfterReap, ReportIsTrue
  <2>. QED  BY <1>4, <2>1, QuietStep DEF ForkFails
<1>5. CASE Poll
  <2>1. TypeOK' /\ ReadAfterReap' /\ ReportIsTrue'
    BY <1>5 DEF Poll, Gone, RoundInv, TypeOK, ReadAfterReap, ReportIsTrue
  <2>. QED  BY <1>5, <2>1, QuietStep DEF Poll
<1>6. CASE Wait
  <2>1. TypeOK' /\ ReadAfterReap' /\ ReportIsTrue'
    BY <1>6 DEF Wait, RoundInv, TypeOK, ReadAfterReap, ReportIsTrue
  <2>. QED  BY <1>6, <2>1, QuietStep DEF Wait
<1>7. CASE Kill
  <2>1. "timeout" \in Reports /\ child' \in Gone /\ status' \in Gone
    BY <1>7 DEF Kill, Reports, Crash, Gone
  <2>2. Worth("timeout", child')
    BY <1>7 DEF Kill, Overdue, Worth
  <2>. QED  BY <1>7, <2>1, <2>2, ReportStep DEF Kill
<1>8. CASE Read
  <2>1. status \in Gone /\ child = status
    BY <1>8 DEF Read, RoundInv, ReadAfterReap
  <2>2. PICK t \in Parsed :
          \/ t = "scalar" /\ pc' = "failed" /\ UNCHANGED results
          \/ t # "scalar" /\ pc' = "next" /\ results' = Append(results, t)
    BY <1>8 DEF Read
  <2>3. CASE pc' = "failed" /\ UNCHANGED results
    <3>1. TypeOK' /\ ReadAfterReap' /\ ReportIsTrue'
      BY <1>8, <2>3 DEF Read, RoundInv, TypeOK, ReadAfterReap, ReportIsTrue
    <3>. QED  BY <1>8, <2>3, <3>1, QuietStep DEF Read
  <2>4. CASE t # "scalar" /\ pc' = "next" /\ results' = Append(results, t)
    <3>1. t \in Reports /\ Worth(t, child)
      BY <2>1, <2>4, ParsedType, ParsedWorth DEF RoundInv
    <3>2. UNCHANGED caseVars /\ pc = "read"
      BY <1>8 DEF Read
    <3>. QED  BY <2>1, <2>4, <3>1, <3>2, ReportStep
  <2>. QED  BY <2>2, <2>3, <2>4
<1>9. CASE Finish
  <2>1. TypeOK' /\ ReadAfterReap' /\ ReportIsTrue'
    BY <1>9 DEF Finish, RoundInv, TypeOK, ReadAfterReap, ReportIsTrue
  <2>. QED  BY <1>9, <2>1, QuietStep DEF Finish
<1>10. CASE Deadline \/ JobTimeout
  <2>1. TypeOK' /\ ReadAfterReap' /\ ReportIsTrue'
    BY <1>10 DEF Deadline, JobTimeout, Stuck, RoundInv, TypeOK, ReadAfterReap, ReportIsTrue
  <2>. QED  BY <1>10, <2>1, QuietStep DEF Deadline, JobTimeout
<1>11. CASE ChildReturns \/ ChildScribbles
  <2>0. "value" \in Writes
    BY DEF Writes, Reports
  <2>1. pipe' \in Seq(Writes) /\ Len(pipe') <= MAX_WRITES
    BY <1>11, <2>0, PipeGrows DEF ChildReturns, ChildScribbles, CanWrite, RoundInv, TypeOK
  <2>2. TypeOK' /\ ReadAfterReap' /\ ReportIsTrue'
    BY <1>11, <2>1
       DEF ChildReturns, ChildScribbles, Alive, RoundInv, TypeOK, ReadAfterReap, ReportIsTrue
  <2>. QED  BY <1>11, <2>2, QuietStep DEF ChildReturns, ChildScribbles, Alive
<1>12. CASE ChildEnds \/ ModelForks
  <2>1. TypeOK' /\ ReadAfterReap' /\ ReportIsTrue'
    BY <1>12 DEF ChildEnds, ModelForks, Alive, RoundInv, TypeOK, ReadAfterReap, ReportIsTrue
  <2>. QED  BY <1>12, <2>1, QuietStep DEF ChildEnds, ModelForks, Alive
<1>13. CASE HelperWrites
  <2>1. pipe' \in Seq(Writes) /\ Len(pipe') <= MAX_WRITES
    BY <1>13, PipeGrows DEF HelperWrites, CanWrite, RoundInv, TypeOK
  <2>2. TypeOK' /\ ReadAfterReap' /\ ReportIsTrue'
    BY <1>13, <2>1 DEF HelperWrites, RoundInv, TypeOK, ReadAfterReap, ReportIsTrue
  <2>. QED  BY <1>13, <2>2, QuietStep DEF HelperWrites
<1>14. CASE HelperExits
  <2>1. TypeOK' /\ ReadAfterReap' /\ ReportIsTrue'
    BY <1>14 DEF HelperExits, RoundInv, TypeOK, ReadAfterReap, ReportIsTrue
  <2>. QED  BY <1>14, <2>1, QuietStep DEF HelperExits
<1>15. CASE UNCHANGED vars
  BY <1>15
     DEF vars, Crashed, RoundInv, TypeOK, NothingYet, CaseUnderWay, CrashIsLast,
         ReadAfterReap, ReportIsTrue
<1>. QED
  BY <1>1, <1>2, <1>3, <1>4, <1>5, <1>6, <1>7, <1>8, <1>9, <1>10, <1>11, <1>12,
     <1>13, <1>14, <1>15 DEF Next, Parent, Over

-----------------------------------------------------------------------------

\* The inductive invariant of a validate round.
THEOREM RoundInvariant == Spec => []RoundInv
BY InitRound, StepRound, PTL DEF Spec

\* Every variable of the worker keeps its type: never more reports than cases,
\* never more in a pipe than it holds.
THEOREM RoundTypeCorrect == Spec => []TypeOK
<1>1. RoundInv => TypeOK
  BY DEF RoundInv
<1>. QED  BY <1>1, RoundInvariant, PTL

\* No case is reported from anywhere but its own child's end or its own
\* child's pipe, and nothing on a pipe speaks for a child that was killed,
\* whatever the model, helpers of any case and the deadline do meanwhile.
THEOREM ReportsAreTrue == Spec => []ReportIsTrue
<1>1. RoundInv => ReportIsTrue
  BY DEF RoundInv
<1>. QED  BY <1>1, RoundInvariant, PTL

-----------------------------------------------------------------------------

\* The state of the abstract round.
Round ==
  CASE pc = "done" -> "reported"
    [] pc \in {"failed", "refused"} -> "failed"
    [] OTHER -> "running"

\* A report is a step of the contract.
LEMMA ReportRefines ==
  ASSUME RoundInv, pc \in {"clock", "read"}, pc' = "next",
         NEW r \in Reports, results' = Append(results, r)
  PROVE  Contract!Report
<1>1. Len(results) < N /\ \A k \in DOMAIN results : results[k] \notin Crash
  BY DEF RoundInv, CaseUnderWay
<1>. QED  BY <1>1 DEF Contract!Report

\* Ending without an answer is a step of the contract from wherever it is taken.
LEMMA FailRefines ==
  ASSUME pc \notin {"done", "failed", "refused"}, pc' \in {"failed", "refused"},
         UNCHANGED results
  PROVE  Contract!Fail
BY DEF Contract!Fail

\* A round that goes on without a report is a stuttering step of the contract.
LEMMA QuietRefines ==
  ASSUME pc \notin {"done", "failed", "refused"},
         pc' \notin {"done", "failed", "refused"}, UNCHANGED results
  PROVE  UNCHANGED <<results, Round>>
BY DEF Round

LEMMA StepAsContract ==
  ASSUME RoundInv, [Next]_vars
  PROVE  [Contract!Next]_<<results, Round>>
<1>. USE DEF caseVars, Contract!Next
<1>1. CASE Compile
  BY <1>1, FailRefines, QuietRefines DEF Compile
<1>2. CASE SymbolCheck
  BY <1>2, FailRefines, QuietRefines DEF SymbolCheck
<1>3. CASE ForkFails
  BY <1>3, FailRefines DEF ForkFails
<1>4. CASE Fork \/ Poll \/ Wait
  BY <1>4, QuietRefines DEF Fork, Poll, Wait
<1>5. CASE Kill
  BY <1>5, ReportRefines DEF Kill, Reports, Crash
<1>6. CASE Read
  <2>1. PICK t \in Parsed :
          \/ t = "scalar" /\ pc' = "failed" /\ UNCHANGED results
          \/ t # "scalar" /\ pc' = "next" /\ results' = Append(results, t)
    BY <1>6 DEF Read
  <2>2. t # "scalar" => t \in Reports
    BY ParsedType DEF RoundInv
  <2>. QED  BY <1>6, <2>1, <2>2, ReportRefines, FailRefines DEF Read
<1>7. CASE Finish
  <2>1. Contract!Genuine(results, N)
    BY <1>7, RoundAssumption
       DEF Finish, RoundOver, Crashed, Contract!Genuine, RoundInv, TypeOK
  <2>. QED  BY <1>7, <2>1 DEF Finish, Contract!Finish
<1>8. CASE JobTimeout
  BY <1>8, FailRefines DEF JobTimeout, Stuck
<1>9. CASE \/ Deadline \/ Over \/ ChildReturns \/ ChildScribbles \/ ChildEnds
           \/ ModelForks \/ HelperWrites \/ HelperExits \/ UNCHANGED vars
  <2>1. UNCHANGED <<results, pc>>
    BY <1>9 DEF Deadline, Over, ChildReturns, ChildScribbles, ChildEnds,
                ModelForks, HelperWrites, HelperExits, vars
  <2>. QED  BY <2>1 DEF Round
<1>. QED
  BY <1>1, <1>2, <1>3, <1>4, <1>5, <1>6, <1>7, <1>8, <1>9 DEF Next, Parent

\* The worker's loop implements the contract the host's shape check relies on:
\* cases are reported in order, one report each, and a round that reports at
\* all reports every case or stops at a crash.
THEOREM WorkerHonoursContract == Spec => HonoursContract
<1>1. Init => Contract!Init
  BY DEF Init, Contract!Init
<1>2. RoundInv /\ [Next]_vars => [Contract!Next]_<<results, Round>>
  BY StepAsContract
<1>. QED
  BY <1>1, <1>2, RoundInvariant, PTL DEF Spec, HonoursContract, Contract!Spec, Round
=============================================================================
