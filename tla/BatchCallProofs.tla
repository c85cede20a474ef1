--------------------------- MODULE BatchCallProofs ---------------------------
(***************************************************************************)
(* A round of batch_call_original keeps its types, and never answers with  *)
(* what a failed probe left, for every function; it answers as fresh VMs   *)
(* would for every function the screen is right about (Isolated), every VM *)
(* and rounds of any length.                                               *)
(***************************************************************************)
EXTENDS BatchCall, TLAPS

\* Where the round is, against how much of it is done and what is attached.
Progress ==
  /\ pc = "screen" => outs = <<>> /\ mode = "none"
  /\ pc \in {"boot", "enter", "restore", "reset", "run"} => Len(outs) < Len(cases)
  /\ pc = "leave" /\ mode = "batched" => Len(outs) = Len(cases)
  /\ pc = "done" => Len(outs) = Len(cases)
  /\ pc \notin {"screen", "done", "raised"} => mode = Route(fn)
  /\ pc = "restore" => mode = "batched"
  /\ hooks = "attached" <=> pc \in {"restore", "reset", "run", "leave"}
  /\ pc = "run" => recorder = "clean"
  /\ spoilt <=> probe = "failed"
  /\ probe = "failed" => pc \in {"restore", "reset", "leave", "raised"} /\ outs # <<>>

\* What of the VM is as it booted, step by step.
Pristine ==
  /\ snap = BootGuest
  /\ pc \in {"enter", "run"} => guest = BootGuest /\ outside = BootOutside
  /\ pc = "reset" /\ probe = "ok" => guest = BootGuest /\ outside = BootOutside
  /\ pc \notin {"screen", "boot", "raised"} /\ mode = "batched" /\ probe = "ok" =>
       outside = BootOutside

\* The part that owes nothing to the screen, and the whole.
RoundInv == TypeOK /\ Progress
BatchInv == TypeOK /\ Progress /\ Pristine

-----------------------------------------------------------------------------

\* A trace is a trace.
LEMMA TraceType ==
  ASSUME NEW c \in Inputs, NEW e \in Ends, e.end # "unreadable"
  PROVE  Trace(c, e) \in Traces
<1>1. e.end \in EndKinds /\ e.guest \in Guest
  BY DEF Ends
<1>2. CASE e.end = "returned"
  <2>1. <<c, e.guest>> \in Inputs \X Guest
    BY <1>1
  <2>2. ReadBack[c][e.guest] \in {ReadBack[x[1]][x[2]] : x \in Inputs \X Guest}
    BY <2>1
  <2>. QED  BY <1>1, <1>2, <2>2 DEF Trace, Traces
<1>3. CASE e.end # "returned"
  BY <1>1, <1>3 DEF Trace, Traces
<1>. QED  BY <1>2, <1>3

\* An effect of a function ends in a well-formed way.
LEMMA EffectType ==
  ASSUME NEW f \in Functions, NEW c \in Inputs, NEW g \in Guest, NEW o \in Outside,
         NEW e \in f.effect[c][g][o]
  PROVE  e \in Ends
BY VMAssumption

\* The invariant holds initially.
LEMMA InitInv == Init => BatchInv
<1>. SUFFICES ASSUME Init PROVE BatchInv
  OBVIOUS
<1>1. PICK n \in 0..MAX_ROUND : cases \in [1..n -> Inputs]
  BY DEF Init
<1>2. cases \in Seq(Inputs) /\ n \in Nat
  BY <1>1, VMAssumption
<1>3. spoilt \in BOOLEAN
  BY DEF Init
<1>4. outs \in Seq(Traces) /\ Len(outs) <= Len(cases)
  BY <1>2 DEF Init
<1>5. TypeOK
  BY <1>2, <1>3, <1>4, VMAssumption DEF Init, TypeOK
<1>. QED  BY <1>5, VMAssumption DEF Init, BatchInv, Progress, Pristine

\* Every step keeps the round in order, whatever the screen is worth.
LEMMA RoundStep ==
  ASSUME RoundInv, [Next]_vars
  PROVE  RoundInv'
<1>. USE VMAssumption DEF RoundInv, TypeOK, Progress, vm, scope
<1>1. CASE Screen
  <2>1. cases # <<>> => 0 < Len(cases)
    BY <1>1
  <2>2. Route(fn) \in {"batched", "fresh"}
    BY DEF Route
  <2>3. Len(cases) \in Nat /\ Len(outs) = 0
    BY <1>1 DEF Screen
  <2>4. cases = <<>> => Len(cases) = 0
    OBVIOUS
  <2>. QED  BY <1>1, <2>1, <2>2, <2>3, <2>4 DEF Screen
<1>2. CASE BootVM
  BY <1>2 DEF BootVM
<1>3. CASE EnterScope
  BY <1>3 DEF EnterScope
<1>4. CASE Restore
  BY <1>4 DEF Restore, Unwind
<1>5. CASE BeforeCase
  BY <1>5 DEF BeforeCase, Unwind
<1>6. CASE RunCase
  <2>. DEFINE c == cases[Len(outs) + 1]
  <2>1. c \in Inputs /\ Len(outs) \in Nat /\ Len(cases) \in Nat
    BY <1>6 DEF RunCase
  <2>2. CASE CaseRaises(c)
    <3>1. guest' \in Guest /\ outside' \in Outside
      BY <2>1, <2>2, EffectType DEF CaseRaises, Ends
    <3>. QED  BY <1>6, <2>2, <3>1 DEF RunCase, CaseRaises, Unwind
  <2>3. ASSUME NEW t \in Traces, outs' = Append(outs, t), pc' = AfterCase,
               guest' \in Guest, outside' \in Outside, hooks' = hooks,
               probe' \in {"ok", "failed"}, spoilt' \in BOOLEAN,
               spoilt' <=> probe' = "failed"
        PROVE  RoundInv'
    <3>1. outs' \in Seq(Traces) /\ Len(outs') = Len(outs) + 1 /\ outs' # <<>>
      BY <2>1, <2>3
    <3>2. pc' \in {"restore", "leave"} /\ (pc' = "restore" => mode = "batched")
          /\ (pc' = "restore" => Len(outs') < Len(cases))
          /\ (pc' = "leave" /\ mode = "batched" => Len(outs') = Len(cases))
      BY <1>6, <2>1, <2>3, <3>1 DEF RunCase, AfterCase
    <3>3. Len(outs') <= Len(cases)
      BY <1>6, <2>1, <3>1 DEF RunCase
    <3>. QED  BY <1>6, <2>1, <2>3, <3>1, <3>2, <3>3 DEF RunCase
  <2>4. CASE CaseEnds(c)
    <3>1. PICK e \in fn.effect[c][guest][outside] :
            /\ e.end # "unreadable"
            /\ guest' = e.guest /\ outside' = e.outside
            /\ outs' = Append(outs, Trace(c, e))
      BY <2>4 DEF CaseEnds
    <3>2. e \in Ends
      BY <2>1, <3>1, EffectType
    <3>3. Trace(c, e) \in Traces /\ guest' \in Guest /\ outside' \in Outside
      BY <2>1, <3>1, <3>2, TraceType DEF Ends
    <3>4. pc' = AfterCase /\ hooks' = hooks /\ probe' = probe /\ spoilt' = spoilt
      BY <2>4 DEF CaseEnds
    <3>. QED  BY <2>3, <3>1, <3>3, <3>4
  <2>5. CASE CallbackFails(c)
    <3>1. [end |-> "crash", value |-> Nothing] \in Traces
      BY DEF Traces, EndKinds
    <3>. QED  BY <2>3, <2>5, <3>1 DEF CallbackFails
  <2>. QED  BY <1>6, <2>2, <2>4, <2>5 DEF RunCase
<1>7. CASE LeaveScope
  <2>1. Len(outs) \in Nat /\ Len(cases) \in Nat
    OBVIOUS
  <2>. QED  BY <1>7, <2>1 DEF LeaveScope, ProbeHeld
<1>8. CASE UNCHANGED vars
  BY <1>8 DEF vars
<1>. QED
  BY <1>1, <1>2, <1>3, <1>4, <1>5, <1>6, <1>7, <1>8 DEF Next, Ended

\* Every step leaves what the next case needs as it booted, if the screen is
\* right.
LEMMA PristineStep ==
  ASSUME Isolated, BatchInv, [Next]_vars
  PROVE  Pristine'
<1>. USE VMAssumption DEF BatchInv, Progress, Pristine, vm, scope
<1>1. CASE Screen
  BY <1>1 DEF Screen, TypeOK
<1>2. CASE BootVM
  BY <1>2 DEF BootVM, TypeOK
<1>3. CASE EnterScope
  BY <1>3 DEF EnterScope, TypeOK
<1>4. CASE Restore
  BY <1>4 DEF Restore, Unwind, TypeOK
<1>5. CASE BeforeCase
  BY <1>5 DEF BeforeCase, Unwind, TypeOK
<1>6. CASE RunCase
  <2>. DEFINE c == cases[Len(outs) + 1]
  <2>1. c \in Inputs
    BY <1>6 DEF RunCase, TypeOK
  <2>2. CASE CaseRaises(c)
    BY <1>6, <2>2 DEF RunCase, CaseRaises, Unwind
  <2>3. CASE CaseEnds(c)
    <3>1. PICK e \in fn.effect[c][guest][outside] : outside' = e.outside
      BY <2>3 DEF CaseEnds
    <3>2. mode = "batched" => outside' = BootOutside
      BY <1>6, <2>1, <3>1 DEF RunCase, Isolated, Route, TypeOK
    <3>. QED  BY <1>6, <2>3, <3>2 DEF RunCase, CaseEnds, AfterCase
  <2>4. CASE CallbackFails(c)
    BY <1>6, <2>4 DEF RunCase, CallbackFails, AfterCase
  <2>. QED  BY <1>6, <2>2, <2>3, <2>4 DEF RunCase
<1>7. CASE LeaveScope
  BY <1>7 DEF LeaveScope, ProbeHeld, TypeOK
<1>8. CASE UNCHANGED vars
  BY <1>8 DEF vars
<1>. QED
  BY <1>1, <1>2, <1>3, <1>4, <1>5, <1>6, <1>7, <1>8 DEF Next, Ended

\* A round in order, for every function, also one the screen is wrong about.
THEOREM RoundInvariant == Spec => []RoundInv
<1>1. Init => RoundInv
  BY InitInv DEF BatchInv, RoundInv
<1>. QED  BY <1>1, RoundStep, PTL DEF Spec

\* Every variable has its type, and no round answers more than it was asked.
THEOREM BatchTypeCorrect == Spec => []TypeOK
BY RoundInvariant, PTL DEF RoundInv

\* The inductive invariant of a batch round, if the screen is right.
THEOREM BatchInvariant == ASSUME Isolated PROVE Spec => []BatchInv
<1>1. Isolated /\ BatchInv /\ [Next]_vars => BatchInv'
  BY RoundStep, PristineStep DEF BatchInv, RoundInv
<1>. QED  BY <1>1, InitInv, PTL DEF Spec

\* Every case starts on a VM as booted, with a recorder that was reset.
THEOREM StartsPristine == ASSUME Isolated PROVE Spec => []PristineStart
<1>1. BatchInv => PristineStart
  BY DEF BatchInv, Progress, Pristine, PristineStart
<1>. QED  BY <1>1, BatchInvariant, PTL

\* No round is answered in which a probe failed: what _run_case took for a
\* guest's fault is raised by the scope, in whichever case it happened.
THEOREM ProbeFaultsAreRaised == Spec => []ProbeFaultsSurface
<1>1. RoundInv => ProbeFaultsSurface
  BY DEF RoundInv, Progress, ProbeFaultsSurface
<1>. QED  BY <1>1, RoundInvariant, PTL

-----------------------------------------------------------------------------

\* A step of the batch is a step of the abstract round, or none of it.
LEMMA StepAsFresh ==
  ASSUME BatchInv, [Next]_vars
  PROVE  [Fresh!Next]_Fresh!vars
<1>. USE DEF BatchInv, Progress, Fresh!vars, vm, scope, Answered
<1>1. CASE Screen
  <2>1. CASE cases = <<>>
    <3>1. Len(outs) = 0 /\ outs \in Seq(Traces) /\ Len(outs) <= Len(cases)
      BY <2>1 DEF TypeOK
    <3>. QED  BY <1>1, <2>1, <3>1 DEF Screen, Fresh!Next, Fresh!Return
  <2>2. CASE cases # <<>>
    BY <1>1, <2>2 DEF Screen
  <2>. QED  BY <2>1, <2>2
<1>2. CASE BootVM
  BY <1>2 DEF BootVM
<1>3. CASE EnterScope
  BY <1>3 DEF EnterScope, Fresh!Next, Fresh!Raise
<1>4. CASE Restore
  BY <1>4 DEF Restore, Unwind, Fresh!Next, Fresh!Raise
<1>5. CASE BeforeCase
  BY <1>5 DEF BeforeCase, Unwind, Fresh!Next, Fresh!Raise
<1>6. CASE RunCase
  <2>. DEFINE c == cases[Len(outs) + 1]
  <2>1. probe = "ok" /\ Len(outs) < Len(cases) /\ outs \in Seq(Traces)
    BY <1>6 DEF RunCase, TypeOK
  <2>2. CASE CaseRaises(c)
    BY <1>6, <2>1, <2>2 DEF RunCase, CaseRaises, Unwind, Fresh!Next, Fresh!Raise
  <2>3. CASE CaseEnds(c)
    <3>1. PICK e \in fn.effect[c][guest][outside] :
            e.end # "unreadable" /\ outs' = Append(outs, Trace(c, e))
      BY <2>3 DEF CaseEnds
    <3>2. guest = BootGuest /\ outside = BootOutside
      BY <1>6 DEF RunCase, Pristine
    <3>3. Trace(c, e) \in Alone(fn, c)
      BY <3>1, <3>2 DEF Alone
    <3>4. pc' \in {"restore", "leave"}
      BY <2>3 DEF CaseEnds, AfterCase
    <3>. QED
      BY <1>6, <2>1, <2>3, <3>1, <3>3, <3>4 DEF RunCase, CaseEnds, Fresh!Next, Fresh!Call
  <2>4. CASE CallbackFails(c)
    <3>. DEFINE t == [end |-> "crash", value |-> Nothing]
    <3>1. outs' = Append(outs, t) /\ probe' = "failed" /\ pc' \in {"restore", "leave"}
      BY <2>4 DEF CallbackFails, AfterCase
    <3>2. t \in Traces
      BY DEF Traces, EndKinds
    <3>3. SubSeq(Append(outs, t), 1, Len(Append(outs, t)) - 1) = outs
      BY <2>1, <3>2
    <3>. QED  BY <1>6, <2>1, <3>1, <3>3 DEF RunCase
  <2>. QED  BY <1>6, <2>2, <2>3, <2>4 DEF RunCase
<1>7. CASE LeaveScope
  <2>1. Len(outs) \in Nat /\ Len(cases) \in Nat /\ Len(outs) <= Len(cases)
    BY DEF TypeOK
  <2>. QED  BY <1>7, <2>1 DEF LeaveScope, ProbeHeld, Fresh!Next, Fresh!Raise, Fresh!Return
<1>8. CASE UNCHANGED vars
  BY <1>8 DEF vars
<1>. QED
  BY <1>1, <1>2, <1>3, <1>4, <1>5, <1>6, <1>7, <1>8 DEF Next, Ended

\* A batch round implements one fresh VM per case, if the screen is right.
THEOREM BatchRefinesFresh == ASSUME Isolated PROVE Spec => AnswersAsFresh
<1>1. Init => Fresh!Init
  BY DEF Init, Fresh!Init, Answered
<1>2. BatchInv /\ [Next]_vars => [Fresh!Next]_Fresh!vars
  BY StepAsFresh
<1>. QED  BY <1>1, <1>2, BatchInvariant, PTL DEF Spec, AnswersAsFresh, Fresh!Spec
=============================================================================
