------------------------------ MODULE BatchCall ------------------------------
(***************************************************************************)
(* Calling the original: batch_call_original runs a round of cases of one  *)
(* function, on one VM restored from a snapshot before every case when the *)
(* function's own instructions show no system call, else on a fresh VM per *)
(* case.                                                                   *)
(*                                                                         *)
(* A VM is what ql.save captures (registers and memory: guest) and what it *)
(* does not (rootfs, descriptors, later mappings: outside).  A function is *)
(* its effect on both, and what the screen says of it.                     *)
(*                                                                         *)
(* The caller may instrument each VM with a hook scope.  A block callback  *)
(* that fails in the middle of a case ends the emulation, and _run_case    *)
(* takes its exception for a fault of the guest; the scope (the recorder   *)
(* of tools/coverage_spike.py) keeps the error and raises it itself.       *)
(***************************************************************************)
EXTENDS Naturals, Sequences

CONSTANTS
  Inputs,      \* case inputs
  Guest,       \* contents of registers and memory
  Outside,     \* the rest of a VM's state
  BootGuest,   \* the guest after boot
  BootOutside, \* the rest after boot
  Functions,   \* records [scan, effect]
  ReadBack,    \* ReadBack[c][g]: return value and memory of case c, read off g
  Nothing,     \* the value of a call that did not return
  Unpackable,  \* inputs _marshal cannot pack, such as a cell wider than an i32
  MAX_ROUND    \* bound on the cases of a round

\* How a run may end: at the sentinel, in a fault (of memory or not), stopped
\* by the timeout, or at the sentinel with a buffer no longer readable.
EndKinds == {"returned", "memfault", "crash", "timeout"}
Ends == [end : EndKinds \cup {"unreadable"}, guest : Guest, outside : Outside]

ASSUME VMAssumption ==
  /\ BootGuest \in Guest /\ BootOutside \in Outside /\ MAX_ROUND \in Nat
  /\ Unpackable \subseteq Inputs
  /\ Functions \subseteq [scan : {"clean", "syscall", "unknown"},
                          effect : [Inputs -> [Guest -> [Outside -> SUBSET Ends]]]]

MutUnclassifiedFault(c, e) ==
  [end |-> IF e.end \in {"memfault", "crash"} THEN "fault" ELSE e.end,
   value |-> IF e.end = "returned" THEN ReadBack[c][e.guest] ELSE Nothing]
Trace(c, e) ==
  [end |-> e.end, value |-> IF e.end = "returned" THEN ReadBack[c][e.guest] ELSE Nothing]

VARIABLES
  fn,       \* the function of the round
  cases,    \* its cases
  pc,       \* where the round is
  mode,     \* how it is run
  guest, outside,  \* the VM
  snap,     \* the saved guest
  hooks,    \* "attached" inside a hook scope
  probe,    \* "failed" once a callback of this scope raised (callback_error)
  recorder, \* "clean" once the scope's reset ran, "used" after a case
  outs,     \* the traces so far
  spoilt    \* a callback failed in some case (read by properties only)

vm == <<guest, outside, snap>>
scope == <<hooks, probe, recorder>>
vars == <<fn, cases, pc, mode, vm, scope, outs, spoilt>>

Init ==
  /\ fn \in Functions
  /\ \E n \in 0..MAX_ROUND : cases \in [1..n -> Inputs]
  /\ pc = "screen" /\ mode = "none"
  /\ guest = BootGuest /\ outside = BootOutside /\ snap = BootGuest
  /\ hooks = "none" /\ probe = "ok" /\ recorder = "used"
  /\ outs = <<>> /\ spoilt = FALSE

-----------------------------------------------------------------------------

\* An empty round boots nothing.  "unknown": no symbol bounds the scan.
MutUnknownIsClean(f) == IF f.scan = "syscall" THEN "fresh" ELSE "batched"
Route(f) == IF f.scan = "clean" THEN "batched" ELSE "fresh"

Screen ==
  /\ pc = "screen"
  /\ IF cases = <<>> THEN pc' = "done" /\ UNCHANGED mode
     ELSE pc' = "boot" /\ mode' = Route(fn)
  /\ UNCHANGED <<fn, cases, vm, scope, outs, spoilt>>

\* Boot, and save the snapshot (of use to a batched round only).
BootVM ==
  /\ pc = "boot"
  /\ guest' = BootGuest /\ outside' = BootOutside /\ snap' = BootGuest
  /\ pc' = "enter"
  /\ UNCHANGED <<fn, cases, mode, scope, outs, spoilt>>

\* An exception inside the with-block: the scope is left on its way out.
Unwind == pc' = "raised" /\ hooks' = "none"

\* A scope that raises as it is entered has nothing attached.
EnterScope ==
  /\ pc = "enter"
  /\ \/ /\ hooks' = "attached" /\ probe' = "ok"
        /\ pc' = IF mode = "batched" THEN "restore" ELSE "reset"
     \/ pc' = "raised" /\ UNCHANGED <<hooks, probe>>
  /\ UNCHANGED <<fn, cases, mode, vm, recorder, outs, spoilt>>

Restore ==
  /\ pc = "restore"
  /\ \/ guest' = snap /\ pc' = "reset" /\ UNCHANGED hooks
     \/ Unwind /\ UNCHANGED guest
  /\ UNCHANGED <<fn, cases, mode, outside, snap, probe, recorder, outs, spoilt>>

\* before_case raises what a callback kept, or an error of its own.
BeforeCase ==
  /\ pc = "reset"
  /\ \/ probe = "ok" /\ recorder' = "clean" /\ pc' = "run" /\ UNCHANGED hooks
     \/ Unwind /\ UNCHANGED recorder
  /\ UNCHANGED <<fn, cases, mode, vm, probe, outs, spoilt>>

MutRunsOn == IF mode = "batched" /\ Len(outs') < Len(cases) THEN "run" ELSE "leave"
AfterCase == IF mode = "batched" /\ Len(outs') < Len(cases) THEN "restore" ELSE "leave"

\* _run_case: marshalling and reading back are outside its try, so what they
\* raise leaves the scope and the round.
CaseRaises(c) ==
  /\ \/ c \in Unpackable /\ UNCHANGED <<guest, outside>>
     \/ /\ c \notin Unpackable
        /\ \E e \in fn.effect[c][guest][outside] :
             /\ e.end = "unreadable"
             /\ guest' = e.guest /\ outside' = e.outside
  /\ Unwind /\ UNCHANGED <<probe, outs, spoilt>>
CaseEnds(c) ==
  /\ c \notin Unpackable
  /\ \E e \in fn.effect[c][guest][outside] :
       /\ e.end # "unreadable"
       /\ guest' = e.guest /\ outside' = e.outside
       /\ outs' = Append(outs, Trace(c, e))
  /\ pc' = AfterCase /\ UNCHANGED <<hooks, probe, spoilt>>
\* A callback fails: the case is cut off anywhere and reads as a guest crash.
CallbackFails(c) ==
  /\ c \notin Unpackable
  /\ guest' \in Guest /\ outside' \in Outside
  /\ outs' = Append(outs, [end |-> "crash", value |-> Nothing])
  /\ probe' = "failed" /\ spoilt' = TRUE
  /\ pc' = AfterCase /\ UNCHANGED hooks

RunCase ==
  /\ pc = "run"
  /\ LET c == cases[Len(outs) + 1] IN
       CaseRaises(c) \/ CaseEnds(c) \/ CallbackFails(c)
  /\ recorder' = "used"
  /\ UNCHANGED <<fn, cases, mode, snap>>

\* Leaving a scope detaches its hooks, and surfaces what a callback raised.
MutProbeErrorDropped == TRUE
ProbeHeld == probe = "ok"
LeaveScope ==
  /\ pc = "leave"
  /\ hooks' = "none"
  /\ pc' = IF ~ProbeHeld THEN "raised"
           ELSE IF Len(outs) < Len(cases) THEN "boot" ELSE "done"
  /\ UNCHANGED <<fn, cases, mode, vm, probe, recorder, outs, spoilt>>

Ended == pc \in {"done", "raised"} /\ UNCHANGED vars

Next ==
  \/ Screen \/ BootVM \/ EnterScope \/ Restore \/ BeforeCase \/ RunCase
  \/ LeaveScope \/ Ended
Spec == Init /\ [][Next]_vars

-----------------------------------------------------------------------------
(* Properties.                                                             *)

Traces ==
  [end : EndKinds,
   value : {ReadBack[x[1]][x[2]] : x \in Inputs \X Guest} \cup {Nothing}]

\* Every variable has its type.
TypeOK ==
  /\ fn \in Functions /\ cases \in Seq(Inputs)
  /\ pc \in {"screen", "boot", "enter", "restore", "reset", "run", "leave",
             "done", "raised"}
  /\ mode \in {"none", "batched", "fresh"}
  /\ guest \in Guest /\ outside \in Outside /\ snap \in Guest
  /\ hooks \in {"none", "attached"} /\ probe \in {"ok", "failed"}
  /\ recorder \in {"clean", "used"} /\ spoilt \in BOOLEAN
  /\ outs \in Seq(Traces)
  /\ Len(outs) <= Len(cases)

\* What the snapshot route rests on: a function the screen calls clean, its
\* callees included, changes nothing outside the snapshot.
Isolated ==
  \A f \in Functions : f.scan = "clean" =>
    \A c \in Inputs, g \in Guest, o \in Outside :
      \A e \in f.effect[c][g][o] : e.outside = o

\* Every case starts from a VM as it booted and a recorder that was reset,
\* whatever earlier cases did to either, also after a fault or a timeout.
PristineStart ==
  pc = "run" =>
    /\ guest = BootGuest /\ outside = BootOutside
    /\ hooks = "attached" /\ recorder = "clean"

\* What a failed probe left in the traces is never answered as the original's
\* behaviour: a round in which a callback failed raises, in whichever case it
\* failed, although _run_case took the failure for a fault of the guest.
ProbeFaultsSurface == pc = "done" => ~spoilt

\* The round answers as fresh VMs would, case by case and as a whole; the
\* trace of a case its probe cut off is no answer.
Alone(f, c) ==
  {Trace(c, e) : e \in {x \in f.effect[c][BootGuest][BootOutside] : x.end # "unreadable"}}
Answered == IF probe = "failed" THEN SubSeq(outs, 1, Len(outs) - 1) ELSE outs
Fresh == INSTANCE FreshCalls WITH
  outs <- Answered,
  status <- IF pc = "done" THEN "returned" ELSE IF pc = "raised" THEN "raised"
            ELSE "running"
AnswersAsFresh == Fresh!Spec
=============================================================================
