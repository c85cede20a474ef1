------------------------------ MODULE FreshCalls ------------------------------
(***************************************************************************)
(* What the function checker relies on from batch_call_original: the round *)
(* is answered as if every case had a fresh VM to itself.  A round may be  *)
(* abandoned as a whole (a hook raised), never answered in part.           *)
(***************************************************************************)
EXTENDS Naturals, Sequences

CONSTANTS Alone(_, _)  \* Alone(f, c): what a fresh VM may answer to case c

VARIABLES fn, cases, outs, status

vars == <<fn, cases, outs, status>>

Init == outs = <<>> /\ status = "running"

Call ==
  /\ status = "running" /\ Len(outs) < Len(cases)
  /\ \E t \in Alone(fn, cases[Len(outs) + 1]) : outs' = Append(outs, t)
  /\ UNCHANGED <<fn, cases, status>>

Return ==
  /\ status = "running" /\ Len(outs) = Len(cases)
  /\ status' = "returned"
  /\ UNCHANGED <<fn, cases, outs>>

Raise ==
  /\ status = "running"
  /\ status' = "raised"
  /\ UNCHANGED <<fn, cases, outs>>

Next == Call \/ Return \/ Raise
Spec == Init /\ [][Next]_vars
=============================================================================
