---------------------------- MODULE WorkerContract ----------------------------
(***************************************************************************)
(* What the host relies on from the level-B worker: a validate round       *)
(* reports the cases in order, one report each, and stops only after the   *)
(* last case or after a crash.  A round may fail as a whole instead (no    *)
(* usable output); it never reports less than it ran.                      *)
(***************************************************************************)
EXTENDS Naturals, Sequences

CONSTANTS N,       \* cases in the round
          Reports, \* what one case may report
          Crash    \* the reports that say crash

\* The shape validate_function and _claim accept: every case, or a prefix
\* whose last report is a crash.
Genuine(results, n) ==
  \/ Len(results) = n
  \/ Len(results) \in 1..(n - 1) /\ results[Len(results)] \in Crash

VARIABLES results, round

Init == results = <<>> /\ round = "running"

Report ==
  /\ round = "running" /\ Len(results) < N
  /\ \A k \in DOMAIN results : results[k] \notin Crash
  /\ \E r \in Reports : results' = Append(results, r)
  /\ UNCHANGED round

Finish ==
  /\ round = "running" /\ Genuine(results, N)
  /\ round' = "reported"
  /\ UNCHANGED results

Fail ==
  /\ round = "running"
  /\ round' = "failed"
  /\ UNCHANGED results

Next == Report \/ Finish \/ Fail
Spec == Init /\ [][Next]_<<results, round>>
=============================================================================
