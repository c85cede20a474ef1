------------------------------ MODULE MCRegrade ------------------------------
(* "good" passes on image a and not on b under judge 1, and fails under      *)
(* judge 2; "flaky" may go either way; "early" is refused before any job.    *)
EXTENDS Regrade

MCDecide ==
  [j \in Judges |-> [i \in Images |-> [c \in Submissions |->
     CASE c = "good" -> IF j = 1 /\ i = "a" THEN {"passed"} ELSE {"rejected"}
       [] c = "flaky" -> Verdicts
       [] c = "early" -> {"rejected"}]]]
MCNeedsJob == [j \in Judges |-> Submissions \ {"early"}]
MCDraws == [j \in Judges |-> [c \in Submissions |-> IF c = "flaky" THEN j ELSE 1]]
MCOffered == [j \in Judges |-> IF j = 2 THEN Submissions \ {"early"} ELSE Submissions]
=============================================================================
