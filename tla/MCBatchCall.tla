----------------------------- MODULE MCBatchCall -----------------------------
(* Functions over a static variable (guest) and a file (outside): "bump"    *)
(* counts its calls, "wild" writes and then faults, "spin" may time out,     *)
(* "wide" cannot be packed, and "tear", if it may, unmaps its own buffer.    *)
EXTENDS BatchCall

Least(m, n) == IF m <= n THEN m ELSE n
E(end, g, o) == [end |-> end, guest |-> g, outside |-> o]

\* Counts in memory; with file = TRUE also in the file, whose count it returns.
Counting(file) ==
  [c \in Inputs |-> [g \in Guest |-> [o \in Outside |->
     LET g1 == Least(g + 1, 2)
         o1 == IF file THEN Least(o + 1, 2) ELSE o
         g2 == IF file THEN o1 ELSE g1
     IN CASE c = "bump" -> {E("returned", g2, o1)}
          [] c = "wild" -> {E("memfault", g1, o1)}
          [] c = "tear" -> {E(IF file THEN "unreadable" ELSE "returned", g2, o1)}
          [] c = "wide" -> {}
          [] c = "spin" -> {E("returned", g2, o1), E("timeout", g1, o1)}]]]

MCReadBack == [c \in Inputs |-> [g \in Guest |-> g]]
F(scan, file) == [scan |-> scan, effect |-> Counting(file)]

\* Leaf functions, and a writer whose system call is in sight or out of bounds.
Screened == {F("clean", FALSE), F("unknown", FALSE), F("syscall", TRUE), F("unknown", TRUE)}
=============================================================================
