---------------------------- MODULE MCFunctionGate ----------------------------
(* Two ordinary points, one the original may time out on, one that drives   *)
(* it into invalid memory; scouts of each kind, and one no buffer can hold. *)
EXTENDS FunctionGate

CONSTANTS p, q, slow, wild, huge, BadValue

V(ret, mem) == [ret |-> ret, mem |-> mem]
MCValues == [ret : {0, 1}, mem : {"m", "n"}]
MCOutcomes ==
  [x \in Points |-> CASE x = p -> {V(0, "m")}
                      [] x = q -> {V(1, "m")}
                      [] x = slow -> {V(0, "n"), Timeout}
                      [] x = wild -> {MemFault}
                      [] x = huge -> {Timeout}]
D(args, ret, memory, space) ==
  [args |-> args, ret |-> ret, memory |-> memory, space |-> space]
MCSpecs ==
  {D(7, "i32", FALSE, {p}), D(0, "i32", FALSE, {p}), D(1, "i32", FALSE, {p}), D(1, "void", FALSE, {p, q}),
   D(1, "i32", FALSE, {p, q}), D(2, "void", TRUE, {p, slow}), D(1, "i32", FALSE, {p, wild})}
MCScoutPools == {<<q>>, <<wild, p>>, <<huge>>}
MCClaims == {V(0, "m"), V(1, "m"), CrashReport, BadValue}
=============================================================================
