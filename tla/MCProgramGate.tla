---------------------------- MODULE MCProgramGate ----------------------------
(* A small original: two usable inputs that differ observably, one whose    *)
(* recordings flip in an unobserved event, one that flips observably, and   *)
(* one that crashes.                                                        *)
EXTENDS ProgramGate

CONSTANTS plain, other, jittery, racy, broken

T(io, files, obs, rest) ==
  [io |-> io, files |-> files, obs |-> obs, rest |-> rest]
MCTraces ==
  [io : {"x", "crash"}, files : {"f", "g"}, obs : {<<>>, <<"w">>, <<"e">>, <<"n">>},
   rest : {0, 1}]
A == T("x", "f", <<"w">>, 0)
MCOutcomes ==
  [i \in Inputs |->
     CASE i = plain -> {A}
       [] i = other -> {T("x", "f", <<"e">>, 0)}
       [] i = jittery -> {A, T("x", "f", <<"w">>, 1)}
       [] i = racy -> {A, T("x", "f", <<>>, 0)}
       [] i = broken -> {T("crash", "f", <<>>, 0)}]

\* Forged traces with a deeply nested event: one observed, one of a crash.
MCBulky == {T("x", "f", <<"n">>, 0), T("crash", "f", <<>>, 1)}

\* A line that agrees with some truths and diverges from others, one that no
\* truth agrees with, the bulky ones, and each kind of line that is no trace.
MCClaims ==
  {A, T("x", "g", <<"w">>, 0), NotJson, BadShape, CompileLine} \cup MCBulky
=============================================================================
