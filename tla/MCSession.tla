----------------------------- MODULE MCSession -------------------------------
(* Requests at and just beyond each limit, in several spellings, on an      *)
(* original that is steady on the empty input and varies on a full one and  *)
(* in one of its calls; a source with comments, layouts and declarations of *)
(* every kind, and small edits of it.                                       *)
EXTENDS Session

Experiment(argv, stdin, quiet) ==
  [op |-> "experiment", argv |-> argv, stdin |-> stdin, quiet |-> quiet, keys |-> "known"]
Argv(n, len, nul) == [n |-> n, len |-> len, nul |-> nul]
Stdin(chars, bytes) == [chars |-> chars, bytes |-> bytes]
Full == Argv(MAX_ARGS, MAX_ARG, "no")
Call(kind_, form, n, nul) ==
  [op |-> "experiment_function", params |-> [x |-> kind_],
   case |-> [x |-> [form |-> form, n |-> n, nul |-> nul]], keys |-> "known"]

MCRequests ==
  {Experiment(Absent, Absent, Absent), Experiment(NoArgs, Absent, "no"),
   Experiment(Full, Stdin(MAX_STDIN, MAX_STDIN), "no"),
   Experiment(Full, Stdin(MAX_STDIN, MAX_STDIN), "yes"),
   Experiment(NoArgs, Stdin(MAX_STDIN, MAX_STDIN + 1), "no"),
   Experiment(Argv(MAX_ARGS + 1, 1, "no"), Absent, "no"),
   Experiment(Argv(1, 1, "yes"), Absent, Junk),
   [Experiment(Absent, Absent, Absent) EXCEPT !.keys = "stray"],
   Call("buffer_i32", "list", MAX_BUFFER_LEN, "no"),
   Call("buffer_i32", "int", MAX_BUFFER_LEN + 1, "no"),
   Call("cstring", "hex", MAX_ARG, "yes"), Call("i32", "hex", 1, "no")}

MCOutcomes ==
  [i \in {Subject(r) : r \in MCRequests} |->
     IF "argv" \in DOMAIN i
     THEN IF i.argv = Full THEN {"a", "b"} ELSE {"a"}
     ELSE IF i.params.x = "cstring" THEN {"c", "d"} ELSE {"c"}]

Files(text, noise, decl) == [form |-> "files", text |-> text, noise |-> noise, decl |-> decl]
Decl(value, layout) == [value |-> value, layout |-> layout]
MCBundles ==
  {Files("m", 0, Decl("good", 0)), Files("m", 1, Decl("good", 1)),
   Files("m", 0, Decl("other", 0)), Files("m", 0, Decl(Junk, 0)), Files("m", 1, Absent),
   Files("m1", 0, Absent), Files("m2", 0, Absent), [form |-> "malformed", text |-> "m", noise |-> 0, decl |-> Absent]}

\* Small edits: a digit of the source, or a declaration for another.
MCClose(f, g) ==
  f = g \/ ({f[1], g[1]} \subseteq {"m", "m1", "m2"} /\ Len(f) = Len(g))
=============================================================================
