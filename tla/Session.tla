------------------------------- MODULE Session -------------------------------
(***************************************************************************)
(* One worker on one task: probes of the original through the experiment   *)
(* operations (operations.py), candidates packed by the submit helper and  *)
(* told apart by the duplicate guard's fingerprint (domain.normalize).     *)
(*                                                                         *)
(* Budgets, the table of reusable results and the guard's counting are the *)
(* harness's (Warranted), modelled from how the domain uses them and from  *)
(* its tests: a request reserves before it runs and is charged what it     *)
(* reports; an identical request is answered from the table; a candidate   *)
(* is refused as a duplicate after EXACT_REPEATS rejections of the same    *)
(* fingerprint or NEAR_REPEATS of ones a small edit away (Close), whether  *)
(* the edit is to the source or to the declaration.                        *)
(*                                                                         *)
(* An argv is known by its sizes, a stdin by its length in characters and  *)
(* in bytes; every limit is an explicit constant.                          *)
(***************************************************************************)
EXTENDS Naturals, Sequences, FiniteSets

CONSTANTS Requests,   \* the requests a worker may print, as it spells them
          Bundles,    \* the candidates it may submit
          Outcomes,   \* Outcomes[i]: the traces two recordings may give
          Absent,     \* a field or a file that is not there
          Junk,       \* a value of the wrong type; text that is not JSON
          Close(_, _),\* fingerprints within the guard's edit distance
          MAX_ARGS, MAX_ARG, MAX_STDIN, MAX_BUFFER_LEN, BAREGS, I32,
          BUDGET,       \* probe units of the run
          SUBMISSIONS, EXACT_REPEATS, NEAR_REPEATS, WINDOW

ASSUME SessionAssumption ==
  /\ BUDGET \in Nat
  /\ EXACT_REPEATS \in Nat \ {0} /\ NEAR_REPEATS \in Nat \ {0}
  \* tasks.py: the guard's window is as long as a session
  /\ SUBMISSIONS \in Nat /\ WINDOW >= SUBMISSIONS
  /\ MAX_STDIN \in Nat

\* A request is a JSON object: an experiment with any of its optional fields
\* left out or of the wrong type, or a call with a case.
ASSUME RequestAssumption ==
  \A r \in Requests :
    \/ /\ r.op = "experiment"
       /\ r = [op |-> r.op, argv |-> r.argv, stdin |-> r.stdin, quiet |-> r.quiet,
               keys |-> r.keys]
       /\ r.stdin \in {Absent, Junk} \cup [chars : Nat, bytes : Nat]
       /\ r.quiet \in {Absent, Junk, "yes", "no"}
    \/ /\ r.op = "experiment_function"
       /\ r = [op |-> r.op, params |-> r.params, case |-> r.case, keys |-> r.keys]

\* A malformed result.json declares nothing; the mark put before its bytes
\* begins no source.
ASSUME BundleAssumption ==
  /\ IsFiniteSet(Bundles)
  /\ \A c \in Bundles :
       /\ c.form \in {"files", "malformed"} /\ c.text # "raw"
       /\ c.form = "malformed" => c.decl = Absent
       /\ c.decl # Absent => c.decl = [value |-> c.decl.value, layout |-> c.decl.layout]

VARIABLES
  kind,     \* "function" or "program": whether task.json names a function
  known,    \* the table of reusable results: canonical request -> trace
  spent,    \* probe units charged
  runs,     \* requests for which the host ran the original
  rejected, \* rejected[c]: rejections of candidate c
  used,     \* submissions used
  last      \* the last answer or decision: [to, is, trace]

vars == <<kind, known, spent, runs, rejected, used, last>>

NoTrace == "none"
Init ==
  /\ kind \in {"function", "program"}
  /\ known = [q \in {} |-> NoTrace] /\ spent = 0 /\ runs = 0
  /\ rejected = [c \in Bundles |-> 0] /\ used = 0
  /\ last = [to |-> Absent, is |-> "none", trace |-> NoTrace]

-----------------------------------------------------------------------------
(* Parsing a request to its canonical form.                                *)

Default(field, value) == IF field = Absent THEN value ELSE field
NoArgs == [n |-> 0, len |-> 0, nul |-> "no"]
NoInput == [chars |-> 0, bytes |-> 0]

FitsArgv(argv) ==
  argv # Junk /\ argv.n <= MAX_ARGS /\ argv.len <= MAX_ARG /\ argv.nul = "no"
MutCountsCharacters(stdin) == stdin # Junk /\ stdin.chars <= MAX_STDIN
FitsStdin(stdin) == stdin # Junk /\ stdin.bytes <= MAX_STDIN

\* A function case is kept as it is spelt: the same bytes in other hex digits
\* are another request.
MutKeepsSpelling(r) == r
Canonical(r) ==
  IF r.op = "experiment"
  THEN [r EXCEPT !.argv = Default(@, NoArgs), !.stdin = Default(@, NoInput),
                 !.quiet = Default(@, "no")]
  ELSE r

ParsesExperiment(r) ==
  LET q == Canonical(r) IN
  /\ FitsArgv(Default(q.argv, NoArgs)) /\ FitsStdin(Default(q.stdin, NoInput))
  /\ q.quiet # Junk

\* A value v of [form, n, nul]: an integer, a list of n cells or n bytes of hex.
FitsValue(k, v) ==
  CASE k = "i32" -> v.form = "int" /\ v.n \in I32
    [] k = "buffer_i32" -> v.form \in {"int", "list"} /\ v.n \in 0..MAX_BUFFER_LEN
    [] k = "cstring" -> v.form = "hex" /\ v.n \in 1..MAX_ARG /\ v.nul = "yes"

\* One value per declared parameter, at most one parameter per register.
ParsesCase(r) ==
  /\ r.params # Junk /\ Cardinality(DOMAIN r.params) <= BAREGS
  /\ DOMAIN r.case = DOMAIN r.params
  /\ \A x \in DOMAIN r.params : FitsValue(r.params[x], r.case[x])

Parses(r) ==
  /\ r.keys = "known"
  /\ IF r.op = "experiment" THEN ParsesExperiment(r) ELSE ParsesCase(r)

-----------------------------------------------------------------------------
(* Answering a request; those of one command are answered one by one, in   *)
(* order.                                                                  *)

Answer(r, status, trace) ==
  /\ last' = [to |-> r, is |-> status, trace |-> trace]
  /\ UNCHANGED <<kind, rejected, used>>

Error(r) ==
  /\ ~Parses(r)
  /\ Answer(r, "error", NoTrace)
  /\ UNCHANGED <<known, spent, runs>>

Reuse(r) ==
  /\ Parses(r) /\ Canonical(r) \in DOMAIN known
  /\ Answer(r, "reused", known[Canonical(r)])
  /\ UNCHANGED <<known, spent, runs>>

\* reservation: one probe, whatever the request turns out to cost.
Asks(r) == Parses(r) /\ Canonical(r) \notin DOMAIN known
Reserved == spent + 1 <= BUDGET

Refuse(r) ==
  /\ Asks(r) /\ ~Reserved
  /\ Answer(r, "refused", NoTrace)
  /\ UNCHANGED <<known, spent, runs>>

\* Operations are offered in every task: a function call in a program task
\* runs nothing, fails and is not charged.
NoFunction(r) ==
  /\ Asks(r) /\ Reserved
  /\ r.op = "experiment_function" /\ kind = "program"
  /\ Answer(r, "failed", NoTrace)
  /\ UNCHANGED <<known, spent, runs>>

\* What an execution reports: two equal recordings are shown, a flaky original
\* is FAILED; both are charged.
MutFlakyIsFree(t, u) ==
  IF t = u THEN [status |-> "succeeded", usage |-> 1] ELSE [status |-> "failed", usage |-> 0]
Recorded(t, u) ==
  IF t = u THEN [status |-> "succeeded", usage |-> 1] ELSE [status |-> "failed", usage |-> 1]

\* What the original is run on: the program on an input (quiet only hides the
\* events), the function on a case.
Subject(q) ==
  IF q.op = "experiment"
  THEN [argv |-> Default(q.argv, NoArgs), stdin |-> Default(q.stdin, NoInput)]
  ELSE [params |-> q.params, case |-> q.case]

Execute(r) ==
  /\ Asks(r) /\ Reserved
  /\ r.op = "experiment_function" => kind = "function"
  /\ \E t, u \in Outcomes[Subject(r)] :
       LET x == Recorded(t, u) IN
       /\ spent' = spent + x.usage /\ runs' = runs + 1
       /\ known' = IF x.status = "succeeded"
                   THEN [q \in DOMAIN known \cup {Canonical(r)} |->
                           IF q = Canonical(r) THEN t ELSE known[q]]
                   ELSE known
       /\ Answer(r, x.status, IF x.status = "succeeded" THEN t ELSE NoTrace)

-----------------------------------------------------------------------------
(* Candidates.  A bundle is a malformed result.json, or a source (its text *)
(* and its comments and layout) with the task's declaration (a JSON value  *)
(* and its layout, Junk when it is not JSON, or Absent).                   *)

\* What the submit helper packs: a declaration that is JSON, and for a function
\* task never without one.  A worker may also write result.json by hand, so any
\* bundle can come; only these can be accepted.
Packs(c) ==
  /\ c.form = "files"
  /\ c.decl = Absent => kind = "program"
  /\ c.decl # Absent => c.decl.value # Junk

MutSourceOnly(c) == <<c.text>>
MutRawSource(c) == <<c.text, c.noise, c.decl>>
Normalize(c) ==
  IF c.form = "malformed" THEN <<"raw", c.text>>
  ELSE IF c.decl = Absent THEN <<c.text>>
  ELSE IF c.decl.value = Junk THEN <<c.text, "raw", c.decl.layout>>
  ELSE <<c.text, c.decl.value>>

ASSUME CloseAssumption == \A c \in Bundles : Close(Normalize(c), Normalize(c))

\* The guard, over the rejections of the session: the n-th of candidate c is
\* the pair <<c, n>>.
Rejections(S) == {p \in S \X (1..SUBMISSIONS) : p[2] <= rejected[p[1]]}
Total(S) == Cardinality(Rejections(S))
Exact(c) == {d \in Bundles : Normalize(d) = Normalize(c)}
Near(c) == {d \in Bundles : Close(Normalize(d), Normalize(c))}
Duplicate(c) == Total(Exact(c)) >= EXACT_REPEATS \/ Total(Near(c)) >= NEAR_REPEATS

MutOneMore == used <= SUBMISSIONS
SubmissionsLeft == used < SUBMISSIONS

Submit(c) ==
  /\ SubmissionsLeft
  /\ used' = used + 1
  /\ \E is \in IF Duplicate(c) THEN {"duplicate"}
               ELSE IF Packs(c) THEN {"rejected", "accepted"} ELSE {"rejected"} :
       /\ last' = [to |-> c, is |-> is, trace |-> NoTrace]
       /\ rejected' = IF is = "rejected" THEN [rejected EXCEPT ![c] = @ + 1] ELSE rejected
  /\ UNCHANGED <<kind, known, spent, runs>>

\* Acceptance ends the session.
Next ==
  /\ last.is # "accepted"
  /\ \/ \E r \in Requests :
          Error(r) \/ Reuse(r) \/ Refuse(r) \/ NoFunction(r) \/ Execute(r)
     \/ \E c \in Bundles : Submit(c)

Spec == Init /\ [][Next]_vars

-----------------------------------------------------------------------------
(* Properties.                                                             *)

Answers == {"error", "reused", "refused", "succeeded", "failed"}

\* Every variable has its type.
TypeOK ==
  /\ kind \in {"function", "program"}
  /\ \A q \in DOMAIN known : known[q] \in Outcomes[Subject(q)]
  /\ spent \in Nat /\ runs \in Nat
  /\ rejected \in [Bundles -> 0..SUBMISSIONS] /\ used \in 0..SUBMISSIONS
  /\ last.is = "none" => last.to = Absent
  /\ last.is \in Answers => last.to \in Requests
  /\ last.is \in {"duplicate", "rejected", "accepted"} => last.to \in Bundles
  /\ last.is \in Answers \cup {"none", "duplicate", "rejected", "accepted"}

\* The probe budget cannot be bypassed: the host never runs the original for
\* a request it does not charge, flaky or not, and never beyond the budget.
RecordingsPaid == runs = spent /\ spent <= BUDGET

\* The limits _parse_cases puts on a nominated case, stdin given as hex.
Nominable(i) ==
  /\ i.argv.n <= MAX_ARGS /\ i.argv.len <= MAX_ARG /\ i.argv.nul = "no"
  /\ 2 * i.stdin.bytes <= 2 * MAX_STDIN

\* Anything probed can be nominated: an input the host accepted for an
\* experiment is within the limits of cases.json, down to the byte.
ProbedCanBeNominated ==
  last.is \in Answers \ {"error"} /\ last.to.op = "experiment" =>
    Nominable(Subject(last.to))

Meaning(r) ==
  <<Subject(r), IF r.op = "experiment" THEN Default(r.quiet, "no") ELSE "call">>

\* An identical repeat is free and shows the trace of the first time, also
\* when it leaves out or spells out a default, comes later in the session or
\* finds the budget spent.
RepeatsFree ==
  [][last'.is \in Answers \ {"error"} =>
       \A q \in DOMAIN known :
         Meaning(last'.to) = Meaning(q) =>
           spent' = spent /\ runs' = runs /\ last'.trace = known[q]]_vars

\* The same source up to comments and layout, and the same declaration.
SameWork(c) ==
  {d \in Bundles :
     /\ d.form = c.form /\ d.text = c.text
     /\ \/ d.decl = c.decl
        \/ /\ Absent \notin {c.decl, d.decl}
           /\ c.decl.value = d.decl.value /\ c.decl.value # Junk}

\* A correction is a new candidate: a submission is refused unchecked only
\* when this very work, source and declaration, was rejected EXACT_REPEATS
\* times, or when NEAR_REPEATS rejections went to small edits of it.  The
\* latter also refuses a small correction of the source, as the guard means.
CorrectionsReachTheCheck ==
  last.is = "duplicate" =>
    \/ Total(SameWork(last.to)) >= EXACT_REPEATS
    \/ Total(Near(last.to)) >= NEAR_REPEATS

\* The guard bounds the checks a worker gets for one idea: the same work, in
\* whatever comments, whitespace and JSON layout, is checked at most
\* EXACT_REPEATS times, and work with its small edits at most NEAR_REPEATS.
\* (task.md promises less: "A model that differs from one already rejected only
\* in comments or whitespace ... is refused without a check", tasks.py:157-159,
\* while the guard and its test let one such repeat through.)
NoFurtherCheck ==
  last.is = "rejected" =>
    /\ Total(SameWork(last.to)) <= EXACT_REPEATS
    /\ Total(Near(last.to)) <= NEAR_REPEATS
=============================================================================
