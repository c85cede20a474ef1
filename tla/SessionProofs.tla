---------------------------- MODULE SessionProofs ----------------------------
(***************************************************************************)
(* Proofs about a worker's session (Session), for every set of requests    *)
(* and candidates, every original and every limit.                         *)
(*                                                                         *)
(* Two lemmas carry the argument.  What a request means decides its        *)
(* canonical form, so that the table of results answers every repeat; and  *)
(* two candidates have one fingerprint exactly when they are the same      *)
(* work, so that the guard's counts are counts of work.                    *)
(***************************************************************************)
EXTENDS Session, FiniteSetTheorems, TLAPS

\* Answered requests parse, and the table holds the canonical forms of such.
Answered ==
  /\ last.is \in Answers \ {"error"} => Parses(last.to)
  /\ \A q \in DOMAIN known : \E r \in Requests : Parses(r) /\ q = Canonical(r)

\* Each rejection was a submission.
Counted == \A c \in Bundles : rejected[c] <= used

SessionInv ==
  /\ TypeOK /\ RecordingsPaid /\ Answered /\ Counted
  /\ CorrectionsReachTheCheck /\ NoFurtherCheck

-----------------------------------------------------------------------------
(* Requests.                                                               *)

LEMMA CanonicalForm ==
  ASSUME NEW r \in Requests, r.op = "experiment"
  PROVE  /\ Canonical(r) = [op |-> "experiment", argv |-> Default(r.argv, NoArgs),
                            stdin |-> Default(r.stdin, NoInput),
                            quiet |-> Default(r.quiet, "no"), keys |-> r.keys]
<1>1. r = [op |-> r.op, argv |-> r.argv, stdin |-> r.stdin, quiet |-> r.quiet,
           keys |-> r.keys]
  BY RequestAssumption
<1>2. Canonical(r) = [r EXCEPT !.argv = Default(r.argv, NoArgs),
                               !.stdin = Default(r.stdin, NoInput),
                               !.quiet = Default(r.quiet, "no")]
  BY DEF Canonical
<1>. QED  BY <1>1, <1>2

LEMMA DefaultTwice ==
  ASSUME NEW f, NEW v
  PROVE  Default(Default(f, v), v) = Default(f, v)
BY DEF Default

\* Spelling out the defaults changes neither what is run nor what is asked.
LEMMA CanonicalMeansTheSame ==
  ASSUME NEW r \in Requests
  PROVE  Subject(Canonical(r)) = Subject(r) /\ Meaning(Canonical(r)) = Meaning(r)
<1>1. CASE r.op = "experiment"
  <2>. DEFINE q == Canonical(r)
  <2>1. /\ q.op = "experiment" /\ q.argv = Default(r.argv, NoArgs)
        /\ q.stdin = Default(r.stdin, NoInput) /\ q.quiet = Default(r.quiet, "no")
    BY <1>1, CanonicalForm
  <2>. HIDE DEF q
  <2>2. Subject(q) = Subject(r)
    BY <1>1, <2>1, DefaultTwice DEF Subject
  <2>3. Meaning(q) = Meaning(r)
    BY <1>1, <2>1, <2>2, DefaultTwice DEF Meaning
  <2>. QED  BY <2>2, <2>3 DEF q
<1>2. CASE r.op # "experiment"
  BY <1>2 DEF Canonical
<1>. QED  BY <1>1, <1>2

\* Requests that parse and mean the same have one canonical form.
LEMMA MeaningDecides ==
  ASSUME NEW r \in Requests, NEW s \in Requests, Parses(r), Parses(s),
         Meaning(r) = Meaning(s)
  PROVE  Canonical(r) = Canonical(s)
<1>1. Subject(r) = Subject(s)
  BY DEF Meaning
<1>2. ASSUME NEW x \in Requests, Parses(x), x.op = "experiment"
      PROVE  x.keys = "known" /\ Default(x.quiet, "no") \in {"yes", "no"}
  <2>1. Canonical(x).quiet = Default(x.quiet, "no")
    BY <1>2, CanonicalForm
  <2>2. Default(x.quiet, "no") # Junk
    BY <1>2, <2>1 DEF Parses, ParsesExperiment
  <2>3. x.quiet \in {Absent, Junk, "yes", "no"}
    BY <1>2, RequestAssumption
  <2>. QED  BY <1>2, <2>2, <2>3 DEF Default, Parses
<1>3. ASSUME NEW x \in Requests, x.op # "experiment"
      PROVE  /\ x.op = "experiment_function" /\ Canonical(x) = x
             /\ x = [op |-> x.op, params |-> x.params, case |-> x.case, keys |-> x.keys]
  BY <1>3, RequestAssumption DEF Canonical
<1>4. (r.op = "experiment") <=> (s.op = "experiment")
  BY <1>2 DEF Meaning
<1>5. CASE r.op = "experiment" /\ s.op = "experiment"
  <2>1. Default(r.quiet, "no") = Default(s.quiet, "no")
    BY <1>5 DEF Meaning
  <2>2. /\ Default(r.argv, NoArgs) = Default(s.argv, NoArgs)
        /\ Default(r.stdin, NoInput) = Default(s.stdin, NoInput)
    BY <1>1, <1>5 DEF Subject
  <2>3. r.keys = s.keys
    BY <1>2, <1>5
  <2>. QED  BY <1>5, <2>1, <2>2, <2>3, CanonicalForm
<1>6. CASE r.op # "experiment" /\ s.op # "experiment"
  <2>1. r.params = s.params /\ r.case = s.case
    BY <1>1, <1>6 DEF Subject
  <2>2. r.keys = s.keys
    BY DEF Parses
  <2>. QED  BY <1>3, <1>6, <2>1, <2>2
<1>. QED  BY <1>4, <1>5, <1>6

LEMMA ParsedIsNominable ==
  ASSUME NEW r \in Requests, Parses(r), r.op = "experiment"
  PROVE  Nominable(Subject(r))
<1>1. /\ Canonical(r).argv = Default(r.argv, NoArgs)
      /\ Canonical(r).stdin = Default(r.stdin, NoInput)
  BY CanonicalForm
<1>. DEFINE a == Default(r.argv, NoArgs)
            i == Default(r.stdin, NoInput)
<1>2. FitsArgv(a) /\ FitsStdin(i)
  BY <1>1, DefaultTwice DEF Parses, ParsesExperiment
<1>3. i \in [chars : Nat, bytes : Nat]
  <2>1. r.stdin \in {Absent, Junk} \cup [chars : Nat, bytes : Nat]
    BY RequestAssumption
  <2>2. i # Junk
    BY <1>2 DEF FitsStdin
  <2>. QED  BY <2>1, <2>2 DEF Default, NoInput
<1>4. Subject(r) = [argv |-> a, stdin |-> i]
  BY DEF Subject
<1>. HIDE DEF a, i
<1>5. i.bytes \in Nat /\ i.bytes <= MAX_STDIN
  BY <1>2, <1>3 DEF FitsStdin
<1>6. 2 * i.bytes <= 2 * MAX_STDIN
  BY <1>5, SessionAssumption
<1>. QED  BY <1>2, <1>4, <1>6 DEF Nominable, FitsArgv

-----------------------------------------------------------------------------
(* Candidates.                                                             *)

LEMMA PairsDiffer ==
  ASSUME NEW a, NEW b, NEW e, NEW f, a # e
  PROVE  <<a, b>> # <<e, f>>
OBVIOUS

\* The fingerprint tells work apart, and nothing else.
LEMMA FingerprintIsWork ==
  ASSUME NEW c \in Bundles
  PROVE  Exact(c) = SameWork(c)
<1>1. ASSUME NEW d \in Bundles
      PROVE  Normalize(d) = Normalize(c) <=> d \in SameWork(c)
  <2>1. \A x \in Bundles :
          /\ x.form \in {"files", "malformed"} /\ x.text # "raw"
          /\ x.form = "malformed" => x.decl = Absent
          /\ x.decl # Absent => x.decl = [value |-> x.decl.value, layout |-> x.decl.layout]
    BY BundleAssumption
  <2>2. \A x \in Bundles :
          \/ x.form = "malformed" /\ Normalize(x) = <<"raw", x.text>>
          \/ x.form = "files" /\ x.decl = Absent /\ Normalize(x) = <<x.text>>
          \/ /\ x.form = "files" /\ x.decl # Absent /\ x.decl.value = Junk
             /\ Normalize(x) = <<x.text, "raw", x.decl.layout>>
          \/ /\ x.form = "files" /\ x.decl # Absent /\ x.decl.value # Junk
             /\ Normalize(x) = <<x.text, x.decl.value>>
    BY <2>1 DEF Normalize
  <2>3. ASSUME Normalize(d) = Normalize(c) PROVE d \in SameWork(c)
    <3>1. CASE c.form = "malformed" /\ Normalize(c) = <<"raw", c.text>>
      <4>0. <<"raw", c.text>> # <<d.text, d.decl.value>>
        BY <2>1, PairsDiffer
      <4>1. d.form = "malformed" /\ Normalize(d) = <<"raw", d.text>>
        BY <2>2, <2>3, <3>1, <4>0
      <4>2. d.text = c.text
        BY <2>3, <3>1, <4>1
      <4>. QED  BY <2>1, <3>1, <4>1, <4>2 DEF SameWork
    <3>2. CASE c.form = "files" /\ c.decl = Absent /\ Normalize(c) = <<c.text>>
      <4>1. d.form = "files" /\ d.decl = Absent /\ Normalize(d) = <<d.text>>
        BY <2>2, <2>3, <3>2
      <4>2. d.text = c.text
        BY <2>3, <3>2, <4>1
      <4>. QED  BY <3>2, <4>1, <4>2 DEF SameWork
    <3>3. CASE /\ c.form = "files" /\ c.decl # Absent /\ c.decl.value = Junk
               /\ Normalize(c) = <<c.text, "raw", c.decl.layout>>
      <4>1. /\ d.form = "files" /\ d.decl # Absent /\ d.decl.value = Junk
            /\ Normalize(d) = <<d.text, "raw", d.decl.layout>>
        BY <2>2, <2>3, <3>3
      <4>2. d.text = c.text /\ d.decl.layout = c.decl.layout
        BY <2>3, <3>3, <4>1
      <4>3. d.decl = c.decl
        BY <2>1, <3>3, <4>1, <4>2
      <4>. QED  BY <3>3, <4>1, <4>2, <4>3 DEF SameWork
    <3>4. CASE /\ c.form = "files" /\ c.decl # Absent /\ c.decl.value # Junk
               /\ Normalize(c) = <<c.text, c.decl.value>>
      <4>0. <<"raw", d.text>> # <<c.text, c.decl.value>>
        BY <2>1, PairsDiffer
      <4>1. /\ d.form = "files" /\ d.decl # Absent /\ d.decl.value # Junk
            /\ Normalize(d) = <<d.text, d.decl.value>>
        BY <2>2, <2>3, <3>4, <4>0
      <4>2. d.text = c.text /\ d.decl.value = c.decl.value
        BY <2>3, <3>4, <4>1
      <4>. QED  BY <3>4, <4>1, <4>2 DEF SameWork
    <3>. QED  BY <2>2, <3>1, <3>2, <3>3, <3>4
  <2>4. d \in SameWork(c) => Normalize(d) = Normalize(c)
    BY <2>1, <2>2 DEF SameWork
  <2>. QED  BY <2>3, <2>4
<1>. QED  BY <1>1 DEF Exact, SameWork

\* A rejection adds one to the count of whatever holds its candidate.
LEMMA RejectionCounts ==
  ASSUME rejected \in [Bundles -> 0..SUBMISSIONS], NEW c \in Bundles,
         rejected[c] < SUBMISSIONS, rejected' = [rejected EXCEPT ![c] = @ + 1],
         NEW S, S \subseteq Bundles, c \in S
  PROVE  Total(S) \in Nat /\ Total(S)' = Total(S) + 1
<1>. DEFINE n == rejected[c] + 1
            new == <<c, n>>
<1>1. rejected[c] \in Nat /\ SUBMISSIONS \in Nat /\ n \in 1..SUBMISSIONS
  BY SessionAssumption
<1>2. IsFiniteSet(Rejections(S))
  <2>1. IsFiniteSet(S) /\ IsFiniteSet(1..SUBMISSIONS)
    BY <1>1, BundleAssumption, FS_Subset, FS_Interval
  <2>2. IsFiniteSet(S \X (1..SUBMISSIONS))
    BY <2>1, FS_Product
  <2>. QED  BY <2>2, FS_Subset DEF Rejections
<1>3. new \notin Rejections(S)
  BY <1>1 DEF Rejections
<1>4. Rejections(S)' = Rejections(S) \cup {new}
  <2>1. ASSUME NEW p \in S \X (1..SUBMISSIONS)
        PROVE  p[2] <= rejected'[p[1]] <=> (p[2] <= rejected[p[1]] \/ p = new)
    <3>1. p = <<p[1], p[2]>> /\ p[1] \in S /\ p[2] \in Nat /\ p[1] \in Bundles
      OBVIOUS
    <3>2. CASE p[1] # c
      BY <3>1, <3>2
    <3>3. CASE p[1] = c
      <4>1. rejected'[p[1]] = n
        BY <3>3
      <4>2. p = new <=> p[2] = n
        BY <3>1, <3>3
      <4>3. p[2] <= n <=> (p[2] <= rejected[c] \/ p[2] = n)
        BY <1>1, <3>1
      <4>. QED  BY <3>3, <4>1, <4>2, <4>3
    <3>. QED  BY <3>2, <3>3
  <2>2. new \in S \X (1..SUBMISSIONS)
    BY <1>1
  <2>. HIDE DEF new
  <2>. QED  BY <2>1, <2>2 DEF Rejections
<1>. HIDE DEF new
<1>5. Cardinality(Rejections(S) \cup {new}) = Cardinality(Rejections(S)) + 1
  BY <1>2, <1>3, FS_AddElement
<1>6. Cardinality(Rejections(S)) \in Nat
  BY <1>2, FS_CardinalityType
<1>. QED  BY <1>4, <1>5, <1>6 DEF Total

-----------------------------------------------------------------------------
(* The steps of a session.                                                 *)

LEMMA SessionInit == Init => SessionInv
<1>. SUFFICES ASSUME Init PROVE SessionInv
  OBVIOUS
<1>1. /\ last.is = "none" /\ last.to = Absent /\ DOMAIN known = {} /\ spent = 0 /\ runs = 0
      /\ rejected = [c \in Bundles |-> 0] /\ used = 0 /\ kind \in {"function", "program"}
  BY DEF Init
<1>2. 0 \in 0..SUBMISSIONS /\ 0 <= BUDGET
  BY SessionAssumption
<1>3. TypeOK
  BY <1>1, <1>2 DEF TypeOK, Answers
<1>4. RecordingsPaid /\ Answered /\ Counted
  BY <1>1, <1>2 DEF RecordingsPaid, Answered, Counted, Answers
<1>5. CorrectionsReachTheCheck /\ NoFurtherCheck
  BY <1>1 DEF CorrectionsReachTheCheck, NoFurtherCheck
<1>. QED  BY <1>3, <1>4, <1>5 DEF SessionInv

\* An answer keeps the invariant when the table and the account are in order.
LEMMA AnswerKeeps ==
  ASSUME SessionInv, NEW r \in Requests, NEW status \in Answers, NEW trace,
         Answer(r, status, trace), status # "error" => Parses(r),
         \A q \in DOMAIN known' :
           /\ known'[q] \in Outcomes[Subject(q)]
           /\ \E x \in Requests : Parses(x) /\ q = Canonical(x),
         spent' \in Nat, runs' = spent', spent' <= BUDGET
  PROVE  SessionInv'
<1>1. /\ last'.to = r /\ last'.is = status /\ UNCHANGED <<kind, rejected, used>>
  BY DEF Answer
<1>2. TypeOK'
  BY <1>1 DEF SessionInv, TypeOK, Answers
<1>3. RecordingsPaid' /\ Answered' /\ Counted'
  BY <1>1 DEF SessionInv, RecordingsPaid, Answered, Counted
<1>4. CorrectionsReachTheCheck' /\ NoFurtherCheck'
  BY <1>1 DEF CorrectionsReachTheCheck, NoFurtherCheck, Answers
<1>. QED  BY <1>2, <1>3, <1>4 DEF SessionInv

\* What leaves table and account alone: errors, reuse and refusals.
LEMMA FreeAnswersKeep ==
  ASSUME SessionInv, NEW r \in Requests,
         Error(r) \/ Reuse(r) \/ Refuse(r) \/ NoFunction(r)
  PROVE  SessionInv'
<1>1. UNCHANGED <<known, spent, runs>>
  BY DEF Error, Reuse, Refuse, NoFunction
<1>2. /\ \A q \in DOMAIN known :
           /\ known[q] \in Outcomes[Subject(q)]
           /\ \E x \in Requests : Parses(x) /\ q = Canonical(x)
      /\ spent \in Nat /\ runs = spent /\ spent <= BUDGET
  BY DEF SessionInv, TypeOK, Answered, RecordingsPaid
<1>3. \E status \in Answers : \E trace :
        Answer(r, status, trace) /\ (status # "error" => Parses(r))
  BY DEF Error, Reuse, Refuse, NoFunction, Asks, Answers
<1>. QED  BY <1>1, <1>2, <1>3, AnswerKeeps

LEMMA ExecuteKeeps ==
  ASSUME SessionInv, NEW r \in Requests, Execute(r)
  PROVE  SessionInv'
<1>1. Parses(r) /\ spent + 1 <= BUDGET
  BY DEF Execute, Asks, Reserved
<1>2. PICK t \in Outcomes[Subject(r)], u \in Outcomes[Subject(r)] :
        LET x == Recorded(t, u) IN
        /\ spent' = spent + x.usage /\ runs' = runs + 1
        /\ known' = IF x.status = "succeeded"
                    THEN [q \in DOMAIN known \cup {Canonical(r)} |->
                            IF q = Canonical(r) THEN t ELSE known[q]]
                    ELSE known
        /\ Answer(r, x.status, IF x.status = "succeeded" THEN t ELSE NoTrace)
  BY DEF Execute
<1>3. Recorded(t, u).usage = 1 /\ Recorded(t, u).status \in {"succeeded", "failed"}
  BY DEF Recorded
<1>4. spent \in Nat /\ runs = spent
  BY DEF SessionInv, TypeOK, RecordingsPaid
<1>5. spent' \in Nat /\ runs' = spent' /\ spent' <= BUDGET
  BY <1>1, <1>2, <1>3, <1>4
<1>6. ASSUME NEW q \in DOMAIN known'
      PROVE  /\ known'[q] \in Outcomes[Subject(q)]
             /\ \E x \in Requests : Parses(x) /\ q = Canonical(x)
  <2>1. \/ q \in DOMAIN known /\ known'[q] = known[q]
        \/ q = Canonical(r) /\ known'[q] = t
    BY <1>2, <1>6
  <2>2. CASE q \in DOMAIN known /\ known'[q] = known[q]
    BY <2>2 DEF SessionInv, TypeOK, Answered
  <2>3. CASE q = Canonical(r) /\ known'[q] = t
    BY <1>1, <2>3, CanonicalMeansTheSame
  <2>. QED  BY <2>1, <2>2, <2>3
<1>7. \E status \in Answers : \E trace : Answer(r, status, trace)
  BY <1>2, <1>3 DEF Answers
<1>. QED  BY <1>1, <1>5, <1>6, <1>7, AnswerKeeps

LEMMA SubmitKeeps ==
  ASSUME SessionInv, NEW c \in Bundles, Submit(c)
  PROVE  SessionInv'
<1>1. PICK is \in {"duplicate", "rejected", "accepted"} :
        /\ is = "duplicate" => Duplicate(c)
        /\ is # "duplicate" => ~Duplicate(c)
        /\ last' = [to |-> c, is |-> is, trace |-> NoTrace]
        /\ rejected' = IF is = "rejected" THEN [rejected EXCEPT ![c] = @ + 1] ELSE rejected
  BY DEF Submit
<1>2. /\ used < SUBMISSIONS /\ used' = used + 1 /\ UNCHANGED <<kind, known, spent, runs>>
      /\ last'.to = c /\ last'.is = is
  BY <1>1 DEF Submit, SubmissionsLeft
<1>3. /\ rejected \in [Bundles -> 0..SUBMISSIONS] /\ used \in 0..SUBMISSIONS
      /\ SUBMISSIONS \in Nat /\ \A d \in Bundles : rejected[d] <= used
  BY SessionAssumption DEF SessionInv, TypeOK, Counted
<1>4. used' \in 0..SUBMISSIONS
  BY <1>2, <1>3
<1>5. ASSUME NEW d \in Bundles PROVE rejected'[d] <= used' /\ rejected'[d] \in 0..SUBMISSIONS
  <2>1. rejected[d] \in Nat /\ rejected[d] <= used
    BY <1>3
  <2>2. rejected'[d] = rejected[d] \/ rejected'[d] = rejected[d] + 1
    BY <1>1, <1>3
  <2>. QED  BY <1>2, <1>3, <2>1, <2>2
<1>6. rejected' \in [Bundles -> 0..SUBMISSIONS]
  BY <1>1, <1>3, <1>5
<1>7. TypeOK'
  BY <1>2, <1>4, <1>6 DEF SessionInv, TypeOK, Answers
<1>8. RecordingsPaid' /\ Answered' /\ Counted'
  BY <1>2, <1>5 DEF SessionInv, RecordingsPaid, Answered, Counted, Answers
<1>9. CorrectionsReachTheCheck'
  <2>. SUFFICES ASSUME is = "duplicate"
                PROVE  \/ Total(SameWork(c))' >= EXACT_REPEATS
                       \/ Total(Near(c))' >= NEAR_REPEATS
    BY <1>2 DEF CorrectionsReachTheCheck
  <2>1. rejected' = rejected
    BY <1>1
  <2>2. \A S : Total(S)' = Total(S)
    BY <2>1 DEF Total, Rejections
  <2>3. Total(SameWork(c)) >= EXACT_REPEATS \/ Total(Near(c)) >= NEAR_REPEATS
    BY <1>1, FingerprintIsWork DEF Duplicate
  <2>. QED  BY <2>2, <2>3
<1>10. NoFurtherCheck'
  <2>. SUFFICES ASSUME is = "rejected"
                PROVE  /\ Total(SameWork(c))' <= EXACT_REPEATS
                       /\ Total(Near(c))' <= NEAR_REPEATS
    BY <1>2 DEF NoFurtherCheck
  <2>1. ~(Total(SameWork(c)) >= EXACT_REPEATS) /\ ~(Total(Near(c)) >= NEAR_REPEATS)
    BY <1>1, FingerprintIsWork DEF Duplicate
  <2>2. SameWork(c) \subseteq Bundles /\ c \in SameWork(c)
    BY DEF SameWork
  <2>3. Near(c) \subseteq Bundles /\ c \in Near(c)
    BY CloseAssumption DEF Near
  <2>4. rejected[c] < SUBMISSIONS
    BY <1>2, <1>3
  <2>5. Total(SameWork(c)) \in Nat /\ Total(SameWork(c))' = Total(SameWork(c)) + 1
    BY <1>1, <1>3, <2>2, <2>4, RejectionCounts
  <2>6. Total(Near(c)) \in Nat /\ Total(Near(c))' = Total(Near(c)) + 1
    BY <1>1, <1>3, <2>3, <2>4, RejectionCounts
  <2>. QED  BY <2>1, <2>5, <2>6, SessionAssumption
<1>. QED  BY <1>7, <1>8, <1>9, <1>10 DEF SessionInv

LEMMA SessionStep == SessionInv /\ [Next]_vars => SessionInv'
<1>. SUFFICES ASSUME SessionInv, [Next]_vars PROVE SessionInv'
  OBVIOUS
<1>1. CASE UNCHANGED vars
  <2>1. TypeOK' /\ RecordingsPaid' /\ Answered' /\ Counted'
    BY <1>1 DEF vars, SessionInv, TypeOK, RecordingsPaid, Answered, Counted
  <2>2. CorrectionsReachTheCheck' /\ NoFurtherCheck'
    BY <1>1 DEF vars, SessionInv, CorrectionsReachTheCheck, NoFurtherCheck, Total, Rejections
  <2>. QED  BY <2>1, <2>2 DEF SessionInv
<1>2. CASE Next
  BY <1>2, FreeAnswersKeep, ExecuteKeeps, SubmitKeeps DEF Next
<1>. QED  BY <1>1, <1>2

\* The inductive invariant of a session.
THEOREM SessionInvariant == Spec => []SessionInv
BY SessionInit, SessionStep, PTL DEF Spec

\* Type correctness: the table holds traces the original can give, and no more
\* is submitted than the task allows.
THEOREM SessionTypeCorrect == Spec => []TypeOK
<1>1. SessionInv => TypeOK
  BY DEF SessionInv
<1>. QED  BY <1>1, SessionInvariant, PTL

\* The probe budget cannot be bypassed (operations.py's execute and its
\* reservation): every run of the original is charged, flaky or not.
THEOREM SessionRecordingsPaid == Spec => []RecordingsPaid
<1>1. SessionInv => RecordingsPaid
  BY DEF SessionInv
<1>. QED  BY <1>1, SessionInvariant, PTL

\* An input the host accepted for an experiment is within the limits of
\* cases.json: whatever was probed can be nominated.
THEOREM SessionProbedCanBeNominated == Spec => []ProbedCanBeNominated
<1>1. ASSUME SessionInv PROVE ProbedCanBeNominated
  <2>. SUFFICES ASSUME last.is \in Answers \ {"error"}, last.to.op = "experiment"
                PROVE  Nominable(Subject(last.to))
    BY DEF ProbedCanBeNominated
  <2>1. last.to \in Requests /\ Parses(last.to)
    BY <1>1 DEF SessionInv, TypeOK, Answered
  <2>. QED  BY <2>1, ParsedIsNominable
<1>. QED  BY <1>1, SessionInvariant, PTL

\* A submission is refused as a duplicate only when this very work was rejected
\* often enough, or the small edits of it, in the source or in the declaration,
\* are used up (normalize, GUARD).
THEOREM SessionCorrectionsReachTheCheck == Spec => []CorrectionsReachTheCheck
<1>1. SessionInv => CorrectionsReachTheCheck
  BY DEF SessionInv
<1>. QED  BY <1>1, SessionInvariant, PTL

\* Comments, whitespace and JSON layout buy no check beyond EXACT_REPEATS, and
\* small edits none beyond NEAR_REPEATS.
THEOREM SessionNoFurtherCheck == Spec => []NoFurtherCheck
<1>1. SessionInv => NoFurtherCheck
  BY DEF SessionInv
<1>. QED  BY <1>1, SessionInvariant, PTL

\* An identical request is free and shows the trace of the first time, however
\* it spells its defaults and whatever the budget has left.
THEOREM SessionRepeatsFree == Spec => RepeatsFree
<1>1. ASSUME SessionInv, [Next]_vars
      PROVE  [last'.is \in Answers \ {"error"} =>
                \A q \in DOMAIN known :
                  Meaning(last'.to) = Meaning(q) =>
                    spent' = spent /\ runs' = runs /\ last'.trace = known[q]]_vars
  <2>. SUFFICES ASSUME Next, last'.is \in Answers \ {"error"}, NEW q \in DOMAIN known,
                       Meaning(last'.to) = Meaning(q)
                PROVE  spent' = spent /\ runs' = runs /\ last'.trace = known[q]
    BY <1>1
  <2>1. ASSUME NEW c \in Bundles, Submit(c) PROVE FALSE
    <3>1. PICK is \in {"duplicate", "rejected", "accepted"} :
            last' = [to |-> c, is |-> is, trace |-> NoTrace]
      BY <2>1 DEF Submit
    <3>2. last'.is \in {"duplicate", "rejected", "accepted"}
      BY <3>1
    <3>. QED  BY <3>2 DEF Answers
  <2>2. PICK r \in Requests :
          Error(r) \/ Reuse(r) \/ Refuse(r) \/ NoFunction(r) \/ Execute(r)
    BY <2>1 DEF Next
  <2>3. last'.to = r
    BY <2>2 DEF Error, Reuse, Refuse, NoFunction, Execute, Answer
  <2>4. ~Error(r)
    BY DEF Error, Answer
  <2>5. Parses(r)
    BY <2>2, <2>4 DEF Reuse, Refuse, NoFunction, Execute, Asks
  <2>6. PICK s \in Requests : Parses(s) /\ q = Canonical(s)
    BY <1>1 DEF SessionInv, Answered
  <2>7. Meaning(r) = Meaning(s)
    BY <2>3, <2>6, CanonicalMeansTheSame
  <2>8. Canonical(r) = q
    BY <2>5, <2>6, <2>7, MeaningDecides
  <2>9. Reuse(r)
    BY <2>2, <2>4, <2>8 DEF Refuse, NoFunction, Execute, Asks
  <2>. QED  BY <2>8, <2>9 DEF Reuse, Answer
<1>. QED  BY <1>1, SessionInvariant, PTL DEF Spec, RepeatsFree
=============================================================================
