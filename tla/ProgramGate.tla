----------------------------- MODULE ProgramGate -----------------------------
(***************************************************************************)
(* The program-replay check: one call of ProgramReplay.check judges one    *)
(* candidate model of a whole program against the original binary.         *)
(*                                                                         *)
(* The host parses the candidate and its nominated cases, records ground   *)
(* truth for each (twice, on the original), draws a hidden suite, replays  *)
(* the model on all the INPUTS in one contained job, and compares the      *)
(* lines the job printed with the truths the job never saw.                *)
(*                                                                         *)
(* What the provers and TLC do not need is abstract: an input is an        *)
(* element of Inputs, a stdin_hex text is one of the Spellings of its      *)
(* bytes, and Outcomes[i] is the set of canonical traces the original may  *)
(* yield on i (one element: a stable input; several: a flaky one).  The    *)
(* job is untrusted: unless the model is faithful it prints any Claims.    *)
(***************************************************************************)
EXTENDS Naturals, Sequences, FiniteSets, Candidate

CONSTANTS
  Inputs,       \* program inputs: (argv, stdin bytes)
  Spellings,    \* texts of the same stdin bytes: hex digits in either case
  Stream,       \* the inputs hidden_input_stream may yield
  Traces,       \* canonical traces, records [io, files, obs, rest]
  Crashes,      \* the io values whose exit_code is -1
  Outcomes,     \* Outcomes[i]: what recording the original on i may yield
  Claims,       \* the lines an unfaithful job may print
  Bulky,        \* claimed traces with an event no cap of _capped makes small
  NotJson, BadShape, CompileLine,  \* lines that are no trace
  BadCase,      \* a nominated case of the wrong shape
  HIDDEN_N,     \* distinct usable hidden inputs a submission must survive
  REDRAWS,      \* hidden draws per wanted hidden input (10 in the code)
  MAX_CASES,    \* nominated cases per submission
  MAX_LINES     \* bound on the lines of a job's output (its 256 KiB cap)

\* The draws hidden_suite makes at most.
DrawBudget == REDRAWS * HIDDEN_N

RawCases == [input : Inputs, text : Spellings]
Cases == [input : Inputs, trace : Traces]
Lines == Traces \cup {NotJson, BadShape, CompileLine}

ASSUME BoundsAssumption ==
  /\ HIDDEN_N \in Nat /\ REDRAWS \in Nat /\ MAX_CASES \in Nat
  /\ MAX_LINES \in Nat
ASSUME DataAssumption ==
  /\ Stream \subseteq Inputs
  /\ Outcomes \in [Inputs -> SUBSET Traces]
  /\ \A i \in Inputs : Outcomes[i] # {}
  /\ Claims \subseteq Lines
  /\ Bulky \subseteq Traces
ASSUME MarkerAssumption ==
  /\ {NotJson, BadShape, CompileLine} \cap Traces = {}
  /\ BadCase \notin RawCases

VARIABLES
  stage,      \* where the check is
  model,      \* does model.c reimplement the original?  (never read by the host)
  todo,       \* entries of cases.json still to parse
  cases,      \* parsed and deduplicated nominations
  rec,        \* nominated inputs with their ground truth
  hidden,     \* hidden inputs with their ground truth
  known,      \* inputs the hidden draw must not repeat
  discarded,  \* hidden draws found flaky or crashing (read by properties only)
  attempts,   \* hidden draws so far
  lines,      \* what the job printed
  exit,       \* how the job ended
  verdict     \* what check returned

vars == <<stage, model, todo, cases, rec, hidden, known, discarded,
          attempts, lines, exit, verdict>>

Stages == {"idle", "parse", "record", "draw", "replay", "judge", "done",
           "raised"}
Models == {"faithful", "forged"}
Exits == {"running", "exit0", "exit1", "timeout", "overflow"}
Divergences == {"io-mismatch", "files-mismatch", "event-divergence", "event-length"}
JobReasons == {"replay-timeout", "replay-output", "compile", "replay-fault"}
Reasons == Divergences \cup JobReasons \cup
           {"none", "candidate", "cases", "flaky-case", "hidden-starvation",
            "accepted"}
Points == {"none", "candidate", "recorded", "compile", "replay", "hidden", "passed"}
NoVerdict == [reason |-> "none", at |-> "none"]

Init ==
  /\ stage = "idle" /\ model = "none"
  /\ todo = <<>> /\ cases = <<>> /\ rec = <<>> /\ hidden = <<>>
  /\ known = {} /\ discarded = {} /\ attempts = 0
  /\ lines = <<>> /\ exit = "running" /\ verdict = NoVerdict

Return(reason, at) ==
  /\ stage' = "done"
  /\ verdict' = [reason |-> reason, at |-> at]

\* _capped bounds the length of every string, list and dict it is given and
\* not their depth: feedback that is still too large ends check with an
\* AssertionError, and no verdict.
Raise == stage' = "raised" /\ UNCHANGED verdict

-----------------------------------------------------------------------------
(* The candidate and its nominated cases.                                  *)

Seen(s, c) == \E i \in DOMAIN s : s[i] = c
InputsOf(s) == {s[i].input : i \in DOMAIN s}

CandidateFault(c) ==
  Malformed(c) \/ "model.c" \notin Names(c) \/ ~c.utf8 \/ "params.json" \in Names(c)

\* The entries of cases.json; without the file there are none.
Nominations(c) ==
  IF "cases.json" \in Names(c)
  THEN UNION {[1..n -> RawCases \cup {BadCase}] : n \in 0..(MAX_CASES + 1)}
  ELSE {<<>>}

Submit(c, m) ==
  /\ stage = "idle"
  /\ model' = m
  /\ \/ /\ CandidateFault(c)
        /\ Return("candidate", "candidate")
        /\ UNCHANGED todo
     \/ /\ ~CandidateFault(c)
        /\ \E s \in Nominations(c) :
             \/ /\ Len(s) > MAX_CASES
                /\ Return("cases", "candidate")
                /\ UNCHANGED todo
             \/ /\ Len(s) <= MAX_CASES
                /\ todo' = s
                /\ stage' = "parse"
                /\ UNCHANGED verdict
  /\ UNCHANGED <<cases, rec, hidden, known, discarded, attempts, lines, exit>>

\* One turn of the loop of _parse_cases: the dict is keyed by the argv and
\* the TEXT of stdin_hex.
ParseCase ==
  /\ stage = "parse" /\ todo # <<>>
  /\ todo' = Tail(todo)
  /\ IF Head(todo) = BadCase
     THEN Return("cases", "candidate") /\ UNCHANGED cases
     ELSE /\ cases' = IF Seen(cases, Head(todo)) THEN cases
                      ELSE Append(cases, Head(todo))
          /\ UNCHANGED <<stage, verdict>>
  /\ UNCHANGED <<model, rec, hidden, known, discarded, attempts, lines, exit>>

ParseDone ==
  /\ stage = "parse" /\ todo = <<>>
  /\ stage' = "record"
  /\ UNCHANGED <<model, todo, cases, rec, hidden, known, discarded,
                 attempts, lines, exit, verdict>>

-----------------------------------------------------------------------------
(* Ground truth: every input is recorded twice on the original.            *)

\* record_stable: the trace both recordings agree on.
Stable(a, b) == a = b

RecordCase ==
  /\ stage = "record" /\ Len(rec) < Len(cases)
  /\ LET i == cases[Len(rec) + 1].input IN
       \E a, b \in Outcomes[i] :
         \/ /\ ~Stable(a, b)
            /\ Return("flaky-case", "recorded")
            /\ UNCHANGED rec
         \/ /\ Stable(a, b)
            /\ rec' = Append(rec, [input |-> i, trace |-> a])
            /\ UNCHANGED <<stage, verdict>>
  /\ UNCHANGED <<model, todo, cases, hidden, known, discarded, attempts,
                 lines, exit>>

RecordDone ==
  /\ stage = "record" /\ Len(rec) = Len(cases)
  /\ stage' = "draw"
  /\ known' = InputsOf(rec)
  /\ UNCHANGED <<model, todo, cases, rec, hidden, discarded, attempts,
                 lines, exit, verdict>>

\* One turn of the loop of hidden_suite.  known.add precedes the recording,
\* so an input is recorded once, whatever the recordings say.
Wanting == stage = "draw" /\ Len(hidden) < HIDDEN_N
MutStopsOneShort == attempts + 1 < DrawBudget
MutDrawsOneMore == attempts <= DrawBudget
DrawsLeft == attempts < DrawBudget

MutRemembersUsableOnly(i, usable) == IF usable THEN known \cup {i} ELSE known
Remember(i, usable) == known \cup {i}

Usable(a, b) == Stable(a, b) /\ a.io \notin Crashes

MutRepeatsAreFree ==
  /\ Wanting /\ DrawsLeft
  /\ Stream \cap known # {}
  /\ UNCHANGED vars
DrawKnown ==
  /\ Wanting /\ DrawsLeft
  /\ Stream \cap known # {}
  /\ attempts' = attempts + 1
  /\ UNCHANGED <<stage, model, todo, cases, rec, hidden, known, discarded,
                 lines, exit, verdict>>

DrawFresh ==
  /\ Wanting /\ DrawsLeft
  /\ \E i \in Stream \ known :
       \E a, b \in Outcomes[i] :
         /\ known' = Remember(i, Usable(a, b))
         /\ \/ /\ Usable(a, b)
               /\ hidden' = Append(hidden, [input |-> i, trace |-> a])
               /\ UNCHANGED discarded
            \/ /\ ~Usable(a, b)
               /\ discarded' = discarded \cup {i}
               /\ UNCHANGED hidden
  /\ attempts' = attempts + 1
  /\ UNCHANGED <<stage, model, todo, cases, rec, lines, exit, verdict>>

DrawDone ==
  /\ stage = "draw"
  /\ Len(hidden) = HIDDEN_N \/ ~DrawsLeft
  /\ stage' = "replay"
  /\ UNCHANGED <<model, todo, cases, rec, hidden, known, discarded,
                 attempts, lines, exit, verdict>>

-----------------------------------------------------------------------------
(* The job: REPLAY compiles the model and prints one line per case input.  *)

MutHiddenFirst == hidden \o rec
Suite == rec \o hidden

ReplayLine ==
  /\ stage = "replay"
  /\ \/ /\ model = "faithful" /\ Len(lines) < Len(Suite)
        /\ \E t \in Outcomes[Suite[Len(lines) + 1].input] :
             lines' = Append(lines, t)
     \/ /\ model = "forged" /\ Len(lines) < MAX_LINES
        /\ \E l \in Claims : lines' = Append(lines, l)
  /\ UNCHANGED <<stage, model, todo, cases, rec, hidden, known, discarded,
                 attempts, exit, verdict>>

\* run_job always answers: its timeout kills a job that does not end itself.
JobExits(e) ==
  /\ stage = "replay"
  /\ model = "faithful" =>
       e \in {"timeout", "overflow"} \/ (e = "exit0" /\ Len(lines) = Len(Suite))
  /\ exit' = e
  /\ stage' = "judge"
  /\ UNCHANGED <<model, todo, cases, rec, hidden, known, discarded,
                 attempts, lines, verdict>>

-----------------------------------------------------------------------------
(* The judgement, in the order of check's early returns.                   *)

AllJson(ls) == \A i \in DOMAIN ls : ls[i] # NotJson
CompileReport(e, ls) ==
  e = "exit0" /\ AllJson(ls) /\ ls # <<>> /\ ls[1] = CompileLine

MutNoLengthCheck(e, ls, n) == e # "exit0" \/ \E i \in DOMAIN ls : ls[i] \notin Traces
ReplayFault(e, ls, n) ==
  \/ e # "exit0"
  \/ Len(ls) # n
  \/ \E i \in DOMAIN ls : ls[i] \notin Traces  \* not JSON, or not _trace_ok

JobReason(e, ls, n) ==
  IF e = "timeout" THEN "replay-timeout"
  ELSE IF e = "overflow" THEN "replay-output"
  ELSE IF CompileReport(e, ls) THEN "compile"
  ELSE IF ReplayFault(e, ls, n) THEN "replay-fault"
  ELSE "none"

\* How a claimed trace g first differs from the truth t; unobserved events
\* and address tokens (rest) are not compared.
Least(m, n) == IF m <= n THEN m ELSE n
Divergence(t, g) ==
  IF g.io # t.io THEN "io-mismatch"
  ELSE IF g.files # t.files THEN "files-mismatch"
  ELSE IF \E k \in 1..Least(Len(t.obs), Len(g.obs)) : t.obs[k] # g.obs[k]
       THEN "event-divergence"
  ELSE IF Len(g.obs) # Len(t.obs) THEN "event-length"
  ELSE "none"

\* The rejections that echo an event of the claim g as the job printed it:
\* the one that diverges, or the last one of a model that died.
Echoes(reason, g) ==
  \/ reason = "event-divergence"
  \/ reason = "io-mismatch" /\ g.io \in Crashes

\* A rejection for the claim g.  Which of its events is the deep one is left
\* open, so feedback that echoes a bulky claim may fit or not.
Reject(reason, g, at) ==
  Return(reason, at) \/ (Echoes(reason, g) /\ g \in Bulky /\ Raise)

\* compare walks zip(truths, claims) and the first divergence decides.
Diverging(truths, claims) ==
  {k \in 1..Least(Len(truths), Len(claims)) :
     Divergence(truths[k].trace, claims[k]) # "none"}
compare(truths, claims, at) ==
  \E k \in Diverging(truths, claims) :
    /\ \A j \in Diverging(truths, claims) : k <= j
    /\ Reject(Divergence(truths[k].trace, claims[k]), claims[k], at)

RecordedClaims == SubSeq(lines, 1, Len(rec))
HiddenClaims == SubSeq(lines, Len(rec) + 1, Len(lines))

Sound == stage = "judge" /\ JobReason(exit, lines, Len(Suite)) = "none"
RecordedAgree == Diverging(rec, RecordedClaims) = {}
HiddenAgree == Diverging(hidden, HiddenClaims) = {}
Starved == Len(hidden) < HIDDEN_N

RejectJob ==
  /\ stage = "judge" /\ JobReason(exit, lines, Len(Suite)) # "none"
  /\ LET why == JobReason(exit, lines, Len(Suite)) IN
       Return(why, IF why = "compile" THEN "compile" ELSE "replay")
RejectRecorded == Sound /\ compare(rec, RecordedClaims, "recorded")
RejectStarved ==
  Sound /\ RecordedAgree /\ Starved /\ Return("hidden-starvation", "hidden")
RejectHidden ==
  Sound /\ RecordedAgree /\ ~Starved /\ compare(hidden, HiddenClaims, "hidden")
Accept ==
  /\ Sound /\ RecordedAgree /\ ~Starved /\ HiddenAgree
  /\ Return("accepted", "passed")

Judge ==
  /\ RejectJob \/ RejectRecorded \/ RejectStarved \/ RejectHidden \/ Accept
  /\ UNCHANGED <<model, todo, cases, rec, hidden, known, discarded,
                 attempts, lines, exit>>

\* The check keeps nothing between calls.
NextSubmission ==
  /\ stage \in {"done", "raised"}
  /\ stage' = "idle" /\ model' = "none"
  /\ todo' = <<>> /\ cases' = <<>> /\ rec' = <<>> /\ hidden' = <<>>
  /\ known' = {} /\ discarded' = {} /\ attempts' = 0
  /\ lines' = <<>> /\ exit' = "running" /\ verdict' = NoVerdict

HostStep ==
  \/ ParseCase \/ ParseDone \/ RecordCase \/ RecordDone
  \/ DrawKnown \/ DrawFresh \/ DrawDone \/ Judge
JobEnds == \E e \in Exits \ {"running"} : JobExits(e)
Next ==
  \/ \E c \in Candidates, m \in Models : Submit(c, m)
  \/ HostStep \/ ReplayLine \/ JobEnds \/ NextSubmission

\* The host's loops run in one thread that nothing blocks, and run_job
\* returns by its timeout; submissions come or do not.
Fairness == WF_vars(HostStep) /\ WF_vars(JobEnds)
Spec == Init /\ [][Next]_vars /\ Fairness

-----------------------------------------------------------------------------
(* Properties.                                                             *)

\* Every variable has its type, and the loops stay within their limits: at
\* most MAX_CASES nominations, HIDDEN_N hidden cases, REDRAWS draws each.
TypeOK ==
  /\ stage \in Stages /\ model \in Models \cup {"none"}
  /\ todo \in Seq(RawCases \cup {BadCase})
  /\ cases \in Seq(RawCases) /\ Len(cases) + Len(todo) <= MAX_CASES
  /\ rec \in Seq(Cases) /\ Len(rec) <= Len(cases)
  /\ hidden \in Seq(Cases) /\ Len(hidden) <= HIDDEN_N
  /\ known \subseteq Inputs /\ discarded \subseteq Inputs
  /\ attempts \in 0..DrawBudget
  /\ lines \in Seq(Lines) /\ exit \in Exits
  /\ verdict \in [reason : Reasons, at : Points]

\* A PASSED verdict is earned: there are exactly HIDDEN_N hidden cases, every
\* nominated case has its ground truth, and the job's k-th line agrees with
\* the k-th truth over the whole suite, whatever the job printed.
AcceptIsEarned ==
  verdict.reason = "accepted" =>
    /\ Len(hidden) = HIDDEN_N
    /\ Len(rec) = Len(cases)
    /\ \A k \in DOMAIN cases : rec[k].input = cases[k].input
    /\ Len(lines) = Len(rec) + Len(hidden)
    /\ \A k \in DOMAIN rec : Divergence(rec[k].trace, lines[k]) = "none"
    /\ \A k \in DOMAIN hidden :
         Divergence(hidden[k].trace, lines[Len(rec) + k]) = "none"

\* The hidden suite holds distinct inputs, none nominated, none whose truth
\* is a crash, and none that was ever drawn and thrown away: a flaky or
\* crashing draw cannot come back into the suite by a lucky second recording.
HiddenSuiteSound ==
  /\ \A j, k \in DOMAIN hidden :
       hidden[j].input = hidden[k].input => j = k
  /\ InputsOf(hidden) \cap (InputsOf(rec) \cup discarded) = {}
  /\ \A k \in DOMAIN hidden :
       /\ hidden[k].trace \in Outcomes[hidden[k].input]
       /\ hidden[k].trace.io \notin Crashes

\* A faithful model whose job ran to its end is never blamed for the
\* original: when the original is observably steady on every input of the
\* suite, the verdict is PASSED or starvation, and check does not raise.
Steady(i) == \A a, b \in Outcomes[i] : Divergence(a, b) = "none"
FaithfulNeverBlamed ==
  /\ stage \in {"done", "raised"} /\ model = "faithful" /\ exit = "exit0"
  /\ \A k \in DOMAIN Suite : Steady(Suite[k].input)
  => verdict.reason \in {"accepted", "hidden-starvation"}

\* hidden-starvation is reported only after the whole draw budget is spent
\* and only to a model that agrees on every nominated case.
StarvationIsSpent ==
  verdict.reason = "hidden-starvation" =>
    /\ Len(hidden) < HIDDEN_N
    /\ attempts = DrawBudget
    /\ \A k \in DOMAIN rec : Divergence(rec[k].trace, lines[k]) = "none"

\* Every check that starts ends: the redraw loop is bounded, and no job
\* output, of any length or ending, holds the host up.  It ends with a
\* verdict, except that _capped raises on a rejection whose feedback does not
\* fit, and then a line of the job that diverges from its truth is bulky: an
\* agreeing job always gets its verdict.
FeedbackTooLarge ==
  \E k \in DOMAIN Suite :
    lines[k] \in Bulky /\ Divergence(Suite[k].trace, lines[k]) # "none"
EveryCheckEnds ==
  (stage = "parse") ~>
    (stage = "done" \/ (stage = "raised" /\ FeedbackTooLarge))
=============================================================================
