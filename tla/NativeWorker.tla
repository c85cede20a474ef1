----------------------------- MODULE NativeWorker -----------------------------
(***************************************************************************)
(* The level-B worker's validate round (native_worker.py), inside its job: *)
(* compile the model, look its symbol up, then run each case in a forked   *)
(* child that sends its answer back through a pipe.  The parent polls the  *)
(* child, kills it at the deadline, and reads the pipe only once the child *)
(* is gone.                                                                *)
(*                                                                         *)
(* The child runs the model's own code: it may return, call exit, die,     *)
(* hang, scribble on the pipe, and leave a helper process that             *)
(* still holds the pipe's write end.  A pipe's content is the sequence of  *)
(* what was written to it, and whatever is on it when the child has exited *)
(* is the report: an answer, other JSON ("odd"), JSON that says crash as   *)
(* the worker itself would ("signal", "timeout", "error") or in some other *)
(* form ("crash"), bytes that are not JSON ("junk"), or JSON the parent    *)
(* does not survive ("scalar": a bare number, or nesting beyond the        *)
(* parser's recursion limit).                                              *)
(***************************************************************************)
EXTENDS Naturals, Sequences

CONSTANTS N,          \* cases in the job
          MAX_WRITES  \* the writes a pipe holds

ASSUME RoundAssumption == N \in Nat /\ MAX_WRITES \in Nat

Crash == {"signal", "timeout", "error", "crash"}
Reports == {"value", "odd"} \cup Crash
Writes == Reports \cup {"junk", "scalar"}

VARIABLES
  pc,       \* where the parent is
  results,  \* the reports so far
  child,    \* the child of the current case
  status,   \* what waitpid said of it
  clock,    \* "late" once the case's deadline is past
  pipe,     \* what the case's pipe holds
  helper    \* "holding" while a helper has the pipe's write end

vars == <<pc, results, child, status, clock, pipe, helper>>
caseVars == <<child, status, clock, pipe, helper>>

Init ==
  /\ pc = "compile" /\ results = <<>>
  /\ child = "none" /\ status = "none" /\ clock = "early"
  /\ pipe = <<>> /\ helper = "none"

-----------------------------------------------------------------------------
(* Before the cases: a refusal is the whole answer; an uncaught timeout of  *)
(* gcc, or a constructor that kills the process dlopen runs it in, is none. *)

Compile ==
  /\ pc = "compile"
  /\ pc' \in {"load", "refused", "failed"}
  /\ UNCHANGED <<results, caseVars>>

\* _symbol_check loads the model into the worker itself.
SymbolCheck ==
  /\ pc = "load"
  /\ pc' \in {"next", "refused", "failed", "stuck"}
  /\ UNCHANGED <<results, caseVars>>

Crashed == results # <<>> /\ results[Len(results)] \in Crash

-----------------------------------------------------------------------------
(* The parent's side of one case.                                          *)

\* A fresh pipe and a fresh child per case.
Fork ==
  /\ pc = "next" /\ Len(results) < N /\ ~Crashed
  /\ pc' = "poll"
  /\ child' = "running" /\ status' = "none" /\ clock' = "early"
  /\ pipe' = <<>> /\ helper' = "none"
  /\ UNCHANGED results

\* Helpers left by earlier cases can use up the job's pids.
ForkFails ==
  /\ pc = "next" /\ Len(results) \in 1..(N - 1) /\ ~Crashed
  /\ pc' = "failed"
  /\ UNCHANGED <<results, caseVars>>

Gone == {"exited", "dead"}

Poll ==
  /\ pc = "poll"
  /\ IF child \in Gone
     THEN pc' = "read" /\ status' = child
     ELSE pc' = "clock" /\ UNCHANGED status
  /\ UNCHANGED <<results, child, clock, pipe, helper>>

\* After an unsuccessful poll: sleep and poll again, or kill and reap.  The
\* child may have finished since the poll; its answer is then lost.
MutNoDeadline == FALSE
Overdue == clock = "late"

Wait ==
  /\ pc = "clock" /\ ~Overdue
  /\ pc' = "poll"
  /\ UNCHANGED <<results, caseVars>>

Kill ==
  /\ pc = "clock" /\ Overdue
  /\ pc' = "next"
  /\ child' = IF child = "exited" THEN "exited" ELSE "dead"
  /\ status' = child'
  /\ results' = Append(results, "timeout")
  /\ UNCHANGED <<clock, pipe, helper>>

\* os.read returns what the pipe holds, and waits while it holds nothing and
\* someone can still write to it.
Readable == pipe # <<>> \/ helper = "none"

\* What the bytes of a pipe read as: several writes run together, and their
\* pieces may make up any text.
Texts(p) ==
  IF p = <<>> THEN {"junk"} ELSE IF Len(p) = 1 THEN {p[1]} ELSE Writes

MutRawAnswer == IF status = "dead" THEN {"signal"} ELSE Texts(pipe)
MutDataFirst ==
  IF status = "dead" /\ pipe = <<>> THEN {"signal"}
  ELSE {IF t = "junk" THEN "error" ELSE t : t \in Texts(pipe)}
Parsed ==
  IF status = "dead" THEN {"signal"}
  ELSE {IF t = "junk" THEN "error" ELSE t : t \in Texts(pipe)}

\* JSON is taken as it is; a number kills the worker when it looks for
\* "crash" in it.
Read ==
  /\ pc = "read" /\ Readable
  /\ \E t \in Parsed :
       \/ t = "scalar" /\ pc' = "failed" /\ UNCHANGED results
       \/ t # "scalar" /\ pc' = "next" /\ results' = Append(results, t)
  /\ UNCHANGED caseVars

MutStopsEarly == Len(results) > 0
RoundOver == Len(results) = N \/ Crashed

Finish ==
  /\ pc = "next" /\ RoundOver
  /\ pc' = "done"
  /\ UNCHANGED <<results, caseVars>>

-----------------------------------------------------------------------------
(* The child, the helper and the clock.                                    *)

Alive == pc \in {"poll", "clock"} /\ child \in {"running", "returned"}
\* A full pipe blocks whoever writes to it; only the deadline ends that.
CanWrite == Len(pipe) < MAX_WRITES

ChildReturns ==
  /\ Alive /\ child = "running" /\ CanWrite
  /\ child' = "returned" /\ pipe' = Append(pipe, "value")
  /\ UNCHANGED <<pc, results, status, clock, helper>>

\* The model's code finds the pipe among its descriptors.
ChildScribbles ==
  /\ Alive /\ child = "running" /\ CanWrite
  /\ \E w \in Writes : pipe' = Append(pipe, w)
  /\ UNCHANGED <<pc, results, child, status, clock, helper>>

\* _exit after the write, or the model's own exit; or a signal at any time.
ChildEnds ==
  /\ Alive
  /\ child' \in Gone
  /\ UNCHANGED <<pc, results, status, clock, pipe, helper>>

ModelForks ==
  /\ Alive /\ child = "running"
  /\ helper' = "holding"
  /\ UNCHANGED <<pc, results, child, status, clock, pipe>>

\* A helper that returns from the model writes an answer of its own.
HelperWrites ==
  /\ helper = "holding" /\ CanWrite /\ pc \in {"poll", "clock", "read"}
  /\ \E w \in Writes : pipe' = Append(pipe, w)
  /\ UNCHANGED <<pc, results, child, status, clock, helper>>

HelperExits ==
  /\ helper = "holding"
  /\ helper' = "none"
  /\ UNCHANGED <<pc, results, child, status, clock, pipe>>

Deadline ==
  /\ pc \in {"poll", "clock"} /\ clock = "early"
  /\ clock' = "late"
  /\ UNCHANGED <<pc, results, child, status, pipe, helper>>

\* The job's own timeout, 120 s and 7 s per case, outlasts the 60 s gcc may
\* take and the 5 s of every case: it strikes only a worker that is stuck.
Stuck == pc = "stuck" \/ (pc = "read" /\ ~Readable)
JobTimeout ==
  /\ Stuck
  /\ pc' = "failed"
  /\ UNCHANGED <<results, caseVars>>

Ended == pc \in {"done", "refused", "failed"}
Over == Ended /\ UNCHANGED vars

Parent == Compile \/ SymbolCheck \/ Fork \/ ForkFails \/ Poll \/ Wait \/ Kill \/ Read \/ Finish
Next ==
  \/ Parent \/ Deadline \/ JobTimeout \/ Over
  \/ ChildReturns \/ ChildScribbles \/ ChildEnds
  \/ ModelForks \/ HelperWrites \/ HelperExits

\* The worker's loop and the clocks go on; nothing is assumed of the model.
Fairness == WF_vars(Parent) /\ WF_vars(Deadline) /\ WF_vars(JobTimeout)
Spec == Init /\ [][Next]_vars /\ Fairness

-----------------------------------------------------------------------------
(* Properties.                                                             *)

\* Every variable has its type; there are never more reports than cases.
TypeOK ==
  /\ pc \in {"compile", "load", "stuck", "next", "poll", "clock", "read",
             "done", "refused", "failed"}
  /\ results \in Seq(Reports) /\ Len(results) <= N
  /\ child \in {"none", "running", "returned"} \cup Gone
  /\ status \in {"none"} \cup Gone
  /\ clock \in {"early", "late"} /\ helper \in {"none", "holding"}
  /\ pipe \in Seq(Writes) /\ Len(pipe) <= MAX_WRITES

\* What a report is worth.  Nothing written to a pipe speaks for a child that
\* was killed: its report is the signal, or the timeout.  Every other report
\* is what an exited child's own pipe held, so a child may report a crash of
\* itself, but only for its own case, and what it could not be held to
\* (unreadable, or nothing) is an error.  A timeout the parent found is past
\* the deadline, and an answer nobody wrote over is reported as it is unless
\* the deadline overtook it.
ReportIsTrue ==
  pc = "next" /\ results # <<>> =>
    LET r == results[Len(results)]
        RanOut == r = "timeout" /\ clock = "late"
    IN
      /\ child \in Gone
      /\ child = "dead" => r = "signal" \/ RanOut
      /\ child = "exited" =>
           \/ RanOut \/ r \in Texts(pipe)
           \/ r = "error" /\ "junk" \in Texts(pipe)
      /\ child = "exited" /\ pipe = <<"value">> => r = "value" \/ RanOut

\* The round implements the contract the host's shape check is built on.
Contract == INSTANCE WorkerContract WITH
  round <- CASE pc = "done" -> "reported"
             [] pc \in {"failed", "refused"} -> "failed"
             [] OTHER -> "running"
HonoursContract == Contract!Spec

\* A round always ends, whatever the model's code does: at worst by the
\* job's timeout.
RoundEnds == <>Ended

\* What the worker's docstrings say of a case: "model crash/hang is report
\* data, never our death".  A case that starts is reported.
CaseReported == (pc = "poll") ~> (pc = "next")
=============================================================================
