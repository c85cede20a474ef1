# TLA+ models and proofs for reschema

reschema sets an agent the task of reimplementing a binary, and judges what it
submits. The judge must not be talked into a PASSED, must not blame a faithful
model for what the original does, and must come to an end. These modules model
the judge and the machinery under it; TLC checks them on small instances and
TLAPS proves the safety results for every value of the constants.

Paths below are relative to `src/src/reschema/` in the repository.

## The system

| Component | State | Operations | Interacts with |
|---|---|---|---|
| Candidate files (`checks/__init__.py`) | none | `candidate_files` | first step of both checkers |
| Program-replay checker (`checks/program_replay.py`, `validate/program.py`) | one check's nominations, truths, hidden suite, known inputs, job output | parse, record twice, draw, replay in a job, compare | recorder, canonicaliser, job runner |
| Function-fuzz checker (`checks/function_fuzz.py`, `validate/function.py`, `validate/scout.py`) | declaration, round of cases, truths, job results | parse, draw, merge scouts, call the original, floors, job, compare | original function calls, level-B worker |
| Level-B worker (`driver/native_worker.py`) | reports, one child and one pipe per case | compile, symbol check, fork, poll, kill, read | runs the agent's model; its output is the function checker's claim |
| Original function calls (`driver/calling.py`) | VM, snapshot, hooks, recorder | screen, boot, enter scope, restore, reset, run, leave | function checker, `experiment_function` |
| Canonicaliser, recorder (`exec/`) | events, descriptor table | record, rename | truths, and the model's lines inside the job |
| Corpus builder (`corpus/generate.py`, `toolchain.py`) | binaries, `manifest.json`, version stamp; no lock | compile, symtab, strip, merge, write, stamp, load | other builders, campaign, checkers' private files |
| Re-grading (`regrade.py`) | position in the ledger, rows | verify evidence, compare image, replay seeds, judge again | Warranted's ledger, both checkers |
| Experiments (`operations.py`) | none of their own: budget and reusable results are Warranted's | parse, reserve, probe program, probe function, charge | Warranted, recorder, original calls |
| Tasks, campaign (`tasks.py`, `campaign.py`) | tasks in memory, files under `--out` | refuse, rebuild the corpus, load, make tasks, write them, list them | corpus builder, seeds on disk |
| Domain (`domain.py`) | none | duplicate-guard fingerprint, worker image | Warranted's guard, `submit` helper |
| Disassembly (`disasm/`) | none | slices, symbols, signature guesses | task texts, scouts |

What is hard here, and hardly tested: a job's output is whatever the candidate's
code prints; originals are flaky; rounds are cut short by crashes, timeouts and
helper processes; one VM or one corpus directory is reused and must not leak;
builds stop half way and overlap; images are mutable tags; requests and
candidates come in many spellings. `PROJECT.json` lists each hazard
at its line with the properties that watch it.

What makes each part correct: both checkers accept only what agreed on every
case they claim to have compared, never vacuously; a faithful model is not
blamed; every check ends, and without a verdict only where feedback cannot be
shrunk or a case cannot be marshalled. The worker reports the end of each child,
or what the child left on its pipe. A batched round answers as fresh VMs would,
and never passes a probe's failure off as the original's. The canonicaliser
keeps different open files apart and equal behaviour equal. A corpus that loads
describes its binaries, and a campaign's tasks agree with the binaries they
ship. A probe is paid once, whatever its spelling, and what was probed can be
nominated; a candidate is refused unchecked only once the guard's repeats are
used up, and one work, however laid out, is checked at most that often. A
re-grade judges only intact, complete evidence, and its flips are the judge's.

## Modules

Composition: `ProgramGate` and `FunctionGate` extend `Candidate`. `NativeWorker`
implements `WorkerContract`, the shape `FunctionGate`'s `WellShaped` accepts.
`BatchCall` implements `FreshCalls`, which is what `FunctionGate`'s
`CallOriginal` takes for granted (an outcome per case, independent of the
others, unless a case cannot be packed and the round raises). `ProgramGate`
takes canonical traces as data; `Canonical` is about how they come to be.
`Campaign` extends `CorpusBuild`: its writer is one of the builders. `Session`
is what happens before and around the checks: its limits on probes are those of
`ProgramGate`'s nominations. `Regrade` takes a verdict per judge, image and
submission.

**Candidate** — `candidate_files`: direct files or a `result.json` bundle, and
what is malformed.

**ProgramGate** — `ProgramReplay.check`. `stage` is the position in the
function; `cases` the deduplicated nominations, `rec` and `hidden` the inputs
with their truths, `known` the inputs the draw must not repeat, `attempts` the
draws, `lines`/`exit` the job's answer. `Submit`, `ParseCase`, `RecordCase`,
`DrawKnown`/`DrawFresh`, `ReplayLine`, `JobExits` and `Judge` are one loop turn
or one early-return chain each. A trace is `[io, files, obs, rest]`: the three
channels `compare` looks at and what it ignores. `Outcomes[i]` is what one
recording of the original on `i` may yield. A forged job prints any lines at all.
A rejection that echoes a `Bulky` claim (nested too deep for `_cap`, which bounds
breadth) raises in `_capped`: the check ends in stage `raised`, with no verdict.

**FunctionGate** — `FunctionFuzz.check` and `validate_function`. A declaration
is its arity, return kind, whether it has memory, and the space it draws from.
A drawn case is a point with its owner (`declared` or `scout`, object identity
in the code). `Floors` is the chain of refusals before any job runs. A scout
whose buffer cell no `i32` holds is `Unpackable` and ends the check in stage
`raised`. `memory` is the code's own sense of a channel, a declared buffer; that a
length range makes such a buffer always empty is not told apart.

**NativeWorker / WorkerContract** — `_validate` with `_run_case`. The child, its
pipe, a helper process it may leave behind, and the two clocks (case deadline,
job timeout) move independently of the polling parent. What the model's code may
write to the pipe is any report, the worker's own crash objects included, or text
that is no report; several writes read back as any of these. A round that cannot
compile, whose symbol lookup kills the worker, or whose fork fails, is part of it.

**BatchCall / FreshCalls** — `batch_call_original`. A VM is `guest` (what
`ql.save` captures) and `outside` (what it does not). A function is what it
may do to both, and what `_fn_has_syscall` says of it. Hook scopes may raise on
entry, in the reset, and on exit; marshalling and reading back raise inside the
scope. A scope is the recorder of `tools/coverage_spike.py`, the one user of the
parameter: a callback of it that fails in a case reads as a crash of the guest,
and the scope keeps the error and raises it before the next case or on leaving.

**Canonical** — `canonicalize` and `_obs_events` fed by two programs side by
side, the original and a model with reads, allocations, counts and destinations
of its own, on descriptor tables that give the lowest free number. `walk` is
`canonicalize`'s local state per program; a number from `ADDR_MIN` (six hex
digits) up is an address to it. `ADDR_n` arguments are wildcards to `compare`,
results are not. The constraint `Comparing` ends a run where the writes differ,
as `compare` stops at the first divergence; the state in which they differ is
still checked.

**CorpusBuild** — `build` as its sequence of file writes, one record `job[b]`
per building process, interruptible between any two writes; nothing locks the
directory, so builds overlap, and truncating and filling the manifest are two
steps. Seed edits and code upgrades happen at any time; `load_manifest` is
`Loads`. A build whose fresh binary another build has already stripped finds no
symbols and ends, as the assertion in `build` makes it.

**Campaign** — `campaign write`: the refusals, the full rebuild (a `CorpusBuild`
job of its own), the manifest (the SLOTs asked for, each of which it must hold,
or with `--all`, a request naming none, whatever slots it holds), one `TaskSpec`
after another (`MakeTask` reads binary and seed from disk at that moment,
`Disassemble` before it), then the files and `campaign.toml`. `att` is the
process, `out` the directory it leaves behind when it is cut off.

**Session** — one worker on one task: requests parsed to canonical arguments,
reserved, executed (two recordings) and charged; candidates fingerprinted by
`normalize` and counted by the guard. The budget, the table of reusable results
and the guard's counting are Warranted's, modelled from how this repository
configures and tests them; a failed result is not reused. Which fingerprints are
within a small edit of each other is `Close`, any reflexive relation. An argv is
its sizes, a stdin its length in characters and bytes, a candidate its source
text, what `norm_source` strips from it, and its declaration with its layout.

**Regrade** — `regrade` row by row, with the ledger, the image behind the tag
and the checker's version changing between re-grades, and (`LIVE_REBUILDS`) the
image also during one.

`MC*` modules give constants values. Operators called `Mut...` are plausible
bugs; each property of a passing run has one that TLC must catch. They are not
used by any specification. Variables marked "read by properties only" are
history.

## Runs

| Run | Bounds | Shows |
|---|---|---|
| `program_check` | 2 nominations, 2 hidden inputs, 4 draws, 4 kinds of input, 3 lines of 7 kinds | no output earns a pass without agreeing everywhere; the suite is distinct, disjoint, crash-free and never takes back a discarded draw; starvation means the whole budget; a faithful model is not blamed on steady inputs; every check ends, with a verdict unless its feedback cannot be shrunk |
| `function_round` | 4 cases, 5 kinds of point, 7 declarations, every result list | acceptance is earned and not vacuous; scouts do not decide the floors; faithful models are accepted |
| `worker_round` | 3 cases, 2 writes per pipe, helpers | each report is the end of its own child or what that child's pipe held, and nothing written speaks for a killed child; the round implements `WorkerContract`; it ends |
| `worker_hang` | 1 case | finding: a started case may go unreported |
| `batch_round` | 3 cases, 3 values of memory and file | pristine starts; a failed probe is raised, not answered; a round that answers implements `FreshCalls` |
| `canonical_files` | 3 descriptors, 3 opens, 2 writes each, 2 small counts and one that looks like an address | live files have distinct names; while no write-open follows a close and counts are small, the traces are equal exactly when the writes are |
| `canonical_reads` | 3 descriptors, 2 opens, 1 write | finding: an extra read shifts the numbering |
| `corpus_builds` | 1 seed (2 slots), a writer and another builder, 2 builds, one slot or all or an unknown one asked for, 2 source and 2 code versions, 2 tasks per slot | entries match binaries, except in slots of interrupted or overlapping builds until an undisturbed build covers them; filtered builds keep the rest; the stamp is true of what one undisturbed full build wrote; the writer's rebuild always suffices; tasks agree with their binaries unless another build runs beside; `campaign.toml` lists complete tasks of its own attempt |
| `session` | 12 requests, 2 probes, 8 candidates (one source in several layouts and declarations, two small edits of it), 4 submissions | no unpaid recording; probed inputs can be nominated; repeats are free in any spelling; a submission is refused unchecked only once the guard's repeats are used up, and one work gets at most `EXACT_REPEATS` checks |
| `corpus_stamp` | 1 seed | finding: a filtered build re-stamps old entries |
| `regrade_quiet` | 2 checks, 2 judges, 2 images or none | a row per completed check; only replayable evidence judged; flips are the judge's |
| `regrade_live` | 1 check | finding: a flip without a new judge |

The bounds let every interesting case happen: an output longer than the suite
(one without nominations, or a starved one), a draw budget that runs out, a
round with a scout position (a quarter of four), a pipe with two writers, a
third case after a fault and after a timeout, a reused descriptor with another
file open, a second build over a cut-off one, two builds in one directory, a
campaign into a directory where one was cut off, a repeat after the budget is
spent, a third exact and a fourth near resubmission. `racy` inputs differ
observably, `jittery` ones only where `compare` does not look. Larger sets add
more of the same kinds; `corpus_builds` with a third build (10.2 million states)
passes too, but takes longer than the run should.

Deadlock checking is on except in three runs where the model really may stop:
`session` (acceptance ends it), `corpus_builds` and `corpus_stamp` (the number
of builds is bounded). Other specifications whose system stops have an explicit
stuttering action; the rest start over or always have a step.

Fairness. `ProgramGate`: the host's loop (one thread, nothing it waits for but
the job) and the job's end (`run_job` enforces a timeout) are weakly fair;
submissions are not. `NativeWorker`: the parent's loop, the case deadline and
the job's timeout; nothing is assumed of the model's code, not even that it
ends. The other specifications state safety only.

Four findings disagree with a comment or docstring; each is quoted in
`PROJECT.json` with its consequence. None makes a checker accept what it should
not.

### Disagreements without a run of their own

- `task.md` tells the worker that a model differing from a rejected one "only in
  comments or whitespace, or barely at all, is refused without a check"
  (`tasks.py:157-159` and `219-221`). The guard it configures, and its tests,
  refuse from `EXACT_REPEATS` (2) rejections on: the first cosmetic repeat is
  checked, and so are small edits until `NEAR_REPEATS`. `NoFurtherCheck` states
  what the code does.
- `_capped` is to "shrink every string and collection until the whole fits"
  (`checks/program_replay.py:146-148`). `_cap` bounds width and not depth, so a
  deeply nested claim reaches the `raise` at line 153. `EveryCheckEnds` names
  this as the one end without a verdict.
- A scout puts a needle of 2^31 or more into a buffer cell unsigned as well
  (`validate/scout.py:72-82`), which `_marshal` cannot pack (`driver/calling.py:89`):
  that check ends in an exception, too.
- `_run_case` of the worker returns whatever JSON the child left
  (`driver/native_worker.py:103`), so a child that exits by itself can be reported
  as killed. The checker refuses the round either way.

Four smaller observations. Nominations are deduplicated by the text of
`stdin_hex`, so two spellings of one stdin are recorded twice (`Spellings` in
`ProgramGate`; the proofs cover any number, the run uses one). A write whose
count has six hex digits becomes an `ADDR` wildcard as an argument, and an
ordinal that does count as a result. `normalize` joins declarations without
their names, so a hand-written bundle with `params.json` and one with the same
text as `cases.json` share a fingerprint; `submit` packs only the task's own,
and `Session`'s bundles do too. `ExperimentFunction.parse` keeps a cstring's hex
as it is spelt, so another spelling of the same call is charged again
(`RepeatsFree` is about defaults left out or spelt out).

## Proofs

Every safety invariant and action property of a passing run is also proved by
TLAPS for every value of the constants, and so are the two refinements. A proof
follows one pattern: an inductive invariant (listed below), one lemma per action
that keeps it, and one theorem per property that follows from it.

*ProgramGateProofs*, for every input space, original (any set of outcomes per
input), job output and limit: `TypeCorrect`, `AcceptanceEarned`,
`HiddenSuiteIsSound`, `StarvationSpent`, `FaithfulSafe` (which includes that
no check of a faithful model on steady inputs raises). `TypeInv` adds to
`TypeOK` that stages not reached yet left their variables empty. `GateInv` adds
what relates the parts: each truth belongs to the nomination at its position
(`Recorded`), what was drawn or discarded is `known` (`DrawnOnce`, without which
a discarded input could return), drawing stops only when full or spent
(`DrawingOver`), and a faithful job's k-th line is an outcome of the k-th input
(`Replayed`). `SuiteLayout` and `SoundClaims` show that slicing the lines at
`Len(rec)` matches the suite.

*FunctionGateProofs*, for every original with at most one value per point,
declaration, scout pool, result list and bound: `FuzzTypeCorrect`,
`FuzzAcceptIsEarned`, `FuzzNotVacuous`, `FuzzFaithfulNeverBlamed`,
`FuzzScoutsDecideNothing`. `FuzzInv` adds that declared cases are points of the
declaration, that the kept positions are exactly those the original survived
(`KeptSurvived`), which floors a round has passed at each stage, and what a
faithful job has answered so far.

*NativeWorkerProofs*, for every number of cases and every size of pipe:
`RoundTypeCorrect`, `ReportsAreTrue` (whatever is written to the pipe, a report
comes from the end of its own child or from that child's pipe), and
`WorkerHonoursContract`, that a round implements `WorkerContract`. `RoundInv`
adds that only the last report can be a crash and that the pipe is read after
the child's own status is known; without them the step that ends a round would
not be one of the contract's.

*BatchCallProofs*, for every function, VM state space and round length:
`BatchTypeCorrect` and `ProbeFaultsAreRaised` (from `RoundInv`, which owes
nothing to the screen), and under `Isolated` (a function the screen calls clean
changes nothing outside the snapshot) `StartsPristine` and `BatchRefinesFresh`,
that a round implements `FreshCalls`. `BatchInv` adds to `RoundInv` what of the
VM is as booted at each program point. `Isolated` is more than the screen
establishes: `_fn_has_syscall` does not look into callees, as its docstring
says, so the comment in `validate_function` that results are "provably identical
to fresh VMs" rests on the corpus having no such function.

*CanonicalProofs*, for every number of descriptors, opens, events and bytes:
`CanonTypeCorrect`, `CanonOpenFilesDistinct`, `CanonTracesTellWritesApart`.
`CanonInv` says that numbers are handed out one to one from zero up
(`Numbered`), that files open for writing have descriptors of their own
(`Apart`), and that while the opens are tidy the k-th file after stdout is number
k on either side (`Orderly`), so that each event shows the write behind it and
nothing else (`ShownRight`). The numbering is the same on both sides because the
kernel's lowest free descriptor is then always one that had no number yet; the
finding of `canonical_reads` is what happens without that.

*CorpusProofs*, for every finite set of seeds, any number of builders and every
bound. Over `CorpusBuild`: `CorpusTypeCorrect`, `CorpusEntriesMatch`,
`CorpusFullStampTrue`, `CorpusTargetedKeepsOthers`. A slot is settled when no
build that has yet to fill the manifest plans it and none left it dirty;
`CorpusInv` says that the manifest, and each table a running build is about to
write, describes the binaries of the settled slots (`Truthful`), that what an
undisturbed build remembers is still on disk (`Alone`), and that one canonicalizer
version wrote all of an unmixed manifest, the stamp's or a later one (`OneHand`). Over
`Campaign`: `CampaignRefinesCorpus` (a campaign does to the corpus only what
`CorpusBuild` allows, so all of the above carries over), `CampaignListsWhole`,
`CampaignTasksAgree`, `CampaignRebuildSuffices`. `CampaignInv` ties the attempt
to the writer's build and the loaded manifest to the binaries while no other
build disturbs them, and says which tasks in the directory are the attempt's own.

*SessionProofs*, for every set of requests and candidates, every relation
`Close` and every limit:
`SessionTypeCorrect`, `SessionRecordingsPaid`, `SessionProbedCanBeNominated`,
`SessionCorrectionsReachTheCheck`, `SessionNoFurtherCheck`, and the action
property `SessionRepeatsFree`. Two lemmas carry them: what a request means
decides its canonical form (`MeaningDecides`), and two candidates have one
fingerprint exactly when they are the same work (`FingerprintIsWork`).

*RegradeProofs*, for every ledger, judge, image and decision:
`RegradeTypeCorrect`, `RegradeRowsComplete`, `RegradeJudgedIsReplayable`,
`RegradeFlipsOfSteady`. `RegradeInv` says what a ledger entry owes to the check
that wrote it (`EntriesRecorded`), that the rows are the completed checks before
the current position (`RowsSoFar`), and what has been established about the row
under examination (`Examined`).

What the proofs assume of the constants is in the named `ASSUME`s, which TLC
evaluates in the runs. Most give types and positive bounds. The others: a
function of no arguments returns `i32` (`SpecAssumption`; the return kind is
carried by the first parameter, so void cannot be declared without one); an
original returns at most one value per point (`OriginalAssumption`); torn text is
no manifest (`TornAssumption`); a request is an object with the fields of its
operation, possibly left out or of the wrong type, and a malformed bundle
declares nothing and its mark begins no source (`RequestAssumption`,
`BundleAssumption`); the guard's window is as long as a session
(`SessionAssumption`, as `tasks.py` configures it); a fingerprint is close to
itself (`CloseAssumption`); a declaration's ranges are `i32`s, so only scouts are
`Unpackable`.

Only model-checked: liveness (`EveryCheckEnds`, `RoundEnds`), since fairness is
outside the prover's reach; and the four findings, which are counterexamples.

## Not modelled

- Disassembly and analysis: pure functions of machine code; they feed task texts
  and hints, which no checker reads. `Campaign` models when a binary is read.
- `tools/crash_census.py` and the measurements of `tools/coverage_spike.py`: they
  keep no state; the latter's hook scope is in `BatchCall`. `experiment` and
  `experiment-function` only print requests.
- Task texts, TOML layout and the `warranted` commands `campaign` prints.
- How a trace is shown to the worker (`quiet`, size caps): presentation.
- The guard's edit distance itself: `Close` may be any reflexive relation.
- Feedback texts, size caps (except that `_capped` may raise), dependency slices:
  shown to the agent, never judged.
- Paths in canonical traces and the scrape of written files: data.
- `compile-link` mode of the worker: nothing in the repository sends it.
- Warranted (ledger, jobs, budgets) and podman: external, modelled as their use
  in the code requires.

## Plan

1. Done: the two gates, the worker and its contract, calls of the original,
   canonical traces, corpus builds by several processes, the campaign over them,
   a worker's session, re-grading; proofs of every safety property of the runs.
2. Next: compose `FunctionGate` with `WorkerContract` and `FreshCalls`
   explicitly; state as theorems what the findings leave true (what an extra
   read can and cannot shift, which entries a filtered build's stamp covers).
