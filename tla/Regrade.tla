------------------------------- MODULE Regrade -------------------------------
(***************************************************************************)
(* Re-grading recorded checks under the current checker (regrade.py): the  *)
(* candidate, the private files and the seeds come from the ledger, so     *)
(* that a verdict that flips is the judge's change.  The toolchain image   *)
(* is a mutable tag: it is compared when a row is examined and resolved    *)
(* again when the re-run check starts its job.                             *)
(*                                                                         *)
(* A check's verdict is decided by the judge (the checker's version), the  *)
(* image its job runs on and what was submitted.  Decide gives a set: an   *)
(* original whose recordings vary may be judged either way.                *)
(***************************************************************************)
EXTENDS Naturals, Sequences, FiniteSets

CONSTANTS
  Submissions,   \* what may be submitted, with its check
  MAX_JUDGE,     \* bound on checker versions
  Images,        \* image IDs
  Decide,        \* Decide[j][i][c]: the verdicts judge j may give c on image i
  NeedsJob,      \* NeedsJob[j]: the submissions judge j runs a job for
  Draws,         \* Draws[j][c]: the seeds judge j draws on c
  Offered,       \* Offered[j]: the submissions whose check judge j still has
  LIVE_REBUILDS, \* may the image be rebuilt while a re-grade runs?
  MAX_CHECKS     \* bound on the recorded checks

Judges == 1..MAX_JUDGE
Verdicts == {"passed", "rejected"}
Missing == "missing"

ASSUME JudgeAssumption ==
  /\ MAX_JUDGE \in Nat \ {0}
  /\ Decide \in [Judges -> [Images -> [Submissions -> (SUBSET Verdicts) \ {{}}]]]
  /\ NeedsJob \in [Judges -> SUBSET Submissions]
  /\ Draws \in [Judges -> [Submissions -> Nat]]
  /\ Offered \in [Judges -> SUBSET Submissions]
  /\ LIVE_REBUILDS \in BOOLEAN /\ MAX_CHECKS \in Nat /\ Missing \notin Images

VARIABLES
  image,   \* the image behind the tag
  judge,   \* the checker's version
  ledger,  \* the recorded checks
  pc,      \* where the re-grade is
  pos,     \* the operation it looks at
  rows     \* what it reports

vars == <<image, judge, ledger, pc, pos, rows>>

Init ==
  /\ image \in Images /\ judge = 1 /\ ledger = <<>>
  /\ pc = "idle" /\ pos = 1 /\ rows = <<>>

-----------------------------------------------------------------------------
(* What a check does with the image of the moment: the verdict, or none    *)
(* when its job has no image to run on.                                    *)

AnyImage == CHOOSE i \in Images : TRUE
Results(j, i, c) ==
  IF c \notin NeedsJob[j] THEN Decide[j][AnyImage][c]
  ELSE IF i = Missing THEN {"none", "infrastructure_failure"}
  ELSE Decide[j][i][c]
JobImages(j, i, c) == IF c \in NeedsJob[j] THEN {i} ELSE {}

-----------------------------------------------------------------------------
(* Between re-grades: checks are recorded, code and image change, evidence *)
(* may rot.                                                                *)

RecordCheck(c) ==
  /\ pc = "idle" /\ Len(ledger) < MAX_CHECKS /\ c \in Offered[judge]
  /\ \/ \E r \in Results(judge, image, c) :
          ledger' = Append(ledger, [of |-> c, by |-> judge, status |-> r,
                                    images |-> JobImages(judge, image, c),
                                    seeds |-> Draws[judge][c], intact |-> "yes"])
     \/ ledger' = Append(ledger, [of |-> c, by |-> judge, status |-> "cutoff",
                                  images |-> {}, seeds |-> 0, intact |-> "yes"])
  /\ UNCHANGED <<image, judge, pc, pos, rows>>

Tamper(k) ==
  /\ pc = "idle"
  /\ ledger' = [ledger EXCEPT ![k].intact = "no"]
  /\ UNCHANGED <<image, judge, pc, pos, rows>>

NewJudge ==
  /\ pc = "idle" /\ judge < MAX_JUDGE
  /\ judge' = judge + 1
  /\ UNCHANGED <<image, ledger, pc, pos, rows>>

Rebuild(i) ==
  /\ pc = "idle" \/ LIVE_REBUILDS
  /\ image' = i
  /\ UNCHANGED <<judge, ledger, pc, pos, rows>>

-----------------------------------------------------------------------------
(* The re-grade, row by row.                                               *)

Op == ledger[pos]
MutDropsRefused(outcome) ==
  /\ rows' = IF outcome = "refused" THEN rows
             ELSE Append(rows, [op |-> pos, outcome |-> outcome])
  /\ pos' = pos + 1
  /\ pc' = "row"
Report(outcome) ==
  /\ rows' = Append(rows, [op |-> pos, outcome |-> outcome])
  /\ pos' = pos + 1
  /\ pc' = "row"

StartRegrade ==
  /\ pc = "idle" /\ ledger # <<>>
  /\ pc' = "row" /\ pos' = 1 /\ rows' = <<>>
  /\ UNCHANGED <<image, judge, ledger>>

SkipOpen ==
  /\ pc = "row" /\ pos <= Len(ledger) /\ Op.status = "cutoff"
  /\ pos' = pos + 1
  /\ UNCHANGED <<image, judge, ledger, pc, rows>>

\* _evidence re-verifies, then says what cannot be replayed.
EvidenceFault ==
  IF Op.intact = "no" THEN "refused"
  ELSE IF Op.status \in {"none", "infrastructure_failure"} THEN "unreplayable"
  ELSE IF Op.of \notin Offered[judge] THEN "unreplayable"
  ELSE "none"

Examine ==
  /\ pc = "row" /\ pos <= Len(ledger) /\ Op.status # "cutoff"
  /\ IF EvidenceFault # "none" THEN Report(EvidenceFault)
     ELSE pc' = "image" /\ UNCHANGED <<pos, rows>>
  /\ UNCHANGED <<image, judge, ledger>>

\* domain.worker_image raises when there is no image, and nothing catches it.
\* A check that ran no job is compared with no image.
MutIgnoresImage == TRUE
SameImage == Op.images = {} \/ Op.images = {image}

CompareImage ==
  /\ pc = "image"
  /\ \/ /\ Op.images # {} /\ image = Missing
        /\ pc' = "raised" /\ UNCHANGED <<pos, rows>>
     \/ /\ Op.images = {} \/ image # Missing
        /\ IF SameImage THEN pc' = "draw" /\ UNCHANGED <<pos, rows>>
           ELSE Report("unreplayable")
  /\ UNCHANGED <<image, judge, ledger>>

\* The re-run check replays its seeds in order and may not draw more.
MutDrawsFresh == TRUE
SeedsSuffice == Draws[judge][Op.of] <= Op.seeds

DrawSeeds ==
  /\ pc = "draw"
  /\ IF SeedsSuffice THEN pc' = "job" /\ UNCHANGED <<pos, rows>>
     ELSE Report("unreplayable")
  /\ UNCHANGED <<image, judge, ledger>>

MutRawVerdict(r) == r
Holds(r) == IF r = Op.status THEN "holds" ELSE "flipped"

\* Its job resolves the image anew; a checker that raises ends the re-grade.
ReCheck ==
  /\ pc = "job"
  /\ \E r \in Results(judge, image, Op.of) :
       IF r \in Verdicts
       THEN Report(Holds(r))
       ELSE pc' = "raised" /\ UNCHANGED <<pos, rows>>
  /\ UNCHANGED <<image, judge, ledger>>

Finish ==
  /\ pc = "row" /\ pos > Len(ledger)
  /\ pc' = "done"
  /\ UNCHANGED <<image, judge, ledger, pos, rows>>

NextRegrade ==
  /\ pc \in {"done", "raised"}
  /\ pc' = "idle" /\ pos' = 1 /\ rows' = <<>>
  /\ UNCHANGED <<image, judge, ledger>>

Next ==
  \/ \E c \in Submissions : RecordCheck(c)
  \/ \E k \in DOMAIN ledger : Tamper(k)
  \/ NewJudge
  \/ \E i \in Images \cup {Missing} : Rebuild(i)
  \/ StartRegrade \/ SkipOpen \/ Examine \/ CompareImage \/ DrawSeeds
  \/ ReCheck \/ Finish \/ NextRegrade
Spec == Init /\ [][Next]_vars

-----------------------------------------------------------------------------
(* Properties.                                                             *)

Outcomes == {"refused", "unreplayable", "holds", "flipped"}

\* Every variable has its type.
TypeOK ==
  /\ image \in Images \cup {Missing} /\ judge \in Judges
  /\ ledger \in Seq([of : Submissions, by : Judges,
                     status : Verdicts \cup {"none", "infrastructure_failure", "cutoff"},
                     images : SUBSET (Images \cup {Missing}), seeds : Nat,
                     intact : {"yes", "no"}])
  /\ pc \in {"idle", "row", "image", "draw", "job", "done", "raised"}
  /\ pos \in 1..(Len(ledger) + 1)
  /\ rows \in Seq([op : 1..Len(ledger), outcome : Outcomes])

\* A re-grade that completes reports every completed check exactly once, in
\* order.
RowsComplete ==
  pc = "done" =>
    LET completed == {k \in DOMAIN ledger : ledger[k].status # "cutoff"} IN
      /\ {rows[r].op : r \in DOMAIN rows} = completed
      /\ Len(rows) = Cardinality(completed)
      /\ \A r, q \in DOMAIN rows : r < q => rows[r].op < rows[q].op

\* Only intact evidence with a recorded verdict, and only as many seeds as it
\* holds, is ever judged again.
JudgedIsReplayable ==
  \A r \in DOMAIN rows : rows[r].outcome \in {"holds", "flipped"} =>
    LET op == ledger[rows[r].op] IN
      /\ op.intact = "yes" /\ op.status \in Verdicts
      /\ Draws[judge][op.of] <= op.seeds

\* While nobody rebuilds the image under a running re-grade, a verdict that
\* flips on a submission the judge decides one way is the judge's change.
Steady(op) ==
  \A i \in op.images \cup (IF op.images = {} THEN {AnyImage} ELSE {}) :
    Cardinality(Decide[op.by][i][op.of]) = 1
FlipsOfSteadyAreTheJudges ==
  ~LIVE_REBUILDS =>
    \A r \in DOMAIN rows :
      LET op == ledger[rows[r].op] IN
        rows[r].outcome = "flipped" /\ Steady(op) => op.by # judge

\* What the module says: "Everything but the judge is pinned by the evidence
\* itself, so a flip is the judge's change".
FlipsAreTheJudges ==
  \A r \in DOMAIN rows :
    rows[r].outcome = "flipped" => ledger[rows[r].op].by # judge
=============================================================================
