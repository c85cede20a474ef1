---------------------------- MODULE RegradeProofs ----------------------------
(***************************************************************************)
(* Proofs about Regrade, for every ledger, judge, image and decision.      *)
(* RegradeInv says what the ledger's entries owe to the check that wrote   *)
(* them, what the rows so far cover, and what has been established about   *)
(* the row under examination.                                              *)
(***************************************************************************)
EXTENDS Regrade, TLAPS, SequenceTheorems, FiniteSetTheorems

\* Nothing is left of a re-grade once the next may start.
IdleIsFresh == pc = "idle" => pos = 1 /\ rows = <<>>

\* A completed check was recorded with a verdict of its judge on its image,
\* the image of its job and the seeds it drew.
Recorded(op) ==
  op.status # "cutoff" =>
    \E i \in Images \cup {Missing} :
      /\ op.status \in Results(op.by, i, op.of)
      /\ op.images = JobImages(op.by, i, op.of)
      /\ op.seeds = Draws[op.by][op.of]
EntriesRecorded == \A k \in DOMAIN ledger : Recorded(ledger[k])

\* The rows are the completed checks before the current one, in order.
Completed(n) == {k \in 1..n : ledger[k].status # "cutoff"}
RowsSoFar ==
  /\ {rows[r].op : r \in DOMAIN rows} = Completed(pos - 1)
  /\ Len(rows) = Cardinality(Completed(pos - 1))
  /\ \A r, q \in DOMAIN rows : r < q => rows[r].op < rows[q].op
  /\ pc = "done" => pos = Len(ledger) + 1

\* What the row under examination has passed so far.
Examined ==
  /\ pc \in {"image", "draw", "job"} =>
       /\ pos <= Len(ledger) /\ Op.intact = "yes" /\ Op.status \in Verdicts
       /\ Op.of \in Offered[judge]
  /\ pc \in {"draw", "job"} /\ ~LIVE_REBUILDS => SameImage
  /\ pc = "job" => SeedsSuffice

RegradeInv ==
  /\ TypeOK /\ Images # {}
  /\ IdleIsFresh /\ EntriesRecorded /\ RowsSoFar /\ Examined
  /\ JudgedIsReplayable /\ FlipsOfSteadyAreTheJudges

Entries ==
  [of : Submissions, by : Judges,
   status : Verdicts \cup {"none", "infrastructure_failure", "cutoff"},
   images : SUBSET (Images \cup {Missing}), seeds : Nat, intact : {"yes", "no"}]

-----------------------------------------------------------------------------
(* The operators.                                                          *)

\* A check ends in a verdict, or, when its job has no image, in none.
LEMMA ResultsType ==
  ASSUME Images # {}, NEW j \in Judges, NEW i \in Images \cup {Missing},
         NEW c \in Submissions
  PROVE  /\ Results(j, i, c) \subseteq Verdicts \cup {"none", "infrastructure_failure"}
         /\ JobImages(j, i, c) \in SUBSET (Images \cup {Missing})
<1>1. AnyImage \in Images
  BY DEF AnyImage
<1>2. \A k \in Images : Decide[j][k][c] \subseteq Verdicts
  BY JudgeAssumption
<1>. QED  BY <1>1, <1>2 DEF Results, JobImages

\* A set of one verdict.
LEMMA OneVerdict ==
  ASSUME NEW S, S \subseteq Verdicts, Cardinality(S) = 1
  PROVE  \E z : S = {z}
<1>1. IsFiniteSet(Verdicts)
  <2>1. IsFiniteSet({"passed"})
    BY FS_Singleton
  <2>2. IsFiniteSet({"passed"} \cup {"rejected"})
    BY <2>1, FS_AddElement
  <2>3. Verdicts = {"passed"} \cup {"rejected"}
    BY DEF Verdicts
  <2>. QED  BY <2>2, <2>3
<1>2. IsFiniteSet(S)
  BY <1>1, FS_Subset
<1>. QED  BY <1>2, FS_Singleton

\* The verdict of a steady entry is what its own judge says again, on the
\* image it was compared with.
LEMMA SteadyRepeats ==
  ASSUME Images # {}, NEW op \in Entries, Recorded(op), Steady(op),
         op.status \in Verdicts, NEW i \in Images \cup {Missing},
         op.images = {} \/ op.images = {i},
         NEW r \in Results(op.by, i, op.of), r \in Verdicts
  PROVE  r = op.status
<1>. USE DEF Entries
<1>1. op.status # "cutoff" /\ op.status # "none" /\ op.status # "infrastructure_failure"
  BY DEF Verdicts
<1>2. PICK k \in Images \cup {Missing} :
        op.status \in Results(op.by, k, op.of) /\ op.images = JobImages(op.by, k, op.of)
  BY <1>1 DEF Recorded
<1>3. AnyImage \in Images /\ Missing \notin Images
  BY JudgeAssumption DEF AnyImage
<1>4. \A x \in Images : Decide[op.by][x][op.of] \in SUBSET Verdicts
  <2>1. op.by \in Judges /\ op.of \in Submissions
    OBVIOUS
  <2>2. Decide[op.by] \in [Images -> [Submissions -> (SUBSET Verdicts) \ {{}}]]
    BY <2>1, JudgeAssumption
  <2>3. \A x \in Images : Decide[op.by][x] \in [Submissions -> (SUBSET Verdicts) \ {{}}]
    BY <2>2
  <2>. QED  BY <2>1, <2>3
<1>5. CASE op.of \notin NeedsJob[op.by]
  <2>1. op.images = {}
    BY <1>2, <1>5 DEF JobImages
  <2>2. Cardinality(Decide[op.by][AnyImage][op.of]) = 1
    BY <2>1 DEF Steady
  <2>3. {r, op.status} \subseteq Decide[op.by][AnyImage][op.of]
    BY <1>2, <1>5 DEF Results
  <2>. DEFINE S == Decide[op.by][AnyImage][op.of]
  <2>4. S \subseteq Verdicts /\ Cardinality(S) = 1
    BY <1>3, <1>4, <2>2
  <2>5. r \in S /\ op.status \in S
    BY <2>3
  <2>. HIDE DEF S
  <2>6. PICK z : S = {z}
    BY <2>4, OneVerdict
  <2>7. r = z /\ op.status = z
    BY <2>5, <2>6
  <2>. QED  BY <2>7
<1>6. CASE op.of \in NeedsJob[op.by]
  <2>1. op.images = {k} /\ i = k
    BY <1>2, <1>6 DEF JobImages
  <2>2. k \in Images
    BY <1>1, <1>2, <1>6 DEF Results
  <2>3. Cardinality(Decide[op.by][k][op.of]) = 1
    BY <2>1 DEF Steady
  <2>4. {r, op.status} \subseteq Decide[op.by][k][op.of]
    BY <1>2, <1>3, <1>6, <2>1, <2>2 DEF Results
  <2>. DEFINE S == Decide[op.by][k][op.of]
  <2>5. S \subseteq Verdicts /\ Cardinality(S) = 1
    BY <1>4, <2>2, <2>3
  <2>6. r \in S /\ op.status \in S
    BY <2>4
  <2>. HIDE DEF S
  <2>7. PICK z : S = {z}
    BY <2>5, OneVerdict
  <2>8. r = z /\ op.status = z
    BY <2>6, <2>7
  <2>. QED  BY <2>8
<1>. QED  BY <1>5, <1>6

\* Stepping over one more operation of the ledger.
LEMMA CompletedNext ==
  ASSUME NEW n \in Nat, n >= 1
  PROVE  /\ Completed(n) = Completed(n - 1) \cup
                             (IF ledger[n].status # "cutoff" THEN {n} ELSE {})
         /\ IsFiniteSet(Completed(n - 1))
         /\ n \notin Completed(n - 1)
         /\ \A k \in Completed(n - 1) : k < n
<1>1. 1..n = (1..(n - 1)) \cup {n} /\ n - 1 \in Int
  OBVIOUS
<1>2. IsFiniteSet(1..(n - 1))
  BY <1>1, FS_Interval
<1>3. Completed(n - 1) \in SUBSET (1..(n - 1))
  BY DEF Completed
<1>4. IsFiniteSet(Completed(n - 1))
  BY <1>2, <1>3, FS_Subset
<1>5. Completed(n) = Completed(n - 1) \cup
                       (IF ledger[n].status # "cutoff" THEN {n} ELSE {})
  BY <1>1 DEF Completed
<1>6. n \notin Completed(n - 1) /\ \A k \in Completed(n - 1) : k < n
  <2>1. \A k \in 1..(n - 1) : k < n
    OBVIOUS
  <2>2. ~(n < n)
    OBVIOUS
  <2>. QED  BY <1>3, <2>1, <2>2
<1>. QED  BY <1>4, <1>5, <1>6

-----------------------------------------------------------------------------
(* The steps.                                                              *)

LEMMA NoRowsYet == pos = 1 /\ rows = <<>> /\ pc # "done" => RowsSoFar
<1>. SUFFICES ASSUME pos = 1, rows = <<>>, pc # "done" PROVE RowsSoFar
  OBVIOUS
<1>1. Completed(pos - 1) = {}
  <2>1. pos - 1 = 0 /\ 1..0 = {}
    OBVIOUS
  <2>. QED  BY <2>1 DEF Completed
<1>2. {rows[r].op : r \in DOMAIN rows} = {} /\ Len(rows) = 0
  OBVIOUS
<1>3. Cardinality({}) = 0
  BY FS_EmptySet
<1>. QED  BY <1>1, <1>2, <1>3 DEF RowsSoFar

LEMMA InitRegrade == Init => RegradeInv
<1>. SUFFICES ASSUME Init PROVE RegradeInv
  OBVIOUS
<1>1. TypeOK /\ Images # {}
  BY JudgeAssumption DEF Init, TypeOK, Judges
<1>2. IdleIsFresh /\ EntriesRecorded /\ Examined
  BY DEF Init, IdleIsFresh, EntriesRecorded, Examined
<1>3. RowsSoFar
  BY NoRowsYet DEF Init
<1>4. JudgedIsReplayable /\ FlipsOfSteadyAreTheJudges
  BY DEF Init, JudgedIsReplayable, FlipsOfSteadyAreTheJudges
<1>. QED  BY <1>1, <1>2, <1>3, <1>4 DEF RegradeInv

\* A step to no rows at all: between re-grades, and as one starts.
LEMMA FreshStep ==
  ASSUME RegradeInv, pc' \in {"idle", "row"}, pos' = 1, rows' = <<>>,
         image' \in Images \cup {Missing}, judge' \in Judges,
         ledger' \in Seq(Entries), EntriesRecorded'
  PROVE  RegradeInv'
<1>2. TypeOK'
  <2>1. rows' \in Seq([op : 1..Len(ledger'), outcome : Outcomes])
    BY EmptySeq
  <2>2. pos' \in 1..(Len(ledger') + 1)
    BY LenProperties
  <2>. QED  BY <2>1, <2>2 DEF RegradeInv, TypeOK, Entries
<1>3. IdleIsFresh' /\ Examined' /\ JudgedIsReplayable' /\ FlipsOfSteadyAreTheJudges'
  BY DEF IdleIsFresh, Examined, JudgedIsReplayable, FlipsOfSteadyAreTheJudges
<1>4. RowsSoFar'
  <2>1. (pos = 1 /\ rows = <<>> /\ pc # "done")'
    OBVIOUS
  <2>. QED  BY <2>1, NoRowsYet, PTL
<1>. QED  BY <1>2, <1>3, <1>4 DEF RegradeInv

LEMMA RecordRegrade ==
  ASSUME RegradeInv, NEW c \in Submissions, RecordCheck(c)
  PROVE  RegradeInv'
<1>1. /\ ledger \in Seq(Entries) /\ Images # {} /\ judge \in Judges
      /\ image \in Images \cup {Missing}
  BY DEF RegradeInv, TypeOK, Entries
<1>2. Draws[judge][c] \in Nat
  BY <1>1, JudgeAssumption
<1>3. PICK e : e \in Entries /\ Recorded(e) /\ ledger' = Append(ledger, e)
  <2>1. CASE \E r \in Results(judge, image, c) :
               ledger' = Append(ledger, [of |-> c, by |-> judge, status |-> r,
                                         images |-> JobImages(judge, image, c),
                                         seeds |-> Draws[judge][c], intact |-> "yes"])
    <3>1. PICK r \in Results(judge, image, c) :
            ledger' = Append(ledger, [of |-> c, by |-> judge, status |-> r,
                                      images |-> JobImages(judge, image, c),
                                      seeds |-> Draws[judge][c], intact |-> "yes"])
      BY <2>1
    <3>. DEFINE e == [of |-> c, by |-> judge, status |-> r,
                      images |-> JobImages(judge, image, c),
                      seeds |-> Draws[judge][c], intact |-> "yes"]
    <3>2. e \in Entries
      BY <1>1, <1>2, ResultsType DEF Entries
    <3>3. Recorded(e)
      BY <1>1 DEF Recorded
    <3>. QED  BY <3>1, <3>2, <3>3
  <2>2. CASE ledger' = Append(ledger, [of |-> c, by |-> judge, status |-> "cutoff",
                                       images |-> {}, seeds |-> 0, intact |-> "yes"])
    <3>. DEFINE e == [of |-> c, by |-> judge, status |-> "cutoff",
                      images |-> {}, seeds |-> 0, intact |-> "yes"]
    <3>1. e \in Entries
      BY <1>1 DEF Entries
    <3>2. Recorded(e)
      BY DEF Recorded
    <3>. QED  BY <2>2, <3>1, <3>2
  <2>. QED  BY <2>1, <2>2 DEF RecordCheck
<1>4. /\ ledger' \in Seq(Entries)
      /\ DOMAIN ledger' = 1..(Len(ledger) + 1) /\ DOMAIN ledger = 1..Len(ledger)
      /\ ledger'[Len(ledger) + 1] = e /\ Len(ledger) \in Nat
      /\ \A k \in 1..Len(ledger) : ledger'[k] = ledger[k]
  BY <1>1, <1>3, AppendProperties, LenProperties
<1>5. EntriesRecorded'
  <2>1. \A k \in 1..(Len(ledger) + 1) : k \in 1..Len(ledger) \/ k = Len(ledger) + 1
    BY <1>4
  <2>2. \A k \in DOMAIN ledger : Recorded(ledger[k])
    BY DEF RegradeInv, EntriesRecorded
  <2>3. \A k \in DOMAIN ledger' : Recorded(ledger'[k])
    BY <1>3, <1>4, <2>1, <2>2
  <2>. QED  BY <2>3 DEF EntriesRecorded
<1>. QED  BY <1>1, <1>4, <1>5, FreshStep DEF RecordCheck, RegradeInv, IdleIsFresh

LEMMA TamperRegrade ==
  ASSUME RegradeInv, NEW k \in DOMAIN ledger, Tamper(k)
  PROVE  RegradeInv'
<1>1. /\ ledger \in Seq(Entries) /\ judge \in Judges /\ image \in Images \cup {Missing}
  BY DEF RegradeInv, TypeOK, Entries
<1>2. ledger' = [ledger EXCEPT ![k] = [ledger[k] EXCEPT !.intact = "no"]]
  BY DEF Tamper
<1>3. ledger[k] \in Entries
  BY <1>1
<1>4. [ledger[k] EXCEPT !.intact = "no"] \in Entries
  BY <1>3 DEF Entries
<1>5. ledger' \in Seq(Entries) /\ DOMAIN ledger' = DOMAIN ledger
  BY <1>1, <1>2, <1>4
<1>6. EntriesRecorded'
  <2>1. ASSUME NEW x \in DOMAIN ledger PROVE Recorded(ledger'[x])
    <3>1. Recorded(ledger[x])
      BY DEF RegradeInv, EntriesRecorded
    <3>2. CASE x = k
      <4>1. /\ ledger'[x].of = ledger[x].of /\ ledger'[x].by = ledger[x].by
            /\ ledger'[x].status = ledger[x].status
            /\ ledger'[x].images = ledger[x].images /\ ledger'[x].seeds = ledger[x].seeds
        BY <1>1, <1>2, <1>3, <3>2 DEF Entries
      <4>. QED  BY <3>1, <4>1 DEF Recorded
    <3>3. CASE x # k
      BY <1>2, <3>1, <3>3
    <3>. QED  BY <3>2, <3>3
  <2>. QED  BY <1>5, <2>1 DEF EntriesRecorded
<1>. QED  BY <1>1, <1>5, <1>6, FreshStep DEF Tamper, RegradeInv, IdleIsFresh

\* A step of the re-grade that reports no row and stays on its operation.
LEMMA QuietStep ==
  ASSUME RegradeInv, UNCHANGED <<judge, ledger, pos, rows>>,
         image' \in Images \cup {Missing}, pc # "idle",
         pc' \in {"row", "image", "draw", "job", "done", "raised"},
         pc' = "done" => pos = Len(ledger) + 1, Examined'
  PROVE  RegradeInv'
<1>1. TypeOK' /\ Images # {} /\ IdleIsFresh'
  BY DEF RegradeInv, TypeOK, IdleIsFresh
<1>2. EntriesRecorded'
  BY DEF RegradeInv, EntriesRecorded
<1>3. RowsSoFar'
  BY DEF RegradeInv, RowsSoFar, Completed
<1>4. JudgedIsReplayable' /\ FlipsOfSteadyAreTheJudges'
  BY DEF RegradeInv, JudgedIsReplayable, FlipsOfSteadyAreTheJudges
<1>. QED  BY <1>1, <1>2, <1>3, <1>4 DEF RegradeInv

\* A row for the current operation.
LEMMA RowReported ==
  ASSUME RegradeInv, pc \in {"row", "image", "draw", "job"}, pos <= Len(ledger),
         Op.status # "cutoff", NEW o \in Outcomes, Report(o),
         UNCHANGED <<image, judge, ledger>>,
         o \in {"holds", "flipped"} =>
           Op.intact = "yes" /\ Op.status \in Verdicts /\ SeedsSuffice,
         o = "flipped" /\ ~LIVE_REBUILDS /\ Steady(Op) => Op.by # judge
  PROVE  RegradeInv'
<1>. DEFINE Row == [op : 1..Len(ledger), outcome : Outcomes]
            e == [op |-> pos, outcome |-> o]
<1>0. /\ rows \in Seq(Row) /\ ledger \in Seq(Entries) /\ pos \in 1..(Len(ledger) + 1)
  BY DEF RegradeInv, TypeOK, Entries
<1>. HIDE DEF Row
<1>1. Len(ledger) \in Nat /\ Len(rows) \in Nat /\ pos \in Nat /\ pos >= 1
  BY <1>0
<1>2. /\ rows' \in Seq(Row) /\ Len(rows') = Len(rows) + 1
      /\ DOMAIN rows = 1..Len(rows) /\ DOMAIN rows' = 1..(Len(rows) + 1)
      /\ rows'[Len(rows) + 1] = e
      /\ \A r \in 1..Len(rows) : rows'[r] = rows[r]
  <2>1. e \in Row
    BY <1>1 DEF Row
  <2>2. rows' = Append(rows, e)
    BY DEF Report
  <2>. QED  BY <1>0, <2>1, <2>2, AppendProperties, LenProperties
<1>3. \A r \in DOMAIN rows' : r \in DOMAIN rows \/ r = Len(rows) + 1
  BY <1>1, <1>2
<1>4. TypeOK'
  <2>1. pos' \in 1..(Len(ledger) + 1)
    BY <1>0, <1>1 DEF Report
  <2>2. rows' \in Seq([op : 1..Len(ledger), outcome : Outcomes])
    BY <1>2 DEF Row
  <2>. QED  BY <2>1, <2>2 DEF RegradeInv, TypeOK, Report
<1>5. IdleIsFresh' /\ Examined'
  BY DEF IdleIsFresh, Examined, Report
<1>6. EntriesRecorded'
  BY DEF RegradeInv, EntriesRecorded
<1>7. RowsSoFar'
  <2>1. pos' - 1 = pos /\ pos >= 1
    BY <1>1 DEF Report
  <2>2. Completed(pos - 1)' = Completed(pos)
    BY <2>1 DEF Completed
  <2>3. /\ Completed(pos) = Completed(pos - 1) \cup {pos}
        /\ IsFiniteSet(Completed(pos - 1)) /\ pos \notin Completed(pos - 1)
        /\ \A k \in Completed(pos - 1) : k < pos
    BY <1>1, <2>1, CompletedNext DEF Op
  <2>4. Cardinality(Completed(pos)) = Cardinality(Completed(pos - 1)) + 1
    BY <2>3, FS_AddElement
  <2>5. /\ {rows[r].op : r \in DOMAIN rows} = Completed(pos - 1)
        /\ Len(rows) = Cardinality(Completed(pos - 1))
    BY DEF RegradeInv, RowsSoFar
  <2>6. {rows'[r].op : r \in DOMAIN rows'} = Completed(pos)
    <3>1. {rows'[r].op : r \in DOMAIN rows'} =
            {rows[r].op : r \in DOMAIN rows} \cup {pos}
      <4>1. \A r \in DOMAIN rows : r \in DOMAIN rows' /\ rows'[r].op = rows[r].op
        BY <1>1, <1>2
      <4>2. Len(rows) + 1 \in DOMAIN rows' /\ rows'[Len(rows) + 1].op = pos
        BY <1>1, <1>2
      <4>. QED  BY <1>3, <4>1, <4>2
    <3>. QED  BY <2>3, <2>5, <3>1
  <2>7. ASSUME NEW r \in DOMAIN rows', NEW q \in DOMAIN rows', r < q
        PROVE  rows'[r].op < rows'[q].op
    <3>1. r \in DOMAIN rows /\ rows'[r].op = rows[r].op
      BY <1>1, <1>2, <2>7
    <3>2. CASE q \in DOMAIN rows
      BY <1>2, <2>7, <3>1, <3>2 DEF RegradeInv, RowsSoFar
    <3>3. CASE q = Len(rows) + 1
      <4>1. rows[r].op \in Completed(pos - 1)
        BY <2>5, <3>1
      <4>. QED  BY <1>2, <2>3, <3>1, <3>3, <4>1
    <3>. QED  BY <1>3, <3>2, <3>3
  <2>8. pc' # "done"
    BY DEF Report
  <2>. QED  BY <1>2, <2>2, <2>4, <2>5, <2>6, <2>7, <2>8 DEF RowsSoFar
<1>8. JudgedIsReplayable'
  <2>. SUFFICES ASSUME NEW r \in DOMAIN rows', rows'[r].outcome \in {"holds", "flipped"}
                PROVE  LET op == ledger[rows'[r].op] IN
                         /\ op.intact = "yes" /\ op.status \in Verdicts
                         /\ Draws[judge][op.of] <= op.seeds
    BY DEF JudgedIsReplayable
  <2>1. CASE r \in DOMAIN rows
    BY <1>2, <2>1 DEF RegradeInv, JudgedIsReplayable
  <2>2. CASE r = Len(rows) + 1
    BY <1>2, <2>2 DEF Op, SeedsSuffice
  <2>. QED  BY <1>3, <2>1, <2>2
<1>9. FlipsOfSteadyAreTheJudges'
  <2>. SUFFICES ASSUME ~LIVE_REBUILDS, NEW r \in DOMAIN rows',
                       rows'[r].outcome = "flipped", Steady(ledger[rows'[r].op])
                PROVE  ledger[rows'[r].op].by # judge
    BY DEF FlipsOfSteadyAreTheJudges
  <2>1. CASE r \in DOMAIN rows
    BY <1>2, <2>1 DEF RegradeInv, FlipsOfSteadyAreTheJudges
  <2>2. CASE r = Len(rows) + 1
    BY <1>2, <2>2 DEF Op
  <2>. QED  BY <1>3, <2>1, <2>2
<1>. QED  BY <1>4, <1>5, <1>6, <1>7, <1>8, <1>9 DEF RegradeInv

LEMMA StepRegrade == RegradeInv /\ [Next]_vars => RegradeInv'
<1>. SUFFICES ASSUME RegradeInv, [Next]_vars PROVE RegradeInv'
  OBVIOUS
<1>. USE DEF Judges
<1>0. /\ ledger \in Seq(Entries) /\ judge \in Judges /\ image \in Images \cup {Missing}
      /\ EntriesRecorded
  BY DEF RegradeInv, TypeOK, Entries
<1>1. CASE \E c \in Submissions : RecordCheck(c)
  BY <1>1, RecordRegrade
<1>2. CASE \E k \in DOMAIN ledger : Tamper(k)
  BY <1>2, TamperRegrade
<1>3. CASE NewJudge
  <2>1. judge' \in Judges
    BY <1>0, <1>3, JudgeAssumption DEF NewJudge
  <2>2. EntriesRecorded' /\ pos' = 1 /\ rows' = <<>> /\ pc' = "idle"
    BY <1>0, <1>3 DEF NewJudge, EntriesRecorded, RegradeInv, IdleIsFresh
  <2>. QED  BY <1>0, <1>3, <2>1, <2>2, FreshStep DEF NewJudge
<1>4. CASE \E i \in Images \cup {Missing} : Rebuild(i)
  <2>1. image' \in Images \cup {Missing} /\ UNCHANGED <<judge, ledger, pc, pos, rows>>
    BY <1>4 DEF Rebuild
  <2>2. CASE pc = "idle"
    <3>1. EntriesRecorded' /\ pos' = 1 /\ rows' = <<>>
      BY <1>0, <2>1, <2>2 DEF EntriesRecorded, RegradeInv, IdleIsFresh
    <3>. QED  BY <1>0, <2>1, <2>2, <3>1, FreshStep
  <2>3. CASE pc # "idle"
    <3>1. LIVE_REBUILDS
      BY <1>4, <2>3 DEF Rebuild
    <3>2. Examined'
      BY <2>1, <3>1 DEF RegradeInv, Examined, Op, SeedsSuffice
    <3>. QED  BY <2>1, <2>3, <3>2, QuietStep DEF RegradeInv, TypeOK, RowsSoFar
  <2>. QED  BY <2>2, <2>3
<1>5. CASE StartRegrade \/ NextRegrade
  <2>1. EntriesRecorded'
    BY <1>0, <1>5 DEF StartRegrade, NextRegrade, EntriesRecorded
  <2>. QED  BY <1>0, <1>5, <2>1, FreshStep DEF StartRegrade, NextRegrade
<1>6. CASE SkipOpen
  <2>1. pos \in Nat /\ pos >= 1 /\ Len(ledger) \in Nat /\ pos' \in 1..(Len(ledger) + 1)
    BY <1>0, <1>6 DEF SkipOpen, RegradeInv, TypeOK
  <2>2. pos' - 1 = pos
    BY <1>6, <2>1 DEF SkipOpen
  <2>3. Completed(pos) = Completed(pos - 1)
    <3>1. ledger[pos].status = "cutoff"
      BY <1>6 DEF SkipOpen, Op
    <3>2. Completed(pos) = Completed(pos - 1) \cup
                             (IF ledger[pos].status # "cutoff" THEN {pos} ELSE {})
      BY <2>1, CompletedNext
    <3>. QED  BY <3>1, <3>2
  <2>4. Completed(pos - 1)' = Completed(pos - 1)
    <3>1. UNCHANGED ledger
      BY <1>6 DEF SkipOpen
    <3>2. Completed(pos - 1)' = Completed(pos)
      BY <2>2, <3>1 DEF Completed
    <3>. QED  BY <2>3, <3>2
  <2>5. RowsSoFar'
    BY <1>6, <2>4 DEF SkipOpen, RegradeInv, RowsSoFar
  <2>6. TypeOK' /\ IdleIsFresh' /\ Examined'
    BY <1>6, <2>1 DEF SkipOpen, RegradeInv, TypeOK, IdleIsFresh, Examined
  <2>7. EntriesRecorded' /\ JudgedIsReplayable' /\ FlipsOfSteadyAreTheJudges'
    BY <1>6 DEF SkipOpen, RegradeInv, EntriesRecorded, JudgedIsReplayable,
                FlipsOfSteadyAreTheJudges
  <2>. QED  BY <2>5, <2>6, <2>7 DEF RegradeInv
<1>7. CASE Examine
  <2>1. /\ pc = "row" /\ pos <= Len(ledger) /\ Op.status # "cutoff"
        /\ UNCHANGED <<image, judge, ledger>>
    BY <1>7 DEF Examine
  <2>2. CASE EvidenceFault # "none"
    <3>1. EvidenceFault \in {"refused", "unreplayable"} /\ Report(EvidenceFault)
      BY <1>7, <2>2 DEF Examine, EvidenceFault
    <3>. QED  BY <2>1, <3>1, RowReported DEF Outcomes
  <2>3. CASE EvidenceFault = "none"
    <3>1. pc' = "image" /\ UNCHANGED <<pos, rows>>
      BY <1>7, <2>3 DEF Examine
    <3>2. Op \in Entries
      BY <1>0, <2>1 DEF Op, RegradeInv, TypeOK
    <3>3. Op.intact = "yes" /\ Op.status \in Verdicts /\ Op.of \in Offered[judge]
      BY <2>1, <2>3, <3>2 DEF EvidenceFault, Entries
    <3>4. Examined'
      BY <2>1, <3>1, <3>3 DEF Examined, Op
    <3>. QED  BY <1>0, <2>1, <3>1, <3>4, QuietStep
  <2>. QED  BY <2>2, <2>3
<1>8. CASE CompareImage
  <2>1. /\ pc = "image" /\ pos <= Len(ledger) /\ Op.status \in Verdicts
        /\ Op.intact = "yes" /\ Op.of \in Offered[judge] /\ Op.status # "cutoff"
        /\ UNCHANGED <<image, judge, ledger>>
    BY <1>8 DEF CompareImage, RegradeInv, Examined, Verdicts
  <2>2. CASE pc' = "raised" /\ UNCHANGED <<pos, rows>>
    <3>1. Examined'
      BY <2>2 DEF Examined
    <3>. QED  BY <1>0, <2>1, <2>2, <3>1, QuietStep
  <2>3. CASE SameImage /\ pc' = "draw" /\ UNCHANGED <<pos, rows>>
    <3>1. Examined'
      BY <2>1, <2>3 DEF Examined, Op, SameImage
    <3>. QED  BY <1>0, <2>1, <2>3, <3>1, QuietStep
  <2>4. CASE Report("unreplayable")
    BY <2>1, <2>4, RowReported DEF Outcomes
  <2>. QED  BY <1>8, <2>2, <2>3, <2>4 DEF CompareImage
<1>9. CASE DrawSeeds
  <2>1. /\ pc = "draw" /\ pos <= Len(ledger) /\ Op.status \in Verdicts
        /\ Op.intact = "yes" /\ Op.of \in Offered[judge] /\ Op.status # "cutoff"
        /\ UNCHANGED <<image, judge, ledger>> /\ (~LIVE_REBUILDS => SameImage)
    BY <1>9 DEF DrawSeeds, RegradeInv, Examined, Verdicts
  <2>2. CASE SeedsSuffice
    <3>1. pc' = "job" /\ UNCHANGED <<pos, rows>>
      BY <1>9, <2>2 DEF DrawSeeds
    <3>2. Examined'
      BY <2>1, <2>2, <3>1 DEF Examined, Op, SameImage, SeedsSuffice
    <3>. QED  BY <1>0, <2>1, <3>1, <3>2, QuietStep
  <2>3. CASE ~SeedsSuffice
    <3>1. Report("unreplayable")
      BY <1>9, <2>3 DEF DrawSeeds
    <3>. QED  BY <2>1, <3>1, RowReported DEF Outcomes
  <2>. QED  BY <2>2, <2>3
<1>10. CASE ReCheck
  <2>1. /\ pc = "job" /\ pos <= Len(ledger) /\ Op.status \in Verdicts
        /\ Op.intact = "yes" /\ Op.status # "cutoff" /\ SeedsSuffice
        /\ UNCHANGED <<image, judge, ledger>> /\ (~LIVE_REBUILDS => SameImage)
    BY <1>10 DEF ReCheck, RegradeInv, Examined, Verdicts
  <2>2. PICK r \in Results(judge, image, Op.of) :
          IF r \in Verdicts THEN Report(Holds(r))
          ELSE pc' = "raised" /\ UNCHANGED <<pos, rows>>
    BY <1>10 DEF ReCheck
  <2>3. CASE r \notin Verdicts
    <3>1. pc' = "raised" /\ UNCHANGED <<pos, rows>>
      BY <2>2, <2>3
    <3>2. Examined'
      BY <3>1 DEF Examined
    <3>. QED  BY <1>0, <2>1, <3>1, <3>2, QuietStep
  <2>4. CASE r \in Verdicts
    <3>1. Report(Holds(r)) /\ Holds(r) \in {"holds", "flipped"}
      BY <2>2, <2>4 DEF Holds
    <3>2. Op \in Entries /\ Recorded(Op)
      BY <1>0, <2>1 DEF Op, RegradeInv, TypeOK, EntriesRecorded
    <3>3. ASSUME Holds(r) = "flipped", ~LIVE_REBUILDS, Steady(Op)
          PROVE  Op.by # judge
      <4>. SUFFICES ASSUME Op.by = judge PROVE FALSE
        OBVIOUS
      <4>1. Op.images = {} \/ Op.images = {image}
        BY <2>1, <3>3 DEF SameImage
      <4>2. r \in Results(Op.by, image, Op.of)
        OBVIOUS
      <4>3. Images # {}
        BY DEF RegradeInv
      <4>4. r = Op.status
        BY <1>0, <2>1, <2>4, <3>2, <3>3, <4>1, <4>2, <4>3, SteadyRepeats
      <4>. QED  BY <3>3, <4>4 DEF Holds
    <3>. QED  BY <2>1, <3>1, <3>3, RowReported DEF Outcomes
  <2>. QED  BY <2>3, <2>4
<1>11. CASE Finish
  <2>1. pos = Len(ledger) + 1 /\ pc' = "done" /\ UNCHANGED <<image, judge, ledger, pos, rows>>
    BY <1>0, <1>11 DEF Finish, RegradeInv, TypeOK
  <2>2. Examined'
    BY <2>1 DEF Examined
  <2>. QED  BY <1>0, <1>11, <2>1, <2>2, QuietStep DEF Finish
<1>12. CASE UNCHANGED vars
  <2>1. TypeOK' /\ IdleIsFresh' /\ EntriesRecorded'
    BY <1>12 DEF vars, RegradeInv, TypeOK, IdleIsFresh, EntriesRecorded
  <2>2. RowsSoFar' /\ Examined'
    BY <1>12 DEF vars, RegradeInv, RowsSoFar, Completed, Examined, Op, SameImage, SeedsSuffice
  <2>3. JudgedIsReplayable' /\ FlipsOfSteadyAreTheJudges'
    BY <1>12 DEF vars, RegradeInv, JudgedIsReplayable, FlipsOfSteadyAreTheJudges
  <2>. QED  BY <2>1, <2>2, <2>3 DEF RegradeInv
<1>. QED
  BY <1>1, <1>2, <1>3, <1>4, <1>5, <1>6, <1>7, <1>8, <1>9, <1>10, <1>11, <1>12 DEF Next

-----------------------------------------------------------------------------

\* The inductive invariant of ledger and re-grade.
THEOREM RegradeInvariant == Spec => []RegradeInv
BY InitRegrade, StepRegrade, PTL DEF Spec

\* Every variable of the re-grade keeps its type.
THEOREM RegradeTypeCorrect == Spec => []TypeOK
<1>1. RegradeInv => TypeOK
  BY DEF RegradeInv
<1>. QED  BY <1>1, RegradeInvariant, PTL

\* A re-grade that runs to its end has one row per completed check, in the
\* ledger's order: none dropped, none repeated, whichever branch reported it.
THEOREM RegradeRowsComplete == Spec => []RowsComplete
<1>1. RegradeInv => RowsComplete
  <2>. SUFFICES ASSUME RegradeInv, pc = "done" PROVE
         LET completed == {k \in DOMAIN ledger : ledger[k].status # "cutoff"} IN
           /\ {rows[r].op : r \in DOMAIN rows} = completed
           /\ Len(rows) = Cardinality(completed)
           /\ \A r, q \in DOMAIN rows : r < q => rows[r].op < rows[q].op
    BY DEF RowsComplete
  <2>1. ledger \in Seq(Entries) /\ pos = Len(ledger) + 1
    BY DEF RegradeInv, TypeOK, RowsSoFar, Entries
  <2>2. pos - 1 = Len(ledger) /\ DOMAIN ledger = 1..Len(ledger)
    BY <2>1
  <2>3. {k \in DOMAIN ledger : ledger[k].status # "cutoff"} = Completed(pos - 1)
    BY <2>2 DEF Completed
  <2>. QED  BY <2>3 DEF RegradeInv, RowsSoFar
<1>. QED  BY <1>1, RegradeInvariant, PTL

\* Only intact evidence with a verdict and enough seeds is judged again, even
\* when the image is rebuilt meanwhile.
THEOREM RegradeJudgedIsReplayable == Spec => []JudgedIsReplayable
<1>1. RegradeInv => JudgedIsReplayable
  BY DEF RegradeInv
<1>. QED  BY <1>1, RegradeInvariant, PTL

\* With the image left alone during the re-grade, a flip on a submission its
\* judge decides one way is a change of judge.
THEOREM RegradeFlipsOfSteady == Spec => []FlipsOfSteadyAreTheJudges
<1>1. RegradeInv => FlipsOfSteadyAreTheJudges
  BY DEF RegradeInv
<1>. QED  BY <1>1, RegradeInvariant, PTL
=============================================================================
