----------------------------- MODULE CorpusProofs -----------------------------
(***************************************************************************)
(* Proofs about the corpus on disk (CorpusBuild) and the campaign writer   *)
(* (Campaign), for every set of seeds, any number of concurrent builders   *)
(* and every bound.                                                        *)
(*                                                                         *)
(* The argument is about which slots are settled: no build that has yet to *)
(* fill the manifest has them in its plan and none left them dirty.  The   *)
(* manifest, and every manifest a build is about to write, describes the   *)
(* binaries of the settled slots.                                          *)
(***************************************************************************)
EXTENDS Campaign, TLAPS, SequenceTheorems, FiniteSetTheorems

Tables == UNION {[D -> Entries] : D \in SUBSET Slots}
Jobs ==
  [pc : {"idle", "compile", "strip", "write", "fill", "stamp"},
   plan : SUBSET Slots, merge : {"merge", "fresh"}, version : 0..MAX_CODE,
   todo : SUBSET Slots, built : Tables, before : Tables \cup {Torn},
   alone : {"yes", "no"}]

\* The types, with what TypeOK leaves open: tables and jobs are functions.
Shapes ==
  /\ source \in [Seeds -> 1..MAX_EDITS] /\ code \in 1..MAX_CODE
  /\ bin \in [Slots -> [of : 0..MAX_EDITS, form : Variants]]
  /\ manifest \in Tables \cup {Torn}
  /\ stamp \in 0..code /\ builds \in 0..MAX_BUILDS
  /\ dirty \in SUBSET Slots /\ mixed \in {"yes", "no"}
  /\ job \in [Builders -> Jobs]
  /\ \A b \in Builders : job[b].todo \subseteq job[b].plan

\* What a build has done, by its own place in the code.
Planned(b) ==
  /\ b \in Busy => job[b].version \in 1..code
  /\ job[b].pc = "compile" => \A s \in job[b].plan \ job[b].todo : bin[s].of > 0
  /\ job[b].pc = "strip" =>
       DOMAIN job[b].built = job[b].plan /\ job[b].todo \subseteq Stripped(job[b].plan)
  /\ job[b].pc \in {"strip", "write", "fill"} /\ job[b].merge = "fresh" =>
       \A s \in DOMAIN job[b].built : job[b].built[s].under = job[b].version

\* A build that is alone is the only one, and what it read is still there.
Alone(b) ==
  job[b].alone = "yes" /\ b \in Busy =>
    LET j == job[b] IN
    /\ Busy = {b} /\ stamp <= j.version
    /\ j.pc = "strip" =>
         \A s \in j.plan :
           /\ j.built[s].of = bin[s].of
           /\ s \notin j.todo => bin[s].form = s.variant
    /\ j.pc \in {"write", "fill"} =>
         /\ j.plan \subseteq DOMAIN j.built
         /\ \A s \in j.plan : bin[s] = [of |-> j.built[s].of, form |-> s.variant]
    /\ j.pc = "fill" => manifest = Torn
    /\ j.merge = "merge" =>
         /\ j.pc \in {"compile", "strip"} => manifest = j.before
         /\ j.pc \in {"write", "fill"} =>
              /\ DOMAIN j.built = DOMAIN j.before \cup j.plan
              /\ \A s \in DOMAIN j.before \ j.plan : j.built[s] = j.before[s]

\* The slots no build will write to before it fills the manifest.
Working == {b \in Builders : job[b].pc \notin {"idle", "stamp"}}
Settled(s) == s \notin dirty /\ \A b \in Working : s \notin job[b].plan
Describes(table) ==
  \A s \in DOMAIN table : Settled(s) => bin[s] = [of |-> table[s].of, form |-> s.variant]
Truthful ==
  /\ manifest # Torn => Describes(manifest)
  /\ \A b \in Builders : job[b].pc \in {"write", "fill"} => Describes(job[b].built)

\* One canonicalizer wrote all of an unmixed manifest; the stamp is its own or
\* an older one.
OneHand ==
  mixed = "no" /\ manifest # Torn =>
    \E v \in stamp..code :
      /\ \A s \in DOMAIN manifest : manifest[s].under = v
      /\ \A b \in Builders : job[b].pc = "stamp" => job[b].version = v

CorpusInv ==
  /\ Shapes
  /\ \A b \in Builders : Planned(b) /\ Alone(b)
  /\ Truthful /\ OneHand /\ TargetedKeepsOthers

-----------------------------------------------------------------------------
(* Tables.                                                                 *)

LEMMA TableIntro ==
  ASSUME NEW D \in SUBSET Slots, NEW f \in [D -> Entries]
  PROVE  f \in Tables
BY DEF Tables

LEMMA TableElim ==
  ASSUME NEW f \in Tables
  PROVE  DOMAIN f \subseteq Slots /\ f \in [DOMAIN f -> Entries] /\ Table(f)
<1>1. PICK D \in SUBSET Slots : f \in [D -> Entries]
  BY DEF Tables
<1>. QED  BY <1>1 DEF Table

LEMMA EmptyTable == Empty \in Tables /\ DOMAIN Empty = {}
<1>1. DOMAIN Empty = {} /\ Empty \in [{} -> Entries]
  BY DEF Empty
<1>. QED  BY <1>1, TableIntro

LEMMA MergedTable ==
  ASSUME NEW old \in Tables, NEW new \in Tables
  PROVE  /\ Merged(old, new) \in Tables
         /\ DOMAIN Merged(old, new) = DOMAIN old \cup DOMAIN new
         /\ \A s \in DOMAIN new : Merged(old, new)[s] = new[s]
         /\ \A s \in DOMAIN old \ DOMAIN new : Merged(old, new)[s] = old[s]
<1>1. /\ DOMAIN old \subseteq Slots /\ old \in [DOMAIN old -> Entries]
      /\ DOMAIN new \subseteq Slots /\ new \in [DOMAIN new -> Entries]
  BY TableElim
<1>2. Merged(old, new) \in [DOMAIN old \cup DOMAIN new -> Entries]
  BY <1>1 DEF Merged
<1>3. DOMAIN old \cup DOMAIN new \in SUBSET Slots
  BY <1>1
<1>. QED  BY <1>2, <1>3, TableIntro DEF Merged

LEMMA NoJobShape == NoJob \in Jobs /\ NoJob.pc = "idle" /\ NoJob.todo \subseteq NoJob.plan
BY EmptyTable, CorpusAssumption DEF NoJob, Jobs

\* While a build is at work no other one is alone.
LEMMA OthersNotAlone ==
  ASSUME CorpusInv, NEW b \in Busy, NEW c \in Busy, c # b
  PROVE  job[c].alone = "no"
<1>1. job[c].alone \in {"yes", "no"} /\ Alone(c)
  BY DEF CorpusInv, Shapes, Jobs, Busy
<1>. QED  BY <1>1 DEF Alone

-----------------------------------------------------------------------------
(* A build's own steps up to the filling of the manifest: they touch the   *)
(* binaries of its plan, its job and, at the end, tear the manifest.       *)

Early == {"compile", "strip", "write", "fill"}

OwnStep(b) ==
  /\ job' \in [Builders -> Jobs]
  /\ \A c \in Builders \ {b} : job'[c] = job[c]
  /\ job[b].pc \in Early /\ job'[b].pc \in Early
  /\ job'[b].plan = job[b].plan /\ job'[b].merge = job[b].merge
  /\ job'[b].version = job[b].version /\ job'[b].before = job[b].before
  /\ job'[b].alone = job[b].alone /\ job'[b].todo \subseteq job[b].plan
  /\ UNCHANGED <<source, code, stamp, builds, dirty, mixed>>
  /\ bin' \in [Slots -> [of : 0..MAX_EDITS, form : Variants]]
  /\ \A s \in Slots \ job[b].plan : bin'[s] = bin[s]
  /\ \A s \in Slots : bin[s].of > 0 => bin'[s].of > 0
  /\ manifest' \in {manifest, Torn}

\* Such a step changes neither who is at work nor what is settled.
LEMMA OwnStepSettled ==
  ASSUME Shapes, NEW b \in Builders, OwnStep(b)
  PROVE  /\ Busy' = Busy /\ b \in Busy /\ Working' = Working /\ b \in Working
         /\ \A s : Settled(s)' <=> Settled(s)
         /\ \A s \in Slots : Settled(s) => bin'[s] = bin[s]
<1>1. \A c \in Builders : job'[c].plan = job[c].plan
  BY DEF OwnStep
<1>2. \A c \in Builders : job'[c].pc = "idle" <=> job[c].pc = "idle"
  BY DEF OwnStep, Early
<1>3. \A c \in Builders : job'[c].pc \in {"idle", "stamp"} <=> job[c].pc \in {"idle", "stamp"}
  BY DEF OwnStep, Early
<1>4. Busy' = Busy /\ b \in Busy
  BY <1>2 DEF Busy, OwnStep, Early
<1>5. Working' = Working /\ b \in Working
  BY <1>3 DEF Working, OwnStep, Early
<1>6. \A s : Settled(s)' <=> Settled(s)
  BY <1>1, <1>5 DEF Settled, OwnStep, Working
<1>7. \A s \in Slots : Settled(s) => bin'[s] = bin[s]
  BY <1>5 DEF Settled, OwnStep
<1>. QED  BY <1>4, <1>5, <1>6, <1>7

\* It keeps the invariant if it keeps the build's own part of it.
LEMMA OwnStepKeeps ==
  ASSUME CorpusInv, NEW b \in Builders, OwnStep(b), Planned(b)', Alone(b)',
         job'[b].pc \in {"write", "fill"} => Describes(job[b].built)'
  PROVE  CorpusInv'
<1>. USE DEF CorpusInv
<1>1. /\ Busy' = Busy /\ b \in Busy /\ Working' = Working /\ b \in Working
      /\ \A s : Settled(s)' <=> Settled(s)
      /\ \A s \in Slots : Settled(s) => bin'[s] = bin[s]
  BY OwnStepSettled
<1>2. Shapes'
  BY DEF Shapes, OwnStep
<1>3. ASSUME NEW c \in Builders, c # b
      PROVE  /\ job'[c] = job[c] /\ Planned(c)' /\ Alone(c)'
             /\ job[c].alone = "no" \/ c \notin Busy
  <2>1. job'[c] = job[c]
    BY <1>3 DEF OwnStep
  <2>2. job[c].plan \subseteq Slots
    BY DEF Shapes, Jobs
  <2>3. Planned(c)'
    BY <1>1, <2>1, <2>2 DEF Planned, OwnStep
  <2>4. job[c].alone = "no" \/ c \notin Busy
    <3>1. job[c].alone \in {"yes", "no"}
      BY DEF Shapes, Jobs
    <3>2. Alone(c)
      OBVIOUS
    <3>. QED  BY <1>1, <1>3, <3>1, <3>2 DEF Alone
  <2>5. Alone(c)'
    BY <1>1, <2>1, <2>4 DEF Alone
  <2>. QED  BY <2>1, <2>3, <2>4, <2>5
<1>4. Truthful'
  <2>1. ASSUME NEW t \in Tables, Describes(t)
        PROVE  \A s \in DOMAIN t :
                 Settled(s)' => bin'[s] = [of |-> t[s].of, form |-> s.variant]
    BY <1>1, <2>1, TableElim DEF Describes
  <2>2. manifest' # Torn => Describes(manifest)'
    <3>. SUFFICES ASSUME manifest' # Torn PROVE Describes(manifest)'
      OBVIOUS
    <3>1. manifest' = manifest /\ manifest \in Tables /\ Describes(manifest)
      BY DEF OwnStep, Shapes, Truthful
    <3>. QED  BY <2>1, <3>1 DEF Describes
  <2>3. ASSUME NEW c \in Builders, job'[c].pc \in {"write", "fill"}
        PROVE  Describes(job[c].built)'
    <3>1. CASE c = b
      BY <2>3, <3>1
    <3>2. CASE c # b
      <4>1. /\ job'[c] = job[c] /\ job[c].built \in Tables
            /\ Describes(job[c].built)
        BY <1>3, <2>3, <3>2 DEF Shapes, Jobs, Truthful
      <4>. QED  BY <2>1, <4>1 DEF Describes
    <3>. QED  BY <3>1, <3>2
  <2>. QED  BY <2>2, <2>3 DEF Truthful
<1>5. OneHand'
  <2>. SUFFICES ASSUME mixed = "no", manifest = manifest', manifest # Torn
                PROVE  \E v \in stamp..code :
                         /\ \A s \in DOMAIN manifest : manifest[s].under = v
                         /\ \A c \in Builders : job'[c].pc = "stamp" => job'[c].version = v
    BY DEF OneHand, OwnStep
  <2>1. PICK v \in stamp..code :
          /\ \A s \in DOMAIN manifest : manifest[s].under = v
          /\ \A c \in Builders : job[c].pc = "stamp" => job[c].version = v
    BY DEF OneHand
  <2>2. \A c \in Builders : job'[c].pc = "stamp" => job'[c].version = v
    BY <1>3, <2>1 DEF OwnStep, Early
  <2>. QED  BY <2>1, <2>2
<1>6. TargetedKeepsOthers'
  <2>1. ASSUME NEW c \in Builders, job'[c].pc = "stamp", job'[c].alone = "yes"
        PROVE  FALSE
    <3>1. c # b
      BY <2>1 DEF OwnStep, Early
    <3>2. c \in Busy
      BY <1>3, <2>1, <3>1 DEF Busy
    <3>. QED  BY <1>3, <2>1, <3>1, <3>2
  <2>. QED  BY <2>1 DEF TargetedKeepsOthers
<1>7. \A c \in Builders : Planned(c)' /\ Alone(c)'
  BY <1>3
<1>. QED  BY <1>2, <1>4, <1>5, <1>6, <1>7

\* The own part of a build in its early stages, when only that build is alone.
LEMMA OwnAlone ==
  ASSUME CorpusInv, NEW b \in Builders, OwnStep(b), job[b].alone = "yes"
  PROVE  Busy' = {b} /\ stamp' <= job'[b].version /\ b \in Busy
<1>1. Busy' = Busy /\ b \in Busy
  BY OwnStepSettled DEF CorpusInv
<1>2. Busy = {b} /\ stamp <= job[b].version
  BY <1>1 DEF CorpusInv, Alone
<1>. QED  BY <1>1, <1>2 DEF OwnStep

LEMMA CompileKeeps ==
  ASSUME CorpusInv, NEW b \in Builders, Compile(b)
  PROVE  CorpusInv'
<1>1. PICK s \in Foremost(job[b].todo) :
        /\ bin' = [bin EXCEPT ![s] = [of |-> source[s.seed], form |-> "sym"]]
        /\ job' = [job EXCEPT ![b].todo = @ \ {s}]
  BY DEF Compile
<1>2. /\ job \in [Builders -> Jobs] /\ job[b].todo \subseteq job[b].plan
      /\ job[b].plan \subseteq Slots /\ source \in [Seeds -> 1..MAX_EDITS]
      /\ bin \in [Slots -> [of : 0..MAX_EDITS, form : Variants]]
      /\ MAX_EDITS \in Nat
  BY CorpusAssumption DEF CorpusInv, Shapes, Jobs
<1>3. s \in job[b].todo /\ s \in Slots /\ s \in job[b].plan /\ s.seed \in Seeds
  BY <1>2 DEF Foremost, Slots
<1>4. /\ job' \in [Builders -> Jobs]
      /\ \A c \in Builders \ {b} : job'[c] = job[c]
      /\ job'[b] = [job[b] EXCEPT !.todo = job[b].todo \ {s}]
  BY <1>1, <1>2 DEF Jobs
<1>5. /\ job[b].pc = "compile" /\ job'[b].pc = "compile"
      /\ job'[b].plan = job[b].plan /\ job'[b].merge = job[b].merge
      /\ job'[b].version = job[b].version /\ job'[b].before = job[b].before
      /\ job'[b].alone = job[b].alone /\ job'[b].todo = job[b].todo \ {s}
      /\ job'[b].built = job[b].built
  BY <1>2, <1>4 DEF Compile, Jobs
<1>6. /\ source[s.seed] \in 1..MAX_EDITS
      /\ bin' \in [Slots -> [of : 0..MAX_EDITS, form : Variants]]
  BY <1>1, <1>2, <1>3 DEF Variants
<1>7. bin'[s].of > 0 /\ \A x \in Slots \ {s} : bin'[x] = bin[x]
  BY <1>1, <1>2, <1>3, <1>6
<1>8. OwnStep(b)
  BY <1>2, <1>3, <1>4, <1>5, <1>6, <1>7 DEF OwnStep, Early, Compile
<1>9. Planned(b)'
  <2>1. job[b].version \in 1..code
    BY <1>5 DEF CorpusInv, Planned, Busy
  <2>2. ASSUME NEW x \in job[b].plan \ (job[b].todo \ {s}) PROVE bin'[x].of > 0
    <3>1. CASE x = s
      BY <1>7, <3>1
    <3>2. CASE x # s
      BY <1>2, <1>5, <1>7, <3>2 DEF CorpusInv, Planned
    <3>. QED  BY <3>1, <3>2
  <2>. QED  BY <1>5, <2>1, <2>2 DEF Planned, Compile
<1>10. Alone(b)'
  <2>. SUFFICES ASSUME job[b].alone = "yes" PROVE Alone(b)'
    BY <1>5 DEF Alone
  <2>1. Busy' = {b} /\ stamp' <= job'[b].version /\ b \in Busy
    BY <1>8, OwnAlone
  <2>2. job[b].merge = "merge" => manifest = job[b].before
    BY <1>5, <2>1 DEF CorpusInv, Alone
  <2>. QED  BY <1>5, <2>1, <2>2 DEF Alone, Compile
<1>. QED  BY <1>5, <1>8, <1>9, <1>10, OwnStepKeeps

LEMMA SymtabKeeps ==
  ASSUME CorpusInv, NEW b \in Builders, Symtab(b)
  PROVE  CorpusInv'
<1>. DEFINE new == [s \in job[b].plan |-> [of |-> bin[s].of, under |-> job[b].version]]
<1>1. /\ job \in [Builders -> Jobs] /\ job[b].plan \subseteq Slots
      /\ bin \in [Slots -> [of : 0..MAX_EDITS, form : Variants]]
      /\ MAX_EDITS \in Nat /\ MAX_CODE \in Nat /\ code \in 1..MAX_CODE
  BY CorpusAssumption DEF CorpusInv, Shapes, Jobs
<1>2. /\ job[b].pc = "compile" /\ job[b].todo = {}
      /\ \A s \in job[b].plan : bin[s].form = "sym"
  BY DEF Symtab
<1>3. job[b].version \in 1..code /\ \A s \in job[b].plan : bin[s].of > 0
  BY <1>2 DEF CorpusInv, Planned, Busy
<1>4. new \in Tables
  <2>1. \A s \in job[b].plan : [of |-> bin[s].of, under |-> job[b].version] \in Entries
    BY <1>1, <1>3 DEF Entries
  <2>2. new \in [job[b].plan -> Entries]
    BY <2>1
  <2>. QED  BY <1>1, <2>2, TableIntro
<1>. HIDE DEF new
<1>. DEFINE j == [job[b] EXCEPT !.built = new, !.pc = "strip",
                                !.todo = Stripped(job[b].plan)]
<1>j. /\ j \in Jobs /\ j.pc = "strip" /\ j.built = new
      /\ j.todo = Stripped(job[b].plan)
      /\ j.plan = job[b].plan /\ j.merge = job[b].merge
      /\ j.version = job[b].version /\ j.before = job[b].before
      /\ j.alone = job[b].alone
  <2>1. Stripped(job[b].plan) \in SUBSET Slots
    BY <1>1 DEF Stripped
  <2>2. job[b] \in Jobs
    BY <1>1
  <2>. QED  BY <1>4, <2>1, <2>2 DEF Jobs
<1>k. job' = [job EXCEPT ![b] = j]
  <2>1. job' = [job EXCEPT ![b].built = new, ![b].pc = "strip",
                           ![b].todo = Stripped(job[b].plan)]
    BY DEF Symtab, ToStrip, new
  <2>. QED  BY <2>1
<1>. HIDE DEF j
<1>l. job' \in [Builders -> Jobs] /\ job'[b] = j
  BY <1>1, <1>j, <1>k
<1>m. \A c \in Builders \ {b} : job'[c] = job[c]
  BY <1>1, <1>k
<1>5. /\ job'[b].pc = "strip" /\ job'[b].built = new
      /\ job'[b].todo = Stripped(job[b].plan)
      /\ job'[b].plan = job[b].plan /\ job'[b].merge = job[b].merge
      /\ job'[b].version = job[b].version /\ job'[b].before = job[b].before
      /\ job'[b].alone = job[b].alone
  BY <1>j, <1>l
<1>6. OwnStep(b)
  BY <1>1, <1>2, <1>5, <1>l, <1>m DEF OwnStep, Early, Symtab, disk, Stripped
<1>7. DOMAIN new = job[b].plan
      /\ \A s \in job[b].plan : new[s].of = bin[s].of /\ new[s].under = job[b].version
  BY DEF new
<1>8. Planned(b)'
  BY <1>3, <1>5, <1>7 DEF Planned, Symtab
<1>9. Alone(b)'
  <2>. SUFFICES ASSUME job[b].alone = "yes" PROVE Alone(b)'
    BY <1>5 DEF Alone
  <2>1. Busy' = {b} /\ stamp' <= job'[b].version /\ b \in Busy
    BY <1>6, OwnAlone
  <2>2. job[b].merge = "merge" => manifest = job[b].before
    BY <1>2, <2>1 DEF CorpusInv, Alone
  <2>3. \A s \in job[b].plan : s \notin Stripped(job[b].plan) => bin[s].form = s.variant
    BY <1>1, <1>2 DEF Stripped, Slots, Variants
  <2>. QED  BY <1>5, <1>7, <2>1, <2>2, <2>3 DEF Alone, Symtab, disk
<1>. QED  BY <1>5, <1>6, <1>8, <1>9, OwnStepKeeps

LEMMA StripKeeps ==
  ASSUME CorpusInv, NEW b \in Builders, Strip(b)
  PROVE  CorpusInv'
<1>1. PICK s \in job[b].todo :
        /\ bin' = [bin EXCEPT ![s].form = "stripped"]
        /\ job' = [job EXCEPT ![b].todo = @ \ {s}]
  BY DEF Strip
<1>2. /\ job \in [Builders -> Jobs] /\ job[b].todo \subseteq job[b].plan
      /\ job[b].plan \subseteq Slots
      /\ bin \in [Slots -> [of : 0..MAX_EDITS, form : Variants]]
  BY DEF CorpusInv, Shapes, Jobs
<1>3. s \in Slots /\ s \in job[b].plan
  BY <1>2
<1>4. /\ job' \in [Builders -> Jobs]
      /\ \A c \in Builders \ {b} : job'[c] = job[c]
      /\ job'[b] = [job[b] EXCEPT !.todo = job[b].todo \ {s}]
  BY <1>1, <1>2 DEF Jobs
<1>5. /\ job[b].pc = "strip" /\ job'[b].pc = "strip"
      /\ job'[b].plan = job[b].plan /\ job'[b].merge = job[b].merge
      /\ job'[b].version = job[b].version /\ job'[b].before = job[b].before
      /\ job'[b].alone = job[b].alone /\ job'[b].todo = job[b].todo \ {s}
      /\ job'[b].built = job[b].built
  BY <1>2, <1>4 DEF Strip, Jobs
<1>6. /\ bin' \in [Slots -> [of : 0..MAX_EDITS, form : Variants]]
      /\ bin'[s].of = bin[s].of /\ bin'[s].form = "stripped"
      /\ \A x \in Slots \ {s} : bin'[x] = bin[x]
  BY <1>1, <1>2, <1>3 DEF Variants
<1>7. OwnStep(b)
  BY <1>2, <1>3, <1>4, <1>5, <1>6 DEF OwnStep, Early, Strip
<1>8. Planned(b)'
  BY <1>5 DEF CorpusInv, Planned, Busy, Strip
<1>9. Alone(b)'
  <2>. SUFFICES ASSUME job[b].alone = "yes" PROVE Alone(b)'
    BY <1>5 DEF Alone
  <2>1. Busy' = {b} /\ stamp' <= job'[b].version /\ b \in Busy
    BY <1>7, OwnAlone
  <2>2. /\ job[b].merge = "merge" => manifest = job[b].before
        /\ \A x \in job[b].plan : job[b].built[x].of = bin[x].of
        /\ \A x \in job[b].plan : x \notin job[b].todo => bin[x].form = x.variant
    BY <1>5, <2>1 DEF CorpusInv, Alone
  <2>3. s.variant = "stripped"
    BY <1>5 DEF CorpusInv, Planned, Stripped
  <2>4. \A x \in job[b].plan :
          /\ job[b].built[x].of = bin'[x].of
          /\ x \notin job[b].todo \ {s} => bin'[x].form = x.variant
    BY <1>2, <1>6, <2>2, <2>3
  <2>. QED  BY <1>5, <2>1, <2>2, <2>4 DEF Alone, Strip
<1>. QED  BY <1>5, <1>7, <1>8, <1>9, OwnStepKeeps

LEMMA ReadManifestKeeps ==
  ASSUME CorpusInv, NEW b \in Builders, ReadManifest(b)
  PROVE  CorpusInv'
<1>. DEFINE new == IF job[b].merge = "merge" THEN Merged(manifest, job[b].built)
                                             ELSE job[b].built
<1>1. /\ job \in [Builders -> Jobs] /\ job[b] \in Jobs /\ job[b].plan \subseteq Slots
      /\ bin \in [Slots -> [of : 0..MAX_EDITS, form : Variants]]
      /\ job[b].built \in Tables /\ manifest \in Tables \cup {Torn}
      /\ job[b].merge \in {"merge", "fresh"}
  BY DEF CorpusInv, Shapes, Jobs
<1>2. /\ job[b].pc = "strip" /\ job[b].todo = {}
      /\ job[b].merge = "merge" => manifest \in Tables
      /\ UNCHANGED <<source, code, bin, manifest, stamp, builds, dirty, mixed>>
  BY <1>1 DEF ReadManifest, disk
<1>3. /\ job[b].version \in 1..code /\ DOMAIN job[b].built = job[b].plan
      /\ job[b].merge = "fresh" =>
           \A s \in job[b].plan : job[b].built[s].under = job[b].version
  BY <1>2 DEF CorpusInv, Planned, Busy
<1>4. /\ new \in Tables /\ job[b].plan \subseteq DOMAIN new
      /\ \A s \in job[b].plan : new[s] = job[b].built[s]
      /\ job[b].merge = "fresh" => DOMAIN new = job[b].plan
      /\ job[b].merge = "merge" =>
           /\ DOMAIN new = DOMAIN manifest \cup job[b].plan
           /\ \A s \in DOMAIN manifest \ job[b].plan : new[s] = manifest[s]
  <2>1. CASE job[b].merge = "fresh"
    BY <1>1, <1>3, <2>1
  <2>2. CASE job[b].merge = "merge"
    <3>1. new = Merged(manifest, job[b].built) /\ manifest \in Tables
      BY <1>2, <2>2
    <3>. HIDE DEF new
    <3>2. /\ new \in Tables
          /\ DOMAIN new = DOMAIN manifest \cup DOMAIN job[b].built
          /\ \A s \in DOMAIN job[b].built : new[s] = job[b].built[s]
          /\ \A s \in DOMAIN manifest \ DOMAIN job[b].built : new[s] = manifest[s]
      BY <1>1, <3>1, MergedTable
    <3>. QED  BY <1>3, <2>2, <3>2
  <2>. QED  BY <1>1, <2>1, <2>2
<1>5. job' = [job EXCEPT ![b].built = new, ![b].pc = "write"]
  BY DEF ReadManifest
<1>. HIDE DEF new
<1>. DEFINE j == [job[b] EXCEPT !.built = new, !.pc = "write"]
<1>6. /\ j \in Jobs /\ j.pc = "write" /\ j.built = new /\ j.todo = job[b].todo
      /\ j.plan = job[b].plan /\ j.merge = job[b].merge
      /\ j.version = job[b].version /\ j.before = job[b].before
      /\ j.alone = job[b].alone
  BY <1>1, <1>4 DEF Jobs
<1>7. job' = [job EXCEPT ![b] = j]
  BY <1>5
<1>. HIDE DEF j
<1>8. job' \in [Builders -> Jobs] /\ job'[b] = j
  BY <1>1, <1>6, <1>7
<1>9. \A c \in Builders \ {b} : job'[c] = job[c]
  BY <1>1, <1>7
<1>10. OwnStep(b)
  BY <1>1, <1>2, <1>6, <1>8, <1>9 DEF OwnStep, Early
<1>11. Planned(b)'
  BY <1>2, <1>3, <1>4, <1>6, <1>8 DEF Planned
<1>12. Alone(b)'
  <2>. SUFFICES ASSUME job[b].alone = "yes" PROVE Alone(b)'
    BY <1>6, <1>8 DEF Alone
  <2>1. Busy' = {b} /\ stamp' <= job'[b].version /\ b \in Busy
    BY <1>10, OwnAlone
  <2>2. job[b].merge = "merge" => manifest = job[b].before
    BY <1>2, <2>1 DEF CorpusInv, Alone
  <2>3. \A s \in job[b].plan : job[b].built[s].of = bin[s].of /\ bin[s].form = s.variant
    BY <1>2, <2>1 DEF CorpusInv, Alone
  <2>4. \A s \in job[b].plan : bin[s] = [of |-> new[s].of, form |-> s.variant]
    BY <1>1, <1>4, <2>3
  <2>5. job[b].merge = "merge" =>
          /\ DOMAIN new = DOMAIN job[b].before \cup job[b].plan
          /\ \A s \in DOMAIN job[b].before \ job[b].plan : new[s] = job[b].before[s]
    BY <1>4, <2>2
  <2>. QED  BY <1>2, <1>4, <1>6, <1>8, <2>1, <2>4, <2>5 DEF Alone
<1>13. Describes(job[b].built)'
  <2>. SUFFICES ASSUME NEW s \in DOMAIN new, Settled(s)
                PROVE  bin[s] = [of |-> new[s].of, form |-> s.variant]
    BY <1>2, <1>6, <1>8, <1>10, OwnStepSettled DEF CorpusInv, Describes
  <2>1. s \notin job[b].plan
    BY <1>2 DEF Settled, Working
  <2>2. s \in DOMAIN manifest /\ new[s] = manifest[s] /\ manifest # Torn
    BY <1>1, <1>4, <2>1 DEF ReadManifest
  <2>. QED  BY <2>2 DEF CorpusInv, Truthful, Describes
<1>. QED  BY <1>10, <1>11, <1>12, <1>13, OwnStepKeeps

LEMMA TruncateKeeps ==
  ASSUME CorpusInv, NEW b \in Builders, TruncateManifest(b)
  PROVE  CorpusInv'
<1>1. /\ job \in [Builders -> Jobs] /\ job[b] \in Jobs /\ job[b].plan \subseteq Slots
      /\ bin \in [Slots -> [of : 0..MAX_EDITS, form : Variants]]
      /\ job[b].todo \subseteq job[b].plan
  BY DEF CorpusInv, Shapes, Jobs
<1>2. /\ job[b].pc = "write" /\ manifest' = Torn
      /\ job' = [job EXCEPT ![b].pc = "fill"]
      /\ UNCHANGED <<source, code, bin, stamp, builds, dirty, mixed>>
  BY DEF TruncateManifest
<1>. DEFINE j == [job[b] EXCEPT !.pc = "fill"]
<1>3. /\ j \in Jobs /\ j.pc = "fill" /\ j.built = job[b].built /\ j.todo = job[b].todo
      /\ j.plan = job[b].plan /\ j.merge = job[b].merge
      /\ j.version = job[b].version /\ j.before = job[b].before
      /\ j.alone = job[b].alone
  BY <1>1 DEF Jobs
<1>4. job' = [job EXCEPT ![b] = j]
  BY <1>2
<1>. HIDE DEF j
<1>5. job' \in [Builders -> Jobs] /\ job'[b] = j
  BY <1>1, <1>3, <1>4
<1>6. \A c \in Builders \ {b} : job'[c] = job[c]
  BY <1>1, <1>4
<1>7. OwnStep(b)
  BY <1>1, <1>2, <1>3, <1>5, <1>6 DEF OwnStep, Early
<1>8. Planned(b)'
  BY <1>2, <1>3, <1>5 DEF CorpusInv, Planned, Busy
<1>9. Alone(b)'
  <2>. SUFFICES ASSUME job[b].alone = "yes" PROVE Alone(b)'
    BY <1>3, <1>5 DEF Alone
  <2>1. Busy' = {b} /\ stamp' <= job'[b].version /\ b \in Busy
    BY <1>7, OwnAlone
  <2>2. Alone(b)
    BY DEF CorpusInv
  <2>. QED  BY <1>2, <1>3, <1>5, <2>1, <2>2 DEF Alone
<1>10. Describes(job[b].built)'
  <2>1. Describes(job[b].built)
    BY <1>2 DEF CorpusInv, Truthful
  <2>. QED  BY <1>2, <1>3, <1>5, <1>7, <2>1, OwnStepSettled DEF CorpusInv, Describes
<1>. QED  BY <1>7, <1>8, <1>9, <1>10, OwnStepKeeps

-----------------------------------------------------------------------------
(* The steps that settle slots or unsettle them, and what goes on beside.  *)

\* What is said of the other builds one by one, when one build's job changes.
LEMMA OthersKeep ==
  ASSUME CorpusInv, NEW b \in Busy, bin' = bin, code' = code,
         \A c \in Builders \ {b} : job'[c] = job[c],
         NEW c \in Builders, c # b
  PROVE  Planned(c)' /\ Alone(c)' /\ (job'[c].pc = "stamp" => job'[c].alone = "no")
<1>1. job'[c] = job[c] /\ job[c].alone \in {"yes", "no"} /\ Planned(c)
  BY DEF CorpusInv, Shapes, Jobs
<1>2. c \in Busy => job[c].alone = "no"
  BY OthersNotAlone
<1>3. c \in Busy' <=> c \in Busy
  BY <1>1 DEF Busy
<1>4. Planned(c)'
  BY <1>1, <1>3 DEF Planned
<1>5. Alone(c)'
  BY <1>1, <1>2, <1>3 DEF Alone
<1>. QED  BY <1>1, <1>2, <1>4, <1>5 DEF Busy

LEMMA FillKeeps ==
  ASSUME CorpusInv, NEW b \in Builders, FillManifest(b)
  PROVE  CorpusInv'
<1>1. /\ job \in [Builders -> Jobs] /\ job[b] \in Jobs /\ job[b].plan \subseteq Slots
      /\ job[b].built \in Tables /\ manifest \in Tables \cup {Torn}
      /\ job[b].todo \subseteq job[b].plan /\ dirty \subseteq Slots
      /\ job[b].alone \in {"yes", "no"}
  BY DEF CorpusInv, Shapes, Jobs
<1>2. /\ job[b].pc = "fill" /\ manifest' \in {job[b].built, Torn}
      /\ manifest = Torn => manifest' = job[b].built
      /\ job' = [job EXCEPT ![b].pc = "stamp"]
      /\ UNCHANGED <<source, code, bin, stamp, builds>>
  BY DEF FillManifest
<1>. DEFINE j == [job[b] EXCEPT !.pc = "stamp"]
<1>3. /\ j \in Jobs /\ j.pc = "stamp" /\ j.built = job[b].built /\ j.todo = job[b].todo
      /\ j.plan = job[b].plan /\ j.merge = job[b].merge
      /\ j.version = job[b].version /\ j.before = job[b].before
      /\ j.alone = job[b].alone
  BY <1>1 DEF Jobs
<1>4. job' = [job EXCEPT ![b] = j]
  BY <1>2
<1>. HIDE DEF j
<1>5. job' \in [Builders -> Jobs] /\ job'[b] = j
  BY <1>1, <1>3, <1>4
<1>6. \A c \in Builders \ {b} : job'[c] = job[c]
  BY <1>1, <1>4
<1>7. b \in Busy /\ b \in Working
  BY <1>2 DEF Busy, Working
<1>8. Busy' = Busy /\ Working' = Working \ {b}
  <2>1. Busy' = Busy
    BY <1>2, <1>3, <1>5, <1>6 DEF Busy
  <2>2. Working' = Working \ {b}
    BY <1>2, <1>3, <1>5, <1>6 DEF Working
  <2>. QED  BY <2>1, <2>2
<1>9. /\ dirty' \subseteq Slots /\ mixed' \in {"yes", "no"}
      /\ job[b].alone = "yes" => dirty' = dirty \ job[b].plan
      /\ job[b].alone = "no" => dirty' = dirty \cup job[b].plan
      /\ mixed' = "no" => job[b].alone = "yes" /\ job[b].merge = "fresh"
  BY <1>1 DEF FillManifest
<1>10. Planned(b) /\ Alone(b) /\ Describes(job[b].built)
  BY <1>2 DEF CorpusInv, Truthful
<1>11. Shapes'
  BY <1>1, <1>2, <1>3, <1>5, <1>6, <1>9 DEF CorpusInv, Shapes
<1>12. Planned(b)' /\ Alone(b)'
  <2>1. Planned(b)'
    BY <1>2, <1>3, <1>5, <1>7, <1>8, <1>10 DEF Planned
  <2>2. Alone(b)'
    BY <1>2, <1>3, <1>5, <1>7, <1>8, <1>10 DEF Alone
  <2>. QED  BY <2>1, <2>2
<1>13. ASSUME NEW c \in Builders, c # b
       PROVE  Planned(c)' /\ Alone(c)' /\ (job'[c].pc = "stamp" => job'[c].alone = "no")
  BY <1>2, <1>6, <1>7, <1>13, OthersKeep
<1>14. ASSUME NEW s, Settled(s)'
       PROVE  Settled(s) \/ (job[b].alone = "yes" /\ s \in job[b].plan)
  <2>1. \A c \in Working \ {b} : s \notin job[c].plan
    BY <1>6, <1>8, <1>14 DEF Settled, Working
  <2>2. s \notin dirty'
    BY <1>14 DEF Settled
  <2>3. CASE job[b].alone = "yes"
    BY <1>9, <2>1, <2>2, <2>3 DEF Settled
  <2>4. CASE job[b].alone = "no"
    BY <1>9, <2>1, <2>2, <2>4 DEF Settled
  <2>. QED  BY <1>1, <2>3, <2>4
<1>15. Truthful'
  <2>1. manifest' # Torn => Describes(manifest)'
    <3>. SUFFICES ASSUME manifest' = job[b].built, NEW s \in DOMAIN job[b].built, Settled(s)'
                  PROVE  bin[s] = [of |-> job[b].built[s].of, form |-> s.variant]
      BY <1>2 DEF Describes
    <3>1. CASE Settled(s)
      BY <1>10, <3>1 DEF Describes
    <3>2. CASE job[b].alone = "yes" /\ s \in job[b].plan
      BY <1>2, <1>7, <1>10, <3>2 DEF Alone
    <3>. QED  BY <1>14, <3>1, <3>2
  <2>2. ASSUME NEW c \in Builders, job'[c].pc \in {"write", "fill"}
        PROVE  Describes(job[c].built)'
    <3>1. c # b
      BY <1>3, <1>5, <2>2
    <3>2. job'[c] = job[c] /\ c \in Busy /\ Describes(job[c].built)
      BY <1>6, <2>2, <3>1 DEF CorpusInv, Truthful, Busy
    <3>3. job[b].alone = "no"
      BY <1>7, <3>1, <3>2, OthersNotAlone
    <3>4. \A s : Settled(s)' => Settled(s)
      BY <1>14, <3>3
    <3>. QED  BY <1>2, <3>2, <3>4 DEF Describes
  <2>. QED  BY <2>1, <2>2 DEF Truthful
<1>16. OneHand'
  <2>. SUFFICES ASSUME mixed' = "no", manifest' = job[b].built
                PROVE  \E v \in stamp..code :
                         /\ \A s \in DOMAIN job[b].built : job[b].built[s].under = v
                         /\ \A c \in Builders : job'[c].pc = "stamp" => job'[c].version = v
    BY <1>2 DEF OneHand
  <2>1. job[b].alone = "yes" /\ job[b].merge = "fresh"
    BY <1>9
  <2>2. stamp <= job[b].version /\ Busy = {b}
    BY <1>7, <1>10, <2>1 DEF Alone
  <2>3. job[b].version \in 1..code
    BY <1>7, <1>10 DEF Planned
  <2>4. job[b].version \in stamp..code
    BY <2>2, <2>3 DEF CorpusInv, Shapes
  <2>5. \A s \in DOMAIN job[b].built : job[b].built[s].under = job[b].version
    BY <1>2, <1>10, <2>1 DEF Planned
  <2>6. \A c \in Builders : job'[c].pc = "stamp" => job'[c].version = job[b].version
    BY <1>3, <1>5, <1>8, <2>2 DEF Busy
  <2>. QED  BY <2>4, <2>5, <2>6
<1>17. TargetedKeepsOthers'
  <2>. SUFFICES ASSUME NEW c \in Builders, job'[c].pc = "stamp", job'[c].merge = "merge",
                       job'[c].alone = "yes"
                PROVE  /\ DOMAIN manifest' = DOMAIN job'[c].before \cup job'[c].plan
                       /\ \A s \in DOMAIN job'[c].before \ job'[c].plan :
                            manifest'[s] = job'[c].before[s]
    BY DEF TargetedKeepsOthers
  <2>1. c = b
    BY <1>13
  <2>2. job[b].alone = "yes" /\ job[b].merge = "merge"
    BY <1>3, <1>5, <2>1
  <2>3. /\ manifest = Torn /\ DOMAIN job[b].built = DOMAIN job[b].before \cup job[b].plan
        /\ \A s \in DOMAIN job[b].before \ job[b].plan : job[b].built[s] = job[b].before[s]
    BY <1>2, <1>7, <1>10, <2>2 DEF Alone
  <2>4. manifest' = job[b].built
    BY <1>2, <2>3
  <2>. QED  BY <1>3, <1>5, <2>1, <2>3, <2>4
<1>18. \A c \in Builders : Planned(c)' /\ Alone(c)'
  BY <1>12, <1>13
<1>. QED  BY <1>11, <1>15, <1>16, <1>17, <1>18 DEF CorpusInv

\* A build that ends, by its stamp or cut off, settles nothing new.
LEMMA EndKeeps ==
  ASSUME CorpusInv, NEW b \in Busy, job' = [job EXCEPT ![b] = NoJob],
         UNCHANGED <<source, code, bin, manifest, builds, mixed>>,
         dirty' = IF job[b].pc = "stamp" THEN dirty ELSE dirty \cup job[b].plan,
         \/ stamp' = stamp
         \/ stamp' = job[b].version /\ job[b].pc = "stamp"
  PROVE  CorpusInv'
<1>1. /\ b \in Builders /\ job \in [Builders -> Jobs] /\ job[b].plan \subseteq Slots
      /\ dirty \subseteq Slots /\ stamp \in 0..code /\ code \in 1..MAX_CODE
      /\ job[b].version \in 1..code
  BY DEF CorpusInv, Shapes, Jobs, Busy, Planned
<1>2. job' \in [Builders -> Jobs] /\ job'[b] = NoJob
  BY <1>1, NoJobShape
<1>3. \A c \in Builders \ {b} : job'[c] = job[c]
  BY <1>1
<1>4. MAX_CODE \in Nat /\ dirty' \subseteq Slots /\ stamp' \in 0..code
  BY <1>1, CorpusAssumption
<1>5. Shapes'
  <2>1. \A c \in Builders : job'[c].todo \subseteq job'[c].plan
    BY <1>2, <1>3, NoJobShape DEF CorpusInv, Shapes
  <2>. QED  BY <1>2, <1>4, <2>1 DEF CorpusInv, Shapes
<1>6. ASSUME NEW c \in Builders, c # b
      PROVE  Planned(c)' /\ Alone(c)' /\ (job'[c].pc = "stamp" => job'[c].alone = "no")
  BY <1>3, <1>6, OthersKeep
<1>7. Planned(b)' /\ Alone(b)'
  BY <1>2, NoJobShape DEF Planned, Alone, Busy
<1>8. \A s : Settled(s)' => Settled(s)
  <2>. SUFFICES ASSUME NEW s, Settled(s)' PROVE Settled(s)
    OBVIOUS
  <2>1. \A c \in Working \ {b} : s \notin job[c].plan
    <3>1. Working \ {b} \subseteq Working'
      BY <1>3 DEF Working
    <3>. QED  BY <1>3, <3>1 DEF Settled, Working
  <2>2. s \notin dirty'
    BY DEF Settled
  <2>3. b \in Working => s \notin job[b].plan
    BY <2>2 DEF Working
  <2>. QED  BY <2>1, <2>2, <2>3 DEF Settled
<1>9. Truthful'
  <2>1. manifest' # Torn => Describes(manifest)'
    BY <1>8 DEF CorpusInv, Truthful, Describes
  <2>2. ASSUME NEW c \in Builders, job'[c].pc \in {"write", "fill"}
        PROVE  Describes(job[c].built)'
    <3>1. c # b
      BY <1>2, <2>2, NoJobShape
    <3>2. job'[c] = job[c] /\ Describes(job[c].built)
      BY <1>3, <2>2, <3>1 DEF CorpusInv, Truthful
    <3>. QED  BY <1>8, <3>2 DEF Describes
  <2>. QED  BY <2>1, <2>2 DEF Truthful
<1>10. OneHand'
  <2>. SUFFICES ASSUME mixed = "no", manifest # Torn
                PROVE  \E v \in stamp'..code :
                         /\ \A s \in DOMAIN manifest : manifest[s].under = v
                         /\ \A c \in Builders : job'[c].pc = "stamp" => job'[c].version = v
    BY DEF OneHand
  <2>1. PICK v \in stamp..code :
          /\ \A s \in DOMAIN manifest : manifest[s].under = v
          /\ \A c \in Builders : job[c].pc = "stamp" => job[c].version = v
    BY DEF CorpusInv, OneHand
  <2>2. v \in stamp'..code
    <3>1. CASE stamp' = stamp
      BY <2>1, <3>1
    <3>2. CASE stamp' = job[b].version /\ job[b].pc = "stamp"
      <4>1. stamp' = v /\ v \in 1..code
        BY <1>1, <2>1, <3>2
      <4>. QED  BY <1>1, <4>1
    <3>. QED  BY <3>1, <3>2
  <2>3. \A c \in Builders : job'[c].pc = "stamp" => job'[c].version = v
    BY <1>2, <1>3, <2>1, NoJobShape
  <2>. QED  BY <2>1, <2>2, <2>3
<1>11. TargetedKeepsOthers'
  <2>1. ASSUME NEW c \in Builders, job'[c].pc = "stamp" PROVE job'[c].alone # "yes"
    BY <1>2, <1>6, <2>1, NoJobShape
  <2>. QED  BY <2>1 DEF TargetedKeepsOthers
<1>. QED  BY <1>5, <1>6, <1>7, <1>9, <1>10, <1>11 DEF CorpusInv

\* A new build unsettles its plan, and no build at work is alone any more.
LEMMA StartKeeps ==
  ASSUME CorpusInv, NEW b \in Builders, NEW p \in SUBSET Slots,
         NEW m \in {"merge", "fresh"}, Start(b, p, m)
  PROVE  CorpusInv'
<1>. DEFINE lone == IF Busy = {} THEN "yes" ELSE "no"
            old == IF m = "merge" /\ Busy = {} THEN manifest ELSE Empty
            j == [NoJob EXCEPT !.pc = "compile", !.plan = p, !.merge = m,
                               !.version = code, !.todo = p,
                               !.before = old, !.alone = lone]
<1>1. /\ job \in [Builders -> Jobs] /\ manifest \in Tables \cup {Torn}
      /\ stamp \in 0..code /\ code \in 1..MAX_CODE /\ MAX_CODE \in Nat
      /\ builds \in 0..MAX_BUILDS /\ MAX_BUILDS \in Nat
  BY CorpusAssumption DEF CorpusInv, Shapes
<1>2. old \in Tables \cup {Torn} /\ lone \in {"yes", "no"} /\ Empty \in Tables
  BY <1>1, EmptyTable
<1>3. /\ j \in Jobs /\ j.pc = "compile" /\ j.plan = p /\ j.merge = m
      /\ j.version = code /\ j.todo = p /\ j.before = old /\ j.alone = lone
  <2>1. code \in 0..MAX_CODE
    BY <1>1
  <2>. HIDE DEF old, lone
  <2>. QED  BY <1>2, <2>1 DEF NoJob, Jobs
<1>4. /\ job[b].pc = "idle" /\ builds < MAX_BUILDS /\ builds' = builds + 1
      /\ UNCHANGED <<source, code, bin, manifest, stamp, dirty, mixed>>
      /\ job' = [c \in Builders |->
                   IF c = b THEN j
                   ELSE IF c \in Busy THEN [job[c] EXCEPT !.alone = "no", !.before = Empty]
                   ELSE job[c]]
  BY DEF Start, disk, NoJob
<1>. HIDE DEF j
<1>5. job'[b] = j
  BY <1>4
<1>6. ASSUME NEW c \in Builders, c # b
      PROVE  /\ job'[c] \in Jobs /\ job'[c].pc = job[c].pc /\ job'[c].plan = job[c].plan
             /\ job'[c].merge = job[c].merge /\ job'[c].version = job[c].version
             /\ job'[c].todo = job[c].todo /\ job'[c].built = job[c].built
             /\ c \in Busy => job'[c].alone = "no"
  <2>1. job[c] \in Jobs
    BY <1>1
  <2>2. CASE c \in Busy
    <3>1. job'[c] = [job[c] EXCEPT !.alone = "no", !.before = Empty]
      BY <1>4, <1>6, <2>2
    <3>. QED  BY <1>2, <2>1, <3>1 DEF Jobs
  <2>3. CASE c \notin Busy
    <3>1. job'[c] = job[c]
      BY <1>4, <1>6, <2>3
    <3>. QED  BY <2>1, <2>3, <3>1
  <2>. QED  BY <2>2, <2>3
<1>7. Shapes'
  <2>1. job' \in [Builders -> Jobs]
    <3>1. \A c \in Builders : job'[c] \in Jobs
      BY <1>3, <1>5, <1>6
    <3>. QED  BY <1>4, <3>1
  <2>2. \A c \in Builders : job'[c].todo \subseteq job'[c].plan
    BY <1>3, <1>5, <1>6 DEF CorpusInv, Shapes
  <2>3. builds' \in 0..MAX_BUILDS
    <3>1. builds < MAX_BUILDS /\ builds' = builds + 1
      BY <1>4
    <3>. QED  BY <1>1, <3>1
  <2>. QED  BY <1>4, <2>1, <2>2, <2>3 DEF CorpusInv, Shapes
<1>8. Busy' = Busy \cup {b}
  BY <1>3, <1>5, <1>6 DEF Busy
<1>9. ASSUME NEW c \in Builders PROVE Planned(c)' /\ Alone(c)'
  <2>1. CASE c = b
    <3>1. Planned(b)'
      <4>1. code' = code
        BY <1>4
      <4>2. code \in 1..code
        BY <1>1
      <4>. QED  BY <1>3, <1>5, <4>1, <4>2 DEF Planned
    <3>2. Alone(b)'
      <4>. SUFFICES ASSUME Busy = {} PROVE Alone(b)'
        BY <1>3, <1>5 DEF Alone
      <4>1. Busy' = {b}
        BY <1>8
      <4>2. stamp <= code
        BY <1>1
      <4>3. m = "merge" => manifest = j.before
        BY <1>3
      <4>. QED  BY <1>3, <1>4, <1>5, <4>1, <4>2, <4>3 DEF Alone
    <3>. QED  BY <2>1, <3>1, <3>2
  <2>2. CASE c # b
    <3>1. c \in Busy' <=> c \in Busy
      BY <1>8, <2>2
    <3>2. Planned(c)'
      <4>1. code' = code /\ bin' = bin /\ Planned(c)
        BY <1>4 DEF CorpusInv
      <4>. QED  BY <1>6, <2>2, <3>1, <4>1 DEF Planned
    <3>3. Alone(c)'
      BY <1>6, <2>2, <3>1 DEF Alone
    <3>. QED  BY <3>2, <3>3
  <2>. QED  BY <2>1, <2>2
<1>10. \A s : Settled(s)' => Settled(s)
  <2>1. Working \subseteq Working' /\ b \notin Working
    BY <1>3, <1>4, <1>5, <1>6 DEF Working
  <2>. QED  BY <1>4, <1>6, <2>1 DEF Settled, Working
<1>11. Truthful'
  <2>1. manifest' # Torn => Describes(manifest)'
    BY <1>4, <1>10 DEF CorpusInv, Truthful, Describes
  <2>2. ASSUME NEW c \in Builders, job'[c].pc \in {"write", "fill"}
        PROVE  Describes(job[c].built)'
    <3>1. c # b
      BY <1>3, <1>5, <2>2
    <3>2. job'[c].built = job[c].built /\ Describes(job[c].built)
      BY <1>6, <2>2, <3>1 DEF CorpusInv, Truthful
    <3>. QED  BY <1>4, <1>10, <3>2 DEF Describes
  <2>. QED  BY <2>1, <2>2 DEF Truthful
<1>12. OneHand'
  <2>. SUFFICES ASSUME mixed = "no", manifest # Torn
                PROVE  \E v \in stamp..code :
                         /\ \A s \in DOMAIN manifest : manifest[s].under = v
                         /\ \A c \in Builders : job'[c].pc = "stamp" => job'[c].version = v
    BY <1>4 DEF OneHand
  <2>1. PICK v \in stamp..code :
          /\ \A s \in DOMAIN manifest : manifest[s].under = v
          /\ \A c \in Builders : job[c].pc = "stamp" => job[c].version = v
    BY DEF CorpusInv, OneHand
  <2>2. \A c \in Builders : job'[c].pc = "stamp" => job'[c].version = v
    BY <1>3, <1>5, <1>6, <2>1
  <2>. QED  BY <2>1, <2>2
<1>13. TargetedKeepsOthers'
  <2>1. ASSUME NEW c \in Builders, job'[c].pc = "stamp" PROVE job'[c].alone # "yes"
    BY <1>3, <1>5, <1>6, <2>1 DEF Busy
  <2>. QED  BY <2>1 DEF TargetedKeepsOthers
<1>. QED  BY <1>7, <1>9, <1>11, <1>12, <1>13 DEF CorpusInv

\* Edits and upgrades leave the corpus and the builds as they are.
LEMMA OutsideKeeps ==
  ASSUME CorpusInv, source' \in [Seeds -> 1..MAX_EDITS], code' \in 1..MAX_CODE,
         code <= code',
         UNCHANGED <<bin, manifest, stamp, job, builds, dirty, mixed>>
  PROVE  CorpusInv'
<1>1. /\ stamp \in 0..code /\ code \in 1..MAX_CODE /\ MAX_CODE \in Nat
  BY CorpusAssumption DEF CorpusInv, Shapes
<1>2. stamp' \in 0..code' /\ stamp..code \subseteq stamp..code' /\ 1..code \subseteq 1..code'
  BY <1>1
<1>3. Shapes'
  BY <1>2 DEF CorpusInv, Shapes
<1>4. Busy' = Busy /\ Working' = Working
  BY DEF Busy, Working
<1>5. ASSUME NEW b \in Builders PROVE Planned(b)' /\ Alone(b)'
  <2>1. Planned(b) /\ Alone(b)
    BY DEF CorpusInv
  <2>2. Planned(b)'
    BY <1>2, <1>4, <2>1 DEF Planned
  <2>3. Alone(b)'
    BY <1>4, <2>1 DEF Alone
  <2>. QED  BY <2>2, <2>3
<1>6. \A s : Settled(s)' <=> Settled(s)
  BY <1>4 DEF Settled
<1>7. Truthful'
  BY <1>6 DEF CorpusInv, Truthful, Describes
<1>8. OneHand'
  BY <1>2 DEF CorpusInv, OneHand
<1>9. TargetedKeepsOthers'
  BY DEF CorpusInv, TargetedKeepsOthers
<1>. QED  BY <1>3, <1>5, <1>7, <1>8, <1>9 DEF CorpusInv

-----------------------------------------------------------------------------
(* The corpus: any number of builds, in any order, cut off anywhere.       *)

LEMMA CorpusInit == Init => CorpusInv
<1>. SUFFICES ASSUME Init PROVE CorpusInv
  OBVIOUS
<1>. USE CorpusAssumption, NoJobShape, EmptyTable
<1>1. job = [b \in Builders |-> NoJob] /\ manifest = Empty /\ stamp = 0 /\ code = 1
  BY DEF Init
<1>2. Shapes
  BY <1>1 DEF Init, Shapes, NoBinary, Variants
<1>3. \A b \in Builders : Planned(b) /\ Alone(b)
  BY <1>1 DEF Planned, Alone, Busy
<1>4. Truthful
  BY <1>1 DEF Truthful, Describes
<1>5. OneHand
  <2>1. 1 \in stamp..code
    BY <1>1
  <2>. QED  BY <1>1, <2>1 DEF OneHand
<1>6. TargetedKeepsOthers
  BY <1>1 DEF TargetedKeepsOthers
<1>. QED  BY <1>2, <1>3, <1>4, <1>5, <1>6 DEF CorpusInv

LEMMA CorpusStep == CorpusInv /\ [Next]_vars => CorpusInv'
<1>. SUFFICES ASSUME CorpusInv, [Next]_vars PROVE CorpusInv'
  OBVIOUS
<1>1. /\ source \in [Seeds -> 1..MAX_EDITS] /\ code \in 1..MAX_CODE
      /\ MAX_EDITS \in Nat /\ MAX_CODE \in Nat
  BY CorpusAssumption DEF CorpusInv, Shapes
<1>2. ASSUME NEW x \in Seeds, EditSeed(x) PROVE CorpusInv'
  <2>1. source' \in [Seeds -> 1..MAX_EDITS]
    BY <1>1, <1>2 DEF EditSeed
  <2>. QED  BY <1>1, <1>2, <2>1, OutsideKeeps DEF EditSeed, disk
<1>3. CASE Upgrade
  <2>1. code' \in 1..MAX_CODE /\ code <= code'
    BY <1>1, <1>3 DEF Upgrade
  <2>. QED  BY <1>1, <1>3, <2>1, OutsideKeeps DEF Upgrade, disk
<1>4. CASE UNCHANGED vars
  <2>1. code <= code
    BY <1>1
  <2>. QED  BY <1>1, <1>4, <2>1, OutsideKeeps DEF vars
<1>5. ASSUME NEW b \in Builders, StartAny(b) PROVE CorpusInv'
  <2>1. Slots \in SUBSET Slots
    OBVIOUS
  <2>2. CASE Start(b, Slots, "fresh")
    BY <2>1, <2>2, StartKeeps
  <2>3. ASSUME NEW S \in SUBSET Seeds, NEW V \in SUBSET Variants,
               Start(b, Filtered(S, V), "merge")
        PROVE  CorpusInv'
    <3>1. Filtered(S, V) \in SUBSET Slots
      BY DEF Filtered
    <3>. QED  BY <2>3, <3>1, StartKeeps
  <2>. QED  BY <1>5, <2>2, <2>3 DEF StartAny
<1>6. ASSUME NEW b \in Builders, WriteStamp(b) PROVE CorpusInv'
  <2>1. b \in Busy
    BY <1>6 DEF WriteStamp, Busy
  <2>. QED  BY <1>6, <2>1, EndKeeps DEF WriteStamp
<1>7. ASSUME NEW b \in Builders, Interrupted(b) PROVE CorpusInv'
  <2>1. b \in Busy
    BY <1>7 DEF Interrupted, Busy
  <2>. QED  BY <1>7, <2>1, EndKeeps DEF Interrupted, disk
<1>8. ASSUME NEW b \in Builders, Step(b) PROVE CorpusInv'
  BY <1>6, <1>8, CompileKeeps, SymtabKeeps, StripKeeps, ReadManifestKeeps,
     TruncateKeeps, FillKeeps DEF Step
<1>. QED  BY <1>2, <1>3, <1>4, <1>5, <1>7, <1>8 DEF Next

\* The inductive invariant of the corpus on disk (generate.py's build).
THEOREM CorpusInvariant == Spec => []CorpusInv
BY CorpusInit, CorpusStep, PTL DEF Spec

LEMMA CorpusInvImplies ==
  ASSUME CorpusInv
  PROVE  TypeOK /\ EntriesMatchBinaries /\ FullStampTrue
<1>. USE DEF CorpusInv
<1>1. TypeOK
  <2>1. stamp \in 0..MAX_CODE
    BY CorpusAssumption DEF Shapes
  <2>2. manifest # Torn => Table(manifest)
    BY TableElim DEF Shapes
  <2>3. ASSUME NEW b \in Builders
        PROVE  Table(job[b].built) /\ (job[b].before # Torn => Table(job[b].before))
    <3>1. job[b].built \in Tables /\ job[b].before \in Tables \cup {Torn}
      BY DEF Shapes, Jobs
    <3>. QED  BY <3>1, TableElim
  <2>4. ASSUME NEW b \in Builders
        PROVE  /\ job[b].pc \in {"idle", "compile", "strip", "write", "fill", "stamp"}
               /\ job[b].plan \subseteq Slots /\ job[b].todo \subseteq job[b].plan
               /\ job[b].merge \in {"merge", "fresh"} /\ job[b].version \in 0..MAX_CODE
               /\ job[b].alone \in {"yes", "no"}
    BY DEF Shapes, Jobs
  <2>. QED  BY <2>1, <2>2, <2>3, <2>4 DEF Shapes, TypeOK
<1>2. EntriesMatchBinaries
  <2>. SUFFICES ASSUME Busy = {}, manifest # Torn, NEW s \in DOMAIN manifest \ dirty
                PROVE  bin[s] = [of |-> manifest[s].of, form |-> s.variant]
    BY DEF EntriesMatchBinaries, Loads
  <2>1. Settled(s)
    BY DEF Settled, Working, Busy
  <2>. QED  BY <2>1 DEF Truthful, Describes
<1>3. FullStampTrue
  <2>. SUFFICES ASSUME mixed = "no", stamp = code, manifest # Torn
                PROVE  \A s \in DOMAIN manifest : manifest[s].under = code
    BY DEF FullStampTrue, Loads
  <2>1. PICK v \in stamp..code : \A s \in DOMAIN manifest : manifest[s].under = v
    BY DEF OneHand
  <2>2. v = code
    BY DEF Shapes
  <2>. QED  BY <2>1, <2>2
<1>. QED  BY <1>1, <1>2, <1>3

\* Type correctness: a container job is only ever given slots of its own build.
THEOREM CorpusTypeCorrect == Spec => []TypeOK
BY CorpusInvariant, CorpusInvImplies, PTL

\* Between builds, a corpus that load_manifest accepts describes the binaries
\* beside it, but for the slots that interrupted or overlapping builds touched
\* and no undisturbed build has covered since.
THEOREM CorpusEntriesMatch == Spec => []EntriesMatchBinaries
BY CorpusInvariant, CorpusInvImplies, PTL

\* A corpus that loads and that one undisturbed full build wrote was built
\* under the reader's canonicalizer, whatever was cut off or upgraded since.
THEOREM CorpusFullStampTrue == Spec => []FullStampTrue
BY CorpusInvariant, CorpusInvImplies, PTL

\* A filtered build that no other one overlaps keeps every entry outside its
\* plan (the merge at the end of build).
THEOREM CorpusTargetedKeepsOthers == Spec => []TargetedKeepsOthers
<1>1. CorpusInv => TargetedKeepsOthers
  BY DEF CorpusInv
<1>. QED  BY <1>1, CorpusInvariant, PTL

-----------------------------------------------------------------------------
(* The campaign writer (campaign.py write).  It is one of the builders, so *)
(* all of the above holds beside it too.                                   *)

LEMMA CampaignStepBuilds == CNext => [Next]_vars
<1>. SUFFICES ASSUME CNext PROVE [Next]_vars
  OBVIOUS
<1>. USE CampaignAssumption
<1>1. ASSUME NEW want \in Requests, NEW configs \in Configs, StartCampaign(want, configs)
      PROVE  Next
  BY <1>1 DEF StartCampaign, Rebuild, StartAny, Next
<1>2. CASE Step(Writer)
  BY <1>2 DEF Next
<1>3. CASE LoadManifest \/ Disassemble \/ MakeTask \/ WriteFiles \/ WriteTaskToml
             \/ WriteCampaignToml \/ NewOut
  BY <1>3 DEF LoadManifest, Disassemble, MakeTask, WriteFiles, WriteTaskToml,
              WriteCampaignToml, NewOut
<1>4. CASE Cut
  BY <1>4 DEF Cut, Next
<1>5. CASE Beside
  BY <1>5 DEF Beside, Next
<1>. QED  BY <1>1, <1>2, <1>3, <1>4, <1>5 DEF CNext

\* The writer's view of the corpus is a behaviour of the corpus: what the
\* theorems above say of builds holds with a writer among them.
THEOREM CampaignRefinesCorpus == CSpec => Spec
<1>1. CInit => Init
  BY DEF CInit
<1>2. [CNext]_<<vars, cvars>> => [Next]_vars
  BY CampaignStepBuilds
<1>. QED  BY <1>1, <1>2, PTL DEF CSpec, Spec

Tasks ==
  [slot : Slots, addr : Nat, hint : Nat, family : Nat,
   bin : [of : Nat, form : Variants]]
Attempts ==
  [pc : {"idle", "build", "make"}, id : Nat, want : Seq(Slots), version : Nat,
   table : Tables, hint : Nat, specs : Seq(Tasks),
   calm : {"calm", "edited", "built"}]
Dirs == [id : Nat, whole : {"yes", "no"}]
CampaignShapes ==
  /\ att \in Attempts
  /\ out \in [tasks : Seq(Dirs), list : [id : Nat, n : Nat]]

\* The writer's job belongs to its attempt; unless it was noted, no other build
\* is at work beside it.
Tied ==
  /\ att.pc # "build" => job[Writer].pc = "idle"
  /\ att.pc # "idle" /\ att.calm # "built" => Busy \subseteq {Writer}

\* The source of today went into the binaries compiled so far.
OfToday(S) == att.calm = "calm" => \A s \in S : bin[s].of = source[s.seed]

\* The writer's own rebuild, undisturbed: on its way, and once it is done.
Rebuilding ==
  att.calm # "built" /\ job[Writer].pc # "idle" =>
    LET j == job[Writer] IN
    /\ j.alone = "yes" /\ j.merge = "fresh" /\ j.plan = Slots /\ j.version = att.version
    /\ j.pc \in {"strip", "write", "fill"} => DOMAIN j.built = Slots
    /\ j.pc = "stamp" => manifest # Torn /\ DOMAIN manifest = Slots /\ dirty = {}
    /\ OfToday(IF j.pc = "compile" THEN Slots \ j.todo ELSE Slots)
Rebuilt ==
  att.calm # "built" /\ att.pc # "idle" /\ job[Writer].pc = "idle" =>
    /\ manifest # Torn /\ DOMAIN manifest = Slots /\ dirty = {}
    /\ stamp = att.version /\ OfToday(Slots)
    /\ att.pc = "make" => att.table = manifest

\* The tasks in memory and the disassembly at hand.
Made ==
  /\ att.pc # "make" => att.specs = <<>> /\ att.hint = 0
  /\ att.pc = "make" => Range(att.want) \subseteq DOMAIN att.table
  /\ att.hint # 0 =>
       /\ Len(att.specs) < Total
       /\ att.calm # "built" => att.hint = att.table[SlotOf(Len(att.specs) + 1)].of

\* An attempt owns all of OUT, and only its last task may be unfinished.
OutOwned ==
  att.pc # "idle" =>
    /\ out.list.n = 0 /\ (att.pc = "build" => out.tasks = <<>>)
    /\ \A i \in 1..Len(out.tasks) : out.tasks[i].id = att.id
    /\ \A i \in 1..Len(out.tasks) : i # Len(out.tasks) => out.tasks[i].whole = "yes"

CampaignInv ==
  /\ CorpusInv /\ CampaignShapes /\ Tied /\ Rebuilding /\ Rebuilt
  /\ Made /\ TasksAgree /\ OutOwned /\ CampaignWhole

LEMMA DivWithin ==
  ASSUME NEW L \in Nat, NEW P \in Nat \ {0}, NEW k \in Nat, k < L * P
  PROVE  (k \div P) \in 0..(L - 1)
<1>. DEFINE q == k \div P
            r == k % P
<1>1. q \in Int /\ r \in 0..(P - 1) /\ k = P * q + r
  OBVIOUS
<1>. HIDE DEF q, r
<1>2. q >= 0 /\ q < L
  BY <1>1
<1>. QED  BY <1>1, <1>2 DEF q

\* Every task of an attempt is of a slot it was asked for.
LEMMA SlotAskedFor ==
  ASSUME CampaignShapes, Len(att.specs) < Total
  PROVE  /\ SlotOf(Len(att.specs) + 1) \in Range(att.want)
         /\ SlotOf(Len(att.specs) + 1) \in Slots
<1>. DEFINE L == Len(att.want)
            n == Len(att.specs)
<1>1. att.want \in Seq(Slots) /\ att.specs \in Seq(Tasks) /\ PerSlot \in Nat \ {0}
  BY CampaignAssumption DEF CampaignShapes, Attempts, PerSlot
<1>2. L \in Nat /\ n \in Nat
  BY <1>1
<1>3. n < L * PerSlot
  BY DEF Total
<1>. HIDE DEF L, n
<1>4. (n \div PerSlot) \in 0..(L - 1)
  BY <1>1, <1>2, <1>3, DivWithin
<1>5. (n + 1) - 1 = n
  BY <1>2
<1>6. n \div PerSlot + 1 \in 1..L
  BY <1>2, <1>4
<1>7. SlotOf(n + 1) = att.want[n \div PerSlot + 1]
  BY <1>5 DEF SlotOf
<1>8. n \div PerSlot + 1 \in DOMAIN att.want
  BY <1>1, <1>6 DEF L
<1>9. SlotOf(n + 1) \in Range(att.want)
  BY <1>7, <1>8 DEF Range
<1>10. SlotOf(n + 1) \in Slots
  BY <1>1, <1>7, <1>8
<1>. QED  BY <1>9, <1>10 DEF n

\* While an undisturbed attempt makes its tasks, the manifest it loaded still
\* describes every binary.
LEMMA LoadedIsTrue ==
  ASSUME CampaignInv, att.pc = "make", att.calm # "built"
  PROVE  /\ DOMAIN att.table = Slots
         /\ \A s \in Slots : bin[s] = [of |-> att.table[s].of, form |-> s.variant]
<1>1. job[Writer].pc = "idle" /\ Busy \subseteq {Writer}
  BY DEF CampaignInv, Tied
<1>2. Working = {}
  BY <1>1 DEF Working, Busy
<1>3. /\ manifest # Torn /\ DOMAIN manifest = Slots /\ dirty = {}
      /\ att.table = manifest
  BY <1>1 DEF CampaignInv, Rebuilt
<1>4. Describes(manifest)
  BY <1>3 DEF CampaignInv, CorpusInv, Truthful
<1>. QED  BY <1>2, <1>3, <1>4 DEF Describes, Settled

-----------------------------------------------------------------------------
(* The attempt's own steps.                                                *)

\* There are finitely many slots, so a manifest can be put in order.
LEMMA SlotsFinite == IsFiniteSet(Slots)
<1>. DEFINE pairs == Seeds \X Variants
            f == [p \in pairs |-> [seed |-> p[1], variant |-> p[2]]]
<1>1. IsFiniteSet({"sym"}) /\ Variants = {"sym"} \cup {"stripped"}
  BY FS_Singleton DEF Variants
<1>2. IsFiniteSet(Variants)
  BY <1>1, FS_AddElement
<1>3. IsFiniteSet(pairs)
  BY <1>2, CorpusAssumption, FS_Product
<1>4. f \in Surjection(pairs, Slots)
  <2>1. \A p \in pairs : f[p] \in Slots
    BY DEF Slots
  <2>2. ASSUME NEW s \in Slots PROVE \E p \in pairs : f[p] = s
    <3>1. s.seed \in Seeds /\ s.variant \in Variants
          /\ s = [seed |-> s.seed, variant |-> s.variant]
      BY DEF Slots
    <3>2. <<s.seed, s.variant>> \in pairs /\ f[<<s.seed, s.variant>>] = s
      BY <3>1
    <3>. QED  BY <3>2
  <2>3. f \in [pairs -> Slots]
    BY <2>1
  <2>. HIDE DEF f
  <2>. QED  BY <2>2, <2>3 DEF Surjection
<1>. HIDE DEF f, pairs
<1>. QED  BY <1>3, <1>4, FS_Surjection

\* The slots of the tasks are slots of the manifest, named or not.
LEMMA ChosenIsListed ==
  ASSUME manifest \in Tables, NEW want \in Seq(Slots), NEW w \in Chosen(want)
  PROVE  w \in Seq(Slots) /\ Range(w) \subseteq DOMAIN manifest
<1>1. DOMAIN manifest \subseteq Slots
  BY TableElim
<1>2. CASE want = <<>>
  <2>. DEFINE n == Cardinality(DOMAIN manifest)
  <2>1. n \in Nat
    BY <1>1, SlotsFinite, FS_Subset, FS_CardinalityType
  <2>2. w \in [1..n -> DOMAIN manifest] /\ Range(w) = DOMAIN manifest
    BY <1>2 DEF Chosen, InOrder
  <2>. HIDE DEF n
  <2>3. w \in Seq(DOMAIN manifest)
    BY <2>1, <2>2
  <2>4. w \in Seq(Slots)
    BY <1>1, <2>3
  <2>. QED  BY <2>2, <2>4
<1>3. CASE want # <<>>
  BY <1>3 DEF Chosen
<1>. QED  BY <1>2, <1>3

LEMMA LoadManifestKeeps ==
  ASSUME CampaignInv, LoadManifest, CorpusInv'
  PROVE  CampaignInv'
<1>1. att \in Attempts /\ manifest \in Tables \cup {Torn}
  BY DEF CampaignInv, CampaignShapes, CorpusInv, Shapes
<1>2. /\ att.pc = "build" /\ job[Writer].pc = "idle" /\ manifest \in Tables
      /\ UNCHANGED <<source, code, bin, manifest, stamp, job, builds, dirty, mixed, out>>
  BY <1>1 DEF LoadManifest, Loads, vars
<1>w. PICK w \in Chosen(att.want) :
        att' = [att EXCEPT !.pc = "make", !.table = manifest, !.want = w]
  BY DEF LoadManifest
<1>l. w \in Seq(Slots) /\ Range(w) \subseteq DOMAIN manifest
  BY <1>1, <1>2, ChosenIsListed DEF Attempts
<1>3. /\ att' \in Attempts /\ att'.pc = "make" /\ att'.table = manifest
      /\ att'.want = w /\ att'.id = att.id /\ att'.version = att.version
      /\ att'.hint = att.hint /\ att'.specs = att.specs /\ att'.calm = att.calm
  BY <1>1, <1>2, <1>w, <1>l DEF Attempts
<1>4. att.specs = <<>> /\ att.hint = 0
  BY <1>2 DEF CampaignInv, Made
<1>5. CampaignShapes'
  BY <1>2, <1>3 DEF CampaignInv, CampaignShapes
<1>6. Tied'
  BY <1>2, <1>3 DEF CampaignInv, Tied, Busy
<1>7. Rebuilding'
  BY <1>2 DEF Rebuilding
<1>8. Rebuilt'
  BY <1>2, <1>3 DEF CampaignInv, Rebuilt, OfToday
<1>9. Made'
  BY <1>l, <1>3, <1>4 DEF Made
<1>10. TasksAgree'
  BY <1>3, <1>4 DEF TasksAgree
<1>11. OutOwned' /\ CampaignWhole'
  BY <1>2, <1>3 DEF CampaignInv, OutOwned, CampaignWhole
<1>. QED  BY <1>5, <1>6, <1>7, <1>8, <1>9, <1>10, <1>11 DEF CampaignInv

LEMMA DisassembleKeeps ==
  ASSUME CampaignInv, Disassemble, CorpusInv'
  PROVE  CampaignInv'
<1>. DEFINE s == SlotOf(Len(att.specs) + 1)
<1>1. /\ att \in Attempts /\ CampaignShapes
      /\ bin \in [Slots -> [of : 0..MAX_EDITS, form : Variants]] /\ MAX_EDITS \in Nat
  BY CorpusAssumption DEF CampaignInv, CampaignShapes, CorpusInv, Shapes
<1>2. /\ att.pc = "make" /\ Len(att.specs) + 1 <= Total
      /\ att' = [att EXCEPT !.hint = bin[s].of]
      /\ UNCHANGED <<source, code, bin, manifest, stamp, job, builds, dirty, mixed, out>>
  BY DEF Disassemble, vars
<1>3. Len(att.specs) < Total
  <2>1. Len(att.specs) \in Nat /\ Len(att.want) \in Nat /\ PerSlot \in Nat
    BY <1>1, CampaignAssumption DEF Attempts, PerSlot
  <2>2. Total \in Nat
    BY <2>1 DEF Total
  <2>. QED  BY <1>2, <2>1, <2>2
<1>4. s \in Slots
  BY <1>1, <1>3, SlotAskedFor
<1>. HIDE DEF s
<1>5. /\ att' \in Attempts /\ att'.pc = "make" /\ att'.table = att.table
      /\ att'.want = att.want /\ att'.id = att.id /\ att'.version = att.version
      /\ att'.hint = bin[s].of /\ att'.specs = att.specs /\ att'.calm = att.calm
  <2>1. bin[s].of \in Nat
    BY <1>1, <1>4
  <2>. QED  BY <1>1, <1>2, <2>1 DEF Attempts
<1>6. CampaignShapes' /\ Tied' /\ Rebuilding' /\ Rebuilt'
  BY <1>2, <1>5 DEF CampaignInv, CampaignShapes, Tied, Busy, Rebuilding, Rebuilt, OfToday
<1>7. Made'
  <2>0. att'.want = att.want /\ att'.specs = att.specs
    BY <1>5
  <2>1. Total' = Total
    BY ONLY <2>0 DEF Total
  <2>4. att'.want[((Len(att'.specs) + 1) - 1) \div PerSlot + 1] = s
    <3>1. s = att.want[((Len(att.specs) + 1) - 1) \div PerSlot + 1]
      BY Zenon DEF SlotOf, s
    <3>. QED  BY <2>0, <3>1, Zenon
  <2>2. att.calm # "built" => bin[s].of = att.table[s].of
    <3>. SUFFICES ASSUME att.calm # "built" PROVE bin[s].of = att.table[s].of
      OBVIOUS
    <3>1. \A x \in Slots : bin[x] = [of |-> att.table[x].of, form |-> x.variant]
      BY <1>2, LoadedIsTrue
    <3>2. bin[s] = [of |-> att.table[s].of, form |-> s.variant]
      BY <1>4, <3>1
    <3>. QED  BY <3>2
  <2>3. Range(att.want) \subseteq DOMAIN att.table
    BY <1>2 DEF CampaignInv, Made
  <2>. QED  BY <1>3, <1>5, <2>1, <2>2, <2>3, <2>4 DEF Made, SlotOf
<1>8. TasksAgree'
  BY <1>5 DEF CampaignInv, TasksAgree
<1>9. OutOwned' /\ CampaignWhole'
  BY <1>2, <1>5 DEF CampaignInv, OutOwned, CampaignWhole
<1>. QED  BY <1>6, <1>7, <1>8, <1>9 DEF CampaignInv

LEMMA MakeTaskKeeps ==
  ASSUME CampaignInv, MakeTask, CorpusInv'
  PROVE  CampaignInv'
<1>. DEFINE s == SlotOf(Len(att.specs) + 1)
            t == [slot |-> s, addr |-> att.table[s].of, hint |-> att.hint,
                  bin |-> bin[s], family |-> source[s.seed]]
<1>1. /\ att \in Attempts /\ CampaignShapes /\ att.specs \in Seq(Tasks)
      /\ att.table \in Tables /\ att.hint \in Nat
      /\ bin \in [Slots -> [of : 0..MAX_EDITS, form : Variants]]
      /\ source \in [Seeds -> 1..MAX_EDITS]
      /\ MAX_EDITS \in Nat /\ MAX_CODE \in Nat
  BY CorpusAssumption DEF CampaignInv, CampaignShapes, CorpusInv, Shapes, Attempts
<1>2. /\ att.pc = "make" /\ Len(att.specs) + 1 <= Total
      /\ att' = [att EXCEPT !.hint = 0, !.specs = Append(@, t)]
      /\ UNCHANGED <<source, code, bin, manifest, stamp, job, builds, dirty, mixed, out>>
  BY DEF MakeTask, vars
<1>3. Len(att.specs) < Total
  <2>1. Len(att.specs) \in Nat /\ Len(att.want) \in Nat /\ PerSlot \in Nat
    BY <1>1, CampaignAssumption DEF Attempts, PerSlot
  <2>2. Total \in Nat
    BY <2>1 DEF Total
  <2>. QED  BY <1>2, <2>1, <2>2
<1>4. /\ s \in Slots /\ s \in Range(att.want) /\ s \in DOMAIN att.table
      /\ Range(att.want) \subseteq DOMAIN att.table
  BY <1>1, <1>2, <1>3, SlotAskedFor DEF CampaignInv, Made
<1>5. att.hint # 0 /\ att.calm # "built" => att.hint = att.table[s].of
  BY DEF CampaignInv, Made
<1>. HIDE DEF s
<1>6. t \in Tasks
  <2>1. att.table[s] \in Entries
    BY <1>1, <1>4, TableElim DEF Table
  <2>2. att.table[s].of \in Nat
    BY <1>1, <2>1 DEF Entries
  <2>3. bin[s] \in [of : Nat, form : Variants]
    BY <1>1, <1>4
  <2>4. s.seed \in Seeds
    BY <1>4 DEF Slots
  <2>5. source[s.seed] \in Nat
    BY <1>1, <2>4
  <2>. QED  BY <1>1, <1>4, <2>2, <2>3, <2>5 DEF Tasks
<1>7. /\ t.slot = s /\ t.addr = att.table[s].of /\ t.hint = att.hint
      /\ t.bin = bin[s] /\ t.family = source[s.seed]
  OBVIOUS
<1>. HIDE DEF t
<1>8. Append(att.specs, t) \in Seq(Tasks)
  BY <1>1, <1>6
<1>9. /\ att' \in Attempts /\ att'.pc = "make" /\ att'.table = att.table
      /\ att'.want = att.want /\ att'.id = att.id /\ att'.version = att.version
      /\ att'.hint = 0 /\ att'.specs = Append(att.specs, t) /\ att'.calm = att.calm
  BY <1>1, <1>2, <1>8 DEF Attempts
<1>10. CampaignShapes' /\ Tied' /\ Rebuilding' /\ Rebuilt'
  BY <1>2, <1>9 DEF CampaignInv, CampaignShapes, Tied, Busy, Rebuilding, Rebuilt, OfToday
<1>11. Made'
  BY <1>4, <1>9 DEF Made
<1>12. ASSUME att.calm # "built"
       PROVE  t.bin = [of |-> t.addr, form |-> t.slot.variant] /\ t.hint \in {0, t.addr}
  <2>1. \A x \in Slots : bin[x] = [of |-> att.table[x].of, form |-> x.variant]
    BY <1>2, <1>12, LoadedIsTrue
  <2>2. bin[s] = [of |-> att.table[s].of, form |-> s.variant]
    BY <1>4, <2>1
  <2>. QED  BY <1>5, <1>7, <1>12, <2>2
<1>13. ASSUME att.calm = "calm" PROVE t.family = t.addr
  <2>1. t.bin.of = t.addr
    BY <1>12, <1>13
  <2>2. job[Writer].pc = "idle"
    BY <1>2 DEF CampaignInv, Tied
  <2>3. bin[s].of = source[s.seed]
    BY <1>2, <1>4, <1>13, <2>2 DEF CampaignInv, Rebuilt, OfToday
  <2>. QED  BY <1>7, <2>1, <2>3
<1>14. TasksAgree'
  <2>. SUFFICES ASSUME NEW i \in DOMAIN Append(att.specs, t)
                PROVE  LET u == Append(att.specs, t)[i] IN
                       /\ att.calm # "built" =>
                            /\ u.bin = [of |-> u.addr, form |-> u.slot.variant]
                            /\ u.hint \in {0, u.addr}
                       /\ att.calm = "calm" => u.family = u.addr
    BY <1>9 DEF TasksAgree
  <2>1. \/ i \in DOMAIN att.specs /\ Append(att.specs, t)[i] = att.specs[i]
        \/ Append(att.specs, t)[i] = t
    BY <1>1, <1>6
  <2>2. CASE i \in DOMAIN att.specs /\ Append(att.specs, t)[i] = att.specs[i]
    BY <2>2 DEF CampaignInv, TasksAgree
  <2>3. CASE Append(att.specs, t)[i] = t
    BY <1>12, <1>13, <2>3
  <2>. QED  BY <2>1, <2>2, <2>3
<1>15. OutOwned' /\ CampaignWhole'
  BY <1>2, <1>9 DEF CampaignInv, OutOwned, CampaignWhole
<1>. QED  BY <1>10, <1>11, <1>14, <1>15 DEF CampaignInv

-----------------------------------------------------------------------------
(* OUT.                                                                    *)

\* All the task directories are the attempt's own, so Done counts them.
LEMMA DoneCounts ==
  ASSUME CampaignInv, att.pc # "idle"
  PROVE  Done = Len(out.tasks) /\ Len(out.tasks) \in Nat
<1>1. out.tasks \in Seq(Dirs)
  BY DEF CampaignInv, CampaignShapes
<1>2. Written = 1..Len(out.tasks)
  BY <1>1 DEF Written, CampaignInv, OutOwned
<1>3. Len(out.tasks) \in Nat
  BY <1>1
<1>. QED  BY <1>2, <1>3, FS_Interval DEF Done

\* A step that only writes under OUT keeps the rest.
LEMMA OutStepKeeps ==
  ASSUME CampaignInv, UNCHANGED <<vars, att>>, CorpusInv',
         out' \in [tasks : Seq(Dirs), list : [id : Nat, n : Nat]],
         OutOwned', CampaignWhole'
  PROVE  CampaignInv'
<1>1. Tied' /\ Rebuilding' /\ Rebuilt' /\ Made' /\ TasksAgree' /\ CampaignShapes'
  BY DEF CampaignInv, CampaignShapes, Tied, Busy, Rebuilding, Rebuilt, OfToday, Made,
         SlotOf, Total, TasksAgree, vars
<1>. QED  BY <1>1 DEF CampaignInv

LEMMA WriteFilesKeeps ==
  ASSUME CampaignInv, WriteFiles, CorpusInv'
  PROVE  CampaignInv'
<1>. DEFINE t == [id |-> att.id, whole |-> "no"]
            n == Len(out.tasks)
<1>1. /\ out \in [tasks : Seq(Dirs), list : [id : Nat, n : Nat]] /\ out.tasks \in Seq(Dirs)
      /\ att.id \in Nat /\ t \in Dirs
  BY DEF CampaignInv, CampaignShapes, Attempts, Dirs
<1>2. att.pc = "make" /\ UNCHANGED <<vars, att>>
  BY DEF WriteFiles
<1>3. Done = n /\ n \in Nat
  BY <1>2, DoneCounts
<1>4. n > 0 => out.tasks[n].whole = "yes"
  BY <1>3 DEF WriteFiles
<1>5. out' = [out EXCEPT !.tasks = Append(out.tasks, t)]
  <2>1. out' = [out EXCEPT !.tasks = IF Done < n THEN [out.tasks EXCEPT ![Done + 1] = t]
                                                 ELSE Append(out.tasks, t)]
    BY Zenon DEF WriteFiles
  <2>2. ~(Done < n)
    BY <1>3
  <2>. HIDE DEF n, t
  <2>. QED  BY <2>1, <2>2
<1>6. t.id = att.id
  OBVIOUS
<1>. HIDE DEF t
<1>7. Append(out.tasks, t) \in Seq(Dirs)
  BY <1>1
<1>8. /\ out' \in [tasks : Seq(Dirs), list : [id : Nat, n : Nat]]
      /\ out'.tasks = Append(out.tasks, t) /\ out'.list = out.list
  BY <1>1, <1>5, <1>7
<1>9. out.list.n = 0
  BY <1>2 DEF CampaignInv, OutOwned
<1>10. /\ Len(Append(out.tasks, t)) = n + 1 /\ Append(out.tasks, t)[n + 1] = t
       /\ \A i \in 1..n : Append(out.tasks, t)[i] = out.tasks[i]
  BY <1>1
<1>11. /\ \A i \in 1..n : out.tasks[i].id = att.id
       /\ \A i \in 1..n : i # n => out.tasks[i].whole = "yes"
  BY <1>2 DEF CampaignInv, OutOwned
<1>12. OutOwned'
  <2>. HIDE DEF n
  <2>1. ASSUME NEW i \in 1..(n + 1)
        PROVE  /\ Append(out.tasks, t)[i].id = att.id
               /\ i # n + 1 => Append(out.tasks, t)[i].whole = "yes"
    <3>1. CASE i = n + 1
      BY <1>6, <1>10, <3>1
    <3>2. CASE i # n + 1
      <4>1. i \in 1..n /\ (i = n => n > 0)
        BY <1>3, <3>2
      <4>. QED  BY <1>4, <1>10, <1>11, <4>1
    <3>. QED  BY <3>1, <3>2
  <2>. QED  BY <1>2, <1>8, <1>9, <1>10, <2>1 DEF OutOwned
<1>13. CampaignWhole'
  BY <1>8, <1>9 DEF CampaignWhole
<1>. QED  BY <1>2, <1>8, <1>12, <1>13, OutStepKeeps

LEMMA WriteTaskTomlKeeps ==
  ASSUME CampaignInv, WriteTaskToml, CorpusInv'
  PROVE  CampaignInv'
<1>. DEFINE n == Len(out.tasks)
            u == [out.tasks EXCEPT ![n].whole = "yes"]
<1>1. /\ out \in [tasks : Seq(Dirs), list : [id : Nat, n : Nat]] /\ out.tasks \in Seq(Dirs)
  BY DEF CampaignInv, CampaignShapes
<1>2. att.pc = "make" /\ UNCHANGED <<vars, att>>
  BY DEF WriteTaskToml
<1>3. Done = n /\ n \in Nat /\ n > 0
  BY <1>2, DoneCounts DEF WriteTaskToml
<1>4. out' = [out EXCEPT !.tasks = u]
  BY <1>1, <1>3 DEF WriteTaskToml
<1>5. /\ u \in Seq(Dirs) /\ Len(u) = n
      /\ \A i \in 1..n : u[i].id = out.tasks[i].id
      /\ \A i \in 1..n : i # n => u[i] = out.tasks[i]
  <2>1. out.tasks \in [1..n -> Dirs] /\ n \in 1..n
    BY <1>1, <1>3
  <2>2. [out.tasks[n] EXCEPT !.whole = "yes"] \in Dirs
    BY <2>1 DEF Dirs
  <2>3. u = [out.tasks EXCEPT ![n] = [out.tasks[n] EXCEPT !.whole = "yes"]]
    OBVIOUS
  <2>. HIDE DEF u, n
  <2>4. u \in [1..n -> Dirs] /\ (\A i \in 1..n : i # n => u[i] = out.tasks[i])
    BY <2>1, <2>2, <2>3
  <2>5. u[n].id = out.tasks[n].id
    BY <2>1, <2>3 DEF Dirs
  <2>6. u \in Seq(Dirs) /\ Len(u) = n
    BY <1>3, <2>4
  <2>. QED  BY <2>4, <2>5, <2>6
<1>. HIDE DEF u
<1>6. /\ out' \in [tasks : Seq(Dirs), list : [id : Nat, n : Nat]]
      /\ out'.tasks = u /\ out'.list = out.list
  BY <1>1, <1>4, <1>5
<1>7. out.list.n = 0
  BY <1>2 DEF CampaignInv, OutOwned
<1>8. OutOwned'
  BY <1>2, <1>5, <1>6, <1>7 DEF CampaignInv, OutOwned
<1>9. CampaignWhole'
  BY <1>6, <1>7 DEF CampaignWhole
<1>. QED  BY <1>2, <1>6, <1>8, <1>9, OutStepKeeps

LEMMA NoAttemptShape ==
  /\ NoAttempt \in Attempts /\ NoAttempt.pc = "idle" /\ NoAttempt.specs = <<>>
  /\ NoAttempt.hint = 0 /\ NoAttempt.table = Empty
BY EmptyTable DEF NoAttempt, Attempts

\* An attempt that is over leaves only OUT to speak for.
LEMMA AttemptOver ==
  ASSUME CorpusInv', att' = NoAttempt, job'[Writer].pc = "idle", CampaignWhole',
         out' \in [tasks : Seq(Dirs), list : [id : Nat, n : Nat]]
  PROVE  CampaignInv'
<1>. USE NoAttemptShape
<1>1. CampaignShapes' /\ Tied' /\ Rebuilding' /\ Rebuilt' /\ OutOwned'
  BY DEF CampaignShapes, Tied, Rebuilding, Rebuilt, OutOwned
<1>2. Made' /\ TasksAgree'
  BY DEF Made, TasksAgree
<1>. QED  BY <1>1, <1>2 DEF CampaignInv

LEMMA WriteCampaignTomlKeeps ==
  ASSUME CampaignInv, WriteCampaignToml, CorpusInv'
  PROVE  CampaignInv'
<1>. DEFINE n == Len(out.tasks)
<1>1. /\ out \in [tasks : Seq(Dirs), list : [id : Nat, n : Nat]] /\ out.tasks \in Seq(Dirs)
      /\ att.id \in Nat
  BY DEF CampaignInv, CampaignShapes, Attempts
<1>2. /\ att.pc = "make" /\ att' = NoAttempt /\ job' = job
      /\ Done = Total /\ (Done > 0 => out.tasks[Done].whole = "yes")
      /\ out' = [out EXCEPT !.list = [id |-> att.id, n |-> Total]]
  BY DEF WriteCampaignToml, vars
<1>3. Done = n /\ n \in Nat
  BY <1>2, DoneCounts
<1>4. (n > 0 => out.tasks[n].whole = "yes") /\ out' = [out EXCEPT !.list = [id |-> att.id, n |-> n]]
  BY <1>2, <1>3
<1>5. /\ out' \in [tasks : Seq(Dirs), list : [id : Nat, n : Nat]]
      /\ out'.tasks = out.tasks /\ out'.list = [id |-> att.id, n |-> n]
  BY <1>1, <1>3, <1>4
<1>6. ASSUME NEW i \in 1..n PROVE out.tasks[i] = [id |-> att.id, whole |-> "yes"]
  <2>1. out.tasks[i].id = att.id /\ (i # n => out.tasks[i].whole = "yes")
    BY <1>2 DEF CampaignInv, OutOwned
  <2>2. out.tasks[i] \in Dirs
    BY <1>1
  <2>3. out.tasks[i].whole = "yes"
    BY <1>3, <1>4, <2>1
  <2>. QED  BY <2>1, <2>2, <2>3 DEF Dirs
<1>7. CampaignWhole'
  <2>. HIDE DEF n
  <2>1. out'.list.n = n /\ out'.list.id = att.id /\ Len(out'.tasks) = n
    BY <1>5 DEF n
  <2>. QED  BY <1>5, <1>6, <2>1 DEF CampaignWhole
<1>8. job[Writer].pc = "idle"
  BY <1>2 DEF CampaignInv, Tied
<1>. QED  BY <1>2, <1>5, <1>7, <1>8, AttemptOver

LEMMA CutKeeps ==
  ASSUME CampaignInv, Cut, CorpusInv'
  PROVE  CampaignInv'
<1>1. att' = NoAttempt /\ out' = out
  BY DEF Cut
<1>2. job'[Writer].pc = "idle"
  <2>1. CASE job[Writer].pc = "idle"
    BY <2>1 DEF Cut, vars
  <2>2. CASE job[Writer].pc # "idle"
    <3>1. job' = [job EXCEPT ![Writer] = NoJob] /\ job \in [Builders -> Jobs]
      BY <2>2 DEF Cut, Interrupted, CampaignInv, CorpusInv, Shapes
    <3>. QED  BY <3>1, NoJobShape, CampaignAssumption
  <2>. QED  BY <2>1, <2>2
<1>3. CampaignWhole' /\ out' \in [tasks : Seq(Dirs), list : [id : Nat, n : Nat]]
  BY <1>1 DEF CampaignInv, CampaignShapes, CampaignWhole
<1>. QED  BY <1>1, <1>2, <1>3, AttemptOver

LEMMA NewOutKeeps ==
  ASSUME CampaignInv, NewOut, CorpusInv'
  PROVE  CampaignInv'
<1>1. att.pc = "idle" /\ out' = NoOut /\ UNCHANGED <<vars, att>>
  BY DEF NewOut
<1>2. NoOut \in [tasks : Seq(Dirs), list : [id : Nat, n : Nat]] /\ NoOut.list.n = 0
  BY DEF NoOut
<1>3. OutOwned' /\ CampaignWhole'
  BY <1>1, <1>2 DEF OutOwned, CampaignWhole
<1>. QED  BY <1>1, <1>2, <1>3, OutStepKeeps

LEMMA StartCampaignKeeps ==
  ASSUME CampaignInv, NEW want \in Requests, NEW configs \in Configs,
         StartCampaign(want, configs), CorpusInv'
  PROVE  CampaignInv'
<1>. DEFINE calm == IF Busy = {} THEN "calm" ELSE "built"
<1>1. /\ job \in [Builders -> Jobs] /\ code \in Nat /\ builds \in Nat /\ Writer \in Builders
  BY CorpusAssumption, CampaignAssumption DEF CampaignInv, CorpusInv, Shapes
<1>2. /\ att.pc = "idle" /\ out = NoOut /\ out' = out /\ Range(want) \subseteq Slots
      /\ Start(Writer, Slots, "fresh")
      /\ att' = [NoAttempt EXCEPT !.pc = "build", !.id = builds + 1, !.want = want,
                                  !.version = code, !.calm = calm]
  BY DEF StartCampaign, Accepted, Rebuild
<1>3. want \in Seq(Slots)
  <2>1. want \in Seq(Slots \cup {Unknown})
    BY CampaignAssumption
  <2>2. \A i \in 1..Len(want) : want[i] \in Slots
    BY <1>2, <2>1 DEF Range
  <2>. QED  BY <2>1, <2>2
<1>4. /\ att' \in Attempts /\ att'.pc = "build" /\ att'.want = want
      /\ att'.version = code /\ att'.calm = calm /\ att'.hint = 0 /\ att'.specs = <<>>
  <2>1. calm \in {"calm", "edited", "built"} /\ builds + 1 \in Nat
    BY <1>1
  <2>. HIDE DEF calm
  <2>2. att' = [NoAttempt EXCEPT !.pc = "build", !.id = builds + 1, !.want = want,
                                 !.version = code, !.calm = calm]
    BY <1>2
  <2>. QED  BY <1>1, <1>3, <2>1, <2>2, NoAttemptShape DEF Attempts
<1>5. NoOut.tasks = <<>> /\ NoOut.list.n = 0
  BY DEF NoOut
<1>6. CampaignShapes'
  BY <1>2, <1>4 DEF CampaignInv, CampaignShapes
<1>7. Made' /\ TasksAgree'
  BY <1>4 DEF Made, TasksAgree
<1>8. OutOwned' /\ CampaignWhole'
  BY <1>2, <1>5 DEF OutOwned, CampaignWhole
<1>9. Rebuilt'
  <2>1. job'[Writer].pc = "compile"
    BY <1>1, <1>2 DEF Start, NoJob
  <2>. QED  BY <2>1 DEF Rebuilt
<1>10. CASE Busy # {}
  BY <1>4, <1>6, <1>7, <1>8, <1>9, <1>10 DEF CampaignInv, Tied, Rebuilding
<1>11. CASE Busy = {}
  <2>1. /\ job' = [c \in Builders |->
                     IF c = Writer
                     THEN [NoJob EXCEPT !.pc = "compile", !.plan = Slots, !.merge = "fresh",
                             !.version = code, !.todo = Slots, !.before = Empty,
                             !.alone = "yes"]
                     ELSE job[c]]
    BY <1>2, <1>11 DEF Start, NoJob
  <2>2. /\ job'[Writer].pc = "compile" /\ job'[Writer].alone = "yes"
        /\ job'[Writer].merge = "fresh" /\ job'[Writer].plan = Slots
        /\ job'[Writer].version = code /\ job'[Writer].todo = Slots
    BY <1>1, <2>1 DEF NoJob
  <2>3. Busy' \subseteq {Writer}
    BY <1>11, <2>1 DEF Busy
  <2>4. Tied'
    BY <1>4, <2>3 DEF Tied
  <2>5. Rebuilding'
    BY <1>4, <2>2 DEF Rebuilding, OfToday
  <2>. QED  BY <1>6, <1>7, <1>8, <1>9, <2>4, <2>5 DEF CampaignInv
<1>. QED  BY <1>10, <1>11

-----------------------------------------------------------------------------
(* The corpus under the writer.                                            *)

\* A note about what went on beside it asks less of an attempt.
LEMMA NotedKeeps ==
  ASSUME CampaignInv, out' = out, NEW w \in {"edited", "built"},
         att' = att \/ (att.calm # "built" /\ att' = [att EXCEPT !.calm = w])
  PROVE  /\ CampaignShapes' /\ Made' /\ TasksAgree' /\ OutOwned' /\ CampaignWhole'
         /\ att'.pc = att.pc /\ att'.version = att.version /\ att'.table = att.table
         /\ att'.calm # "built" => att.calm # "built"
         /\ att'.calm = "calm" => att.calm = "calm"
<1>1. att \in Attempts
  BY DEF CampaignInv, CampaignShapes
<1>2. /\ att' \in Attempts /\ att'.pc = att.pc /\ att'.version = att.version
      /\ att'.table = att.table /\ att'.id = att.id /\ att'.want = att.want
      /\ att'.hint = att.hint /\ att'.specs = att.specs
      /\ att'.calm # "built" => att.calm # "built"
      /\ att'.calm = "calm" => att.calm = "calm"
  BY <1>1 DEF Attempts
<1>3. CampaignShapes' /\ OutOwned' /\ CampaignWhole'
  BY <1>2 DEF CampaignInv, CampaignShapes, OutOwned, CampaignWhole
<1>4. TasksAgree'
  BY <1>2 DEF CampaignInv, TasksAgree
<1>5. Made'
  <2>1. att'.want = att.want /\ att'.specs = att.specs
    BY <1>2
  <2>2. Total' = Total
    BY ONLY <2>1 DEF Total
  <2>3. SlotOf(Len(att.specs) + 1)' = SlotOf(Len(att.specs) + 1)
    BY <2>1, Zenon DEF SlotOf
  <2>. QED  BY <1>2, <2>2, <2>3 DEF CampaignInv, Made
<1>. QED  BY <1>2, <1>3, <1>4, <1>5

LEMMA WriterStepKeeps ==
  ASSUME CampaignInv, Step(Writer), UNCHANGED cvars, CorpusInv'
  PROVE  CampaignInv'
<1>. DEFINE j == job[Writer]
<1>1. /\ job \in [Builders -> Jobs] /\ job' \in [Builders -> Jobs] /\ Writer \in Builders
      /\ bin \in [Slots -> [of : 0..MAX_EDITS, form : Variants]]
      /\ manifest \in Tables \cup {Torn} /\ dirty \subseteq Slots /\ j \in Jobs
  BY CampaignAssumption DEF CampaignInv, CorpusInv, Shapes
<1>2. att' = att /\ out' = out
  BY DEF cvars
<1>3. CampaignShapes' /\ Made' /\ TasksAgree' /\ OutOwned' /\ CampaignWhole'
  BY <1>2, NotedKeeps
<1>4. j.pc # "idle" /\ source' = source
  BY DEF Step, Compile, Symtab, Strip, ReadManifest, TruncateManifest, FillManifest, WriteStamp
<1>5. att.pc = "build"
  BY <1>4 DEF CampaignInv, Tied
<1>6. \A c \in Builders \ {Writer} : job'[c] = job[c]
  BY <1>1 DEF Step, Compile, Symtab, Strip, ReadManifest, TruncateManifest, FillManifest, WriteStamp
<1>7. Tied'
  BY <1>2, <1>5, <1>6 DEF CampaignInv, Tied, Busy
<1>8. CASE att.calm = "built"
  BY <1>2, <1>3, <1>7, <1>8 DEF CampaignInv, Rebuilding, Rebuilt
<1>9. CASE att.calm # "built"
  <2>1. /\ j.alone = "yes" /\ j.merge = "fresh" /\ j.plan = Slots /\ j.version = att.version
        /\ j.pc \in {"strip", "write", "fill"} => DOMAIN j.built = Slots
        /\ j.pc = "stamp" => manifest # Torn /\ DOMAIN manifest = Slots /\ dirty = {}
        /\ j.pc = "compile" => OfToday(Slots \ j.todo)
        /\ j.pc # "compile" => OfToday(Slots)
    BY <1>4, <1>9 DEF CampaignInv, Rebuilding
  <2>2. ASSUME job'[Writer].pc # "idle", job'[Writer].alone = j.alone,
               job'[Writer].merge = j.merge, job'[Writer].plan = j.plan,
               job'[Writer].version = j.version,
               job'[Writer].pc \in {"strip", "write", "fill"} => DOMAIN job'[Writer].built = Slots,
               job'[Writer].pc = "stamp" =>
                 manifest' # Torn /\ DOMAIN manifest' = Slots /\ dirty' = {},
               att.calm = "calm" =>
                 \A s \in Slots : (job'[Writer].pc = "compile" => s \notin job'[Writer].todo)
                                    => bin'[s].of = source[s.seed]
        PROVE  CampaignInv'
    <3>1. Rebuilding'
      BY <1>2, <1>4, <2>1, <2>2 DEF Rebuilding, OfToday
    <3>2. Rebuilt'
      BY <2>2 DEF Rebuilt
    <3>. QED  BY <1>3, <1>7, <3>1, <3>2 DEF CampaignInv
  <2>3. CASE Compile(Writer)
    <3>1. PICK s \in Foremost(j.todo) :
            /\ bin' = [bin EXCEPT ![s] = [of |-> source[s.seed], form |-> "sym"]]
            /\ job' = [job EXCEPT ![Writer].todo = @ \ {s}]
      BY <2>3 DEF Compile
    <3>2. job'[Writer] = [j EXCEPT !.todo = j.todo \ {s}] /\ j.pc = "compile"
      BY <1>1, <2>3, <3>1 DEF Compile
    <3>3. /\ job'[Writer].pc = "compile" /\ job'[Writer].alone = j.alone
          /\ job'[Writer].merge = j.merge /\ job'[Writer].plan = j.plan
          /\ job'[Writer].version = j.version /\ job'[Writer].todo = j.todo \ {s}
      BY <1>1, <3>2 DEF Jobs
    <3>4. ASSUME att.calm = "calm", NEW x \in Slots, x \notin j.todo \ {s}
          PROVE  bin'[x].of = source[x.seed]
      <4>1. CASE x = s
        BY <1>1, <3>1, <4>1
      <4>2. CASE x # s
        <5>1. bin'[x] = bin[x] /\ x \notin j.todo
          BY <1>1, <3>1, <3>4, <4>2
        <5>. QED  BY <2>1, <3>2, <3>4, <5>1 DEF OfToday
      <4>. QED  BY <4>1, <4>2
    <3>. QED  BY <2>2, <3>3, <3>4
  <2>4. CASE Symtab(Writer)
    <3>. DEFINE new == [s \in j.plan |-> [of |-> bin[s].of, under |-> j.version]]
    <3>1. /\ job' = [job EXCEPT ![Writer].built = new, ![Writer].pc = "strip",
                                ![Writer].todo = ToStrip(j.plan)]
          /\ bin' = bin /\ j.pc = "compile" /\ j.todo = {}
      BY <2>4 DEF Symtab, disk
    <3>2. DOMAIN new = Slots
      BY <2>1
    <3>. HIDE DEF new
    <3>3. job'[Writer] = [j EXCEPT !.built = new, !.pc = "strip", !.todo = ToStrip(j.plan)]
      BY <1>1, <3>1
    <3>4. /\ job'[Writer].pc = "strip" /\ job'[Writer].alone = j.alone
          /\ job'[Writer].merge = j.merge /\ job'[Writer].plan = j.plan
          /\ job'[Writer].version = j.version /\ job'[Writer].built = new
      BY <1>1, <3>3 DEF Jobs
    <3>5. att.calm = "calm" => \A s \in Slots : bin'[s].of = source[s.seed]
      BY <2>1, <3>1 DEF OfToday
    <3>. QED  BY <2>2, <3>2, <3>4, <3>5
  <2>5. CASE Strip(Writer)
    <3>1. PICK s \in j.todo :
            /\ bin' = [bin EXCEPT ![s].form = "stripped"]
            /\ job' = [job EXCEPT ![Writer].todo = @ \ {s}]
      BY <2>5 DEF Strip
    <3>2. job'[Writer] = [j EXCEPT !.todo = j.todo \ {s}] /\ j.pc = "strip"
      BY <1>1, <2>5, <3>1 DEF Strip
    <3>3. /\ job'[Writer].pc = "strip" /\ job'[Writer].alone = j.alone
          /\ job'[Writer].merge = j.merge /\ job'[Writer].plan = j.plan
          /\ job'[Writer].version = j.version /\ job'[Writer].built = j.built
      BY <1>1, <3>2 DEF Jobs
    <3>4. \A x \in Slots : bin'[x].of = bin[x].of
      BY <1>1, <3>1
    <3>5. att.calm = "calm" => \A x \in Slots : bin'[x].of = source[x.seed]
      BY <2>1, <3>2, <3>4 DEF OfToday
    <3>. QED  BY <2>1, <2>2, <3>2, <3>3, <3>5
  <2>6. CASE ReadManifest(Writer)
    <3>1. /\ job' = [job EXCEPT ![Writer].built = j.built, ![Writer].pc = "write"]
          /\ bin' = bin /\ j.pc = "strip"
      BY <2>1, <2>6 DEF ReadManifest, disk
    <3>2. job'[Writer] = [j EXCEPT !.built = j.built, !.pc = "write"]
      BY <1>1, <3>1
    <3>3. /\ job'[Writer].pc = "write" /\ job'[Writer].alone = j.alone
          /\ job'[Writer].merge = j.merge /\ job'[Writer].plan = j.plan
          /\ job'[Writer].version = j.version /\ job'[Writer].built = j.built
      BY <1>1, <3>2 DEF Jobs
    <3>4. att.calm = "calm" => \A s \in Slots : bin'[s].of = source[s.seed]
      BY <2>1, <3>1 DEF OfToday
    <3>. QED  BY <2>1, <2>2, <3>1, <3>3, <3>4
  <2>7. CASE TruncateManifest(Writer)
    <3>1. /\ job' = [job EXCEPT ![Writer].pc = "fill"] /\ bin' = bin /\ j.pc = "write"
      BY <2>7 DEF TruncateManifest
    <3>2. job'[Writer] = [j EXCEPT !.pc = "fill"]
      BY <1>1, <3>1
    <3>3. /\ job'[Writer].pc = "fill" /\ job'[Writer].alone = j.alone
          /\ job'[Writer].merge = j.merge /\ job'[Writer].plan = j.plan
          /\ job'[Writer].version = j.version /\ job'[Writer].built = j.built
      BY <1>1, <3>2 DEF Jobs
    <3>4. att.calm = "calm" => \A s \in Slots : bin'[s].of = source[s.seed]
      BY <2>1, <3>1 DEF OfToday
    <3>. QED  BY <2>1, <2>2, <3>1, <3>3, <3>4
  <2>8. CASE FillManifest(Writer)
    <3>1. /\ job' = [job EXCEPT ![Writer].pc = "stamp"] /\ bin' = bin /\ j.pc = "fill"
          /\ manifest = Torn => manifest' = j.built
          /\ dirty' = dirty \ j.plan
      BY <2>1, <2>8 DEF FillManifest
    <3>2. job'[Writer] = [j EXCEPT !.pc = "stamp"]
      BY <1>1, <3>1
    <3>3. /\ job'[Writer].pc = "stamp" /\ job'[Writer].alone = j.alone
          /\ job'[Writer].merge = j.merge /\ job'[Writer].plan = j.plan
          /\ job'[Writer].version = j.version
      BY <1>1, <3>2 DEF Jobs
    <3>4. att.calm = "calm" => \A s \in Slots : bin'[s].of = source[s.seed]
      BY <2>1, <3>1 DEF OfToday
    <3>5. manifest = Torn
      <4>1. Alone(Writer) /\ Writer \in Busy
        BY <1>1, <1>4 DEF CampaignInv, CorpusInv, Busy
      <4>. QED  BY <2>1, <3>1, <4>1 DEF Alone
    <3>6. j.built # Torn
      <4>1. j.built \in Tables
        BY <1>1 DEF Jobs
      <4>. QED  BY <4>1, TornAssumption DEF Tables
    <3>7. manifest' # Torn /\ DOMAIN manifest' = Slots /\ dirty' = {}
      BY <1>1, <2>1, <3>1, <3>5, <3>6
    <3>. QED  BY <2>2, <3>3, <3>4, <3>7
  <2>9. CASE WriteStamp(Writer)
    <3>1. /\ job' = [job EXCEPT ![Writer] = NoJob] /\ j.pc = "stamp" /\ stamp' = j.version
          /\ UNCHANGED <<bin, manifest, dirty>>
      BY <2>9 DEF WriteStamp
    <3>2. job'[Writer].pc = "idle"
      BY <1>1, <3>1, NoJobShape
    <3>3. Rebuilding'
      BY <3>2 DEF Rebuilding
    <3>4. Rebuilt'
      BY <1>2, <1>4, <1>5, <2>1, <3>1 DEF Rebuilt, OfToday
    <3>. QED  BY <1>3, <1>7, <3>3, <3>4 DEF CampaignInv
  <2>. QED  BY <2>3, <2>4, <2>5, <2>6, <2>7, <2>8, <2>9 DEF Step
<1>. QED  BY <1>8, <1>9

LEMMA BesideKeeps ==
  ASSUME CampaignInv, Beside, CorpusInv'
  PROVE  CampaignInv'
<1>1. /\ out' = out /\ job \in [Builders -> Jobs] /\ Writer \in Builders
      /\ att.pc \in {"idle", "build", "make"} /\ att.calm \in {"calm", "edited", "built"}
  BY CampaignAssumption
     DEF Beside, CampaignInv, CampaignShapes, Attempts, CorpusInv, Shapes
<1>2. ASSUME NEW x \in Seeds, EditSeed(x), Noted("edited") PROVE CampaignInv'
  <2>1. UNCHANGED <<bin, manifest, stamp, job, dirty>>
    BY <1>2 DEF EditSeed, disk
  <2>2. /\ CampaignShapes' /\ Made' /\ TasksAgree' /\ OutOwned' /\ CampaignWhole'
        /\ att'.pc = att.pc /\ att'.version = att.version /\ att'.table = att.table
        /\ att'.calm # "built" => att.calm # "built"
    BY <1>1, <1>2, NotedKeeps DEF Noted
  <2>3. att'.calm = "calm" => att.pc = "idle"
    <3>1. att \in Attempts
      BY DEF CampaignInv, CampaignShapes
    <3>. QED  BY <1>2, <3>1 DEF Noted, Attempts
  <2>4. Tied'
    BY <2>1, <2>2 DEF CampaignInv, Tied, Busy
  <2>5. att.pc = "idle" => job[Writer].pc = "idle"
    BY DEF CampaignInv, Tied
  <2>6. Rebuilding'
    BY <2>1, <2>2, <2>3, <2>5 DEF CampaignInv, Rebuilding, OfToday
  <2>7. Rebuilt'
    BY <2>1, <2>2, <2>3 DEF CampaignInv, Rebuilt, OfToday
  <2>. QED  BY <2>2, <2>4, <2>6, <2>7 DEF CampaignInv
<1>3. CASE Upgrade /\ UNCHANGED att
  <2>1. UNCHANGED <<source, bin, manifest, stamp, job, dirty, att>>
    BY <1>3 DEF Upgrade, disk
  <2>2. CampaignShapes' /\ Made' /\ TasksAgree' /\ OutOwned' /\ CampaignWhole'
    BY <1>1, <2>1, NotedKeeps
  <2>3. Tied' /\ Rebuilding' /\ Rebuilt'
    BY <2>1 DEF CampaignInv, Tied, Busy, Rebuilding, Rebuilt, OfToday
  <2>. QED  BY <2>2, <2>3 DEF CampaignInv
<1>4. ASSUME NEW b \in Builders \ {Writer}, StartAny(b), Noted("built") PROVE CampaignInv'
  <2>1. /\ CampaignShapes' /\ Made' /\ TasksAgree' /\ OutOwned' /\ CampaignWhole'
        /\ att'.pc = att.pc
    BY <1>1, <1>4, NotedKeeps DEF Noted
  <2>2. att.pc = "idle" \/ att'.calm = "built"
    <3>1. att \in Attempts
      BY DEF CampaignInv, CampaignShapes
    <3>. QED  BY <1>4, <3>1 DEF Noted, Attempts
  <2>3. job'[Writer].pc = job[Writer].pc
    <3>1. job'[Writer] \in {job[Writer], [job[Writer] EXCEPT !.alone = "no", !.before = Empty]}
      BY <1>1, <1>4 DEF StartAny, Start
    <3>. QED  BY <1>1, <3>1 DEF Jobs
  <2>4. Tied'
    BY <2>1, <2>2, <2>3 DEF CampaignInv, Tied
  <2>5. att.pc = "idle" => job'[Writer].pc = "idle"
    BY <2>3 DEF CampaignInv, Tied
  <2>6. Rebuilding' /\ Rebuilt'
    BY <2>1, <2>2, <2>5 DEF Rebuilding, Rebuilt
  <2>. QED  BY <2>1, <2>4, <2>6 DEF CampaignInv
<1>5. ASSUME NEW b \in Builders \ {Writer}, Step(b) \/ Interrupted(b), UNCHANGED att
      PROVE  CampaignInv'
  <2>1. CampaignShapes' /\ Made' /\ TasksAgree' /\ OutOwned' /\ CampaignWhole'
    BY <1>1, <1>5, NotedKeeps
  <2>2. job[b].pc # "idle"
    BY <1>5 DEF Step, Compile, Symtab, Strip, ReadManifest, TruncateManifest, FillManifest,
                WriteStamp, Interrupted
  <2>3. job'[Writer] = job[Writer]
    BY <1>1, <1>5 DEF Step, Compile, Symtab, Strip, ReadManifest, TruncateManifest,
                FillManifest, WriteStamp, Interrupted
  <2>4. att.pc = "idle" \/ att.calm = "built"
    BY <2>2 DEF CampaignInv, Tied, Busy
  <2>5. Tied'
    BY <1>5, <2>3, <2>4 DEF CampaignInv, Tied
  <2>6. att.pc = "idle" => job'[Writer].pc = "idle"
    BY <2>3 DEF CampaignInv, Tied
  <2>7. Rebuilding' /\ Rebuilt'
    BY <1>5, <2>4, <2>6 DEF Rebuilding, Rebuilt
  <2>. QED  BY <2>1, <2>5, <2>7 DEF CampaignInv
<1>. QED  BY <1>2, <1>3, <1>4, <1>5 DEF Beside

-----------------------------------------------------------------------------
(* The campaign.                                                           *)

LEMMA CampaignInit == CInit => CampaignInv
<1>. SUFFICES ASSUME CInit PROVE CampaignInv
  OBVIOUS
<1>1. CorpusInv /\ att = NoAttempt /\ out = NoOut /\ job[Writer] = NoJob
  BY CorpusInit, CampaignAssumption DEF CInit, Init
<1>2. NoOut \in [tasks : Seq(Dirs), list : [id : Nat, n : Nat]] /\ NoOut.list.n = 0
  BY DEF NoOut
<1>. USE NoAttemptShape, NoJobShape
<1>3. CampaignShapes /\ Tied /\ Rebuilding /\ Rebuilt
  BY <1>1, <1>2 DEF CampaignShapes, Tied, Rebuilding, Rebuilt
<1>4. Made /\ TasksAgree /\ OutOwned /\ CampaignWhole
  BY <1>1, <1>2 DEF Made, TasksAgree, OutOwned, CampaignWhole
<1>. QED  BY <1>1, <1>3, <1>4 DEF CampaignInv

LEMMA CampaignStep == CampaignInv /\ [CNext]_<<vars, cvars>> => CampaignInv'
<1>. SUFFICES ASSUME CampaignInv, [CNext]_<<vars, cvars>> PROVE CampaignInv'
  OBVIOUS
<1>1. CorpusInv'
  BY CampaignStepBuilds, CorpusStep DEF CampaignInv
<1>2. CASE UNCHANGED <<vars, cvars>>
  <2>1. OutOwned' /\ CampaignWhole' /\ out' \in [tasks : Seq(Dirs), list : [id : Nat, n : Nat]]
    BY <1>2 DEF CampaignInv, CampaignShapes, OutOwned, CampaignWhole, cvars
  <2>. QED  BY <1>1, <1>2, <2>1, OutStepKeeps DEF cvars
<1>3. CASE CNext
  BY <1>1, <1>3, StartCampaignKeeps, WriterStepKeeps, LoadManifestKeeps, DisassembleKeeps,
     MakeTaskKeeps, WriteFilesKeeps, WriteTaskTomlKeeps, WriteCampaignTomlKeeps, CutKeeps,
     NewOutKeeps, BesideKeeps DEF CNext
<1>. QED  BY <1>2, <1>3

\* The inductive invariant of the writer among other builds.
THEOREM CampaignInvariant == CSpec => []CampaignInv
BY CampaignInit, CampaignStep, PTL DEF CSpec

\* A campaign.toml vouches for what it lists: every task directory is there,
\* complete and of its own attempt, whatever was cut off before.
THEOREM CampaignListsWhole == CSpec => []CampaignWhole
<1>1. CampaignInv => CampaignWhole
  BY DEF CampaignInv
<1>. QED  BY <1>1, CampaignInvariant, PTL

\* Without another build beside it, binary, addresses and disassembly of every
\* task are of one compilation; without an edit, so is the family hash.
THEOREM CampaignTasksAgree == CSpec => []TasksAgree
<1>1. CampaignInv => TasksAgree
  BY DEF CampaignInv
<1>. QED  BY <1>1, CampaignInvariant, PTL

\* Whatever earlier builds left behind, an undisturbed writer's own rebuild is
\* enough for it to load the manifest and find every slot it was asked for, with
\* --all every slot there is.
THEOREM CampaignRebuildSuffices == CSpec => []RebuildSuffices
<1>1. ASSUME CampaignInv PROVE RebuildSuffices
  <2>. SUFFICES ASSUME att.pc = "build", job[Writer].pc = "idle", att.calm # "built"
                PROVE  Loads(att.version) /\ AskedFor(att.want) \subseteq DOMAIN manifest
    BY DEF RebuildSuffices
  <2>1. manifest # Torn /\ DOMAIN manifest = Slots /\ stamp = att.version
    BY <1>1 DEF CampaignInv, Rebuilt
  <2>2. att.want \in Seq(Slots)
    BY <1>1 DEF CampaignInv, CampaignShapes, Attempts
  <2>3. AskedFor(att.want) \subseteq Slots
    BY <2>2 DEF AskedFor, Range
  <2>. QED  BY <2>1, <2>3 DEF Loads
<1>. QED  BY <1>1, CampaignInvariant, PTL

\* What the corpus promises, with a writer among the builders.
COROLLARY CampaignCorpus ==
  CSpec => []TypeOK /\ []EntriesMatchBinaries /\ []FullStampTrue /\ []TargetedKeepsOthers
BY CampaignRefinesCorpus, CorpusTypeCorrect, CorpusEntriesMatch, CorpusFullStampTrue,
   CorpusTargetedKeepsOthers, PTL
=============================================================================
