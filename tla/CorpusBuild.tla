----------------------------- MODULE CorpusBuild -----------------------------
(***************************************************************************)
(* The corpus on disk: corpus/generate.py compiles the seeds in place,     *)
(* captures the function addresses of each fresh binary, strips the        *)
(* stripped variants, rewrites manifest.json and stamps the directory with *)
(* the canonicalizer version last.  load_manifest reads it back.           *)
(*                                                                         *)
(* A build is a sequence of file writes, and it may be cut off between any *)
(* two: a failed container raises, a process is killed.  Nothing locks the *)
(* directory, so builds of several processes interleave.  Seeds are edited *)
(* and the code is upgraded at any time.  A binary is known by the version *)
(* of the source it was compiled from; the addresses in a manifest entry   *)
(* are right for one such version.                                         *)
(***************************************************************************)
EXTENDS Naturals, FiniteSets

CONSTANTS Seeds,      \* the seed programs
          Builders,   \* the processes that build
          MAX_EDITS,  \* bound on the versions of a seed's source
          MAX_CODE,   \* bound on canonicalizer versions
          MAX_BUILDS, \* bound on the builds started
          Torn        \* a manifest.json cut off while it was written

ASSUME CorpusAssumption ==
  /\ IsFiniteSet(Seeds)
  /\ MAX_EDITS \in Nat \ {0} /\ MAX_CODE \in Nat \ {0} /\ MAX_BUILDS \in Nat

Variants == {"sym", "stripped"}
Slots == [seed : Seeds, variant : Variants]
Stripped(S) == {s \in S : s.variant = "stripped"}

\* A manifest's entry: the source version its addresses are right for, and the
\* canonicalizer it was recorded under.  Torn text is no manifest.
Entries == [of : 1..MAX_EDITS, under : 1..MAX_CODE]

ASSUME TornAssumption == \A D \in SUBSET Slots : Torn \notin [D -> Entries]

VARIABLES
  source,   \* source[x]: version of seed x's source
  code,     \* CANONICALIZER_VERSION of the code on disk
  bin,      \* bin[s]: the binary of a slot, [of, form]; of = 0: none
  manifest, \* manifest.json: a function from slots to entries [of, under]
  stamp,    \* the canonicalizer_version file; 0: missing
  job,      \* job[b]: where builder b is, see NoJob
  builds,   \* builds started so far
  dirty,    \* slots an interrupted or overlapping build may have left wrong
            \* (read by properties only)
  mixed     \* "no" while the manifest is that of one full build that no other
            \* build overlapped (same)

disk == <<bin, manifest, stamp>>
vars == <<source, code, bin, manifest, stamp, job, builds, dirty, mixed>>

Empty == [s \in {} |-> 0]
NoBinary == [of |-> 0, form |-> "sym"]

\* A build: its plan, "merge" for a filtered build and "fresh" for a full one,
\* the canonicalizer version of its process, the slots its current container
\* job has not done yet and the entries it will write.  The manifest when it
\* started and whether it has been the only build are read by properties only.
NoJob ==
  [pc |-> "idle", plan |-> {}, merge |-> "fresh", version |-> 0, todo |-> {},
   built |-> Empty, before |-> Empty, alone |-> "yes"]

Init ==
  /\ source = [x \in Seeds |-> 1] /\ code = 1
  /\ bin = [s \in Slots |-> NoBinary] /\ manifest = Empty /\ stamp = 0
  /\ job = [b \in Builders |-> NoJob] /\ builds = 0
  /\ dirty = {} /\ mixed = "no"

Busy == {b \in Builders : job[b].pc # "idle"}

-----------------------------------------------------------------------------
(* What changes under a build.                                             *)

EditSeed(x) ==
  /\ source[x] < MAX_EDITS
  /\ source' = [source EXCEPT ![x] = @ + 1]
  /\ UNCHANGED <<code, disk, job, builds, dirty, mixed>>

Upgrade ==
  /\ code < MAX_CODE
  /\ code' = code + 1
  /\ UNCHANGED <<source, disk, job, builds, dirty, mixed>>

-----------------------------------------------------------------------------
(* One build, step by step.                                                *)

\* The slots a filtered build selects: some seeds, some columns of the matrix.
Filtered(S, V) == {s \in Slots : s.seed \in S /\ s.variant \in V}

Start(b, p, m) ==
  /\ job[b].pc = "idle" /\ p # {} /\ builds < MAX_BUILDS
  /\ job' = [c \in Builders |->
       IF c = b
       THEN [NoJob EXCEPT !.pc = "compile", !.plan = p, !.merge = m,
                          !.version = code, !.todo = p,
                          !.before = IF m = "merge" /\ Busy = {} THEN manifest ELSE @,
                          !.alone = IF Busy = {} THEN "yes" ELSE "no"]
       ELSE IF c \in Busy THEN [job[c] EXCEPT !.alone = "no", !.before = Empty]
       ELSE job[c]]
  /\ builds' = builds + 1
  /\ UNCHANGED <<source, code, disk, dirty, mixed>>

\* A seed's symbol variant comes before its stripped one in the job.
Foremost(T) == {s \in T : s.variant = "sym" \/ [s EXCEPT !.variant = "sym"] \notin T}

Compile(b) ==
  /\ job[b].pc = "compile"
  /\ \E s \in Foremost(job[b].todo) :
       /\ bin' = [bin EXCEPT ![s] = [of |-> source[s.seed], form |-> "sym"]]
       /\ job' = [job EXCEPT ![b].todo = @ \ {s}]
  /\ UNCHANGED <<source, code, manifest, stamp, builds, dirty, mixed>>

\* What the strip job is given: the stripped variants of this build's plan.
MutStripsWholeCorpus(p) == Stripped(Slots)
ToStrip(p) == Stripped(p)

\* Addresses are read off the fresh binaries before any of them is stripped.
\* A binary another build has stripped in the meantime has no symbols left:
\* the assertion fails and the build ends (Interrupted).
Symtab(b) ==
  /\ job[b].pc = "compile" /\ job[b].todo = {}
  /\ \A s \in job[b].plan : bin[s].form = "sym"
  /\ job' = [job EXCEPT ![b].built =
                          [s \in job[b].plan |->
                             [of |-> bin[s].of, under |-> job[b].version]],
                        ![b].pc = "strip",
                        ![b].todo = ToStrip(job[b].plan)]
  /\ UNCHANGED <<source, code, disk, builds, dirty, mixed>>

Strip(b) ==
  /\ job[b].pc = "strip"
  /\ \E s \in job[b].todo :
       /\ bin' = [bin EXCEPT ![s].form = "stripped"]
       /\ job' = [job EXCEPT ![b].todo = @ \ {s}]
  /\ UNCHANGED <<source, code, manifest, stamp, builds, dirty, mixed>>

\* A filtered build keeps every entry outside its plan; a full one starts
\* from nothing, so slots that no longer exist are pruned.
MutOldEntriesWin(old, new) ==
  [s \in DOMAIN old \cup DOMAIN new |-> IF s \in DOMAIN old THEN old[s] ELSE new[s]]
MutForgetsOthers(old, new) == new
Merged(old, new) ==
  [s \in DOMAIN old \cup DOMAIN new |-> IF s \in DOMAIN new THEN new[s] ELSE old[s]]

ReadManifest(b) ==
  /\ job[b].pc = "strip" /\ job[b].todo = {}
  /\ job[b].merge = "merge" => manifest # Torn
  /\ job' = [job EXCEPT ![b].built =
                          IF job[b].merge = "merge" THEN Merged(manifest, @) ELSE @,
                        ![b].pc = "write"]
  /\ UNCHANGED <<source, code, disk, builds, dirty, mixed>>

\* write_text truncates the file and then fills it.
TruncateManifest(b) ==
  /\ job[b].pc = "write"
  /\ manifest' = Torn
  /\ job' = [job EXCEPT ![b].pc = "fill"]
  /\ UNCHANGED <<source, code, bin, stamp, builds, dirty, mixed>>

\* When another build filled the file since it was truncated, the tail of a
\* longer text stays behind this one.
FillManifest(b) ==
  /\ job[b].pc = "fill"
  /\ manifest' \in IF manifest = Torn THEN {job[b].built} ELSE {job[b].built, Torn}
  /\ dirty' = IF job[b].alone = "yes" THEN dirty \ job[b].plan ELSE dirty \cup job[b].plan
  /\ mixed' = IF job[b].alone = "yes" /\ job[b].merge = "fresh" THEN "no" ELSE "yes"
  /\ job' = [job EXCEPT ![b].pc = "stamp"]
  /\ UNCHANGED <<source, code, bin, stamp, builds>>

WriteStamp(b) ==
  /\ job[b].pc = "stamp"
  /\ stamp' = job[b].version
  /\ job' = [job EXCEPT ![b] = NoJob]
  /\ UNCHANGED <<source, code, bin, manifest, builds, dirty, mixed>>

\* A failed container job, a missing symbol table or an unreadable manifest
\* raises; the process may be killed.  Nothing is undone.
Interrupted(b) ==
  /\ job[b].pc # "idle"
  /\ job' = [job EXCEPT ![b] = NoJob]
  /\ dirty' = IF job[b].pc = "stamp" THEN dirty ELSE dirty \cup job[b].plan
  /\ UNCHANGED <<source, code, disk, builds, mixed>>

Step(b) ==
  \/ Compile(b) \/ Symtab(b) \/ Strip(b) \/ ReadManifest(b)
  \/ TruncateManifest(b) \/ FillManifest(b) \/ WriteStamp(b)

StartAny(b) ==
  \/ Start(b, Slots, "fresh")
  \/ \E S \in SUBSET Seeds, V \in SUBSET Variants : Start(b, Filtered(S, V), "merge")

Next ==
  \/ \E x \in Seeds : EditSeed(x)
  \/ Upgrade
  \/ \E b \in Builders : StartAny(b) \/ Step(b) \/ Interrupted(b)

Spec == Init /\ [][Next]_vars

-----------------------------------------------------------------------------
(* Reading the corpus back, by a process of canonicalizer version v.       *)

MutNoStampCheck(v) == manifest # Torn
Loads(v) == stamp = v /\ manifest # Torn

-----------------------------------------------------------------------------
(* Properties.                                                             *)

Table(f) == DOMAIN f \subseteq Slots /\ \A s \in DOMAIN f : f[s] \in Entries

\* Every variable has its type, and a container job is only given slots of its
\* own build.
TypeOK ==
  /\ source \in [Seeds -> 1..MAX_EDITS] /\ code \in 1..MAX_CODE
  /\ bin \in [Slots -> [of : 0..MAX_EDITS, form : Variants]]
  /\ manifest # Torn => Table(manifest)
  /\ stamp \in 0..MAX_CODE /\ builds \in 0..MAX_BUILDS
  /\ dirty \subseteq Slots /\ mixed \in {"yes", "no"}
  /\ DOMAIN job = Builders
  /\ \A b \in Builders :
       /\ job[b].pc \in {"idle", "compile", "strip", "write", "fill", "stamp"}
       /\ job[b].plan \subseteq Slots /\ job[b].todo \subseteq job[b].plan
       /\ job[b].merge \in {"merge", "fresh"} /\ job[b].version \in 0..MAX_CODE
       /\ Table(job[b].built) /\ job[b].alone \in {"yes", "no"}
       /\ job[b].before # Torn => Table(job[b].before)

\* Between builds, a corpus that loads describes the binaries beside it: each
\* entry's addresses are those of its binary, which is stripped exactly when
\* its slot says so.  Excepted are the slots of interrupted builds and of
\* builds that overlapped, until a build that covers them runs to its end with
\* no other beside it; so overlapping filtered builds spoil nothing outside
\* their own plans, and a full build repairs everything.
EntriesMatchBinaries ==
  Busy = {} /\ Loads(code) =>
    \A s \in DOMAIN manifest \ dirty :
      bin[s] = [of |-> manifest[s].of, form |-> s.variant]

\* A filtered build that no other build overlaps changes nothing outside its
\* plan: the entries other builds wrote are kept.
TargetedKeepsOthers ==
  \A b \in Builders :
    LET j == job[b] IN
    j.pc = "stamp" /\ j.merge = "merge" /\ j.alone = "yes" =>
      /\ DOMAIN manifest = DOMAIN j.before \cup j.plan
      /\ \A s \in DOMAIN j.before \ j.plan : manifest[s] = j.before[s]

\* A corpus that loads and that one undisturbed full build wrote was built
\* under the reader's canonicalizer, entry by entry, whatever was cut off or
\* upgraded since.
FullStampTrue ==
  mixed = "no" /\ Loads(code) => \A s \in DOMAIN manifest : manifest[s].under = code

\* What the comment above the stamp says: "load_manifest refuses a corpus
\* recorded under different sanitizer rules (rules change = corpus
\* re-record)".
StampTrue ==
  Loads(code) => \A s \in DOMAIN manifest : manifest[s].under = code
=============================================================================
