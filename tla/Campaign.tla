------------------------------ MODULE Campaign -------------------------------
(***************************************************************************)
(* python -m reschema.campaign write: refuse a bad request, rebuild the    *)
(* whole corpus, load its manifest, make every task of the slots asked for *)
(* in memory (tasks.slot_tasks), then write them one by one under OUT and  *)
(* campaign.toml last.                                                     *)
(*                                                                         *)
(* The writer is one of CorpusBuild's builders.  Other builds and edits of *)
(* the seeds go on beside it, and it may be cut off anywhere: nothing it   *)
(* wrote is undone.  A task is known by the versions of what went into it. *)
(***************************************************************************)
EXTENDS CorpusBuild, Sequences, Functions

CONSTANTS Writer,    \* the builder that writes campaigns
          Requests,  \* the SLOT arguments, a sequence; --all comes without any
          FUNCS,     \* functions per slot
          Unknown    \* a SLOT argument that names no slot

ASSUME CampaignAssumption ==
  /\ Writer \in Builders /\ FUNCS \in Nat
  /\ Unknown \notin Slots /\ Requests \subseteq Seq(Slots \cup {Unknown})

VARIABLES
  att, \* the writer's attempt, see NoAttempt
  out  \* the --out directory: its task directories and its campaign.toml

cvars == <<att, out>>

\* The slots asked for (once the manifest is loaded: the slots of the tasks, in
\* order), the canonicalizer version of the process, the manifest
\* it loaded, the version disassembled for the function task at hand (0: none
\* yet) and the tasks made so far.  Read by properties only: what happened
\* beside the attempt since it began.
NoAttempt ==
  [pc |-> "idle", id |-> 0, want |-> <<>>, version |-> 0, table |-> Empty,
   hint |-> 0, specs |-> <<>>, calm |-> "calm"]

\* tasks: one [id, whole] per directory under OUT/tasks, with the attempt that
\* wrote it and whether its task.toml is there; list: what campaign.toml lists.
NoOut == [tasks |-> <<>>, list |-> [id |-> 0, n |-> 0]]

CInit == Init /\ att = NoAttempt /\ out = NoOut

-----------------------------------------------------------------------------
(* The request.                                                            *)

Configs == {"good", "twins", "bad"}

\* The refusals, each before anything is built or written: OUT holds
\* something, two configs share a name or one is bad, a slot is unknown.
MutNoFreshOut(want, configs) == configs = "good" /\ Range(want) \subseteq Slots
Accepted(want, configs) ==
  /\ out = NoOut
  /\ configs = "good"
  /\ Range(want) \subseteq Slots

\* Always a full rebuild.
MutMissingOnly ==
  Start(Writer, IF manifest = Torn THEN Slots ELSE Slots \ DOMAIN manifest, "merge")
MutNoStripped == Start(Writer, Filtered(Seeds, {"sym"}), "fresh")
Rebuild == Start(Writer, Slots, "fresh")

StartCampaign(want, configs) ==
  /\ att.pc = "idle" /\ Accepted(want, configs)
  /\ Rebuild
  /\ att' = [NoAttempt EXCEPT !.pc = "build", !.id = builds + 1, !.want = want,
                              !.version = code,
                              !.calm = IF Busy = {} THEN "calm" ELSE "built"]
  /\ UNCHANGED out

-----------------------------------------------------------------------------
(* Loading the corpus and making the tasks in memory.                      *)

\* A manifest's slots in its canonical order: each once, a seed's symbol
\* variant first.  The order of the seeds themselves is left open.
InOrder(S) ==
  {w \in [1..Cardinality(S) -> S] :
     /\ Range(w) = S
     /\ \A i, j \in DOMAIN w :
          w[i].seed = w[j].seed /\ w[i].variant = "sym" /\ w[j].variant = "stripped"
            => i < j}

\* --all takes whatever slots the manifest holds; a slot that was named must
\* be among them, or its lookup raises (Cut).
Chosen(want) ==
  IF want = <<>> THEN InOrder(DOMAIN manifest)
  ELSE {w \in {want} : Range(w) \subseteq DOMAIN manifest}

\* generate.build has returned: its job has run to the end.
LoadManifest ==
  /\ att.pc = "build" /\ job[Writer].pc = "idle"
  /\ Loads(att.version)
  /\ \E w \in Chosen(att.want) :
       att' = [att EXCEPT !.pc = "make", !.table = manifest, !.want = w]
  /\ UNCHANGED <<vars, out>>

\* slot_tasks: a slot's function tasks, then its program task.
PerSlot == FUNCS + 1
Total == Len(att.want) * PerSlot
SlotOf(k) == att.want[(k - 1) \div PerSlot + 1]
IsProgram(k) == k % PerSlot = 0

Disassemble ==
  LET k == Len(att.specs) + 1 IN
  /\ att.pc = "make" /\ k <= Total /\ ~IsProgram(k) /\ att.hint = 0
  /\ att' = [att EXCEPT !.hint = bin[SlotOf(k)].of]
  /\ UNCHANGED <<vars, out>>

\* family.json hashes the source of today, private/binary is the file's bytes,
\* the addresses are the manifest's.
MakeTask ==
  LET k == Len(att.specs) + 1
      s == SlotOf(k)
  IN
  /\ att.pc = "make" /\ k <= Total /\ (IsProgram(k) <=> att.hint = 0)
  /\ att' = [att EXCEPT !.hint = 0,
                        !.specs = Append(@, [slot |-> s, addr |-> att.table[s].of,
                                             hint |-> att.hint, bin |-> bin[s],
                                             family |-> source[s.seed]])]
  /\ UNCHANGED <<vars, out>>

-----------------------------------------------------------------------------
(* Writing OUT.                                                            *)

Written == {i \in DOMAIN out.tasks : out.tasks[i].id = att.id}
Done == Cardinality(Written)

\* inputs/ and private/ of the next task.
WriteFiles ==
  /\ att.pc = "make" /\ Len(att.specs) = Total /\ Done < Total
  /\ Done > 0 => out.tasks[Done].whole = "yes"
  /\ LET t == [id |-> att.id, whole |-> "no"] IN
     out' = [out EXCEPT !.tasks = IF Done < Len(@) THEN [@ EXCEPT ![Done + 1] = t]
                                                   ELSE Append(@, t)]
  /\ UNCHANGED <<vars, att>>

WriteTaskToml ==
  /\ att.pc = "make" /\ Done > 0 /\ out.tasks[Done].whole = "no"
  /\ out' = [out EXCEPT !.tasks[Done].whole = "yes"]
  /\ UNCHANGED <<vars, att>>

WriteCampaignToml ==
  /\ att.pc = "make" /\ Len(att.specs) = Total /\ Done = Total
  /\ Done > 0 => out.tasks[Done].whole = "yes"
  /\ out' = [out EXCEPT !.list = [id |-> att.id, n |-> Total]]
  /\ att' = NoAttempt
  /\ UNCHANGED vars

\* The stamp, the manifest or a slot's entry is not what it must be, or the
\* process is killed; while it builds, its build ends with it.
Cut ==
  /\ att.pc # "idle"
  /\ IF job[Writer].pc = "idle" THEN UNCHANGED vars ELSE Interrupted(Writer)
  /\ att' = NoAttempt
  /\ UNCHANGED out

\* The next attempt is given another OUT, or this one emptied.
NewOut ==
  /\ att.pc = "idle" /\ out # NoOut
  /\ out' = NoOut
  /\ UNCHANGED <<vars, att>>

-----------------------------------------------------------------------------
(* What goes on beside it.                                                 *)

Noted(what) ==
  att' = IF att.pc = "idle" \/ att.calm = "built" THEN att ELSE [att EXCEPT !.calm = what]

Beside ==
  /\ \/ (\E x \in Seeds : EditSeed(x)) /\ Noted("edited")
     \/ Upgrade /\ UNCHANGED att
     \/ \E b \in Builders \ {Writer} : StartAny(b) /\ Noted("built")
     \/ \E b \in Builders \ {Writer} : (Step(b) \/ Interrupted(b)) /\ UNCHANGED att
  /\ UNCHANGED out

CNext ==
  \/ \E want \in Requests, configs \in Configs : StartCampaign(want, configs)
  \/ Step(Writer) /\ UNCHANGED cvars
  \/ LoadManifest \/ Disassemble \/ MakeTask
  \/ WriteFiles \/ WriteTaskToml \/ WriteCampaignToml
  \/ Cut \/ NewOut \/ Beside

CSpec == CInit /\ [][CNext]_<<vars, cvars>>

-----------------------------------------------------------------------------
(* Properties.                                                             *)

\* A campaign.toml vouches for what it lists: every task directory it names is
\* there, complete, and of the attempt that wrote the list, whatever earlier
\* attempts were cut off.
CampaignWhole ==
  out.list.n > 0 =>
    /\ Len(out.tasks) = out.list.n
    /\ \A i \in 1..out.list.n : out.tasks[i] = [id |-> out.list.id, whole |-> "yes"]

\* What campaign.py rebuilds for: unless another build runs beside it, the
\* binary of every task is the one its addresses and disassembly were read
\* from, in the form its slot promises; and unless the seeds are edited
\* meanwhile, family.json identifies the very source it was compiled from.
TasksAgree ==
  \A i \in DOMAIN att.specs :
    LET t == att.specs[i] IN
    /\ att.calm # "built" =>
         t.bin = [of |-> t.addr, form |-> t.slot.variant] /\ t.hint \in {0, t.addr}
    /\ att.calm = "calm" => t.family = t.addr

\* Whatever state earlier builds left the corpus in, after its own rebuild an
\* undisturbed writer can load the manifest and finds in it every slot it was
\* asked for: with --all every slot there is, and the campaign leaves none out.
AskedFor(want) == IF want = <<>> THEN Slots ELSE Range(want)
RebuildSuffices ==
  att.pc = "build" /\ job[Writer].pc = "idle" /\ att.calm # "built" =>
    Loads(att.version) /\ AskedFor(att.want) \subseteq DOMAIN manifest
=============================================================================
