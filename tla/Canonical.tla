------------------------------ MODULE Canonical ------------------------------
(***************************************************************************)
(* Canonical traces: canonicalize renames the descriptors of write-intent  *)
(* opens to FD_0, FD_1, ... and whatever looks like an address to ADDR_0,  *)
(* ADDR_1, ..., and compare takes ADDR arguments for wildcards, so that a  *)
(* model that numbers its files or lays out its memory differently still   *)
(* matches the original, and one that writes otherwise does not.           *)
(*                                                                         *)
(* Two programs run side by side: the original, and a model that does the  *)
(* same opens and closes, may write other counts or to other files, and    *)
(* may open files of its own for reading and allocate memory.  Each gets   *)
(* the lowest free descriptor, as a kernel gives it; each one's events     *)
(* pass through the canonicaliser as they are recorded.  Paths are left    *)
(* out.                                                                    *)
(***************************************************************************)
EXTENDS Naturals, FiniteSets, SequencesExt

CONSTANTS MAX_FD,     \* descriptors: 1 (stdout) to MAX_FD
          MAX_OPENS,  \* bound on write-intent opens
          MAX_EVENTS, \* bound on observed events
          MAX_COUNT,  \* bound on the bytes of a write
          ADDR_MIN    \* the least number with an address's six hex digits

ASSUME FdAssumption ==
  /\ MAX_FD \in Nat \ {0} /\ MAX_OPENS \in Nat /\ MAX_EVENTS \in Nat
  /\ MAX_COUNT \in Nat /\ ADDR_MIN \in Nat \ {0}

Sides == {"original", "model"}
Fds == 1..MAX_FD
Failed == 0  \* the result of a failed open is no "0x..." literal

VARIABLES
  table,    \* table[s][fd]: "free", "r" or "w"
  handles,  \* the write-intent opens: [fd : per side, live]; the first is stdout
  walk,     \* walk[s]: canonicalize's fds, pending_write_open and addresses
  obs,      \* obs[s]: the observed events so far
  wrote,    \* wrote[s]: the writes made: [to, count] (read by properties only)
  tidy      \* "no" once a write-open followed a close (same)

vars == <<table, handles, walk, obs, wrote, tidy>>

Empty == [fd \in {} |-> 0]

Init ==
  /\ table = [s \in Sides |-> [fd \in Fds |-> IF fd = 1 THEN "w" ELSE "free"]]
  /\ handles = <<[fd |-> [s \in Sides |-> 1], live |-> "yes"]>>
  /\ walk = [s \in Sides |-> [fds |-> Empty, pending |-> "no", addrs |-> <<>>]]
  /\ obs = [s \in Sides |-> <<>>] /\ wrote = [s \in Sides |-> <<>>]
  /\ tidy = "yes"

-----------------------------------------------------------------------------
(* The canonicaliser, event by event.                                      *)

MutAnyOpen(kind) == "yes"
WriteIntent(kind) == IF kind = "w" THEN "yes" ELSE "no"

OpenEnter(w, kind) == [w EXCEPT !.pending = WriteIntent(kind)]

\* fds.setdefault(res, fd_of(res)): a literal keeps its first number.
MutRegistersFailures(w, fd) ==
  [w EXCEPT !.fds = [x \in DOMAIN @ \cup {fd} |->
                       IF x \in DOMAIN @ THEN @[x] ELSE Cardinality(DOMAIN @)],
            !.pending = "no"]
OpenExit(w, fd) ==
  [w EXCEPT !.fds = IF w.pending = "yes" /\ fd # Failed /\ fd \notin DOMAIN @
                    THEN [x \in DOMAIN @ \cup {fd} |->
                            IF x = fd THEN Cardinality(DOMAIN @) ELSE @[x]]
                    ELSE @,
            !.pending = "no"]

Opened(w, kind, fd) == OpenExit(OpenEnter(w, kind), fd)

\* A close renames its own descriptor and forgets nothing.
MutPopsOnClose(w, fd) ==
  [w EXCEPT !.fds = [x \in DOMAIN w.fds \ {fd} |-> w.fds[x]]]
Closed(w, fd) == w

\* The descriptor as an fd-carrying event shows it.
Name(w, fd) ==
  IF fd \in DOMAIN w.fds THEN [kind |-> "FD", n |-> w.fds[fd]]
  ELSE [kind |-> "literal", n |-> fd]

\* addr_of: an address's number is that of its first sighting in the trace.
Sight(w, a) == IF a \in Range(w.addrs) THEN w ELSE [w EXCEPT !.addrs = Append(@, a)]
AddrOf(w, a) == [kind |-> "ADDR", n |-> SelectInSeq(w.addrs, LAMBDA x : x = a)]

\* A number is taken for an address from ADDR_MIN up.
Number(w, n) == IF n >= ADDR_MIN THEN AddrOf(w, n) ELSE [kind |-> "literal", n |-> n]

\* What compare sees of an argument; results are not wildcards.
MutKeepsNumbers(x) == x
Observed(x) == IF x.kind = "ADDR" THEN [kind |-> "ADDR", n |-> 0] ELSE x

\* A write of n bytes from the program's buffer: enter and exit events carry
\* descriptor, buffer and count, the exit event the count as its result.
Buffer == MAX_COUNT + 1
Heap == MAX_COUNT + 2
SightWrite(w, n) ==
  IF n >= ADDR_MIN THEN Sight(Sight(w, Buffer), n) ELSE Sight(w, Buffer)
WriteEvent(w, fd, n) ==
  [fd |-> Name(w, fd), buf |-> Observed(AddrOf(w, Buffer)),
   count |-> Observed(Number(w, n)), result |-> Number(w, n)]

-----------------------------------------------------------------------------
(* What the programs do.                                                   *)

Free(s) == {fd \in Fds : table[s][fd] = "free"}
Lowest(S) == CHOOSE fd \in S : \A x \in S : fd <= x
Live == {k \in DOMAIN handles : handles[k].live = "yes"}

\* Both programs open a file for writing; the file system grants it or not.
OpenWrite(granted) ==
  /\ Len(handles) <= MAX_OPENS
  /\ \A s \in Sides : Free(s) # {}
  /\ LET fd == [s \in Sides |-> IF granted THEN Lowest(Free(s)) ELSE Failed] IN
       /\ walk' = [s \in Sides |-> Opened(walk[s], "w", fd[s])]
       /\ IF granted
          THEN /\ table' = [s \in Sides |-> [table[s] EXCEPT ![fd[s]] = "w"]]
               /\ handles' = Append(handles, [fd |-> fd, live |-> "yes"])
               /\ tidy' = IF Live = DOMAIN handles THEN tidy ELSE "no"
          ELSE UNCHANGED <<table, handles, tidy>>
  /\ UNCHANGED <<obs, wrote>>

\* Only the model opens and closes files for reading.
ExtraOpenRead ==
  /\ Free("model") # {}
  /\ LET fd == Lowest(Free("model")) IN
       /\ table' = [table EXCEPT !["model"][fd] = "r"]
       /\ walk' = [walk EXCEPT !["model"] = Opened(@, "r", fd)]
  /\ UNCHANGED <<handles, obs, wrote, tidy>>

ExtraCloseRead(fd) ==
  /\ table["model"][fd] = "r"
  /\ table' = [table EXCEPT !["model"][fd] = "free"]
  /\ walk' = [walk EXCEPT !["model"] = Closed(@, fd)]
  /\ UNCHANGED <<handles, obs, wrote, tidy>>

\* Memory the model asks for: an address of its own in the trace.
ExtraAlloc ==
  /\ walk' = [walk EXCEPT !["model"] = Sight(@, Heap)]
  /\ UNCHANGED <<table, handles, obs, wrote, tidy>>

\* Each program's next write, the model's to a file and of a count of its own.
Write(to, count) ==
  /\ Len(obs["original"]) < MAX_EVENTS
  /\ walk' = [s \in Sides |-> SightWrite(walk[s], count[s])]
  /\ obs' = [s \in Sides |->
               Append(obs[s], WriteEvent(walk'[s], handles[to[s]].fd[s], count[s]))]
  /\ wrote' = [s \in Sides |-> Append(wrote[s], [to |-> to[s], count |-> count[s]])]
  /\ UNCHANGED <<table, handles, tidy>>

Close(k) ==
  /\ table' = [s \in Sides |-> [table[s] EXCEPT ![handles[k].fd[s]] = "free"]]
  /\ walk' = [s \in Sides |-> Closed(walk[s], handles[k].fd[s])]
  /\ handles' = [handles EXCEPT ![k].live = "no"]
  /\ UNCHANGED <<obs, wrote, tidy>>

Next ==
  \/ \E granted \in BOOLEAN : OpenWrite(granted)
  \/ ExtraOpenRead
  \/ \E fd \in Fds : ExtraCloseRead(fd)
  \/ ExtraAlloc
  \/ \E to \in [Sides -> Live], count \in [Sides -> 1..MAX_COUNT] : Write(to, count)
  \/ \E k \in Live : Close(k)
Spec == Init /\ [][Next]_vars

-----------------------------------------------------------------------------
(* Properties.                                                             *)

Names == [kind : {"FD", "literal", "ADDR"}, n : Nat]
Events == [fd : Names, buf : Names, count : Names, result : Names]

\* Every variable has its type; a failed open is never numbered.
TypeOK ==
  /\ table \in [Sides -> [Fds -> {"free", "r", "w"}]]
  /\ handles \in Seq([fd : [Sides -> Fds], live : {"yes", "no"}])
  /\ \A s \in Sides :
       /\ DOMAIN walk[s].fds \subseteq Fds
       /\ \A fd \in DOMAIN walk[s].fds : walk[s].fds[fd] \in 0..(MAX_FD - 1)
       /\ walk[s].pending = "no"
       /\ obs[s] \in Seq(Events) /\ Len(wrote[s]) = Len(obs[s])
  /\ tidy \in {"yes", "no"}

\* Files that are open for writing at the same time never share a name, also
\* when literals are reused: a write to the wrong file shows in the trace.
OpenFilesDistinct ==
  \A s \in Sides : \A j, k \in Live :
    Name(walk[s], handles[j].fd[s]) = Name(walk[s], handles[k].fd[s]) => j = k

SameTrace == obs["original"] = obs["model"]
SameWrites == wrote["original"] = wrote["model"]
\* No write was so large that its count looks like an address.
Small == \A s \in Sides : \A i \in DOMAIN wrote[s] : wrote[s][i].count < ADDR_MIN
\* compare stops at the first divergence: a run is followed while writes agree.
Comparing == SameWrites /\ Small

\* While no file is opened for writing after another was closed and counts do
\* not look like addresses, compare tells exactly what it should: the model's
\* own reads and allocations change nothing, and a write of another count or
\* to another file shows.
TracesTellWritesApart == tidy = "yes" /\ Small => (SameTrace <=> SameWrites)

\* What the module says without the first condition: "a model's extra read-open
\* cannot shift numbering".
ExtraReadsInvisible == Small /\ SameWrites => SameTrace
=============================================================================
