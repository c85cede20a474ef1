--------------------------- MODULE CanonicalProofs ---------------------------
(***************************************************************************)
(* Proofs about canonical traces (Canonical), for every number of          *)
(* descriptors, opens, events and bytes.                                   *)
(*                                                                         *)
(* Descriptors are numbered one to one, in the order of their first        *)
(* write-open; and as long as no file is opened for writing after another  *)
(* was closed that order is the order of the opens, which both programs    *)
(* share.                                                                  *)
(***************************************************************************)
EXTENDS Canonical, FiniteSetTheorems, WellFoundedInduction, TLAPS

Numberings == UNION {[D -> 0..(MAX_FD - 1)] : D \in SUBSET Fds}
Walks == [fds : Numberings, pending : {"no"}, addrs : Seq(Nat)]
Handles == [fd : [Sides -> Fds], live : {"yes", "no"}]
Writes == [to : Nat \ {0}, count : Nat]

Shapes ==
  /\ table \in [Sides -> [Fds -> {"free", "r", "w"}]]
  /\ handles \in Seq(Handles) /\ walk \in [Sides -> Walks]
  /\ obs \in [Sides -> Seq(Events)] /\ wrote \in [Sides -> Seq(Writes)]
  /\ tidy \in {"yes", "no"}
  /\ \A s \in Sides : Len(wrote[s]) = Len(obs[s])

\* Numbers are handed out from zero up, each once.
Numbered(f) ==
  /\ \A x \in DOMAIN f : f[x] \in 0..(Cardinality(DOMAIN f) - 1)
  /\ \A x, y \in DOMAIN f : f[x] = f[y] => x = y

\* A file that is open for writing has a descriptor of its own.
Apart(s) ==
  /\ \A k \in Live : table[s][handles[k].fd[s]] = "w"
  /\ \A j, k \in Live : handles[j].fd[s] = handles[k].fd[s] => j = k

\* While the opens are tidy, the k-th file after stdout is FD k on either side.
Orderly(s) ==
  LET f == walk[s].fds IN
  /\ Len(handles) > 0 /\ handles[1].fd[s] = 1 /\ 1 \notin DOMAIN f
  /\ DOMAIN f = {handles[k].fd[s] : k \in 2..Len(handles)}
  /\ Cardinality(DOMAIN f) = Len(handles) - 1
  /\ \A k \in 2..Len(handles) : f[handles[k].fd[s]] = k - 2
NameOf(k) == IF k = 1 THEN [kind |-> "literal", n |-> 1] ELSE [kind |-> "FD", n |-> k - 2]
Shown(w) ==
  [fd |-> NameOf(w.to), buf |-> [kind |-> "ADDR", n |-> 0],
   count |-> [kind |-> "literal", n |-> w.count],
   result |-> [kind |-> "literal", n |-> w.count]]
ShownRight(s) ==
  \A i \in 1..Len(wrote[s]) :
    wrote[s][i].count < ADDR_MIN => obs[s][i] = Shown(wrote[s][i])

CanonInv ==
  /\ Shapes
  /\ \A s \in Sides : Numbered(walk[s].fds) /\ Apart(s)
  /\ tidy = "yes" => \A s \in Sides : Orderly(s) /\ ShownRight(s)

-----------------------------------------------------------------------------
(* Descriptors and numbers.                                                *)

LEMMA LeastExists ==
  ASSUME NEW S, S \subseteq Nat, S # {}
  PROVE  \E x \in S : \A y \in S : x <= y
<1>. DEFINE R == OpToRel(<, Nat)
<1>1. IsWellFoundedOn(R, Nat)
  BY NatLessThanWellFounded
<1>2. \A x, y \in Nat : <<y, x>> \in R <=> y < x
  BY DEF OpToRel
<1>. HIDE DEF R
<1>3. PICK x \in S : \A y \in S : ~(<<y, x>> \in R)
  BY <1>1, WFMin
<1>4. ASSUME NEW y \in S PROVE x <= y
  <2>1. x \in Nat /\ y \in Nat /\ ~(y < x)
    BY <1>2, <1>3
  <2>. QED  BY <2>1
<1>. QED  BY <1>4

LEMMA LowestIsFree ==
  ASSUME NEW s \in Sides, Free(s) # {}
  PROVE  Lowest(Free(s)) \in Fds /\ table[s][Lowest(Free(s))] = "free"
<1>1. Free(s) \subseteq Nat
  BY DEF Free, Fds
<1>2. \E x \in Free(s) : \A y \in Free(s) : x <= y
  BY <1>1, LeastExists
<1>3. Lowest(Free(s)) \in Free(s)
  BY <1>2 DEF Lowest
<1>. QED  BY <1>3 DEF Free

LEMMA AddrOfType ==
  ASSUME NEW w, NEW a
  PROVE  AddrOf(w, a) = [kind |-> "ADDR", n |-> AddrOf(w, a).n] /\ AddrOf(w, a).n \in Nat
<1>. DEFINE q == w.addrs
            I == {i \in 1..Len(q) : q[i] = a}
<1>1. SelectInSeq(q, LAMBDA x : x = a) = IF I # {} THEN Min(I) ELSE 0
  BY DEF SelectInSeq
<1>2. ASSUME I # {} PROVE Min(I) \in I
  <2>1. I \subseteq Nat
    OBVIOUS
  <2>2. \E x \in I : \A y \in I : x <= y
    BY <1>2, <2>1, LeastExists
  <2>. HIDE DEF I
  <2>. QED  BY <2>2 DEF Min
<1>. DEFINE n == SelectInSeq(q, LAMBDA x : x = a)
<1>3. n \in Nat
  BY <1>1, <1>2
<1>4. AddrOf(w, a) = [kind |-> "ADDR", n |-> n]
  BY Zenon DEF AddrOf
<1>. HIDE DEF n
<1>. QED  BY <1>3, <1>4

LEMMA NumberingIntro ==
  ASSUME NEW D, D \subseteq Fds, NEW f \in [D -> 0..(MAX_FD - 1)]
  PROVE  f \in Numberings
BY DEF Numberings

LEMMA FdsFinite == MAX_FD \in Nat /\ IsFiniteSet(Fds) /\ Cardinality(Fds) = MAX_FD
<1>1. MAX_FD \in Nat
  BY FdAssumption
<1>2. IsFiniteSet(1..MAX_FD) /\ Cardinality(1..MAX_FD) = MAX_FD
  BY <1>1, FS_Interval
<1>. QED  BY <1>1, <1>2 DEF Fds

LEMMA NumberingElim ==
  ASSUME NEW f \in Numberings
  PROVE  /\ DOMAIN f \subseteq Fds /\ f \in [DOMAIN f -> 0..(MAX_FD - 1)]
         /\ IsFiniteSet(DOMAIN f) /\ Cardinality(DOMAIN f) \in 0..MAX_FD
<1>1. DOMAIN f \subseteq Fds /\ f \in [DOMAIN f -> 0..(MAX_FD - 1)]
  <2>1. PICK D \in SUBSET Fds : f \in [D -> 0..(MAX_FD - 1)]
    BY DEF Numberings
  <2>. QED  BY <2>1
<1>2. MAX_FD \in Nat /\ IsFiniteSet(Fds) /\ Cardinality(Fds) = MAX_FD
  BY FdsFinite
<1>3. IsFiniteSet(DOMAIN f) /\ Cardinality(DOMAIN f) <= MAX_FD
  BY <1>1, <1>2, FS_Subset
<1>4. Cardinality(DOMAIN f) \in Nat
  BY <1>3, FS_CardinalityType
<1>. QED  BY <1>1, <1>2, <1>3, <1>4

\* setdefault of a new descriptor: it gets the next number, and there is one.
LEMMA Registering ==
  ASSUME NEW f \in Numberings, Numbered(f), NEW fd \in Fds, fd \notin DOMAIN f, NEW g,
         g = [x \in DOMAIN f \cup {fd} |-> IF x = fd THEN Cardinality(DOMAIN f) ELSE f[x]]
  PROVE  /\ g \in Numberings /\ Numbered(g) /\ DOMAIN g = DOMAIN f \cup {fd}
         /\ Cardinality(DOMAIN g) = Cardinality(DOMAIN f) + 1
         /\ g[fd] = Cardinality(DOMAIN f) /\ \A x \in DOMAIN f : g[x] = f[x]
<1>. DEFINE n == Cardinality(DOMAIN f)
<1>1. /\ DOMAIN f \subseteq Fds /\ f \in [DOMAIN f -> 0..(MAX_FD - 1)]
      /\ IsFiniteSet(DOMAIN f) /\ n \in 0..MAX_FD /\ MAX_FD \in Nat
  BY NumberingElim, FdAssumption
<1>2. DOMAIN g = DOMAIN f \cup {fd} /\ g[fd] = n /\ \A x \in DOMAIN f : g[x] = f[x]
  OBVIOUS
<1>3. Cardinality(DOMAIN f \cup {fd}) = n + 1
  BY <1>1, FS_AddElement
<1>4. n + 1 <= MAX_FD
  <2>1. DOMAIN f \cup {fd} \in SUBSET Fds
    BY <1>1
  <2>2. Cardinality(DOMAIN f \cup {fd}) <= Cardinality(Fds)
    BY <2>1, FdsFinite, FS_Subset
  <2>. QED  BY <1>3, <2>2, FdsFinite
<1>. HIDE DEF n
<1>5. n \in 0..(MAX_FD - 1)
  BY <1>1, <1>4
<1>6. g \in Numberings
  <2>1. g \in [DOMAIN f \cup {fd} -> 0..(MAX_FD - 1)]
    <3>1. \A x \in DOMAIN g : g[x] \in 0..(MAX_FD - 1)
      BY <1>1, <1>2, <1>5
    <3>. QED  BY <1>2, <3>1
  <2>2. DOMAIN f \cup {fd} \subseteq Fds
    BY <1>1
  <2>. QED  BY <2>1, <2>2, NumberingIntro
<1>7. \A x \in DOMAIN f : f[x] \in 0..(n - 1) /\ f[x] # n
  <2>1. \A x \in DOMAIN f : f[x] \in 0..(n - 1)
    BY DEF Numbered, n
  <2>. QED  BY <1>5, <2>1
<1>8. Numbered(g)
  <2>1. \A x \in DOMAIN g : g[x] \in 0..n
    BY <1>2, <1>5, <1>7
  <2>2. (n + 1) - 1 = n
    BY <1>5
  <2>3. \A x, y \in DOMAIN g : g[x] = g[y] => x = y
    BY <1>2, <1>7 DEF Numbered
  <2>. QED  BY <1>2, <1>3, <2>1, <2>2, <2>3 DEF Numbered
<1>. QED  BY <1>2, <1>3, <1>6, <1>8 DEF n

\* An open, from its enter to its exit event.
LEMMA OpenedWalk ==
  ASSUME NEW w \in Walks, Numbered(w.fds), NEW fd \in Fds \cup {Failed},
         NEW kind \in {"r", "w"}, NEW v, v = Opened(w, kind, fd)
  PROVE  /\ v \in Walks /\ Numbered(v.fds)
         /\ kind = "w" /\ fd # Failed /\ fd \notin DOMAIN w.fds =>
              /\ DOMAIN v.fds = DOMAIN w.fds \cup {fd}
              /\ Cardinality(DOMAIN v.fds) = Cardinality(DOMAIN w.fds) + 1
              /\ v.fds[fd] = Cardinality(DOMAIN w.fds)
              /\ \A x \in DOMAIN w.fds : v.fds[x] = w.fds[x]
         /\ kind = "r" \/ fd = Failed \/ fd \in DOMAIN w.fds => v.fds = w.fds
<1>. DEFINE p == OpenEnter(w, kind)
            g == [x \in DOMAIN w.fds \cup {fd} |->
                    IF x = fd THEN Cardinality(DOMAIN w.fds) ELSE w.fds[x]]
            fresh == kind = "w" /\ fd # Failed /\ fd \notin DOMAIN w.fds
<1>1. /\ p.fds = w.fds /\ p.addrs = w.addrs /\ p.pending = WriteIntent(kind)
      /\ w.fds \in Numberings /\ w.addrs \in Seq(Nat)
      /\ p = [fds |-> w.fds, pending |-> WriteIntent(kind), addrs |-> w.addrs]
  BY DEF OpenEnter, Walks
<1>. HIDE DEF p
<1>2. v = [p EXCEPT !.fds = IF p.pending = "yes" /\ fd # Failed /\ fd \notin DOMAIN p.fds
                            THEN [x \in DOMAIN p.fds \cup {fd} |->
                                    IF x = fd THEN Cardinality(DOMAIN p.fds) ELSE p.fds[x]]
                            ELSE p.fds,
                    !.pending = "no"]
  BY DEF Opened, OpenExit, p
<1>3. p.pending = "yes" <=> kind = "w"
  BY <1>1 DEF WriteIntent
<1>4. v = [p EXCEPT !.fds = IF fresh THEN g ELSE w.fds, !.pending = "no"]
  BY <1>1, <1>2, <1>3
<1>5. CASE fresh
  <2>1. fd \in Fds
    BY <1>5
  <2>2. /\ g \in Numberings /\ Numbered(g) /\ DOMAIN g = DOMAIN w.fds \cup {fd}
        /\ Cardinality(DOMAIN g) = Cardinality(DOMAIN w.fds) + 1
        /\ g[fd] = Cardinality(DOMAIN w.fds) /\ \A x \in DOMAIN w.fds : g[x] = w.fds[x]
    BY <1>1, <1>5, <2>1, Registering
  <2>. HIDE DEF g
  <2>3. v.fds = g /\ v.pending = "no" /\ v.addrs = w.addrs /\ v \in Walks
    BY <1>1, <1>4, <1>5, <2>2 DEF Walks
  <2>. QED  BY <1>5, <2>2, <2>3
<1>6. CASE ~fresh
  <2>1. v.fds = w.fds /\ v \in Walks
    BY <1>1, <1>4, <1>6 DEF Walks
  <2>. QED  BY <1>6, <2>1
<1>. QED  BY <1>5, <1>6

LEMMA SightKeeps ==
  ASSUME NEW w \in Walks, NEW a \in Nat
  PROVE  Sight(w, a) \in Walks /\ Sight(w, a).fds = w.fds
<1>1. CASE a \in Range(w.addrs)
  BY <1>1 DEF Sight
<1>2. CASE a \notin Range(w.addrs)
  <2>1. Sight(w, a) = [w EXCEPT !.addrs = Append(w.addrs, a)]
    BY <1>2 DEF Sight
  <2>2. w.addrs \in Seq(Nat) /\ Append(w.addrs, a) \in Seq(Nat)
    BY DEF Walks
  <2>. QED  BY <2>1, <2>2 DEF Walks
<1>. QED  BY <1>1, <1>2

LEMMA SightWriteKeeps ==
  ASSUME NEW w \in Walks, NEW n \in Nat
  PROVE  SightWrite(w, n) \in Walks /\ SightWrite(w, n).fds = w.fds
<1>1. Buffer \in Nat
  BY FdAssumption DEF Buffer
<1>2. Sight(w, Buffer) \in Walks /\ Sight(w, Buffer).fds = w.fds
  BY <1>1, SightKeeps
<1>3. /\ Sight(Sight(w, Buffer), n) \in Walks
      /\ Sight(Sight(w, Buffer), n).fds = w.fds
  BY <1>2, SightKeeps
<1>. QED  BY <1>2, <1>3 DEF SightWrite

LEMMA NameType ==
  ASSUME NEW w \in Walks, NEW fd \in Fds
  PROVE  Name(w, fd) \in Names
<1>1. w.fds \in Numberings
  BY DEF Walks
<1>2. MAX_FD \in Nat /\ fd \in Nat
  BY FdAssumption DEF Fds
<1>3. fd \in DOMAIN w.fds => w.fds[fd] \in Nat
  <2>1. w.fds \in [DOMAIN w.fds -> 0..(MAX_FD - 1)]
    BY <1>1, NumberingElim
  <2>2. \A n \in 0..(MAX_FD - 1) : n \in Nat
    BY <1>2
  <2>. QED  BY <2>1, <2>2
<1>. QED  BY <1>2, <1>3 DEF Name, Names

\* What compare sees of a write.
LEMMA WriteShows ==
  ASSUME NEW w \in Walks, NEW fd \in Fds, NEW n \in Nat
  PROVE  /\ WriteEvent(w, fd, n) \in Events
         /\ n < ADDR_MIN =>
              WriteEvent(w, fd, n) =
                [fd |-> Name(w, fd), buf |-> [kind |-> "ADDR", n |-> 0],
                 count |-> [kind |-> "literal", n |-> n],
                 result |-> [kind |-> "literal", n |-> n]]
<1>1. Name(w, fd) \in Names
  BY NameType
<1>2. ADDR_MIN \in Nat
  BY FdAssumption
<1>3. \A a : AddrOf(w, a) \in Names /\ Observed(AddrOf(w, a)) = [kind |-> "ADDR", n |-> 0]
  <2>. TAKE a
  <2>. DEFINE A == AddrOf(w, a)
  <2>1. A = [kind |-> "ADDR", n |-> A.n] /\ A.n \in Nat
    BY AddrOfType
  <2>. HIDE DEF A
  <2>2. A \in Names /\ A.kind = "ADDR"
    BY <2>1 DEF Names
  <2>. QED  BY <2>2 DEF Observed, A
<1>4. [kind |-> "ADDR", n |-> 0] \in Names
  BY DEF Names
<1>5. Number(w, n) \in Names /\ Observed(Number(w, n)) \in Names
  <2>1. CASE n >= ADDR_MIN
    BY <1>3, <1>4, <2>1 DEF Number
  <2>2. CASE ~(n >= ADDR_MIN)
    BY <2>2 DEF Number, Observed, Names
  <2>. QED  BY <2>1, <2>2
<1>6. n < ADDR_MIN => Number(w, n) = [kind |-> "literal", n |-> n]
                      /\ Observed(Number(w, n)) = [kind |-> "literal", n |-> n]
  BY <1>2 DEF Number, Observed
<1>7. WriteEvent(w, fd, n) \in Events
  BY <1>1, <1>3, <1>4, <1>5 DEF WriteEvent, Events
<1>8. n < ADDR_MIN =>
        WriteEvent(w, fd, n) =
          [fd |-> Name(w, fd), buf |-> [kind |-> "ADDR", n |-> 0],
           count |-> [kind |-> "literal", n |-> n],
           result |-> [kind |-> "literal", n |-> n]]
  BY <1>3, <1>6 DEF WriteEvent
<1>. QED  BY <1>7, <1>8

LEMMA LiveHandles ==
  ASSUME Shapes, NEW k \in Live, NEW s \in Sides
  PROVE  /\ k \in Nat \ {0} /\ k \in 1..Len(handles) /\ handles[k] \in Handles
         /\ handles[k].fd[s] \in Fds
<1>1. handles \in Seq(Handles) /\ k \in DOMAIN handles
  BY DEF Shapes, Live
<1>. HIDE DEF Handles
<1>2. k \in 1..Len(handles) /\ handles[k] \in Handles /\ Len(handles) \in Nat
  BY <1>1
<1>3. k \in Nat \ {0}
  BY <1>2
<1>4. handles[k].fd \in [Sides -> Fds]
  BY <1>2 DEF Handles
<1>. QED  BY <1>2, <1>3, <1>4

-----------------------------------------------------------------------------
(* The invariant holds at first, and every step keeps it.                  *)

LEMMA CanonInit == Init => CanonInv
<1>. SUFFICES ASSUME Init PROVE CanonInv
  OBVIOUS
<1>. DEFINE h == [fd |-> [s \in Sides |-> 1], live |-> "yes"]
<1>1. MAX_FD \in Nat \ {0} /\ 1 \in Fds
  BY FdAssumption DEF Fds
<1>2. h \in Handles /\ h.live = "yes" /\ \A s \in Sides : h.fd[s] = 1
  BY <1>1 DEF Handles
<1>3. handles = <<h>>
  BY DEF Init
<1>. HIDE DEF h
<1>4. handles \in Seq(Handles) /\ Len(handles) = 1 /\ handles[1] = h /\ Live = {1}
  BY <1>2, <1>3 DEF Live
<1>5. Empty \in Numberings /\ DOMAIN Empty = {} /\ Cardinality(DOMAIN Empty) = 0
  <2>1. Empty \in [{} -> 0..(MAX_FD - 1)] /\ DOMAIN Empty = {}
    BY DEF Empty
  <2>2. Empty \in Numberings
    BY <2>1, NumberingIntro
  <2>. QED  BY <2>1, <2>2, FS_EmptySet
<1>6. \A s \in Sides : walk[s] \in Walks /\ walk[s].fds = Empty
  BY <1>5 DEF Init, Walks
<1>7. Shapes
  <2>1. walk \in [Sides -> Walks]
    BY <1>6 DEF Init
  <2>2. /\ obs \in [Sides -> Seq(Events)] /\ wrote \in [Sides -> Seq(Writes)]
        /\ \A s \in Sides : Len(wrote[s]) = Len(obs[s])
    BY DEF Init
  <2>3. table \in [Sides -> [Fds -> {"free", "r", "w"}]] /\ tidy \in {"yes", "no"}
    BY DEF Init
  <2>. QED  BY <1>4, <2>1, <2>2, <2>3 DEF Shapes
<1>8. ASSUME NEW s \in Sides
      PROVE  Numbered(walk[s].fds) /\ Apart(s) /\ Orderly(s) /\ ShownRight(s)
  <2>1. Numbered(walk[s].fds)
    BY <1>5, <1>6 DEF Numbered
  <2>2. table[s][1] = "w"
    BY <1>1 DEF Init
  <2>3. Apart(s)
    BY <1>2, <1>4, <2>2 DEF Apart
  <2>4. {handles[k].fd[s] : k \in 2..Len(handles)} = {}
    BY <1>4
  <2>5. Orderly(s)
    BY <1>2, <1>4, <1>5, <1>6, <2>4 DEF Orderly
  <2>6. ShownRight(s)
    BY DEF ShownRight, Init
  <2>. QED  BY <2>1, <2>3, <2>5, <2>6
<1>. QED  BY <1>7, <1>8 DEF CanonInv

\* Where the handles and what was written stand and the numbering too, so does
\* all that is said of them.
LEMMA SameNames ==
  ASSUME CanonInv, Shapes', NEW s \in Sides, UNCHANGED <<handles, wrote, obs>>,
         walk'[s].fds = walk[s].fds,
         \A k \in Live : table'[s][handles[k].fd[s]] = "w"
  PROVE  /\ Numbered(walk'[s].fds) /\ Apart(s)'
         /\ Orderly(s) => Orderly(s)'
         /\ ShownRight(s) => ShownRight(s)'
<1>1. Live' = Live
  BY DEF Live
<1>2. Numbered(walk'[s].fds)
  BY DEF CanonInv
<1>3. Apart(s)'
  BY <1>1 DEF CanonInv, Apart
<1>4. Orderly(s) => Orderly(s)'
  BY DEF Orderly
<1>5. ShownRight(s) => ShownRight(s)'
  BY DEF ShownRight
<1>. QED  BY <1>2, <1>3, <1>4, <1>5

LEMMA AllocKeeps ==
  ASSUME CanonInv, ExtraAlloc
  PROVE  CanonInv'
<1>1. Heap \in Nat
  BY FdAssumption DEF Heap
<1>2. walk \in [Sides -> Walks] /\ "model" \in Sides
  BY DEF CanonInv, Shapes, Sides
<1>3. walk' = [walk EXCEPT !["model"] = Sight(walk["model"], Heap)]
  BY DEF ExtraAlloc
<1>4. Sight(walk["model"], Heap) \in Walks /\ Sight(walk["model"], Heap).fds = walk["model"].fds
  BY <1>1, <1>2, SightKeeps
<1>5. walk' \in [Sides -> Walks] /\ \A s \in Sides : walk'[s].fds = walk[s].fds
  BY <1>2, <1>3, <1>4
<1>6. Shapes'
  BY <1>5 DEF CanonInv, Shapes, ExtraAlloc
<1>7. \A s \in Sides : \A k \in Live : table'[s][handles[k].fd[s]] = "w"
  BY DEF CanonInv, Apart, ExtraAlloc
<1>8. UNCHANGED <<handles, wrote, obs, tidy>>
  BY DEF ExtraAlloc
<1>9. \A s \in Sides : /\ Numbered(walk'[s].fds) /\ Apart(s)'
                       /\ Orderly(s) => Orderly(s)'
                       /\ ShownRight(s) => ShownRight(s)'
  BY <1>5, <1>6, <1>7, <1>8, SameNames
<1>. QED  BY <1>6, <1>8, <1>9 DEF CanonInv

LEMMA OpenReadKeeps ==
  ASSUME CanonInv, ExtraOpenRead
  PROVE  CanonInv'
<1>. DEFINE fd == Lowest(Free("model"))
            v == Opened(walk["model"], "r", fd)
<1>1. fd \in Fds /\ table["model"][fd] = "free" /\ "model" \in Sides
  BY LowestIsFree DEF ExtraOpenRead, Sides
<1>2. /\ walk \in [Sides -> Walks] /\ table \in [Sides -> [Fds -> {"free", "r", "w"}]]
      /\ Numbered(walk["model"].fds)
  BY <1>1 DEF CanonInv, Shapes
<1>3. /\ walk' = [walk EXCEPT !["model"] = v]
      /\ table' = [table EXCEPT !["model"][fd] = "r"]
      /\ UNCHANGED <<handles, wrote, obs, tidy>>
  BY DEF ExtraOpenRead
<1>. HIDE DEF fd
<1>4. v \in Walks /\ v.fds = walk["model"].fds
  <2>1. walk["model"] \in Walks
    BY <1>1, <1>2
  <2>. QED  BY <1>1, <1>2, <2>1, OpenedWalk
<1>. HIDE DEF v
<1>5. walk' \in [Sides -> Walks] /\ \A s \in Sides : walk'[s].fds = walk[s].fds
  BY <1>2, <1>3, <1>4
<1>6. table' \in [Sides -> [Fds -> {"free", "r", "w"}]]
  BY <1>1, <1>2, <1>3
<1>7. Shapes'
  BY <1>3, <1>5, <1>6 DEF CanonInv, Shapes
<1>8. \A s \in Sides : \A k \in Live : table'[s][handles[k].fd[s]] = "w"
  BY <1>1, <1>2, <1>3 DEF CanonInv, Apart
<1>9. \A s \in Sides : /\ Numbered(walk'[s].fds) /\ Apart(s)'
                       /\ Orderly(s) => Orderly(s)'
                       /\ ShownRight(s) => ShownRight(s)'
  BY <1>3, <1>5, <1>7, <1>8, SameNames
<1>. QED  BY <1>3, <1>7, <1>9 DEF CanonInv

LEMMA CloseReadKeeps ==
  ASSUME CanonInv, NEW fd \in Fds, ExtraCloseRead(fd)
  PROVE  CanonInv'
<1>1. /\ walk \in [Sides -> Walks] /\ table \in [Sides -> [Fds -> {"free", "r", "w"}]]
      /\ "model" \in Sides /\ table["model"][fd] = "r"
  BY DEF CanonInv, Shapes, Sides, ExtraCloseRead
<1>2. /\ walk' = walk /\ table' = [table EXCEPT !["model"][fd] = "free"]
      /\ UNCHANGED <<handles, wrote, obs, tidy>>
  BY <1>1 DEF ExtraCloseRead, Closed
<1>3. table' \in [Sides -> [Fds -> {"free", "r", "w"}]]
  BY <1>1, <1>2
<1>4. Shapes'
  BY <1>2, <1>3 DEF CanonInv, Shapes
<1>5. \A s \in Sides : \A k \in Live : table'[s][handles[k].fd[s]] = "w"
  BY <1>1, <1>2 DEF CanonInv, Apart
<1>6. \A s \in Sides : /\ Numbered(walk'[s].fds) /\ Apart(s)'
                       /\ Orderly(s) => Orderly(s)'
                       /\ ShownRight(s) => ShownRight(s)'
  BY <1>2, <1>4, <1>5, SameNames
<1>. QED  BY <1>2, <1>4, <1>6 DEF CanonInv

LEMMA WriteKeeps ==
  ASSUME CanonInv, NEW to \in [Sides -> Live], NEW count \in [Sides -> 1..MAX_COUNT],
         Write(to, count)
  PROVE  CanonInv'
<1>1. Shapes /\ walk \in [Sides -> Walks]
  BY DEF CanonInv, Shapes
<1>2. /\ walk' = [s \in Sides |-> SightWrite(walk[s], count[s])]
      /\ obs' = [s \in Sides |->
                   Append(obs[s], WriteEvent(walk'[s], handles[to[s]].fd[s], count[s]))]
      /\ wrote' = [s \in Sides |-> Append(wrote[s], [to |-> to[s], count |-> count[s]])]
      /\ UNCHANGED <<table, handles, tidy>>
  BY DEF Write
<1>3. \A s \in Sides : /\ count[s] \in Nat /\ to[s] \in Live /\ to[s] \in Nat \ {0}
                       /\ to[s] \in 1..Len(handles) /\ handles[to[s]].fd[s] \in Fds
  <2>1. \A n \in 1..MAX_COUNT : n \in Nat
    BY FdAssumption
  <2>. QED  BY <1>1, <2>1, LiveHandles
<1>4. \A s \in Sides : walk'[s] \in Walks /\ walk'[s].fds = walk[s].fds
  BY <1>1, <1>2, <1>3, SightWriteKeeps
<1>. DEFINE e(s) == WriteEvent(walk'[s], handles[to[s]].fd[s], count[s])
            w(s) == [to |-> to[s], count |-> count[s]]
<1>5. \A s \in Sides : e(s) \in Events
  BY <1>3, <1>4, WriteShows
<1>6. \A s \in Sides : w(s) \in Writes
  BY <1>3 DEF Writes
<1>7. \A s \in Sides : obs'[s] = Append(obs[s], e(s)) /\ wrote'[s] = Append(wrote[s], w(s))
  BY <1>2
<1>8. \A s \in Sides : /\ obs[s] \in Seq(Events) /\ wrote[s] \in Seq(Writes)
                       /\ Len(wrote[s]) = Len(obs[s])
  BY <1>1 DEF Shapes
<1>. HIDE DEF e, w
<1>9. \A s \in Sides : /\ obs'[s] \in Seq(Events) /\ wrote'[s] \in Seq(Writes)
                       /\ Len(wrote'[s]) = Len(obs'[s]) /\ Len(obs'[s]) = Len(obs[s]) + 1
  <2>. TAKE s \in Sides
  <2>1. e(s) \in Events /\ obs[s] \in Seq(Events) /\ obs'[s] = Append(obs[s], e(s))
    BY <1>5, <1>7, <1>8
  <2>2. obs'[s] \in Seq(Events) /\ Len(obs'[s]) = Len(obs[s]) + 1
    BY <2>1
  <2>3. w(s) \in Writes /\ wrote[s] \in Seq(Writes) /\ wrote'[s] = Append(wrote[s], w(s))
    BY <1>6, <1>7, <1>8
  <2>4. wrote'[s] \in Seq(Writes) /\ Len(wrote'[s]) = Len(wrote[s]) + 1
    BY <2>3
  <2>. QED  BY <1>8, <2>2, <2>4
<1>10. Shapes'
  <2>1. walk' \in [Sides -> Walks]
    BY <1>2, <1>4
  <2>2. obs' \in [Sides -> Seq(Events)] /\ wrote' \in [Sides -> Seq(Writes)]
    BY <1>2, <1>9
  <2>. QED  BY <1>1, <1>2, <1>9, <2>1, <2>2 DEF Shapes
<1>11. \A s \in Sides : Numbered(walk'[s].fds) /\ Apart(s)'
  BY <1>2, <1>4 DEF CanonInv, Apart, Live
<1>12. ASSUME tidy' = "yes", NEW s \in Sides PROVE Orderly(s)' /\ ShownRight(s)'
  <2>1. Orderly(s) /\ ShownRight(s)
    BY <1>2, <1>12 DEF CanonInv
  <2>2. Orderly(s)'
    <3>1. handles' = handles /\ walk'[s].fds = walk[s].fds
      BY <1>2, <1>4
    <3>. QED  BY <2>1, <3>1 DEF Orderly
  <2>. DEFINE fd == handles[to[s]].fd[s]
              f == walk[s].fds
  <2>3. Name(walk'[s], fd) = NameOf(to[s])
    <3>1. CASE to[s] = 1
      <4>1. fd = 1 /\ fd \notin DOMAIN f
        BY <2>1, <3>1 DEF Orderly
      <4>. QED  BY <1>4, <3>1, <4>1 DEF Name, NameOf
    <3>2. CASE to[s] # 1
      <4>1. to[s] \in 2..Len(handles)
        <5>1. to[s] \in Nat /\ to[s] # 0 /\ to[s] # 1 /\ to[s] \in 1..Len(handles)
          BY <1>3, <3>2
        <5>. QED  BY <5>1
      <4>2. fd \in DOMAIN f /\ f[fd] = to[s] - 2
        BY <2>1, <4>1 DEF Orderly
      <4>. QED  BY <1>4, <3>2, <4>2 DEF Name, NameOf
    <3>. QED  BY <3>1, <3>2
  <2>4. count[s] < ADDR_MIN => e(s) = Shown(w(s))
    <3>1. /\ count[s] < ADDR_MIN =>
               e(s) = [fd |-> Name(walk'[s], fd), buf |-> [kind |-> "ADDR", n |-> 0],
                       count |-> [kind |-> "literal", n |-> count[s]],
                       result |-> [kind |-> "literal", n |-> count[s]]]
      BY <1>3, <1>4, WriteShows DEF e
    <3>2. w(s).to = to[s] /\ w(s).count = count[s]
      BY DEF w
    <3>. QED  BY <2>3, <3>1, <3>2 DEF Shown
  <2>5. w(s).count = count[s]
    BY DEF w
  <2>6. ASSUME NEW i \in 1..Len(wrote'[s]), wrote'[s][i].count < ADDR_MIN
        PROVE  obs'[s][i] = Shown(wrote'[s][i])
    <3>1. CASE i \in 1..Len(wrote[s])
      <4>1. wrote'[s][i] = wrote[s][i] /\ obs'[s][i] = obs[s][i]
        BY <1>5, <1>6, <1>7, <1>8, <3>1
      <4>. QED  BY <2>1, <2>6, <3>1, <4>1 DEF ShownRight
    <3>2. CASE i \notin 1..Len(wrote[s])
      <4>1. i = Len(wrote[s]) + 1
        BY <1>8, <1>9, <2>6, <3>2
      <4>2. wrote'[s][i] = w(s) /\ obs'[s][i] = e(s)
        BY <1>5, <1>6, <1>7, <1>8, <4>1
      <4>. QED  BY <2>4, <2>5, <2>6, <4>2
    <3>. QED  BY <3>1, <3>2
  <2>. QED  BY <2>2, <2>6 DEF ShownRight
<1>. QED  BY <1>10, <1>11, <1>12 DEF CanonInv

LEMMA CloseKeeps ==
  ASSUME CanonInv, NEW k \in Live, Close(k)
  PROVE  CanonInv'
<1>. DEFINE h == [handles[k] EXCEPT !.live = "no"]
<1>1. Shapes /\ handles \in Seq(Handles) /\ walk \in [Sides -> Walks]
  BY DEF CanonInv, Shapes
<1>2. /\ k \in 1..Len(handles) /\ handles[k] \in Handles
      /\ \A s \in Sides : handles[k].fd[s] \in Fds
  BY <1>1, LiveHandles DEF Sides
<1>3. h \in Handles /\ h.fd = handles[k].fd /\ h.live = "no"
  BY <1>2 DEF Handles
<1>4. /\ table' = [s \in Sides |-> [table[s] EXCEPT ![handles[k].fd[s]] = "free"]]
      /\ walk' = [s \in Sides |-> walk[s]]
      /\ handles' = [handles EXCEPT ![k] = h]
      /\ UNCHANGED <<obs, wrote, tidy>>
  BY DEF Close, Closed
<1>. HIDE DEF h
<1>5. /\ handles' \in Seq(Handles) /\ Len(handles') = Len(handles)
      /\ \A j \in 1..Len(handles) : handles'[j] = IF j = k THEN h ELSE handles[j]
  BY <1>1, <1>2, <1>3, <1>4
<1>6. \A j \in 1..Len(handles) : handles'[j].fd = handles[j].fd
  BY <1>3, <1>5
<1>7. DOMAIN handles = 1..Len(handles) /\ DOMAIN handles' = 1..Len(handles)
  BY <1>1, <1>5
<1>8. Live' = Live \ {k}
  BY <1>3, <1>5, <1>7 DEF Live
<1>9. walk' = walk
  BY <1>1, <1>4
<1>10. table' \in [Sides -> [Fds -> {"free", "r", "w"}]]
  BY <1>1, <1>2, <1>4 DEF Shapes
<1>11. Shapes'
  BY <1>1, <1>4, <1>5, <1>9, <1>10 DEF Shapes
<1>12. ASSUME NEW s \in Sides PROVE Apart(s)'
  <2>1. \A j \in Live' : j \in Live /\ j # k /\ j \in 1..Len(handles)
    BY <1>7, <1>8 DEF Live
  <2>2. ASSUME NEW j \in Live' PROVE table'[s][handles'[j].fd[s]] = "w"
    <3>1. Apart(s)
      BY DEF CanonInv
    <3>2. table[s][handles[j].fd[s]] = "w" /\ handles[j].fd[s] # handles[k].fd[s]
      BY <2>1, <2>2, <3>1 DEF Apart
    <3>3. handles[j].fd[s] \in Fds
      BY <1>1, <2>1, <2>2, LiveHandles
    <3>4. table'[s] = [table[s] EXCEPT ![handles[k].fd[s]] = "free"]
      BY <1>4
    <3>5. table[s] \in [Fds -> {"free", "r", "w"}]
      BY <1>1 DEF Shapes
    <3>6. table'[s][handles[j].fd[s]] = "w"
      BY <3>2, <3>3, <3>4, <3>5
    <3>. QED  BY <1>6, <2>1, <2>2, <3>6
  <2>3. \A i, j \in Live' : handles'[i].fd[s] = handles'[j].fd[s] => i = j
    BY <1>6, <2>1 DEF CanonInv, Apart
  <2>. QED  BY <2>2, <2>3 DEF Apart
<1>13. ASSUME NEW s \in Sides, Orderly(s) PROVE Orderly(s)'
  <2>1. Len(handles) \in Nat /\ \A j \in 2..Len(handles) : j \in 1..Len(handles)
    BY <1>1
  <2>2. \A j \in 2..Len(handles) : handles'[j].fd[s] = handles[j].fd[s]
    BY <1>6, <2>1
  <2>3. {handles'[j].fd[s] : j \in 2..Len(handles)} = {handles[j].fd[s] : j \in 2..Len(handles)}
    BY <2>2
  <2>4. Len(handles) > 0 => handles'[1].fd = handles[1].fd
    BY <1>6, <2>1
  <2>. QED  BY <1>5, <1>9, <1>13, <2>2, <2>3, <2>4 DEF Orderly
<1>14. \A s \in Sides : ShownRight(s) => ShownRight(s)'
  BY <1>4 DEF ShownRight
<1>. QED  BY <1>4, <1>9, <1>11, <1>12, <1>13, <1>14 DEF CanonInv

LEMMA OpenFailedKeeps ==
  ASSUME CanonInv, OpenWrite(FALSE)
  PROVE  CanonInv'
<1>1. Shapes /\ walk \in [Sides -> Walks] /\ \A s \in Sides : Numbered(walk[s].fds)
  BY DEF CanonInv, Shapes
<1>2. /\ walk' = [s \in Sides |-> Opened(walk[s], "w", Failed)]
      /\ UNCHANGED <<table, handles, tidy, obs, wrote>>
  BY DEF OpenWrite
<1>3. ASSUME NEW s \in Sides PROVE walk'[s] \in Walks /\ walk'[s].fds = walk[s].fds
  <2>1. walk[s] \in Walks /\ Numbered(walk[s].fds) /\ walk'[s] = Opened(walk[s], "w", Failed)
    BY <1>1, <1>2, <1>3
  <2>. QED  BY <2>1, OpenedWalk
<1>4. Shapes'
  <2>1. walk' \in [Sides -> Walks]
    BY <1>2, <1>3
  <2>. QED  BY <1>1, <1>2, <2>1 DEF Shapes
<1>5. \A s \in Sides : \A k \in Live : table'[s][handles[k].fd[s]] = "w"
  BY <1>2 DEF CanonInv, Apart
<1>6. \A s \in Sides : /\ Numbered(walk'[s].fds) /\ Apart(s)'
                       /\ Orderly(s) => Orderly(s)'
                       /\ ShownRight(s) => ShownRight(s)'
  BY <1>2, <1>3, <1>4, <1>5, SameNames
<1>. QED  BY <1>2, <1>4, <1>6 DEF CanonInv

\* A granted open: the kernel's lowest free descriptor belongs to no file that
\* is open; and if no file was ever closed it has never had a number.
LEMMA OpenGrantedKeeps ==
  ASSUME CanonInv, OpenWrite(TRUE)
  PROVE  CanonInv'
<1>. DEFINE fd == [s \in Sides |-> Lowest(Free(s))]
            h == [fd |-> fd, live |-> "yes"]
            n == Len(handles)
<1>1. /\ Shapes /\ walk \in [Sides -> Walks] /\ handles \in Seq(Handles) /\ n \in Nat
      /\ \A s \in Sides : Numbered(walk[s].fds) /\ Apart(s)
  BY DEF CanonInv, Shapes
<1>2. \A s \in Sides : fd[s] \in Fds /\ table[s][fd[s]] = "free"
  BY LowestIsFree DEF OpenWrite
<1>3. h \in Handles /\ h.fd = fd /\ h.live = "yes"
  BY <1>2 DEF Handles
<1>4. /\ walk' = [s \in Sides |-> Opened(walk[s], "w", fd[s])]
      /\ table' = [s \in Sides |-> [table[s] EXCEPT ![fd[s]] = "w"]]
      /\ handles' = Append(handles, h)
      /\ tidy' = IF Live = DOMAIN handles THEN tidy ELSE "no"
      /\ UNCHANGED <<obs, wrote>>
  BY DEF OpenWrite
<1>. HIDE DEF h, fd
<1>5. /\ handles' \in Seq(Handles) /\ Len(handles') = n + 1 /\ handles'[n + 1] = h
      /\ \A k \in 1..n : handles'[k] = handles[k]
  BY <1>1, <1>3, <1>4
<1>6. DOMAIN handles = 1..n /\ DOMAIN handles' = 1..(n + 1)
  BY <1>1, <1>5
<1>. HIDE DEF n
<1>7. Live' = Live \cup {n + 1} /\ Live \subseteq 1..n
  BY <1>1, <1>3, <1>5, <1>6 DEF Live
<1>8. ASSUME NEW s \in Sides
      PROVE  /\ walk'[s] \in Walks /\ Numbered(walk'[s].fds)
             /\ fd[s] \notin DOMAIN walk[s].fds =>
                  /\ DOMAIN walk'[s].fds = DOMAIN walk[s].fds \cup {fd[s]}
                  /\ Cardinality(DOMAIN walk'[s].fds) = Cardinality(DOMAIN walk[s].fds) + 1
                  /\ walk'[s].fds[fd[s]] = Cardinality(DOMAIN walk[s].fds)
                  /\ \A x \in DOMAIN walk[s].fds : walk'[s].fds[x] = walk[s].fds[x]
  <2>1. walk[s] \in Walks /\ Numbered(walk[s].fds) /\ walk'[s] = Opened(walk[s], "w", fd[s])
    BY <1>1, <1>4, <1>8
  <2>2. fd[s] \in Fds /\ fd[s] # Failed
    BY <1>2, <1>8, FdAssumption DEF Fds, Failed
  <2>. QED  BY <2>1, <2>2, OpenedWalk
<1>9. Shapes'
  <2>1. walk' \in [Sides -> Walks]
    BY <1>4, <1>8
  <2>2. table' \in [Sides -> [Fds -> {"free", "r", "w"}]]
    BY <1>1, <1>2, <1>4 DEF Shapes
  <2>3. tidy' \in {"yes", "no"}
    BY <1>1, <1>4 DEF Shapes
  <2>. QED  BY <1>1, <1>4, <1>5, <2>1, <2>2, <2>3 DEF Shapes
<1>10. ASSUME NEW s \in Sides
       PROVE  \A k \in Live : /\ handles[k].fd[s] \in Fds /\ handles[k].fd[s] # fd[s]
                              /\ table[s][handles[k].fd[s]] = "w" /\ handles'[k] = handles[k]
  <2>. TAKE k \in Live
  <2>1. handles[k].fd[s] \in Fds /\ table[s][handles[k].fd[s]] = "w"
    BY <1>1, <1>10, LiveHandles DEF Apart
  <2>. QED  BY <1>2, <1>5, <1>7, <1>10, <2>1
<1>11. ASSUME NEW s \in Sides PROVE Apart(s)'
  <2>1. table'[s] = [table[s] EXCEPT ![fd[s]] = "w"] /\ table[s] \in [Fds -> {"free", "r", "w"}]
    BY <1>1, <1>4, <1>11 DEF Shapes
  <2>2. handles'[n + 1].fd[s] = fd[s] /\ fd[s] \in Fds
    BY <1>2, <1>3, <1>5, <1>11
  <2>3. table'[s][fd[s]] = "w"
    BY <2>1, <2>2
  <2>4. \A k \in Live : table'[s][handles'[k].fd[s]] = "w" /\ handles'[k].fd[s] # fd[s]
    BY <1>10, <1>11, <2>1
  <2>5. \A k \in Live' : table'[s][handles'[k].fd[s]] = "w"
    BY <1>7, <2>2, <2>3, <2>4
  <2>6. \A j, k \in Live : handles'[j].fd[s] = handles'[k].fd[s] => j = k
    BY <1>1, <1>10, <1>11 DEF Apart
  <2>7. \A j, k \in Live' : handles'[j].fd[s] = handles'[k].fd[s] => j = k
    BY <1>7, <2>2, <2>4, <2>6
  <2>. QED  BY <2>5, <2>7 DEF Apart
<1>12. ASSUME tidy' = "yes", NEW s \in Sides PROVE Orderly(s)' /\ ShownRight(s)'
  <2>. DEFINE f == walk[s].fds
              g == walk'[s].fds
              c == Cardinality(DOMAIN f)
  <2>1. tidy = "yes" /\ Live = 1..n
    BY <1>4, <1>6, <1>12
  <2>2. Orderly(s) /\ ShownRight(s)
    BY <1>12, <2>1 DEF CanonInv
  <2>3. /\ n > 0 /\ handles[1].fd[s] = 1 /\ 1 \notin DOMAIN f
        /\ DOMAIN f = {handles[k].fd[s] : k \in 2..n}
        /\ c = n - 1 /\ \A k \in 2..n : f[handles[k].fd[s]] = k - 2
    BY <2>2 DEF Orderly, n
  <2>4. 1 \in Live /\ \A k \in 2..n : k \in Live
    BY <1>1, <2>1, <2>3
  <2>5. fd[s] \notin DOMAIN f /\ fd[s] # 1
    BY <1>10, <1>12, <2>3, <2>4
  <2>6. /\ DOMAIN g = DOMAIN f \cup {fd[s]} /\ Cardinality(DOMAIN g) = c + 1
        /\ g[fd[s]] = c /\ \A x \in DOMAIN f : g[x] = f[x]
    BY <1>8, <1>12, <2>5
  <2>. HIDE DEF f, g, c
  <2>7. 2..(n + 1) = 2..n \cup {n + 1}
    BY <1>1, <2>3
  <2>8. handles'[n + 1].fd[s] = fd[s]
    BY <1>3, <1>5, <1>12
  <2>9. \A k \in 2..n : handles'[k].fd[s] = handles[k].fd[s]
    BY <1>10, <1>12, <2>4
  <2>10. DOMAIN g = {handles'[k].fd[s] : k \in 2..(n + 1)}
    BY <2>3, <2>6, <2>7, <2>8, <2>9
  <2>11. Cardinality(DOMAIN g) = (n + 1) - 1 /\ n + 1 > 0 /\ c = (n + 1) - 2
    BY <1>1, <2>3, <2>6
  <2>12. \A k \in 2..(n + 1) : g[handles'[k].fd[s]] = k - 2
    <3>1. \A k \in 2..n : g[handles'[k].fd[s]] = k - 2
      <4>. TAKE k \in 2..n
      <4>1. handles[k].fd[s] \in DOMAIN f /\ f[handles[k].fd[s]] = k - 2
        BY <2>3
      <4>. QED  BY <2>6, <2>9, <4>1
    <3>2. g[handles'[n + 1].fd[s]] = (n + 1) - 2
      BY <2>6, <2>8, <2>11
    <3>. QED  BY <2>7, <3>1, <3>2
  <2>13. handles'[1].fd[s] = 1 /\ 1 \notin DOMAIN g
    BY <1>10, <1>12, <2>3, <2>4, <2>5, <2>6
  <2>14. Orderly(s)'
    BY <1>5, <2>10, <2>11, <2>12, <2>13 DEF Orderly, g
  <2>15. ShownRight(s)'
    BY <1>4, <2>2 DEF ShownRight
  <2>. QED  BY <2>14, <2>15
<1>. QED  BY <1>8, <1>9, <1>11, <1>12 DEF CanonInv

LEMMA CanonStep == CanonInv /\ [Next]_vars => CanonInv'
<1>. SUFFICES ASSUME CanonInv, [Next]_vars PROVE CanonInv'
  OBVIOUS
<1>1. CASE \E granted \in BOOLEAN : OpenWrite(granted)
  <2>1. OpenWrite(TRUE) \/ OpenWrite(FALSE)
    BY <1>1
  <2>. QED  BY <2>1, OpenGrantedKeeps, OpenFailedKeeps
<1>2. CASE ExtraOpenRead
  BY <1>2, OpenReadKeeps
<1>3. CASE \E fd \in Fds : ExtraCloseRead(fd)
  BY <1>3, CloseReadKeeps
<1>4. CASE ExtraAlloc
  BY <1>4, AllocKeeps
<1>5. CASE \E to \in [Sides -> Live], count \in [Sides -> 1..MAX_COUNT] : Write(to, count)
  BY <1>5, WriteKeeps
<1>6. CASE \E k \in Live : Close(k)
  BY <1>6, CloseKeeps
<1>7. CASE UNCHANGED vars
  <2>1. /\ table' = table /\ handles' = handles /\ walk' = walk /\ obs' = obs
        /\ wrote' = wrote /\ tidy' = tidy
    BY <1>7 DEF vars
  <2>2. \A s \in Sides : Apart(s)' = Apart(s) /\ Orderly(s)' = Orderly(s)
                         /\ ShownRight(s)' = ShownRight(s)
    BY <2>1 DEF Apart, Live, Orderly, ShownRight
  <2>3. Shapes'
    BY <2>1 DEF CanonInv, Shapes
  <2>. QED  BY <2>1, <2>2, <2>3 DEF CanonInv
<1>. QED  BY <1>1, <1>2, <1>3, <1>4, <1>5, <1>6, <1>7 DEF Next

-----------------------------------------------------------------------------
(* What the canonicaliser promises.                                        *)

\* Numbers are given out one to one, and in the order of the opens as long as
\* no write-open follows a close.
THEOREM CanonInvariant == Spec => []CanonInv
BY CanonInit, CanonStep, PTL DEF Spec

\* Every variable has its type; a failed open is never numbered (TypeOK).
THEOREM CanonTypeCorrect == Spec => []TypeOK
<1>1. CanonInv => TypeOK
  <2>. SUFFICES ASSUME CanonInv PROVE TypeOK
    OBVIOUS
  <2>1. Shapes
    BY DEF CanonInv
  <2>2. ASSUME NEW s \in Sides
        PROVE  /\ DOMAIN walk[s].fds \subseteq Fds /\ walk[s].pending = "no"
               /\ \A fd \in DOMAIN walk[s].fds : walk[s].fds[fd] \in 0..(MAX_FD - 1)
    <3>1. walk[s].fds \in Numberings /\ walk[s].pending = "no"
      BY <2>1 DEF Shapes, Walks
    <3>2. /\ DOMAIN walk[s].fds \subseteq Fds
          /\ walk[s].fds \in [DOMAIN walk[s].fds -> 0..(MAX_FD - 1)]
      BY <3>1, NumberingElim
    <3>. QED  BY <3>1, <3>2
  <2>. QED  BY <2>1, <2>2 DEF Shapes, Handles, TypeOK
<1>. QED  BY <1>1, CanonInvariant, PTL

\* Files open for writing at the same time never share a name in the trace,
\* also when the kernel reuses descriptors (OpenFilesDistinct).
THEOREM CanonOpenFilesDistinct == Spec => []OpenFilesDistinct
<1>1. CanonInv => OpenFilesDistinct
  <2>. SUFFICES ASSUME CanonInv, NEW s \in Sides, NEW j \in Live, NEW k \in Live,
                       Name(walk[s], handles[j].fd[s]) = Name(walk[s], handles[k].fd[s])
                PROVE  j = k
    BY DEF OpenFilesDistinct
  <2>1. Numbered(walk[s].fds) /\ Apart(s)
    BY DEF CanonInv
  <2>2. handles[j].fd[s] = handles[k].fd[s]
    BY <2>1 DEF Name, Numbered
  <2>. QED  BY <2>1, <2>2 DEF Apart
<1>. QED  BY <1>1, CanonInvariant, PTL

LEMMA ShownApart ==
  ASSUME NEW v \in Writes, NEW w \in Writes, Shown(v) = Shown(w)
  PROVE  v = w
<1>1. v.to \in Nat \ {0} /\ w.to \in Nat \ {0}
  BY DEF Writes
<1>2. v.count = w.count
  <2>1. Shown(v).count.n = Shown(w).count.n
    OBVIOUS
  <2>. QED  BY <2>1 DEF Shown
<1>3. NameOf(v.to) = NameOf(w.to)
  <2>1. Shown(v).fd = Shown(w).fd
    OBVIOUS
  <2>. QED  BY <2>1 DEF Shown
<1>4. v.to = w.to
  <2>1. NameOf(v.to).kind = NameOf(w.to).kind /\ NameOf(v.to).n = NameOf(w.to).n
    BY <1>3
  <2>2. CASE v.to = 1 \/ w.to = 1
    BY <2>1, <2>2 DEF NameOf
  <2>3. CASE v.to # 1 /\ w.to # 1
    <3>1. NameOf(v.to).n = v.to - 2 /\ NameOf(w.to).n = w.to - 2
      BY <2>3 DEF NameOf
    <3>2. v.to - 2 = w.to - 2
      BY <2>1, <3>1
    <3>3. \A a, b \in Nat : a - 2 = b - 2 => a = b
      OBVIOUS
    <3>. QED  BY <1>1, <3>2, <3>3
  <2>. QED  BY <2>2, <2>3
<1>. QED  BY <1>2, <1>4 DEF Writes

\* While no file is opened for writing after another was closed and no count
\* looks like an address, the traces agree exactly when the writes do: the
\* model's own reads and allocations change nothing, and every other write
\* shows (TracesTellWritesApart).
THEOREM CanonTracesTellWritesApart == Spec => []TracesTellWritesApart
<1>1. CanonInv => TracesTellWritesApart
  <2>. SUFFICES ASSUME CanonInv, tidy = "yes", Small PROVE SameTrace <=> SameWrites
    BY DEF TracesTellWritesApart
  <2>. DEFINE A == wrote["original"]
              B == wrote["model"]
              P == obs["original"]
              Q == obs["model"]
  <2>1. /\ A \in Seq(Writes) /\ B \in Seq(Writes) /\ P \in Seq(Events) /\ Q \in Seq(Events)
        /\ Len(A) = Len(P) /\ Len(B) = Len(Q)
    BY DEF CanonInv, Shapes, Sides
  <2>2. /\ \A i \in 1..Len(A) : P[i] = Shown(A[i])
        /\ \A i \in 1..Len(B) : Q[i] = Shown(B[i])
    <3>1. \A s \in Sides : ShownRight(s)
      BY DEF CanonInv
    <3>2. \A s \in Sides : wrote[s] \in Seq(Writes)
      BY DEF CanonInv, Shapes
    <3>3. ASSUME NEW s \in Sides, NEW i \in 1..Len(wrote[s])
          PROVE  obs[s][i] = Shown(wrote[s][i])
      <4>1. i \in DOMAIN wrote[s]
        BY <3>2, <3>3
      <4>2. wrote[s][i].count < ADDR_MIN
        BY <3>3, <4>1 DEF Small
      <4>. QED  BY <3>1, <3>3, <4>2 DEF ShownRight
    <3>. QED  BY <3>3 DEF Sides
  <2>. HIDE DEF A, B, P, Q
  <2>3. ASSUME A = B PROVE P = Q
    BY <2>1, <2>2, <2>3
  <2>4. ASSUME P = Q PROVE A = B
    <3>1. Len(A) = Len(B) /\ \A i \in 1..Len(A) : Shown(A[i]) = Shown(B[i])
      BY <2>1, <2>2, <2>4
    <3>2. \A i \in 1..Len(A) : A[i] \in Writes /\ B[i] \in Writes
      BY <2>1, <3>1
    <3>3. \A i \in 1..Len(A) : A[i] = B[i]
      BY <3>1, <3>2, ShownApart
    <3>. QED  BY <2>1, <3>1, <3>3
  <2>5. P = Q <=> A = B
    BY <2>3, <2>4
  <2>. QED  BY <2>5 DEF SameTrace, SameWrites, A, B, P, Q
<1>. QED  BY <1>1, CanonInvariant, PTL
=============================================================================
