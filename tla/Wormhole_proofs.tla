-------------------------- MODULE Wormhole_proofs ---------------------------
(* Proofs about Wormhole, for any number of threads, keys and leaves, when no *)
(* iterator goes back: the inductive invariant IInv, facts about it, every    *)
(* step of the code keeps it, what it implies, and the refinement of          *)
(* OrderedMap.                                                                *)
EXTENDS Wormhole, WellFoundedInduction, TLAPS

\* The places of a thread that looks for its leaf without a lock, that holds
\* the lock of its leaf, of the other leaf, that has moved keys but not yet
\* changed the list, that has changed the list but not yet both tables, and
\* that holds the lock of the tables.
Seeking    == {"lock", "spin_v1", "spin_lv"}
HoldsLeaf  == {"held", "next", "next_wait", "next_resume", "both", "meta", "meta_wait",
               "meta_resume", "link", "patch", "switch", "unlock", "cursor", "hop"}
HoldsOther == {"next_resume", "both", "meta", "meta_wait", "meta_resume", "link", "patch",
               "switch", "unlock"}
NextPlaces == {"next", "next_wait", "next_resume", "both"}
Moving     == {"meta", "meta_wait", "meta_resume", "link"}
Changing   == {"patch", "switch", "unlock", "qwait", "repatch"}
Meta       == {"meta_resume", "link"} \cup Changing
Parks      == {"idle", "next_wait", "next_resume", "meta_wait", "meta_resume"}

OpNames == {"get", "put", "del", "inpw", "scan"}

Record == [pc : Places, op : OpNames \cup {None}, key : Keys \cup {None}, hm : 0 .. 1,
           v : Nat, v1 : Nat, leaf : Leaves \cup {None}, other : Leaves \cup {None},
           at : Keys \cup {None}, back : {FALSE}, answer : BOOLEAN \cup {None}]

LeafRecord == [keys : SUBSET Keys, anchor : Nat \cup {None}, next : Leaves \cup {None},
               prev : Leaves \cup {None}, lv : Nat,
               state : {"free", "local", "linked", "unlinked", "freed"}]

\* The shape of everything.
Types ==
    /\ leaf \in [Leaves -> LeafRecord]
    /\ wlock \in [Leaves -> Threads \cup {None}]
    /\ rlock \in [Leaves -> SUBSET Threads]
    /\ table \in [0 .. 1 -> SUBSET Leaves]
    /\ hv \in [0 .. 1 -> Nat] /\ cur \in 0 .. 1
    /\ metalock \in Threads \cup {None}
    /\ qstate \in [Threads -> Nat]
    /\ parked \in SUBSET Threads
    /\ th \in [Threads -> Record]
    /\ must \in [Threads -> SUBSET Keys]
    /\ \A t \in Threads :
          /\ ~At(t, "idle") => th[t].op \in Ops /\ th[t].key \in Keys
          /\ th[t].pc \in Seeking \cup HoldsLeaf \cup Changing => th[t].leaf \in Leaves
          /\ th[t].pc \in NextPlaces \cup Moving \cup Changing => th[t].other \in Leaves

\* A key belongs to a leaf of the list: it is between its anchor and the next.
InRange(l, k) == /\ leaf[l].anchor <= k
                 /\ leaf[l].next # None => k < leaf[leaf[l].next].anchor

Holds(t, l) == IF Writes(th[t].op) THEN wlock[l] = t ELSE t \in rlock[l]

\* A writer excludes readers, and nobody locks a leaf that is not used.
LocksApart == \A l \in Leaves : /\ wlock[l] # None => rlock[l] = {}
                                /\ leaf[l].state = "free" => wlock[l] = None /\ rlock[l] = {}

\* The locks are held where the code says so.
HasLocks(t) == /\ th[t].pc \in HoldsLeaf => Holds(t, th[t].leaf)
               /\ th[t].pc \in HoldsOther => Holds(t, th[t].other)
               /\ th[t].pc \in Meta <=> metalock = t
               /\ t \in parked => th[t].pc \in Parks

LocksRight == LocksApart /\ \A t \in Threads : HasLocks(t)

\* The thread is in a merge whose keys are moved but whose leaf is still there.
Merging(t) == th[t].pc \in Moving /\ th[t].op = "del"
Splitting(t) == th[t].pc \in Moving /\ th[t].op = "put"

\* The list: next is the leaf with the next greater anchor.
ListOrder ==
    /\ \A a \in Linked :
          /\ leaf[a].anchor \in Nat
          /\ leaf[a].next # None => /\ leaf[a].next \in Linked
                                    /\ leaf[leaf[a].next].prev = a
                                    /\ leaf[a].anchor < leaf[leaf[a].next].anchor
    /\ \A a, b \in Linked :
          /\ leaf[a].anchor = leaf[b].anchor => a = b
          /\ leaf[a].anchor < leaf[b].anchor =>
                leaf[a].next # None /\ leaf[leaf[a].next].anchor <= leaf[b].anchor
    /\ \A k \in Keys : \E a \in Linked : leaf[a].anchor <= k

\* The keys are where they belong, or in the left one of two leaves that are being
\* merged.
KeysRight ==
    \A a \in Linked : \A k \in leaf[a].keys :
        InRange(a, k) \/ \E t \in Threads : Merging(t) /\ th[t].leaf = a /\ InRange(th[t].other, k)

ListRight == ListOrder /\ KeysRight

\* A leaf that nobody knows yet belongs to a split, one that is out of the list
\* to a merge.
StatesRight ==
    /\ \A l \in Leaves : leaf[l].state = "local" =>
          \E t \in Threads : Splitting(t) /\ th[t].other = l
    /\ \A t \in Threads : th[t].pc \in HoldsLeaf \cup Changing => th[t].leaf \in Linked

\* What a thread that holds or looks for its leaf knows of it.
Knows(t) ==
    LET l == th[t].leaf
        r == th[t].other
    IN  /\ th[t].pc \in Seeking =>
              /\ leaf[l].state \in {"linked", "unlinked"}
              /\ leaf[l].lv <= th[t].v => l \in Linked /\ InRange(l, th[t].key)
        /\ At(t, "held") => InRange(l, th[t].key)
        /\ th[t].pc \in NextPlaces => th[t].op \in {"del", "scan"} /\ leaf[l].next = r
        /\ th[t].pc \in Moving \cup Changing => th[t].op \in {"put", "del"}
        /\ Merging(t) => leaf[l].next = r /\ leaf[r].keys \subseteq leaf[l].keys
        /\ Splitting(t) =>
              /\ leaf[r].state = "local" /\ leaf[r].anchor \in Nat
              /\ leaf[r].next = leaf[l].next /\ leaf[r].prev = l
              /\ leaf[l].anchor < leaf[r].anchor
              /\ leaf[l].next # None => leaf[r].anchor < leaf[leaf[l].next].anchor
              /\ \A k \in leaf[l].keys : k < leaf[r].anchor
              /\ \A k \in leaf[r].keys : leaf[r].anchor <= k /\ InRange(l, k)
              /\ th[t].key \in leaf[l].keys \cup leaf[r].keys
              /\ InRange(l, th[t].key)
        /\ th[t].pc \in Changing =>
              IF th[t].op = "put" THEN r \in Linked /\ leaf[l].next = r
              ELSE leaf[r].state = "unlinked" /\ leaf[r].anchor \in Nat

LeafRight == \A t \in Threads : Knows(t)

\* The leaves of a table that has not yet seen the change of the list by t.
Before(t) == IF Splits(t) THEN Linked \ {th[t].other} ELSE Linked \cup {th[t].other}

\* The table that does not have the change of t yet, and the versions of the other
\* table and of the two leaves, which are greater.
Behind(t, old, new) ==
    /\ table[old] = Before(t)
    /\ hv[new] = hv[old] + 1
    /\ leaf[th[t].leaf].lv = hv[new] /\ leaf[th[t].other].lv = hv[new]

\* The tables are the list, but for the change that is under way.
MetaRight == metalock # None => th[metalock].pc \in Meta

TablesRight ==
    /\ MetaRight
    /\ (\A t \in Threads : th[t].pc \notin Changing) =>
          (\A h \in 0 .. 1 : table[h] = Linked) /\ hv[1 - cur] <= hv[cur]
    /\ \A t \in Threads :
          /\ th[t].pc \in {"patch", "switch"} => Behind(t, cur, 1 - cur)
          /\ th[t].pc \in {"unlock", "qwait", "repatch"} => Behind(t, 1 - cur, cur) /\ table[cur] = Linked
          /\ At(t, "patch") => table[1 - cur] = Before(t)
          /\ At(t, "switch") => table[1 - cur] = Linked

\* Nobody has seen a version newer than that of the table in use; a thread that
\* goes by the other table has announced an older one, and the writer that has
\* switched the tables still waits for it.
Awaited(u) == \E w \in Threads : At(w, "unlock") \/ (At(w, "qwait") /\ u \in unquiet)

Quiet(u) ==
    /\ qstate[u] <= hv[cur] /\ th[u].v <= hv[cur] /\ th[u].v1 <= hv[cur]
    /\ At(u, "jump") => qstate[u] = th[u].v
    /\ th[u].pc \in {"version", "jump"} /\ th[u].hm # cur => qstate[u] < hv[cur] /\ Awaited(u)
    /\ th[u].pc \in Seeking /\ leaf[th[u].leaf].state = "unlinked" =>
          /\ qstate[u] < leaf[th[u].leaf].lv
          /\ \A w \in Threads : th[w].pc \in Changing /\ th[w].other = th[u].leaf =>
                th[w].pc \in {"patch", "switch"} \/ Awaited(u)

Quiescence == \A u \in Threads : Quiet(u)

\* An operation has no answer before it acts.
AnswersRight ==
    \A t \in Threads :
        ~At(t, "idle") =>
            IF th[t].pc \in Changing \/ (th[t].op = "del" /\ th[t].pc \in NextPlaces \cup Moving)
            THEN th[t].answer = TRUE ELSE th[t].answer = None

\* The keys that an iterator has yet to visit are there and before it.
Scans(t) ==
    /\ must[t] \subseteq Present
    /\ must[t] # {} => th[t].op = "scan"
    /\ th[t].pc \in {"load", "version", "jump", "held"} \cup Seeking =>
          \A k \in must[t] : th[t].key <= k
    /\ th[t].pc \in {"cursor", "hop", "ended"} => th[t].op = "scan"
    /\ At(t, "cursor") => /\ th[t].at \in leaf[th[t].leaf].keys
                          /\ \A k \in must[t] : th[t].at <= k
    /\ At(t, "hop") =>
          \A k \in must[t] : leaf[th[t].leaf].next # None /\ leaf[leaf[th[t].leaf].next].anchor <= k
    /\ th[t].pc \in NextPlaces => \A k \in must[t] : leaf[th[t].other].anchor <= k
    /\ At(t, "ended") => must[t] = {}

ScansRight == \A t \in Threads : Scans(t)

\* The inductive invariant.
IInv == /\ Types /\ LocksRight /\ ListRight /\ StatesRight /\ LeafRight
        /\ TablesRight /\ Quiescence /\ AnswersRight /\ ScansRight

-----------------------------------------------------------------------------
(* Numbers, ranges and routes                                                *)

\* A set of numbers that is not empty has a least one.
LEMMA LeastOf ==
    ASSUME NEW S \in SUBSET Nat, S # {}
    PROVE  Least(S) \in S /\ \A y \in S : Least(S) <= y
<1>1. PICK p \in S : \A q \in S : ~(<<q, p>> \in OpToRel(<, Nat))
  BY NatLessThanWellFounded, WFMin
<1>2. \A q \in S : ~(q < p)
  BY <1>1 DEF OpToRel
<1>3. \A q \in S : p <= q
  BY <1>2
<1> QED BY <1>3 DEF Least

\* One that has a bound has a greatest one.
LEMMA GreatestOf ==
    ASSUME NEW S \in SUBSET Nat, S # {}, NEW b \in Nat, \A y \in S : y <= b
    PROVE  Greatest(S) \in S /\ \A y \in S : y <= Greatest(S)
<1> DEFINE D == {b - y : y \in S}
<1>1. D \in SUBSET Nat /\ D # {}
  OBVIOUS
<1>2. Least(D) \in D /\ \A d \in D : Least(D) <= d
  BY <1>1, LeastOf
<1>3. PICK x \in S : Least(D) = b - x
  BY <1>2
<1>4. \A y \in S : b - x <= b - y
  BY <1>2, <1>3
<1>5. \A y \in S : y <= x
  BY <1>4
<1> QED BY <1>5 DEF Greatest

\* A key belongs to one leaf of the list.
LEMMA RangesApart ==
    ASSUME Types, ListRight, NEW a \in Linked, NEW b \in Linked, NEW k \in Nat,
           InRange(a, k), InRange(b, k)
    PROVE  a = b
<1>1. a \in Leaves /\ b \in Leaves
  BY DEF Linked
<1>2. leaf[a].anchor \in Nat /\ leaf[b].anchor \in Nat
  BY DEF ListRight, ListOrder, KeysRight
<1>3. ASSUME NEW x \in Linked, NEW y \in Linked, InRange(x, k), InRange(y, k),
             leaf[x].anchor \in Nat, leaf[y].anchor \in Nat
      PROVE  ~(leaf[x].anchor < leaf[y].anchor)
  <2> SUFFICES ASSUME leaf[x].anchor < leaf[y].anchor PROVE FALSE
    OBVIOUS
  <2>1. leaf[x].next # None /\ leaf[leaf[x].next].anchor <= leaf[y].anchor
    BY <1>3 DEF ListRight, ListOrder, KeysRight
  <2>2. leaf[x].next \in Linked
    BY <1>3, <2>1 DEF ListRight, ListOrder, KeysRight
  <2>3. leaf[leaf[x].next].anchor \in Nat
    BY <2>2 DEF ListRight, ListOrder, KeysRight
  <2> QED BY <1>3, <2>1, <2>3 DEF InRange
<1>4. leaf[a].anchor = leaf[b].anchor
  BY <1>2, <1>3
<1> QED BY <1>4 DEF ListRight, ListOrder, KeysRight

\* A table that has a leaf for every key routes a key to the greatest anchor.
LEMMA RouteRight ==
    ASSUME NEW h \in 0 .. 1, NEW k \in Nat, \A l \in table[h] : leaf[l].anchor \in Nat,
           \E l \in table[h] : leaf[l].anchor <= k
    PROVE  /\ Route(h, k) \in table[h] /\ leaf[Route(h, k)].anchor <= k
           /\ \A m \in table[h] : leaf[m].anchor <= k => leaf[m].anchor <= leaf[Route(h, k)].anchor
<1> DEFINE T == {l \in table[h] : leaf[l].anchor <= k}
           A == {leaf[l].anchor : l \in T}
<1>1. A \in SUBSET Nat /\ A # {} /\ \A y \in A : y <= k
  OBVIOUS
<1>2. Greatest(A) \in A /\ \A y \in A : y <= Greatest(A)
  BY <1>1, GreatestOf
<1>3. PICK l \in T : leaf[l].anchor = Greatest(A)
  BY <1>2
<1>4. \A m \in T : leaf[m].anchor <= leaf[l].anchor
  BY <1>2, <1>3
<1> HIDE DEF A
<1>5. \E x \in table[h] : /\ leaf[x].anchor <= k
                          /\ \A m \in table[h] : leaf[m].anchor <= k => leaf[m].anchor <= leaf[x].anchor
  BY <1>4
<1> QED BY <1>5 DEF Route

\* What it means for a key to be in the map.
InMap(k) == /\ \E m \in Leaves : leaf[m].state \in {"linked", "local"} /\ k \in leaf[m].keys
            /\ \A u \in Threads : Splitting(u) => th[u].key # k

\* A key is in the map when InMap says so.
LEMMA IsPresent == \A k : k \in Present <=> InMap(k)
<1> SUFFICES ASSUME NEW k PROVE k \in Present <=> InMap(k)
  OBVIOUS
<1> DEFINE A == {m \in Leaves : leaf[m].state \in {"linked", "local"}}
           B == {u \in Threads : th[u].op = "put"
                               /\ th[u].pc \in {"meta", "meta_wait", "meta_resume", "link"}}
           U == UNION {leaf[l].keys : l \in A}
           V == {th[u].key : u \in B}
<1>1. Present = U \ V
  BY DEF Present
<1>2. k \in U <=> \E m \in Leaves : leaf[m].state \in {"linked", "local"} /\ k \in leaf[m].keys
  OBVIOUS
<1>3. \A u : u \in B <=> u \in Threads /\ Splitting(u)
  BY DEF Splitting, Moving
<1>4. k \in V <=> \E u \in Threads : Splitting(u) /\ th[u].key = k
  <2> HIDE DEF B
  <2> QED BY <1>3
<1> HIDE DEF U, V
<1> QED BY <1>1, <1>2, <1>4 DEF InMap

\* The same after a step.
LEMMA IsPresentNext == (\A k : k \in Present <=> InMap(k))'
  BY IsPresent, PTL

\* What a leaf holds of its range is what the map holds of it, unless a thread is
\* moving its keys.
LEMMA LeafHasRange ==
    ASSUME IInv, NEW l \in Linked, NEW k \in Keys, InRange(l, k),
           \A t \in Threads : th[t].pc \in Moving => th[t].leaf # l /\ th[t].other # l
    PROVE  k \in Present <=> k \in leaf[l].keys
<1>0. k \in Nat
  BY IndexAssumption
<1>1. ASSUME k \in leaf[l].keys PROVE k \in Present
  <2>1. \A u \in Threads : Splitting(u) => th[u].key # k
    <3> SUFFICES ASSUME NEW u \in Threads, Splitting(u), th[u].key = k PROVE FALSE
      OBVIOUS
    <3>1. th[u].leaf \in Linked /\ InRange(th[u].leaf, k) /\ th[u].pc \in Moving
      BY DEF IInv, LeafRight, Knows, StatesRight, Splitting, Moving, HoldsLeaf
    <3>2. th[u].leaf = l
      BY <1>0, <3>1, RangesApart DEF IInv
    <3> QED BY <3>1, <3>2
  <2>2. l \in Leaves /\ leaf[l].state = "linked"
    BY DEF Linked
  <2> QED BY <1>1, <2>1, <2>2, IsPresent DEF InMap
<1>2. ASSUME k \in Present PROVE k \in leaf[l].keys
  <2>1. PICK m \in Leaves : leaf[m].state \in {"linked", "local"} /\ k \in leaf[m].keys
    BY <1>2, IsPresent DEF InMap
  <2>2. CASE m \in Linked /\ InRange(m, k)
    BY <1>0, <2>1, <2>2, RangesApart DEF IInv
  <2>3. CASE m \in Linked /\ ~InRange(m, k)
    <3>1. PICK u \in Threads : Merging(u) /\ th[u].leaf = m /\ InRange(th[u].other, k)
      BY <2>1, <2>3 DEF IInv, ListRight, ListOrder, KeysRight
    <3>2. th[u].other = leaf[m].next /\ th[u].other \in Leaves /\ th[u].pc \in Moving
      BY <3>1 DEF IInv, LeafRight, Knows, Merging, Types
    <3>3. th[u].other # None
      BY <3>2, IndexAssumption
    <3>4. th[u].other \in Linked
      BY <2>3, <3>2, <3>3 DEF IInv, ListRight, ListOrder, KeysRight
    <3>5. th[u].other = l
      BY <1>0, <3>1, <3>4, RangesApart DEF IInv
    <3> QED BY <3>2, <3>5
  <2>4. CASE leaf[m].state = "local"
    <3>1. PICK u \in Threads : Splitting(u) /\ th[u].other = m
      BY <2>4 DEF IInv, StatesRight
    <3>2. th[u].leaf \in Linked /\ InRange(th[u].leaf, k) /\ th[u].pc \in Moving
      BY <2>1, <3>1 DEF IInv, LeafRight, Knows, StatesRight, Splitting, Moving, HoldsLeaf
    <3>3. th[u].leaf = l
      BY <1>0, <3>2, RangesApart DEF IInv
    <3> QED BY <3>2, <3>3
  <2> QED BY <2>1, <2>2, <2>3, <2>4 DEF Linked
<1> QED BY <1>1, <1>2

\* Nobody moves the keys of a leaf that another thread holds.
LEMMA HeldLeaf ==
    ASSUME IInv, NEW t \in Threads, NEW l \in Linked, Holds(t, l), th[t].pc \notin Moving
    PROVE  /\ \A k \in Keys : InRange(l, k) => (k \in Present <=> k \in leaf[l].keys)
           /\ \A k \in leaf[l].keys : InRange(l, k)
           /\ \A u \in Threads : th[u].pc \in Moving => th[u].leaf # l /\ th[u].other # l
<1>1. \A u \in Threads : th[u].pc \in Moving => th[u].leaf # l /\ th[u].other # l
  <2> SUFFICES ASSUME NEW u \in Threads, th[u].pc \in Moving, th[u].leaf = l \/ th[u].other = l
               PROVE  FALSE
    OBVIOUS
  <2>1. th[u].op \in {"put", "del"}
    BY DEF IInv, LeafRight, Knows
  <2>2. Holds(u, l)
    BY DEF IInv, LocksRight, HasLocks, Moving, HoldsLeaf, HoldsOther
  <2>3. wlock[l] = u /\ u # None /\ u # t
    BY <2>1, <2>2, IndexAssumption DEF Holds, Writes
  <2>4. rlock[l] = {}
    BY <2>3 DEF IInv, LocksRight, LocksApart, Linked
  <2> QED BY <2>3, <2>4 DEF Holds
<1>2. \A k \in leaf[l].keys : InRange(l, k)
  BY <1>1 DEF IInv, ListRight, ListOrder, KeysRight, Merging
<1> QED BY <1>1, <1>2, LeafHasRange

\* An iterator that holds a leaf and stands on the least of the keys ahead of it,
\* or at the leaf's end, has passed none of the keys M of the map.
LEMMA StandRight ==
    ASSUME IInv, NEW t \in Threads, NEW l \in Linked, Holds(t, l), th[t].pc \notin Moving,
           NEW M, M \subseteq Present, M \subseteq Keys, NEW ks, ks \subseteq leaf[l].keys,
           \A k \in M : leaf[l].anchor <= k /\ (k \in leaf[l].keys => k \in ks)
    PROVE  /\ ks = {} => \A k \in M : leaf[l].next # None /\ leaf[leaf[l].next].anchor <= k
           /\ ks # {} => Least(ks) \in ks /\ \A k \in M : Least(ks) <= k
<1>1. /\ \A k \in Keys : InRange(l, k) => (k \in Present <=> k \in leaf[l].keys)
      /\ \A k \in leaf[l].keys : InRange(l, k)
  BY HeldLeaf
<1>2. ks \subseteq Nat /\ M \subseteq Nat
  BY IndexAssumption DEF IInv, Types, LeafRecord, Linked
<1>3. leaf[l].next # None => leaf[leaf[l].next].anchor \in Nat
  BY DEF IInv, ListRight, ListOrder, KeysRight
<1>4. ASSUME NEW k \in M, k \notin ks
      PROVE  leaf[l].next # None /\ leaf[leaf[l].next].anchor <= k
  BY <1>1, <1>2, <1>3, <1>4 DEF InRange
<1>5. ASSUME ks # {} PROVE Least(ks) \in ks /\ \A k \in M : Least(ks) <= k
  <2>1. Least(ks) \in ks /\ \A k \in ks : Least(ks) <= k
    BY <1>2, <1>5, LeastOf
  <2>2. ASSUME NEW k \in M, k \notin ks PROVE Least(ks) <= k
    <3>1. leaf[l].next # None /\ leaf[leaf[l].next].anchor <= k /\ leaf[leaf[l].next].anchor \in Nat
      BY <1>3, <1>4, <2>2
    <3>2. InRange(l, Least(ks))
      BY <1>1, <2>1
    <3>3. Least(ks) \in Nat /\ k \in Nat /\ Least(ks) < leaf[leaf[l].next].anchor
      BY <1>2, <2>1, <3>1, <3>2 DEF InRange
    <3> QED BY <3>1, <3>3
  <2> QED BY <2>1, <2>2
<1> QED BY <1>4, <1>5

-----------------------------------------------------------------------------
(* Steps                                                                     *)

\* None is no thread, no leaf and no key.
LEMMA NoneApart == \A x \in Threads \cup Leaves \cup Keys : x # None
  BY IndexAssumption

\* A thread that has returned.
LEMMA IdleRecord == Idle \in Record /\ \A a \in BOOLEAN \cup {None} : [Idle EXCEPT !.answer = a] \in Record
<1>1. "idle" \in Places
  BY DEF Places
<1>2. Idle \in Record
  BY <1>1 DEF Idle, Record
<1> QED BY <1>2 DEF Record

\* Steps that change nothing of the list that the tables could tell.
LEMMA TablesStay ==
    ASSUME Types, TablesRight, NEW t \in Threads,
           UNCHANGED <<table, hv, cur>>, MetaRight', Linked' = Linked,
           \A u \in Threads : th[u].pc \in Changing =>
               /\ leaf'[th[u].leaf].lv = leaf[th[u].leaf].lv
               /\ leaf'[th[u].other].lv = leaf[th[u].other].lv,
           \A u \in Threads : u # t => th'[u] = th[u],
           th[t].pc \notin Changing, th'[t].pc \notin Changing
    PROVE  TablesRight'
<1>1. \A u \in Threads, a, b \in 0 .. 1 : th[u].pc \in Changing /\ Behind(u, a, b) => Behind(u, a, b)'
  <2> SUFFICES ASSUME NEW u \in Threads, NEW a \in 0 .. 1, NEW b \in 0 .. 1,
                      th[u].pc \in Changing, Behind(u, a, b)
               PROVE  Behind(u, a, b)'
    OBVIOUS
  <2>1. th'[u] = th[u]
    OBVIOUS
  <2>2. Before(u)' = Before(u)
    BY <2>1 DEF Before, Splits
  <2> QED BY <2>1, <2>2 DEF Behind
<1>3. ((\A u \in Threads : th[u].pc \notin Changing) =>
          (\A h \in 0 .. 1 : table[h] = Linked) /\ hv[1 - cur] <= hv[cur])'
  BY DEF TablesRight
<1>4. cur \in 0 .. 1 /\ 1 - cur \in 0 .. 1
  BY DEF Types
<1>5. (\A u \in Threads :
          /\ th[u].pc \in {"patch", "switch"} => Behind(u, cur, 1 - cur)
          /\ th[u].pc \in {"unlock", "qwait", "repatch"} => Behind(u, 1 - cur, cur) /\ table[cur] = Linked
          /\ At(u, "patch") => table[1 - cur] = Before(u)
          /\ At(u, "switch") => table[1 - cur] = Linked)'
  BY <1>1, <1>4 DEF TablesRight, At, Before, Splits, Changing
<1> QED BY <1>3, <1>5 DEF TablesRight

\* Steps that leave the leaves alone change what their own thread knows at most.
LEMMA LeafStays ==
    ASSUME LeafRight, NEW t \in Threads, UNCHANGED leaf,
           \A u \in Threads : u # t => th'[u] = th[u], Knows(t)'
    PROVE  LeafRight'
  BY DEF LeafRight, Knows, Linked, InRange, Merging, Splitting, At

\* Steps of a thread that does not change the list, while no other changes it.
LEMMA QuietStays ==
    ASSUME Types, Quiescence, NEW t \in Threads, UNCHANGED <<hv, cur, unquiet>>,
           \A m \in Leaves : leaf'[m].lv = leaf[m].lv /\ leaf'[m].state = leaf[m].state,
           \A u \in Threads : u # t => th'[u] = th[u] /\ qstate'[u] = qstate[u],
           th[t].pc \notin Changing, th'[t].pc \notin Changing, Quiet(t)'
    PROVE  Quiescence'
<1>1. \A u \in Threads : Awaited(u) => Awaited(u)'
  BY DEF Awaited, At, Changing
<1>2. ASSUME NEW u \in Threads, u # t PROVE Quiet(u)'
  <2>1. th[u].pc \in Seeking => th[u].leaf \in Leaves
    BY DEF Types
  <2> QED BY <1>1, <1>2, <2>1 DEF Quiescence, Quiet, At
<1> QED BY <1>2 DEF Quiescence

\* Nobody loses a lock when one is taken, and nobody else when some are released.
Taken(t, l) ==
    /\ wlock' \in [Leaves -> Threads \cup {None}] /\ rlock' \in [Leaves -> SUBSET Threads]
    /\ LocksApart' /\ \E x \in Leaves : x = l /\ Holds(t, x)'
    /\ \A u \in Threads, x \in Leaves : Holds(u, x) => Holds(u, x)'

Released(t, ls) ==
    /\ wlock' \in [Leaves -> Threads \cup {None}] /\ rlock' \in [Leaves -> SUBSET Threads]
    /\ \A x \in Leaves : /\ wlock'[x] # None => rlock'[x] = {}
                         /\ wlock[x] = None => wlock'[x] = None
                         /\ rlock[x] = {} => rlock'[x] = {}
                         /\ x \in ls /\ wlock[x] = t => wlock'[x] = None
                         /\ x \notin ls => wlock'[x] = wlock[x] /\ rlock'[x] = rlock[x]
    /\ \A u \in Threads, x \in Leaves : u # t /\ Holds(u, x) => Holds(u, x)'

\* A lock is taken: nobody loses one.
LEMMA LockTaken ==
    ASSUME Types, LocksApart, NEW t \in Threads, NEW l \in Leaves, UNCHANGED leaf,
           leaf[l].state # "free", CanLock(t, l), Lock(t, l),
           \A u \in Threads : th'[u].op = th[u].op
    PROVE  Taken(t, l)
<1>0. \A u \in Threads : u # None
  BY IndexAssumption
<1>1. CASE Writes(th[t].op)
  <2>1. Free(l) /\ wlock' = [wlock EXCEPT ![l] = t] /\ rlock' = rlock
    BY <1>1 DEF CanLock, Lock
  <2>2. wlock' \in [Leaves -> Threads \cup {None}] /\ wlock'[l] = t
        /\ \A x \in Leaves : x # l => wlock'[x] = wlock[x]
    BY <2>1 DEF Types
  <2>3. wlock[l] = None /\ rlock[l] = {}
    BY <2>1 DEF Free
  <2>4. \A u \in Threads : Writes(th'[u].op) <=> Writes(th[u].op)
    OBVIOUS
  <2>5. LocksApart'
    BY <2>1, <2>2, <2>3 DEF LocksApart
  <2>6. \A u \in Threads, x \in Leaves : Holds(u, x) => Holds(u, x)'
    BY <1>0, <2>1, <2>2, <2>3 DEF Holds, Writes
  <2>7. Holds(t, l)'
    BY <1>1, <2>2 DEF Holds, Writes
  <2> QED BY <2>1, <2>2, <2>5, <2>6, <2>7 DEF Types, Taken
<1>2. CASE ~Writes(th[t].op)
  <2>1. wlock[l] = None /\ rlock' = [rlock EXCEPT ![l] = @ \cup {t}] /\ wlock' = wlock
    BY <1>2 DEF CanLock, Lock
  <2>2. rlock' \in [Leaves -> SUBSET Threads] /\ rlock'[l] = rlock[l] \cup {t}
        /\ \A x \in Leaves : x # l => rlock'[x] = rlock[x]
    BY <2>1 DEF Types
  <2> QED BY <1>0, <1>2, <2>1, <2>2 DEF Taken, LocksApart, Holds, Writes, Types
<1> QED BY <1>1, <1>2

\* Locks are released: nobody else loses one.
LEMMA LocksReleased ==
    ASSUME Types, LocksApart, NEW t \in Threads, NEW ls, Unlock(t, ls),
           \A u \in Threads : u # t => th'[u].op = th[u].op
    PROVE  Released(t, ls)
<1>1. /\ wlock' \in [Leaves -> Threads \cup {None}]
      /\ \A x \in Leaves : wlock'[x] = IF x \in ls /\ wlock[x] = t THEN None ELSE wlock[x]
  BY DEF Unlock, Types
<1>2. /\ rlock' \in [Leaves -> SUBSET Threads]
      /\ \A x \in Leaves : rlock'[x] = IF x \in ls THEN rlock[x] \ {t} ELSE rlock[x]
  BY DEF Unlock, Types
<1>3. \A x \in Leaves : wlock'[x] # None => rlock'[x] = {}
  BY <1>1, <1>2 DEF LocksApart
<1>4. \A u \in Threads, x \in Leaves : u # t /\ Holds(u, x) => Holds(u, x)'
  BY <1>1, <1>2 DEF Holds
<1> QED BY <1>1, <1>2, <1>3, <1>4 DEF Released

\* What is in the map changes with the leaves and with the splits under way.
LEMMA PresentStays ==
    ASSUME UNCHANGED leaf, NEW t \in Threads, \A u \in Threads : u # t => th'[u] = th[u],
           Splitting(t)' <=> Splitting(t), Splitting(t) => th'[t].key = th[t].key
    PROVE  Present' = Present
<1> DEFINE B == {u \in Threads : th[u].op = "put"
                               /\ th[u].pc \in {"meta", "meta_wait", "meta_resume", "link"}}
           V == {th[u].key : u \in B}
<1>1. \A u \in Threads : Splitting(u)' <=> Splitting(u)
  BY DEF Splitting
<1>2. B' = B
  BY <1>1 DEF Splitting, Moving
<1>3. \A u \in B : th'[u].key = th[u].key
  BY DEF Splitting, Moving
<1>4. V' = V
  BY <1>2, <1>3
<1> QED BY <1>4 DEF Present

\* Steps that leave the leaves alone change what their own iterator knows at most.
LEMMA ScanStays ==
    ASSUME ScansRight, UNCHANGED leaf, Present' = Present, NEW t \in Threads,
           \A u \in Threads : u # t => th'[u] = th[u] /\ must'[u] = must[u], Scans(t)'
    PROVE  ScansRight'
  BY DEF ScansRight, Scans, At

\* A step that changes nothing of the list and the tables, and of the threads its
\* own at most, has to answer for what is said of its own thread only.
LEMMA OwnStep ==
    ASSUME IInv, NEW t \in Threads, UNCHANGED <<leaf, table, hv, cur, unquiet>>,
           \A u \in Threads : u # t => th'[u] = th[u] /\ qstate'[u] = qstate[u] /\ must'[u] = must[u],
           th[t].pc \notin Changing, th'[t].pc \notin Changing,
           Merging(t) => Merging(t)' /\ th'[t].leaf = th[t].leaf /\ th'[t].other = th[t].other,
           Types', LocksRight', StatesRight', AnswersRight', Present' = Present,
           Knows(t)', Quiet(t)', Scans(t)'
    PROVE  IInv'
<1>1. Linked' = Linked
  BY DEF Linked
<1>2. ListRight'
  <2>1. ListOrder'
    BY <1>1 DEF IInv, ListRight, ListOrder
  <2>2. \A u \in Threads : Merging(u) => /\ Merging(u)' /\ th'[u].leaf = th[u].leaf
                                         /\ th'[u].other = th[u].other
    BY DEF Merging
  <2>3. ASSUME NEW b \in Linked, NEW k \in leaf[b].keys
        PROVE  InRange(b, k)' \/ \E u \in Threads : Merging(u)' /\ th'[u].leaf = b /\ InRange(th[u].other, k)'
                                                    /\ th'[u].other = th[u].other
    <3>1. InRange(b, k) \/ \E u \in Threads : Merging(u) /\ th[u].leaf = b /\ InRange(th[u].other, k)
      BY DEF IInv, ListRight, KeysRight
    <3> QED BY <2>2, <3>1 DEF InRange
  <2> QED BY <1>1, <2>1, <2>3 DEF ListRight, KeysRight
<1>3. LeafRight'
  BY LeafStays DEF IInv
<1>4. TablesRight'
  <2>1. MetaRight'
    BY DEF MetaRight, LocksRight, HasLocks, Types
  <2> QED BY <1>1, <2>1, TablesStay DEF IInv
<1>5. Quiescence'
  BY QuietStays DEF IInv
<1>6. ScansRight'
  BY ScanStays DEF IInv
<1> QED BY <1>2, <1>3, <1>4, <1>5, <1>6 DEF IInv

-----------------------------------------------------------------------------
(* Steps of one thread that change no leaf and no table                      *)

\* A table routes a thread to the leaf of its key, or to one whose version tells
\* it that it is not.
LEMMA JumpRight ==
    ASSUME IInv, NEW t \in Threads, th[t].pc = "jump", th[t].hm \in 0 .. 1, th[t].key \in Nat,
           th[t].key \in Keys, th[t].v \in Nat
    PROVE  LET r == Route(th[t].hm, th[t].key)
           IN  /\ r \in Leaves
               /\ leaf[r].state \in {"linked", "unlinked"}
               /\ leaf[r].lv <= th[t].v => r \in Linked /\ InRange(r, th[t].key)
               /\ leaf[r].state = "unlinked" =>
                     /\ qstate[t] < leaf[r].lv
                     /\ \A w \in Threads : th[w].pc \in Changing /\ th[w].other = r =>
                           th[w].pc \in {"patch", "switch"} \/ Awaited(t)
<1> DEFINE h == th[t].hm
           k == th[t].key
           r == Route(h, k)
<1>1. /\ qstate[t] = th[t].v /\ th[t].v <= hv[cur] /\ hv[cur] \in Nat
      /\ h # cur => qstate[t] < hv[cur] /\ Awaited(t)
  BY DEF IInv, Quiescence, Quiet, At, Types
<1>2. \A l \in Linked : l \in Leaves /\ leaf[l].anchor \in Nat
  BY DEF IInv, ListRight, ListOrder, KeysRight, Linked
<1>3. PICK b \in Linked : leaf[b].anchor <= k
  BY DEF IInv, ListRight, ListOrder, KeysRight
\* The table is the list.
<1>4. CASE table[h] = Linked
  <2>1. /\ r \in Linked /\ leaf[r].anchor <= k
        /\ \A m \in Linked : leaf[m].anchor <= k => leaf[m].anchor <= leaf[r].anchor
    BY <1>2, <1>3, <1>4, RouteRight
  <2>2. InRange(r, k)
    <3> SUFFICES ASSUME leaf[r].next # None PROVE k < leaf[leaf[r].next].anchor
      BY <2>1 DEF InRange
    <3>1. leaf[r].next \in Linked /\ leaf[r].anchor < leaf[leaf[r].next].anchor
      BY <2>1 DEF IInv, ListRight, ListOrder, KeysRight
    <3> QED BY <1>2, <2>1, <3>1
  <2> QED BY <1>2, <2>1, <2>2 DEF Linked
\* A thread changes the list, and the table does not have its change.
<1>5. ASSUME NEW w \in Threads, th[w].pc \in Changing, table[h] = Before(w),
             leaf[th[w].leaf].lv > th[t].v, leaf[th[w].other].lv > th[t].v,
             th[w].pc \in {"patch", "switch"} \/ Awaited(t)
      PROVE  LET q == r
             IN  /\ q \in Leaves
                 /\ leaf[q].state \in {"linked", "unlinked"}
                 /\ leaf[q].lv <= th[t].v => q \in Linked /\ InRange(q, k)
                 /\ leaf[q].state = "unlinked" =>
                       /\ qstate[t] < leaf[q].lv
                       /\ \A x \in Threads : th[x].pc \in Changing /\ th[x].other = q =>
                             th[x].pc \in {"patch", "switch"} \/ Awaited(t)
  <2>1. \A x \in Threads : th[x].pc \in Changing => x = w
    BY <1>5 DEF IInv, LocksRight, HasLocks, Meta
  <2>2. CASE th[w].op = "put"
    <3>1. /\ th[w].other \in Linked /\ th[w].leaf \in Linked /\ leaf[th[w].leaf].next = th[w].other
      BY <1>5, <2>2 DEF IInv, LeafRight, Knows, StatesRight
    <3>2. table[h] = Linked \ {th[w].other}
      BY <1>5, <2>2 DEF Before, Splits
    <3>8. th[w].other # None
      BY <1>2, <3>1, IndexAssumption
    <3>3. leaf[th[w].other].prev = th[w].leaf
          /\ leaf[th[w].leaf].anchor < leaf[th[w].other].anchor
      BY <3>1, <3>8 DEF IInv, ListRight, ListOrder, KeysRight
    <3>4. \E l \in table[h] : leaf[l].anchor <= k
      BY <1>2, <1>3, <3>1, <3>2, <3>3
    <3>5. /\ r \in Linked /\ r # th[w].other /\ leaf[r].anchor <= k
          /\ \A m \in Linked \ {th[w].other} : leaf[m].anchor <= k => leaf[m].anchor <= leaf[r].anchor
      BY <1>2, <3>2, <3>4, RouteRight
    <3>6. CASE r = th[w].leaf
      BY <1>2, <1>5, <3>5, <3>6 DEF Linked, IInv, Types, LeafRecord
    <3>7. CASE r # th[w].leaf
      <4>1. InRange(r, k)
        <5> SUFFICES ASSUME leaf[r].next # None PROVE k < leaf[leaf[r].next].anchor
          BY <3>5 DEF InRange
        <5>1. /\ leaf[r].next \in Linked /\ leaf[r].anchor < leaf[leaf[r].next].anchor
              /\ leaf[leaf[r].next].prev = r
          BY <3>5 DEF IInv, ListRight, ListOrder, KeysRight
        <5>2. leaf[r].next # th[w].other
          BY <3>3, <3>7, <5>1
        <5> QED BY <1>2, <3>5, <5>1, <5>2
      <4> QED BY <1>2, <3>5, <4>1 DEF Linked
    <3> QED BY <3>6, <3>7
  <2>3. CASE th[w].op # "put"
    <3>1. /\ leaf[th[w].other].state = "unlinked" /\ th[w].other \in Leaves
          /\ table[h] = Linked \cup {th[w].other}
      BY <1>5, <2>3 DEF IInv, LeafRight, Knows, Types, Before, Splits
    <3>2. CASE r = th[w].other
      BY <1>1, <1>5, <2>1, <3>1, <3>2 DEF Linked, IInv, Types, LeafRecord
    <3>3. CASE r # th[w].other
      <4>1. /\ r \in Linked /\ leaf[r].anchor <= k
            /\ \A m \in Linked : leaf[m].anchor <= k => leaf[m].anchor <= leaf[r].anchor
        <5>1. leaf[th[w].other].anchor \in Nat
          BY <1>5, <2>3 DEF IInv, LeafRight, Knows
        <5> QED BY <1>2, <1>3, <3>1, <3>3, <5>1, RouteRight
      <4>2. InRange(r, k)
        <5> SUFFICES ASSUME leaf[r].next # None PROVE k < leaf[leaf[r].next].anchor
          BY <4>1 DEF InRange
        <5>1. leaf[r].next \in Linked /\ leaf[r].anchor < leaf[leaf[r].next].anchor
          BY <4>1 DEF IInv, ListRight, ListOrder, KeysRight
        <5> QED BY <1>2, <4>1, <5>1
      <4> QED BY <1>2, <4>1, <4>2 DEF Linked
    <3> QED BY <3>2, <3>3
  <2> QED BY <2>2, <2>3
<1>6. CASE \A w \in Threads : th[w].pc \notin Changing
  <2>1. table[h] = Linked
    BY <1>6 DEF IInv, TablesRight
  <2> QED BY <1>4, <2>1
<1>7. ASSUME NEW w \in Threads, th[w].pc \in {"patch", "switch"}
      PROVE  table[h] = Before(w) /\ leaf[th[w].leaf].lv > th[t].v /\ leaf[th[w].other].lv > th[t].v
  <2>1. h = cur
    <3> SUFFICES ASSUME Awaited(t) PROVE FALSE
      BY <1>1
    <3>1. PICK x \in Threads : th[x].pc \in {"unlock", "qwait"}
      BY DEF Awaited, At
    <3> QED BY <1>7, <3>1 DEF IInv, LocksRight, HasLocks, Meta, Changing
  <2> QED BY <1>1, <1>7, <2>1 DEF IInv, TablesRight, Behind, Types
<1>8. ASSUME NEW w \in Threads, th[w].pc \in {"unlock", "qwait", "repatch"}, h # cur
      PROVE  table[h] = Before(w) /\ leaf[th[w].leaf].lv > th[t].v /\ leaf[th[w].other].lv > th[t].v
             /\ Awaited(t)
  <2>1. h = 1 - cur
    BY <1>8 DEF IInv, Types
  <2> QED BY <1>1, <1>8, <2>1 DEF IInv, TablesRight, Behind, Types
<1>9. ASSUME NEW w \in Threads, th[w].pc \in {"unlock", "qwait", "repatch"}, h = cur
      PROVE  table[h] = Linked
  BY <1>9 DEF IInv, TablesRight
<1> HIDE DEF r
<1> QED BY <1>4, <1>5, <1>6, <1>7, <1>8, <1>9 DEF Changing, r

\* whsafe_*: the caller is no longer parked, and an iterator is to see every key
\* that is there from its key on.
LEMMA CallKeeps ==
    ASSUME IInv, "back" \notin Ops, NEW t \in Threads, Call(t)
    PROVE  IInv'
<1> USE DEF IInv
<1>p. PICK f \in Ops, k \in Keys :
          /\ th' = [th EXCEPT ![t] = [Idle EXCEPT !.pc = "load", !.op = f, !.key = k]]
          /\ must' = [must EXCEPT ![t] =
                 CASE f = "scan" -> {x \in Present : x >= k}
                   [] f = "back" -> {x \in Present : x < k}
                   [] OTHER -> {}]
  BY DEF Call
<1>q. th[t].pc = "idle" /\ parked' = parked \ {t} /\ UNCHANGED <<shared, qstate, unquiet>>
  BY DEF Call, At
<1> DEFINE m == IF f = "scan" THEN {x \in Present : x >= k} ELSE {}
<1>m. Present \subseteq Keys
  <2>1. \A x \in Present : \E l \in Leaves : x \in leaf[l].keys
    BY IsPresent DEF InMap
  <2> QED BY <2>1 DEF Types, LeafRecord
<1>n. /\ f \in OpNames /\ f # "back" /\ m \subseteq Keys /\ m \subseteq Present
      /\ \A x \in m : f = "scan" /\ k <= x
  <2>1. f \in OpNames /\ f # "back"
    BY IndexAssumption DEF OpNames
  <2> QED BY <1>m, <2>1, IndexAssumption
<1>o. must' = [must EXCEPT ![t] = m]
  BY <1>n, <1>p
<1> HIDE DEF m
<1>1. th' = [th EXCEPT ![t] = [Idle EXCEPT !.pc = "load", !.op = f, !.key = k]]
  BY <1>p, <1>q, <1>o, <1>n, SMT DEF shared, Types
<1>2. /\ th[t].pc = "idle" /\ f \in Ops /\ k \in Keys
      /\ UNCHANGED <<leaf, wlock, rlock, table, hv, cur, metalock, qstate, unquiet>>
      /\ parked' = parked \ {t}
      /\ must' \in [Threads -> SUBSET Keys] /\ must'[t] = m
      /\ \A u \in Threads : u # t => must'[u] = must[u]
  BY <1>p, <1>q, <1>o, <1>n, SMT DEF shared, At, Types
<1>3. [Idle EXCEPT !.pc = "load", !.op = f, !.key = k] \in Record
  <2>1. "load" \in Places /\ f \in OpNames /\ Idle \in Record
    BY <1>p, <1>q, <1>o, <1>n, IdleRecord DEF Places
  <2> QED BY <1>2, <2>1 DEF Record
<1>4. /\ \A u \in Threads : u # t => th'[u] = th[u]
      /\ th'[t].pc = "load" /\ th'[t].op = f /\ th'[t].key = k /\ th'[t].hm = 0
      /\ th'[t].v = 0 /\ th'[t].v1 = 0 /\ th'[t].leaf = None /\ th'[t].other = None
      /\ th'[t].at = None /\ th'[t].back = FALSE /\ th'[t].answer = None
  BY <1>1, <1>3 DEF Types, Record, Idle
<1>5. Types'
  <2>0. th' \in [Threads -> Record]
    BY <1>1, <1>3 DEF Types
  <2> QED BY <2>0, <1>2, <1>4 DEF Types, At, Seeking, HoldsLeaf, Changing, NextPlaces, Moving
<1>6. LocksRight'
  BY <1>2, <1>4
   DEF LocksRight, LocksApart, HasLocks, Holds, Writes, HoldsLeaf, HoldsOther, Meta, Parks, Changing
<1>7. StatesRight'
  BY <1>2, <1>4 DEF StatesRight, Linked, Splitting, Moving, HoldsLeaf, Changing
<1>8. Present' = Present
  BY <1>2, <1>4, PresentStays DEF Splitting, Moving
<1>9. AnswersRight'
  BY <1>2, <1>4 DEF AnswersRight, Changing, NextPlaces, Moving, At
<1>10. Knows(t)'
  BY <1>2, <1>4
   DEF LeafRight, Knows, Linked, Merging, Splitting, Moving, Seeking, NextPlaces, Changing, InRange, At
<1>11. Quiet(t)'
  BY <1>2, <1>4 DEF Quiescence, Quiet, Seeking, Awaited, Changing, At, Types
<1>12. Scans(t)'
  BY <1>8, <1>2, <1>4, <1>n DEF ScansRight, Scans, NextPlaces, Seeking, At
<1> QED BY <1>2, <1>4, <1>5, <1>6, <1>7, <1>8, <1>9, <1>10, <1>11, <1>12, OwnStep DEF Merging, Moving,
     Changing

\* wormhmap_load: the table in use needs no announcement yet.
LEMMA LoadHmapKeeps ==
    ASSUME IInv, "back" \notin Ops, NEW t \in Threads, LoadHmap(t)
    PROVE  IInv'
<1> USE DEF IInv
<1>1. th' = [th EXCEPT ![t].pc = "version", ![t].hm = cur]
  BY SMT DEF LoadHmap
<1>2. /\ th[t].pc = "load"
      /\ UNCHANGED <<leaf, wlock, rlock, table, hv, cur, metalock, qstate, parked, unquiet, must>>
  BY SMT DEF LoadHmap, At, shared
<1>3. [th[t] EXCEPT !.pc = "version", !.hm = cur] \in Record
  <2>1. "version" \in Places /\ cur \in 0 .. 1
    BY <1>2 DEF Types, Places
  <2>2. th[t] \in Record
    BY DEF Types
  <2> QED BY <2>1, <2>2 DEF Record
<1>4. /\ \A u \in Threads : u # t => th'[u] = th[u]
      /\ th'[t].pc = "version" /\ th'[t].op = th[t].op /\ th'[t].key = th[t].key /\ th'[t].hm = cur
      /\ th'[t].v = th[t].v /\ th'[t].v1 = th[t].v1 /\ th'[t].leaf = th[t].leaf
      /\ th'[t].other = th[t].other
      /\ th'[t].at = th[t].at /\ th'[t].back = th[t].back /\ th'[t].answer = th[t].answer
  BY <1>1, <1>3 DEF Types, Record
<1>5. Types'
  <2>0. th' \in [Threads -> Record]
    BY <1>1, <1>3 DEF Types
  <2> QED BY <2>0, <1>2, <1>4 DEF Types, At, Seeking, HoldsLeaf, Changing, NextPlaces, Moving
<1>6. LocksRight'
  BY <1>2, <1>4
   DEF LocksRight, LocksApart, HasLocks, Holds, Writes, HoldsLeaf, HoldsOther, Meta, Parks, Changing
<1>7. StatesRight'
  BY <1>2, <1>4 DEF StatesRight, Linked, Splitting, Moving, HoldsLeaf, Changing
<1>8. Present' = Present
  BY <1>2, <1>4, PresentStays DEF Splitting, Moving
<1>9. AnswersRight'
  BY <1>2, <1>4 DEF AnswersRight, Changing, NextPlaces, Moving, At
<1>10. Knows(t)'
  BY <1>2, <1>4
   DEF LeafRight, Knows, Linked, Merging, Splitting, Moving, Seeking, NextPlaces, Changing, InRange, At
<1>11. Quiet(t)'
  BY <1>2, <1>4 DEF Quiescence, Quiet, Seeking, Awaited, Changing, At, Types
<1>12. Scans(t)'
  BY <1>8, <1>2, <1>4 DEF ScansRight, Scans, NextPlaces, Seeking, At
<1> QED BY <1>2, <1>4, <1>5, <1>6, <1>7, <1>8, <1>9, <1>10, <1>11, <1>12, OwnStep DEF Merging, Moving,
     Changing

\* qsbr_update: if the table was switched since it was loaded, its version is
\* older, and the writer still waits for this thread.
LEMMA LoadVersionKeeps ==
    ASSUME IInv, "back" \notin Ops, NEW t \in Threads, LoadVersion(t)
    PROVE  IInv'
<1> USE DEF IInv
<1>0. hv[th[t].hm] \in Nat
  BY DEF Types, Record
<1>1. th' = [th EXCEPT ![t].pc = "jump", ![t].v = hv[th[t].hm]]
  BY SMT DEF LoadVersion, Types
<1>2. /\ th[t].pc = "version"
      /\ UNCHANGED <<leaf, wlock, rlock, table, hv, cur, metalock, parked, unquiet, must>>
      /\ qstate' \in [Threads -> Nat] /\ qstate'[t] = hv[th[t].hm]
      /\ \A u \in Threads : u # t => qstate'[u] = qstate[u]
  BY <1>0, SMT DEF LoadVersion, At, shared, Types
<1>3. [th[t] EXCEPT !.pc = "jump", !.v = hv[th[t].hm]] \in Record
  <2>1. "jump" \in Places /\ hv[th[t].hm] \in Nat
    BY <1>0, <1>2 DEF Types, Places
  <2>2. th[t] \in Record
    BY DEF Types
  <2> QED BY <2>1, <2>2 DEF Record
<1>4. /\ \A u \in Threads : u # t => th'[u] = th[u]
      /\ th'[t].pc = "jump" /\ th'[t].op = th[t].op /\ th'[t].key = th[t].key
      /\ th'[t].hm = th[t].hm
      /\ th'[t].v = hv[th[t].hm] /\ th'[t].v1 = th[t].v1 /\ th'[t].leaf = th[t].leaf
      /\ th'[t].other = th[t].other
      /\ th'[t].at = th[t].at /\ th'[t].back = th[t].back /\ th'[t].answer = th[t].answer
  BY <1>1, <1>3 DEF Types, Record
<1>5. Types'
  <2>0. th' \in [Threads -> Record]
    BY <1>1, <1>3 DEF Types
  <2> QED BY <1>0, <2>0, <1>2, <1>4 DEF Types, At, Seeking, HoldsLeaf, Changing, NextPlaces, Moving
<1>6. LocksRight'
  BY <1>2, <1>4
   DEF LocksRight, LocksApart, HasLocks, Holds, Writes, HoldsLeaf, HoldsOther, Meta, Parks, Changing
<1>7. StatesRight'
  BY <1>2, <1>4 DEF StatesRight, Linked, Splitting, Moving, HoldsLeaf, Changing
<1>8. Present' = Present
  BY <1>2, <1>4, PresentStays DEF Splitting, Moving
<1>9. AnswersRight'
  BY <1>2, <1>4 DEF AnswersRight, Changing, NextPlaces, Moving, At
<1>10. Knows(t)'
  BY <1>2, <1>4
   DEF LeafRight, Knows, Linked, Merging, Splitting, Moving, Seeking, NextPlaces, Changing, InRange, At
<1>11. Quiet(t)'
  <2>0. th[t].hm # cur => hv[th[t].hm] < hv[cur]
    <3> SUFFICES ASSUME th[t].hm # cur PROVE hv[th[t].hm] < hv[cur]
      OBVIOUS
    <3>1. PICK w \in Threads : th[w].pc \in {"unlock", "qwait"}
      BY <1>2 DEF Quiescence, Quiet, Awaited, At
    <3>2. hv[cur] = hv[1 - cur] + 1
      BY <3>1 DEF TablesRight, Behind, Changing, Types
    <3>3. th[t].hm \in 0 .. 1
      BY DEF Types, Record
    <3> QED BY <3>2, <3>3 DEF Types
  <2> QED BY <2>0, <1>2, <1>4 DEF Quiescence, Quiet, Seeking, Awaited, Changing, At, Types
<1>12. Scans(t)'
  BY <1>8, <1>2, <1>4 DEF ScansRight, Scans, NextPlaces, Seeking, At
<1> QED BY <1>2, <1>4, <1>5, <1>6, <1>7, <1>8, <1>9, <1>10, <1>11, <1>12, OwnStep DEF Merging, Moving,
     Changing

\* wormhole_jump_leaf: the leaf that is found is right, or its version is too new.
LEMMA JumpKeeps ==
    ASSUME IInv, "back" \notin Ops, NEW t \in Threads, Jump(t)
    PROVE  IInv'
<1> USE DEF IInv
<1>a. /\ th[t].pc = "jump" /\ th[t].hm \in 0 .. 1 /\ th[t].key \in Nat /\ th[t].key \in Keys
      /\ th[t].v \in Nat
  BY IndexAssumption DEF Jump, At, Types, Record
<1> DEFINE h == th[t].hm
           k == th[t].key
           r == Route(h, k)
<1>b. /\ r \in Leaves
      /\ leaf[r].state \in {"linked", "unlinked"}
      /\ leaf[r].lv <= th[t].v => r \in Linked /\ InRange(r, k)
      /\ leaf[r].state = "unlinked" =>
            /\ qstate[t] < leaf[r].lv
            /\ \A w \in Threads : th[w].pc \in Changing /\ th[w].other = r =>
                  th[w].pc \in {"patch", "switch"} \/ Awaited(t)
  BY <1>a, JumpRight
<1> HIDE DEF r, k, h
<1>c. /\ th' = [th EXCEPT ![t].pc = "lock", ![t].leaf = r]
      /\ r = Route(th[t].hm, th[t].key) /\ k = th[t].key
  BY DEF Jump, r, h, k
<1>0. r \in Leaves
  BY <1>b
<1>1. th' = [th EXCEPT ![t].pc = "lock", ![t].leaf = r]
  BY <1>c, SMT DEF Jump
<1>2. /\ th[t].pc = "jump"
      /\ UNCHANGED <<leaf, wlock, rlock, table, hv, cur, metalock, qstate, parked, unquiet, must>>
  BY <1>0, <1>c, SMT DEF Jump, At, shared
<1>3. [th[t] EXCEPT !.pc = "lock", !.leaf = r] \in Record
  <2>1. "lock" \in Places /\ r \in Leaves
    BY <1>0, <1>2 DEF Types, Places
  <2>2. th[t] \in Record
    BY DEF Types
  <2> QED BY <2>1, <2>2 DEF Record
<1>4. /\ \A u \in Threads : u # t => th'[u] = th[u]
      /\ th'[t].pc = "lock" /\ th'[t].op = th[t].op /\ th'[t].key = th[t].key
      /\ th'[t].hm = th[t].hm
      /\ th'[t].v = th[t].v /\ th'[t].v1 = th[t].v1 /\ th'[t].leaf = r /\ th'[t].other = th[t].other
      /\ th'[t].at = th[t].at /\ th'[t].back = th[t].back /\ th'[t].answer = th[t].answer
  BY <1>1, <1>3 DEF Types, Record
<1>5. Types'
  <2>0. th' \in [Threads -> Record]
    BY <1>1, <1>3 DEF Types
  <2> QED BY <1>0, <2>0, <1>2, <1>4 DEF Types, At, Seeking, HoldsLeaf, Changing, NextPlaces, Moving
<1>6. LocksRight'
  BY <1>2, <1>4
   DEF LocksRight, LocksApart, HasLocks, Holds, Writes, HoldsLeaf, HoldsOther, Meta, Parks, Changing
<1>7. StatesRight'
  BY <1>2, <1>4 DEF StatesRight, Linked, Splitting, Moving, HoldsLeaf, Changing
<1>8. Present' = Present
  BY <1>2, <1>4, PresentStays DEF Splitting, Moving
<1>9. AnswersRight'
  BY <1>2, <1>4 DEF AnswersRight, Changing, NextPlaces, Moving, At
<1>10. Knows(t)'
  BY <1>2, <1>4, <1>b, <1>c
   DEF LeafRight, Knows, Linked, Merging, Splitting, Moving, Seeking, NextPlaces, Changing, InRange, At
<1>11. Quiet(t)'
  <2>0. Awaited(t) => Awaited(t)'
    BY <1>2, <1>4 DEF Awaited, At
  <2> QED BY <2>0, <1>b, <1>2, <1>4 DEF Quiescence, Quiet, Seeking, Changing, At, Types
<1>12. Scans(t)'
  BY <1>8, <1>2, <1>4 DEF ScansRight, Scans, NextPlaces, Seeking, At
<1> QED BY <1>2, <1>4, <1>5, <1>6, <1>7, <1>8, <1>9, <1>10, <1>11, <1>12, OwnStep DEF Merging, Moving,
     Changing

\* A leaf that is locked in time with a version that is not too new is in the list
\* and has the key in its range.
LEMMA LockLeafKeeps ==
    ASSUME IInv, "back" \notin Ops, NEW t \in Threads, LockLeaf(t)
    PROVE  IInv'
<1> USE DEF IInv
<1>1. CASE ~CanLock(t, th[t].leaf)
  <2>1. th' = [th EXCEPT ![t].pc = "spin_v1"]
    BY <1>1, SMT DEF LockLeaf, Goto
  <2>2. /\ th[t].pc = "lock"
        /\ UNCHANGED <<leaf, wlock, rlock, table, hv, cur, metalock, qstate, parked, unquiet, must>>
    BY <1>1, SMT DEF LockLeaf, At
  <2>3. [th[t] EXCEPT !.pc = "spin_v1"] \in Record
    <3>1. "spin_v1" \in Places
      BY <2>2 DEF Types, Places
    <3>2. th[t] \in Record
      BY DEF Types
    <3> QED BY <3>1, <3>2 DEF Record
  <2>4. /\ \A u \in Threads : u # t => th'[u] = th[u]
        /\ th'[t].pc = "spin_v1" /\ th'[t].op = th[t].op /\ th'[t].key = th[t].key
        /\ th'[t].hm = th[t].hm
        /\ th'[t].v = th[t].v /\ th'[t].v1 = th[t].v1 /\ th'[t].leaf = th[t].leaf
        /\ th'[t].other = th[t].other
        /\ th'[t].at = th[t].at /\ th'[t].back = th[t].back /\ th'[t].answer = th[t].answer
    BY <2>1, <2>3 DEF Types, Record
  <2>5. Types'
    <3>0. th' \in [Threads -> Record]
      BY <2>1, <2>3 DEF Types
    <3> QED BY <3>0, <2>2, <2>4 DEF Types, At, Seeking, HoldsLeaf, Changing, NextPlaces, Moving
  <2>6. LocksRight'
    BY <2>2, <2>4
     DEF LocksRight, LocksApart, HasLocks, Holds, Writes, HoldsLeaf, HoldsOther, Meta, Parks, Changing
  <2>7. StatesRight'
    BY <2>2, <2>4 DEF StatesRight, Linked, Splitting, Moving, HoldsLeaf, Changing
  <2>8. Present' = Present
    BY <2>2, <2>4, PresentStays DEF Splitting, Moving
  <2>9. AnswersRight'
    BY <2>2, <2>4 DEF AnswersRight, Changing, NextPlaces, Moving, At
  <2>10. Knows(t)'
    BY <2>2, <2>4
     DEF LeafRight, Knows, Linked, Merging, Splitting, Moving, Seeking, NextPlaces, Changing, InRange,
         At
  <2>11. Quiet(t)'
    BY <2>2, <2>4 DEF Quiescence, Quiet, Seeking, Awaited, Changing, At, Types
  <2>12. Scans(t)'
    BY <2>8, <2>2, <2>4 DEF ScansRight, Scans, NextPlaces, Seeking, At
  <2> QED BY <2>2, <2>4, <2>5, <2>6, <2>7, <2>8, <2>9, <2>10, <2>11, <2>12, OwnStep DEF Merging, Moving,
       Changing
<1>2. CASE CanLock(t, th[t].leaf) /\ leaf[th[t].leaf].lv <= th[t].v
  <2>1. th' = [th EXCEPT ![t].pc = "held"]
    BY <1>2, SMT DEF LockLeaf, Goto
  <2>2. /\ th[t].pc = "lock" /\ leaf[th[t].leaf].lv <= th[t].v
        /\ UNCHANGED <<leaf, table, hv, cur, metalock, qstate, parked, unquiet, must>>
        /\ Lock(t, th[t].leaf)
        /\ CanLock(t, th[t].leaf)
    BY <1>2, SMT DEF LockLeaf, At
  <2>3. [th[t] EXCEPT !.pc = "held"] \in Record
    <3>1. "held" \in Places
      BY <2>2 DEF Types, Places
    <3>2. th[t] \in Record
      BY DEF Types
    <3> QED BY <3>1, <3>2 DEF Record
  <2>4. /\ \A u \in Threads : u # t => th'[u] = th[u]
        /\ th'[t].pc = "held" /\ th'[t].op = th[t].op /\ th'[t].key = th[t].key
        /\ th'[t].hm = th[t].hm
        /\ th'[t].v = th[t].v /\ th'[t].v1 = th[t].v1 /\ th'[t].leaf = th[t].leaf
        /\ th'[t].other = th[t].other
        /\ th'[t].at = th[t].at /\ th'[t].back = th[t].back /\ th'[t].answer = th[t].answer
    BY <2>1, <2>3 DEF Types, Record
  <2>r. Taken(t, th[t].leaf)
    <3>1. th[t].leaf \in Leaves /\ leaf[th[t].leaf].state # "free"
      BY <2>2, NoneApart
       DEF Types, LeafRight, Knows, StatesRight, ListRight, ListOrder, KeysRight, Linked, Seeking,
           HoldsLeaf, NextPlaces
    <3> QED BY <3>1, <2>2, <2>4, LockTaken DEF LocksRight
  <2>5. Types'
    <3>0. th' \in [Threads -> Record]
      BY <2>1, <2>3 DEF Types
    <3> QED BY <3>0, <2>2, <2>4, <2>r DEF Types, Taken, At, Seeking, HoldsLeaf, Changing, NextPlaces,
         Moving
  <2>6. LocksRight'
    BY <2>2, <2>4, <2>r
     DEF Types, Taken, LocksRight, LocksApart, HasLocks, HoldsLeaf, HoldsOther, Meta, Parks, Changing,
         NextPlaces, Moving, Seeking, At
  <2>7. StatesRight'
    <3>1. th[t].leaf \in Linked
      BY <2>2 DEF LeafRight, Knows, Seeking
    <3> QED BY <3>1, <2>2, <2>4 DEF StatesRight, Linked, Splitting, Moving, HoldsLeaf, Changing
  <2>8. Present' = Present
    BY <2>2, <2>4, PresentStays DEF Splitting, Moving
  <2>9. AnswersRight'
    BY <2>2, <2>4 DEF AnswersRight, Changing, NextPlaces, Moving, At
  <2>10. Knows(t)'
    BY <2>2, <2>4
     DEF LeafRight, Knows, Linked, Merging, Splitting, Moving, Seeking, NextPlaces, Changing, InRange,
         At
  <2>11. Quiet(t)'
    BY <2>2, <2>4 DEF Quiescence, Quiet, Seeking, Awaited, Changing, At, Types
  <2>12. Scans(t)'
    BY <2>8, <2>2, <2>4 DEF ScansRight, Scans, NextPlaces, Seeking, At
  <2> QED BY <2>2, <2>4, <2>5, <2>6, <2>7, <2>8, <2>9, <2>10, <2>11, <2>12, OwnStep DEF Merging, Moving,
       Changing
<1>3. CASE CanLock(t, th[t].leaf) /\ ~(leaf[th[t].leaf].lv <= th[t].v)
  <2>1. th' = [th EXCEPT ![t].pc = "load"]
    BY <1>3, SMT DEF LockLeaf, Goto
  <2>2. /\ th[t].pc = "lock"
        /\ UNCHANGED <<leaf, wlock, rlock, table, hv, cur, metalock, qstate, parked, unquiet, must>>
    BY <1>3, SMT DEF LockLeaf, At
  <2>3. [th[t] EXCEPT !.pc = "load"] \in Record
    <3>1. "load" \in Places
      BY <2>2 DEF Types, Places
    <3>2. th[t] \in Record
      BY DEF Types
    <3> QED BY <3>1, <3>2 DEF Record
  <2>4. /\ \A u \in Threads : u # t => th'[u] = th[u]
        /\ th'[t].pc = "load" /\ th'[t].op = th[t].op /\ th'[t].key = th[t].key
        /\ th'[t].hm = th[t].hm
        /\ th'[t].v = th[t].v /\ th'[t].v1 = th[t].v1 /\ th'[t].leaf = th[t].leaf
        /\ th'[t].other = th[t].other
        /\ th'[t].at = th[t].at /\ th'[t].back = th[t].back /\ th'[t].answer = th[t].answer
    BY <2>1, <2>3 DEF Types, Record
  <2>5. Types'
    <3>0. th' \in [Threads -> Record]
      BY <2>1, <2>3 DEF Types
    <3> QED BY <3>0, <2>2, <2>4 DEF Types, At, Seeking, HoldsLeaf, Changing, NextPlaces, Moving
  <2>6. LocksRight'
    BY <2>2, <2>4
     DEF LocksRight, LocksApart, HasLocks, Holds, Writes, HoldsLeaf, HoldsOther, Meta, Parks, Changing
  <2>7. StatesRight'
    BY <2>2, <2>4 DEF StatesRight, Linked, Splitting, Moving, HoldsLeaf, Changing
  <2>8. Present' = Present
    BY <2>2, <2>4, PresentStays DEF Splitting, Moving
  <2>9. AnswersRight'
    BY <2>2, <2>4 DEF AnswersRight, Changing, NextPlaces, Moving, At
  <2>10. Knows(t)'
    BY <2>2, <2>4
     DEF LeafRight, Knows, Linked, Merging, Splitting, Moving, Seeking, NextPlaces, Changing, InRange,
         At
  <2>11. Quiet(t)'
    BY <2>2, <2>4 DEF Quiescence, Quiet, Seeking, Awaited, Changing, At, Types
  <2>12. Scans(t)'
    BY <2>8, <2>2, <2>4 DEF ScansRight, Scans, NextPlaces, Seeking, At
  <2> QED BY <2>2, <2>4, <2>5, <2>6, <2>7, <2>8, <2>9, <2>10, <2>11, <2>12, OwnStep DEF Merging, Moving,
       Changing
<1> QED BY <1>1, <1>2, <1>3

\* The version of the table in use is loaded before the leaf's.
LEMMA SpinVersionKeeps ==
    ASSUME IInv, "back" \notin Ops, NEW t \in Threads, SpinVersion(t)
    PROVE  IInv'
<1> USE DEF IInv
<1>1. th' = [th EXCEPT ![t].pc = "spin_lv", ![t].v1 = hv[cur]]
  BY SMT DEF SpinVersion
<1>2. /\ th[t].pc = "spin_v1"
      /\ UNCHANGED <<leaf, wlock, rlock, table, hv, cur, metalock, qstate, parked, unquiet, must>>
  BY SMT DEF SpinVersion, At, shared
<1>3. [th[t] EXCEPT !.pc = "spin_lv", !.v1 = hv[cur]] \in Record
  <2>1. "spin_lv" \in Places /\ hv[cur] \in Nat
    BY <1>2 DEF Types, Places
  <2>2. th[t] \in Record
    BY DEF Types
  <2> QED BY <2>1, <2>2 DEF Record
<1>4. /\ \A u \in Threads : u # t => th'[u] = th[u]
      /\ th'[t].pc = "spin_lv" /\ th'[t].op = th[t].op /\ th'[t].key = th[t].key
      /\ th'[t].hm = th[t].hm
      /\ th'[t].v = th[t].v /\ th'[t].v1 = hv[cur] /\ th'[t].leaf = th[t].leaf
      /\ th'[t].other = th[t].other
      /\ th'[t].at = th[t].at /\ th'[t].back = th[t].back /\ th'[t].answer = th[t].answer
  BY <1>1, <1>3 DEF Types, Record
<1>5. Types'
  <2>0. th' \in [Threads -> Record]
    BY <1>1, <1>3 DEF Types
  <2> QED BY <2>0, <1>2, <1>4 DEF Types, At, Seeking, HoldsLeaf, Changing, NextPlaces, Moving
<1>6. LocksRight'
  BY <1>2, <1>4
   DEF LocksRight, LocksApart, HasLocks, Holds, Writes, HoldsLeaf, HoldsOther, Meta, Parks, Changing
<1>7. StatesRight'
  BY <1>2, <1>4 DEF StatesRight, Linked, Splitting, Moving, HoldsLeaf, Changing
<1>8. Present' = Present
  BY <1>2, <1>4, PresentStays DEF Splitting, Moving
<1>9. AnswersRight'
  BY <1>2, <1>4 DEF AnswersRight, Changing, NextPlaces, Moving, At
<1>10. Knows(t)'
  BY <1>2, <1>4
   DEF LeafRight, Knows, Linked, Merging, Splitting, Moving, Seeking, NextPlaces, Changing, InRange, At
<1>11. Quiet(t)'
  BY <1>2, <1>4 DEF Quiescence, Quiet, Seeking, Awaited, Changing, At, Types
<1>12. Scans(t)'
  BY <1>8, <1>2, <1>4 DEF ScansRight, Scans, NextPlaces, Seeking, At
<1> QED BY <1>2, <1>4, <1>5, <1>6, <1>7, <1>8, <1>9, <1>10, <1>11, <1>12, OwnStep DEF Merging, Moving,
     Changing

\* The newer version is announced only when the leaf is still the right one.
LEMMA SpinLeafKeeps ==
    ASSUME IInv, "back" \notin Ops, NEW t \in Threads, SpinLeaf(t)
    PROVE  IInv'
<1> USE DEF IInv
<1>a. leaf[th[t].leaf].lv \in Nat /\ th[t].v \in Nat /\ th[t].v1 \in Nat
  BY DEF Types, Record, LeafRecord, SpinLeaf, At, Seeking
<1>1. CASE leaf[th[t].leaf].lv > th[t].v
  <2>1. th' = [th EXCEPT ![t].pc = "load"]
    BY <1>1, SMT DEF SpinLeaf, Goto
  <2>2. /\ th[t].pc = "spin_lv"
        /\ UNCHANGED <<leaf, wlock, rlock, table, hv, cur, metalock, qstate, parked, unquiet, must>>
    BY <1>1, SMT DEF SpinLeaf, At, shared
  <2>3. [th[t] EXCEPT !.pc = "load"] \in Record
    <3>1. "load" \in Places
      BY <2>2 DEF Types, Places
    <3>2. th[t] \in Record
      BY DEF Types
    <3> QED BY <3>1, <3>2 DEF Record
  <2>4. /\ \A u \in Threads : u # t => th'[u] = th[u]
        /\ th'[t].pc = "load" /\ th'[t].op = th[t].op /\ th'[t].key = th[t].key
        /\ th'[t].hm = th[t].hm
        /\ th'[t].v = th[t].v /\ th'[t].v1 = th[t].v1 /\ th'[t].leaf = th[t].leaf
        /\ th'[t].other = th[t].other
        /\ th'[t].at = th[t].at /\ th'[t].back = th[t].back /\ th'[t].answer = th[t].answer
    BY <2>1, <2>3 DEF Types, Record
  <2>5. Types'
    <3>0. th' \in [Threads -> Record]
      BY <2>1, <2>3 DEF Types
    <3> QED BY <3>0, <2>2, <2>4 DEF Types, At, Seeking, HoldsLeaf, Changing, NextPlaces, Moving
  <2>6. LocksRight'
    BY <2>2, <2>4
     DEF LocksRight, LocksApart, HasLocks, Holds, Writes, HoldsLeaf, HoldsOther, Meta, Parks, Changing
  <2>7. StatesRight'
    BY <2>2, <2>4 DEF StatesRight, Linked, Splitting, Moving, HoldsLeaf, Changing
  <2>8. Present' = Present
    BY <2>2, <2>4, PresentStays DEF Splitting, Moving
  <2>9. AnswersRight'
    BY <2>2, <2>4 DEF AnswersRight, Changing, NextPlaces, Moving, At
  <2>10. Knows(t)'
    BY <2>2, <2>4
     DEF LeafRight, Knows, Linked, Merging, Splitting, Moving, Seeking, NextPlaces, Changing, InRange,
         At
  <2>11. Quiet(t)'
    BY <2>2, <2>4 DEF Quiescence, Quiet, Seeking, Awaited, Changing, At, Types
  <2>12. Scans(t)'
    BY <2>8, <2>2, <2>4 DEF ScansRight, Scans, NextPlaces, Seeking, At
  <2> QED BY <2>2, <2>4, <2>5, <2>6, <2>7, <2>8, <2>9, <2>10, <2>11, <2>12, OwnStep DEF Merging, Moving,
       Changing
<1>2. CASE leaf[th[t].leaf].lv <= th[t].v
  <2>1. th' = [th EXCEPT ![t].pc = "lock"]
    BY <1>a, <1>2, SMT DEF SpinLeaf, Goto, Types
  <2>2. /\ th[t].pc = "spin_lv" /\ leaf[th[t].leaf].lv <= th[t].v /\ th[t].v1 \in Nat
        /\ UNCHANGED <<leaf, wlock, rlock, table, hv, cur, metalock, parked, unquiet, must>>
        /\ qstate' \in [Threads -> Nat] /\ qstate'[t] = th[t].v1
        /\ \A u \in Threads : u # t => qstate'[u] = qstate[u]
    BY <1>a, <1>2, SMT DEF SpinLeaf, At, shared, Types
  <2>3. [th[t] EXCEPT !.pc = "lock"] \in Record
    <3>1. "lock" \in Places
      BY <2>2 DEF Types, Places
    <3>2. th[t] \in Record
      BY DEF Types
    <3> QED BY <3>1, <3>2 DEF Record
  <2>4. /\ \A u \in Threads : u # t => th'[u] = th[u]
        /\ th'[t].pc = "lock" /\ th'[t].op = th[t].op /\ th'[t].key = th[t].key
        /\ th'[t].hm = th[t].hm
        /\ th'[t].v = th[t].v /\ th'[t].v1 = th[t].v1 /\ th'[t].leaf = th[t].leaf
        /\ th'[t].other = th[t].other
        /\ th'[t].at = th[t].at /\ th'[t].back = th[t].back /\ th'[t].answer = th[t].answer
    BY <2>1, <2>3 DEF Types, Record
  <2>5. Types'
    <3>0. th' \in [Threads -> Record]
      BY <2>1, <2>3 DEF Types
    <3> QED BY <3>0, <2>2, <2>4 DEF Types, At, Seeking, HoldsLeaf, Changing, NextPlaces, Moving
  <2>6. LocksRight'
    BY <2>2, <2>4
     DEF LocksRight, LocksApart, HasLocks, Holds, Writes, HoldsLeaf, HoldsOther, Meta, Parks, Changing
  <2>7. StatesRight'
    BY <2>2, <2>4 DEF StatesRight, Linked, Splitting, Moving, HoldsLeaf, Changing
  <2>8. Present' = Present
    BY <2>2, <2>4, PresentStays DEF Splitting, Moving
  <2>9. AnswersRight'
    BY <2>2, <2>4 DEF AnswersRight, Changing, NextPlaces, Moving, At
  <2>10. Knows(t)'
    BY <2>2, <2>4
     DEF LeafRight, Knows, Linked, Merging, Splitting, Moving, Seeking, NextPlaces, Changing, InRange,
         At
  <2>11. Quiet(t)'
    BY <2>2, <2>4 DEF Quiescence, Quiet, Seeking, LeafRight, Knows, Linked, At
  <2>12. Scans(t)'
    BY <2>8, <2>2, <2>4 DEF ScansRight, Scans, NextPlaces, Seeking, At
  <2> QED BY <2>2, <2>4, <2>5, <2>6, <2>7, <2>8, <2>9, <2>10, <2>11, <2>12, OwnStep DEF Merging, Moving,
       Changing
<1> QED BY <1>1, <1>2, <1>a

\* The neighbour's lock is taken, or the thread parks: nobody waits for its
\* announcement then.
LEMMA NextLockKeeps ==
    ASSUME IInv, "back" \notin Ops, NEW t \in Threads, NextLock(t)
    PROVE  IInv'
<1> USE DEF IInv
<1>1. CASE CanLock(t, th[t].other)
  <2>1. th' = [th EXCEPT ![t].pc = "both"]
    BY <1>1, SMT DEF NextLock, Goto
  <2>2. /\ th[t].pc = "next"
        /\ UNCHANGED <<leaf, table, hv, cur, metalock, qstate, parked, unquiet, must>>
        /\ Lock(t, th[t].other)
        /\ CanLock(t, th[t].other)
    BY <1>1, SMT DEF NextLock, At
  <2>3. [th[t] EXCEPT !.pc = "both"] \in Record
    <3>1. "both" \in Places
      BY <2>2 DEF Types, Places
    <3>2. th[t] \in Record
      BY DEF Types
    <3> QED BY <3>1, <3>2 DEF Record
  <2>4. /\ \A u \in Threads : u # t => th'[u] = th[u]
        /\ th'[t].pc = "both" /\ th'[t].op = th[t].op /\ th'[t].key = th[t].key
        /\ th'[t].hm = th[t].hm
        /\ th'[t].v = th[t].v /\ th'[t].v1 = th[t].v1 /\ th'[t].leaf = th[t].leaf
        /\ th'[t].other = th[t].other
        /\ th'[t].at = th[t].at /\ th'[t].back = th[t].back /\ th'[t].answer = th[t].answer
    BY <2>1, <2>3 DEF Types, Record
  <2>r. Taken(t, th[t].other)
    <3>1. th[t].other \in Leaves /\ leaf[th[t].other].state # "free"
      BY <2>2, NoneApart
       DEF Types, LeafRight, Knows, StatesRight, ListRight, ListOrder, KeysRight, Linked, Seeking,
           HoldsLeaf, NextPlaces
    <3> QED BY <3>1, <2>2, <2>4, LockTaken DEF LocksRight
  <2>5. Types'
    <3>0. th' \in [Threads -> Record]
      BY <2>1, <2>3 DEF Types
    <3> QED BY <3>0, <2>2, <2>4, <2>r DEF Types, Taken, At, Seeking, HoldsLeaf, Changing, NextPlaces,
         Moving
  <2>6. LocksRight'
    BY <2>2, <2>4, <2>r
     DEF Types, Taken, LocksRight, LocksApart, HasLocks, HoldsLeaf, HoldsOther, Meta, Parks, Changing,
         NextPlaces, Moving, Seeking, At
  <2>7. StatesRight'
    BY <2>2, <2>4 DEF StatesRight, Linked, Splitting, Moving, HoldsLeaf, Changing
  <2>8. Present' = Present
    BY <2>2, <2>4, PresentStays DEF Splitting, Moving
  <2>9. AnswersRight'
    BY <2>2, <2>4 DEF AnswersRight, Changing, NextPlaces, Moving, At
  <2>10. Knows(t)'
    BY <2>2, <2>4
     DEF LeafRight, Knows, Linked, Merging, Splitting, Moving, Seeking, NextPlaces, Changing, InRange,
         At
  <2>11. Quiet(t)'
    BY <2>2, <2>4 DEF Quiescence, Quiet, Seeking, Awaited, Changing, At, Types
  <2>12. Scans(t)'
    BY <2>8, <2>2, <2>4 DEF ScansRight, Scans, NextPlaces, Seeking, At
  <2> QED BY <2>2, <2>4, <2>5, <2>6, <2>7, <2>8, <2>9, <2>10, <2>11, <2>12, OwnStep DEF Merging, Moving,
       Changing
<1>2. CASE ~CanLock(t, th[t].other)
  <2>1. th' = [th EXCEPT ![t].pc = "next_wait"]
    BY <1>2, SMT DEF NextLock, Goto
  <2>2. /\ th[t].pc = "next"
        /\ UNCHANGED <<leaf, wlock, rlock, table, hv, cur, metalock, qstate, unquiet, must>>
        /\ parked' = parked \cup {t}
    BY <1>2, SMT DEF NextLock, At
  <2>3. [th[t] EXCEPT !.pc = "next_wait"] \in Record
    <3>1. "next_wait" \in Places
      BY <2>2 DEF Types, Places
    <3>2. th[t] \in Record
      BY DEF Types
    <3> QED BY <3>1, <3>2 DEF Record
  <2>4. /\ \A u \in Threads : u # t => th'[u] = th[u]
        /\ th'[t].pc = "next_wait" /\ th'[t].op = th[t].op /\ th'[t].key = th[t].key
        /\ th'[t].hm = th[t].hm
        /\ th'[t].v = th[t].v /\ th'[t].v1 = th[t].v1 /\ th'[t].leaf = th[t].leaf
        /\ th'[t].other = th[t].other
        /\ th'[t].at = th[t].at /\ th'[t].back = th[t].back /\ th'[t].answer = th[t].answer
    BY <2>1, <2>3 DEF Types, Record
  <2>5. Types'
    <3>0. th' \in [Threads -> Record]
      BY <2>1, <2>3 DEF Types
    <3> QED BY <3>0, <2>2, <2>4 DEF Types, At, Seeking, HoldsLeaf, Changing, NextPlaces, Moving
  <2>6. LocksRight'
    BY <2>2, <2>4
     DEF LocksRight, LocksApart, HasLocks, Holds, Writes, HoldsLeaf, HoldsOther, Meta, Parks, Changing
  <2>7. StatesRight'
    BY <2>2, <2>4 DEF StatesRight, Linked, Splitting, Moving, HoldsLeaf, Changing
  <2>8. Present' = Present
    BY <2>2, <2>4, PresentStays DEF Splitting, Moving
  <2>9. AnswersRight'
    BY <2>2, <2>4 DEF AnswersRight, Changing, NextPlaces, Moving, At
  <2>10. Knows(t)'
    BY <2>2, <2>4
     DEF LeafRight, Knows, Linked, Merging, Splitting, Moving, Seeking, NextPlaces, Changing, InRange,
         At
  <2>11. Quiet(t)'
    BY <2>2, <2>4 DEF Quiescence, Quiet, Seeking, Awaited, Changing, At, Types
  <2>12. Scans(t)'
    BY <2>8, <2>2, <2>4 DEF ScansRight, Scans, NextPlaces, Seeking, At
  <2> QED BY <2>2, <2>4, <2>5, <2>6, <2>7, <2>8, <2>9, <2>10, <2>11, <2>12, OwnStep DEF Merging, Moving,
       Changing
<1> QED BY <1>1, <1>2

\* A parked thread that holds its leaf takes the neighbour's lock.
LEMMA NextWaitKeeps ==
    ASSUME IInv, "back" \notin Ops, NEW t \in Threads, NextWait(t)
    PROVE  IInv'
<1> USE DEF IInv
<1>1. th' = [th EXCEPT ![t].pc = "next_resume"]
  BY SMT DEF NextWait, Goto
<1>2. /\ th[t].pc = "next_wait"
      /\ UNCHANGED <<leaf, table, hv, cur, metalock, qstate, parked, unquiet, must>>
      /\ Lock(t, th[t].other)
      /\ CanLock(t, th[t].other)
  BY SMT DEF NextWait, At
<1>3. [th[t] EXCEPT !.pc = "next_resume"] \in Record
  <2>1. "next_resume" \in Places
    BY <1>2 DEF Types, Places
  <2>2. th[t] \in Record
    BY DEF Types
  <2> QED BY <2>1, <2>2 DEF Record
<1>4. /\ \A u \in Threads : u # t => th'[u] = th[u]
      /\ th'[t].pc = "next_resume" /\ th'[t].op = th[t].op /\ th'[t].key = th[t].key
      /\ th'[t].hm = th[t].hm
      /\ th'[t].v = th[t].v /\ th'[t].v1 = th[t].v1 /\ th'[t].leaf = th[t].leaf
      /\ th'[t].other = th[t].other
      /\ th'[t].at = th[t].at /\ th'[t].back = th[t].back /\ th'[t].answer = th[t].answer
  BY <1>1, <1>3 DEF Types, Record
<1>r. Taken(t, th[t].other)
  <2>1. th[t].other \in Leaves /\ leaf[th[t].other].state # "free"
    BY <1>2, NoneApart
     DEF Types, LeafRight, Knows, StatesRight, ListRight, ListOrder, KeysRight, Linked, Seeking,
         HoldsLeaf, NextPlaces
  <2> QED BY <2>1, <1>2, <1>4, LockTaken DEF LocksRight
<1>5. Types'
  <2>0. th' \in [Threads -> Record]
    BY <1>1, <1>3 DEF Types
  <2> QED BY <2>0, <1>2, <1>4, <1>r DEF Types, Taken, At, Seeking, HoldsLeaf, Changing, NextPlaces,
       Moving
<1>6. LocksRight'
  BY <1>2, <1>4, <1>r
   DEF Types, Taken, LocksRight, LocksApart, HasLocks, HoldsLeaf, HoldsOther, Meta, Parks, Changing,
       NextPlaces, Moving, Seeking, At
<1>7. StatesRight'
  BY <1>2, <1>4 DEF StatesRight, Linked, Splitting, Moving, HoldsLeaf, Changing
<1>8. Present' = Present
  BY <1>2, <1>4, PresentStays DEF Splitting, Moving
<1>9. AnswersRight'
  BY <1>2, <1>4 DEF AnswersRight, Changing, NextPlaces, Moving, At
<1>10. Knows(t)'
  BY <1>2, <1>4
   DEF LeafRight, Knows, Linked, Merging, Splitting, Moving, Seeking, NextPlaces, Changing, InRange, At
<1>11. Quiet(t)'
  BY <1>2, <1>4 DEF Quiescence, Quiet, Seeking, Awaited, Changing, At, Types
<1>12. Scans(t)'
  BY <1>8, <1>2, <1>4 DEF ScansRight, Scans, NextPlaces, Seeking, At
<1> QED BY <1>2, <1>4, <1>5, <1>6, <1>7, <1>8, <1>9, <1>10, <1>11, <1>12, OwnStep DEF Merging, Moving,
     Changing

\* It resumes with both leaves, which nobody could change meanwhile.
LEMMA NextResumeKeeps ==
    ASSUME IInv, "back" \notin Ops, NEW t \in Threads, NextResume(t)
    PROVE  IInv'
<1> USE DEF IInv
<1>1. th' = [th EXCEPT ![t].pc = "both"]
  BY SMT DEF NextResume, Goto
<1>2. /\ th[t].pc = "next_resume"
      /\ UNCHANGED <<leaf, wlock, rlock, table, hv, cur, metalock, qstate, unquiet, must>>
      /\ parked' = parked \ {t}
  BY SMT DEF NextResume, At, shared
<1>3. [th[t] EXCEPT !.pc = "both"] \in Record
  <2>1. "both" \in Places
    BY <1>2 DEF Types, Places
  <2>2. th[t] \in Record
    BY DEF Types
  <2> QED BY <2>1, <2>2 DEF Record
<1>4. /\ \A u \in Threads : u # t => th'[u] = th[u]
      /\ th'[t].pc = "both" /\ th'[t].op = th[t].op /\ th'[t].key = th[t].key
      /\ th'[t].hm = th[t].hm
      /\ th'[t].v = th[t].v /\ th'[t].v1 = th[t].v1 /\ th'[t].leaf = th[t].leaf
      /\ th'[t].other = th[t].other
      /\ th'[t].at = th[t].at /\ th'[t].back = th[t].back /\ th'[t].answer = th[t].answer
  BY <1>1, <1>3 DEF Types, Record
<1>5. Types'
  <2>0. th' \in [Threads -> Record]
    BY <1>1, <1>3 DEF Types
  <2> QED BY <2>0, <1>2, <1>4 DEF Types, At, Seeking, HoldsLeaf, Changing, NextPlaces, Moving
<1>6. LocksRight'
  BY <1>2, <1>4
   DEF LocksRight, LocksApart, HasLocks, Holds, Writes, HoldsLeaf, HoldsOther, Meta, Parks, Changing
<1>7. StatesRight'
  BY <1>2, <1>4 DEF StatesRight, Linked, Splitting, Moving, HoldsLeaf, Changing
<1>8. Present' = Present
  BY <1>2, <1>4, PresentStays DEF Splitting, Moving
<1>9. AnswersRight'
  BY <1>2, <1>4 DEF AnswersRight, Changing, NextPlaces, Moving, At
<1>10. Knows(t)'
  BY <1>2, <1>4
   DEF LeafRight, Knows, Linked, Merging, Splitting, Moving, Seeking, NextPlaces, Changing, InRange, At
<1>11. Quiet(t)'
  BY <1>2, <1>4 DEF Quiescence, Quiet, Seeking, Awaited, Changing, At, Types
<1>12. Scans(t)'
  BY <1>8, <1>2, <1>4 DEF ScansRight, Scans, NextPlaces, Seeking, At
<1> QED BY <1>2, <1>4, <1>5, <1>6, <1>7, <1>8, <1>9, <1>10, <1>11, <1>12, OwnStep DEF Merging, Moving,
     Changing

\* The lock of the tables is taken, or the thread parks with its two leaves.
LEMMA MetaLockKeeps ==
    ASSUME IInv, "back" \notin Ops, NEW t \in Threads, MetaLock(t)
    PROVE  IInv'
<1> USE DEF IInv
<1>1. CASE metalock = None
  <2>1. th' = [th EXCEPT ![t].pc = "link"]
    BY <1>1, SMT DEF MetaLock, Goto
  <2>2. /\ th[t].pc = "meta" /\ metalock = None
        /\ UNCHANGED <<leaf, wlock, rlock, table, hv, cur, qstate, parked, unquiet, must>>
        /\ metalock' = t
    BY <1>1, SMT DEF MetaLock, At
  <2>3. [th[t] EXCEPT !.pc = "link"] \in Record
    <3>1. "link" \in Places
      BY <2>2 DEF Types, Places
    <3>2. th[t] \in Record
      BY DEF Types
    <3> QED BY <3>1, <3>2 DEF Record
  <2>4. /\ \A u \in Threads : u # t => th'[u] = th[u]
        /\ th'[t].pc = "link" /\ th'[t].op = th[t].op /\ th'[t].key = th[t].key
        /\ th'[t].hm = th[t].hm
        /\ th'[t].v = th[t].v /\ th'[t].v1 = th[t].v1 /\ th'[t].leaf = th[t].leaf
        /\ th'[t].other = th[t].other
        /\ th'[t].at = th[t].at /\ th'[t].back = th[t].back /\ th'[t].answer = th[t].answer
    BY <2>1, <2>3 DEF Types, Record
  <2>5. Types'
    <3>0. th' \in [Threads -> Record]
      BY <2>1, <2>3 DEF Types
    <3> QED BY <3>0, <2>2, <2>4 DEF Types, At, Seeking, HoldsLeaf, Changing, NextPlaces, Moving
  <2>6. LocksRight'
    BY <2>2, <2>4, NoneApart
     DEF LocksRight, LocksApart, HasLocks, Holds, Writes, HoldsLeaf, HoldsOther, Meta, Parks, Changing
  <2>7. StatesRight'
    BY <2>2, <2>4 DEF StatesRight, Linked, Splitting, Moving, HoldsLeaf, Changing
  <2>8. Present' = Present
    BY <2>2, <2>4, PresentStays DEF Splitting, Moving
  <2>9. AnswersRight'
    BY <2>2, <2>4 DEF AnswersRight, Changing, NextPlaces, Moving, At
  <2>10. Knows(t)'
    BY <2>2, <2>4
     DEF LeafRight, Knows, Linked, Merging, Splitting, Moving, Seeking, NextPlaces, Changing, InRange,
         At
  <2>11. Quiet(t)'
    BY <2>2, <2>4 DEF Quiescence, Quiet, Seeking, Awaited, Changing, At, Types
  <2>12. Scans(t)'
    BY <2>8, <2>2, <2>4 DEF ScansRight, Scans, NextPlaces, Seeking, At
  <2> QED BY <2>2, <2>4, <2>5, <2>6, <2>7, <2>8, <2>9, <2>10, <2>11, <2>12, OwnStep DEF Merging, Moving,
       Changing
<1>2. CASE metalock # None
  <2>1. th' = [th EXCEPT ![t].pc = "meta_wait"]
    BY <1>2, SMT DEF MetaLock, Goto
  <2>2. /\ th[t].pc = "meta" /\ metalock # None
        /\ UNCHANGED <<leaf, wlock, rlock, table, hv, cur, metalock, qstate, unquiet, must>>
        /\ parked' = parked \cup {t}
    BY <1>2, SMT DEF MetaLock, At
  <2>3. [th[t] EXCEPT !.pc = "meta_wait"] \in Record
    <3>1. "meta_wait" \in Places
      BY <2>2 DEF Types, Places
    <3>2. th[t] \in Record
      BY DEF Types
    <3> QED BY <3>1, <3>2 DEF Record
  <2>4. /\ \A u \in Threads : u # t => th'[u] = th[u]
        /\ th'[t].pc = "meta_wait" /\ th'[t].op = th[t].op /\ th'[t].key = th[t].key
        /\ th'[t].hm = th[t].hm
        /\ th'[t].v = th[t].v /\ th'[t].v1 = th[t].v1 /\ th'[t].leaf = th[t].leaf
        /\ th'[t].other = th[t].other
        /\ th'[t].at = th[t].at /\ th'[t].back = th[t].back /\ th'[t].answer = th[t].answer
    BY <2>1, <2>3 DEF Types, Record
  <2>5. Types'
    <3>0. th' \in [Threads -> Record]
      BY <2>1, <2>3 DEF Types
    <3> QED BY <3>0, <2>2, <2>4 DEF Types, At, Seeking, HoldsLeaf, Changing, NextPlaces, Moving
  <2>6. LocksRight'
    BY <2>2, <2>4
     DEF LocksRight, LocksApart, HasLocks, Holds, Writes, HoldsLeaf, HoldsOther, Meta, Parks, Changing
  <2>7. StatesRight'
    BY <2>2, <2>4 DEF StatesRight, Linked, Splitting, Moving, HoldsLeaf, Changing
  <2>8. Present' = Present
    BY <2>2, <2>4, PresentStays DEF Splitting, Moving
  <2>9. AnswersRight'
    BY <2>2, <2>4 DEF AnswersRight, Changing, NextPlaces, Moving, At
  <2>10. Knows(t)'
    BY <2>2, <2>4
     DEF LeafRight, Knows, Linked, Merging, Splitting, Moving, Seeking, NextPlaces, Changing, InRange,
         At
  <2>11. Quiet(t)'
    BY <2>2, <2>4 DEF Quiescence, Quiet, Seeking, Awaited, Changing, At, Types
  <2>12. Scans(t)'
    BY <2>8, <2>2, <2>4 DEF ScansRight, Scans, NextPlaces, Seeking, At
  <2> QED BY <2>2, <2>4, <2>5, <2>6, <2>7, <2>8, <2>9, <2>10, <2>11, <2>12, OwnStep DEF Merging, Moving,
       Changing
<1> QED BY <1>1, <1>2

\* Only one thread has the lock of the tables.
LEMMA MetaWaitKeeps ==
    ASSUME IInv, "back" \notin Ops, NEW t \in Threads, MetaWait(t)
    PROVE  IInv'
<1> USE DEF IInv
<1>1. th' = [th EXCEPT ![t].pc = "meta_resume"]
  BY SMT DEF MetaWait, Goto
<1>2. /\ th[t].pc = "meta_wait" /\ metalock = None
      /\ UNCHANGED <<leaf, wlock, rlock, table, hv, cur, qstate, parked, unquiet, must>>
      /\ metalock' = t
  BY SMT DEF MetaWait, At
<1>3. [th[t] EXCEPT !.pc = "meta_resume"] \in Record
  <2>1. "meta_resume" \in Places
    BY <1>2 DEF Types, Places
  <2>2. th[t] \in Record
    BY DEF Types
  <2> QED BY <2>1, <2>2 DEF Record
<1>4. /\ \A u \in Threads : u # t => th'[u] = th[u]
      /\ th'[t].pc = "meta_resume" /\ th'[t].op = th[t].op /\ th'[t].key = th[t].key
      /\ th'[t].hm = th[t].hm
      /\ th'[t].v = th[t].v /\ th'[t].v1 = th[t].v1 /\ th'[t].leaf = th[t].leaf
      /\ th'[t].other = th[t].other
      /\ th'[t].at = th[t].at /\ th'[t].back = th[t].back /\ th'[t].answer = th[t].answer
  BY <1>1, <1>3 DEF Types, Record
<1>5. Types'
  <2>0. th' \in [Threads -> Record]
    BY <1>1, <1>3 DEF Types
  <2> QED BY <2>0, <1>2, <1>4 DEF Types, At, Seeking, HoldsLeaf, Changing, NextPlaces, Moving
<1>6. LocksRight'
  BY <1>2, <1>4, NoneApart
   DEF LocksRight, LocksApart, HasLocks, Holds, Writes, HoldsLeaf, HoldsOther, Meta, Parks, Changing
<1>7. StatesRight'
  BY <1>2, <1>4 DEF StatesRight, Linked, Splitting, Moving, HoldsLeaf, Changing
<1>8. Present' = Present
  BY <1>2, <1>4, PresentStays DEF Splitting, Moving
<1>9. AnswersRight'
  BY <1>2, <1>4 DEF AnswersRight, Changing, NextPlaces, Moving, At
<1>10. Knows(t)'
  BY <1>2, <1>4
   DEF LeafRight, Knows, Linked, Merging, Splitting, Moving, Seeking, NextPlaces, Changing, InRange, At
<1>11. Quiet(t)'
  BY <1>2, <1>4 DEF Quiescence, Quiet, Seeking, Awaited, Changing, At, Types
<1>12. Scans(t)'
  BY <1>8, <1>2, <1>4 DEF ScansRight, Scans, NextPlaces, Seeking, At
<1> QED BY <1>2, <1>4, <1>5, <1>6, <1>7, <1>8, <1>9, <1>10, <1>11, <1>12, OwnStep DEF Merging, Moving,
     Changing

\* The thread resumes with the lock.
LEMMA MetaResumeKeeps ==
    ASSUME IInv, "back" \notin Ops, NEW t \in Threads, MetaResume(t)
    PROVE  IInv'
<1> USE DEF IInv
<1>1. th' = [th EXCEPT ![t].pc = "link"]
  BY SMT DEF MetaResume, Goto
<1>2. /\ th[t].pc = "meta_resume"
      /\ UNCHANGED <<leaf, wlock, rlock, table, hv, cur, metalock, qstate, unquiet, must>>
      /\ parked' = parked \ {t}
  BY SMT DEF MetaResume, At, shared
<1>3. [th[t] EXCEPT !.pc = "link"] \in Record
  <2>1. "link" \in Places
    BY <1>2 DEF Types, Places
  <2>2. th[t] \in Record
    BY DEF Types
  <2> QED BY <2>1, <2>2 DEF Record
<1>4. /\ \A u \in Threads : u # t => th'[u] = th[u]
      /\ th'[t].pc = "link" /\ th'[t].op = th[t].op /\ th'[t].key = th[t].key
      /\ th'[t].hm = th[t].hm
      /\ th'[t].v = th[t].v /\ th'[t].v1 = th[t].v1 /\ th'[t].leaf = th[t].leaf
      /\ th'[t].other = th[t].other
      /\ th'[t].at = th[t].at /\ th'[t].back = th[t].back /\ th'[t].answer = th[t].answer
  BY <1>1, <1>3 DEF Types, Record
<1>5. Types'
  <2>0. th' \in [Threads -> Record]
    BY <1>1, <1>3 DEF Types
  <2> QED BY <2>0, <1>2, <1>4 DEF Types, At, Seeking, HoldsLeaf, Changing, NextPlaces, Moving
<1>6. LocksRight'
  BY <1>2, <1>4
   DEF LocksRight, LocksApart, HasLocks, Holds, Writes, HoldsLeaf, HoldsOther, Meta, Parks, Changing
<1>7. StatesRight'
  BY <1>2, <1>4 DEF StatesRight, Linked, Splitting, Moving, HoldsLeaf, Changing
<1>8. Present' = Present
  BY <1>2, <1>4, PresentStays DEF Splitting, Moving
<1>9. AnswersRight'
  BY <1>2, <1>4 DEF AnswersRight, Changing, NextPlaces, Moving, At
<1>10. Knows(t)'
  BY <1>2, <1>4
   DEF LeafRight, Knows, Linked, Merging, Splitting, Moving, Seeking, NextPlaces, Changing, InRange, At
<1>11. Quiet(t)'
  BY <1>2, <1>4 DEF Quiescence, Quiet, Seeking, Awaited, Changing, At, Types
<1>12. Scans(t)'
  BY <1>8, <1>2, <1>4 DEF ScansRight, Scans, NextPlaces, Seeking, At
<1> QED BY <1>2, <1>4, <1>5, <1>6, <1>7, <1>8, <1>9, <1>10, <1>11, <1>12, OwnStep DEF Merging, Moving,
     Changing

\* wormhole_get, wormhole_inpw: nothing changes but the thread, which parks.
LEMMA GetKeeps ==
    ASSUME IInv, "back" \notin Ops, NEW t \in Threads, Get(t)
    PROVE  IInv'
<1> USE DEF IInv
<1>1. th' = [th EXCEPT ![t] = [Idle EXCEPT !.answer = (th[t].key \in leaf[th[t].leaf].keys)]]
  BY SMT DEF Get, Return, Keeps
<1>2. /\ th[t].pc = "held" /\ th[t].op \in {"get", "inpw"}
      /\ UNCHANGED <<leaf, table, hv, cur, metalock, qstate, unquiet, must>>
      /\ Unlock(t, {th[t].leaf})
      /\ parked' = parked \cup {t}
  BY SMT DEF Get, At, Keeps, Return, Unlock
<1>3. [Idle EXCEPT !.answer = (th[t].key \in leaf[th[t].leaf].keys)] \in Record
  <2>1. (th[t].key \in leaf[th[t].leaf].keys) \in BOOLEAN \cup {None}
    OBVIOUS
  <2> QED BY <2>1, IdleRecord
<1>4. /\ \A u \in Threads : u # t => th'[u] = th[u]
      /\ th'[t].pc = "idle" /\ th'[t].op = None /\ th'[t].key = None /\ th'[t].hm = 0
      /\ th'[t].v = 0 /\ th'[t].v1 = 0 /\ th'[t].leaf = None /\ th'[t].other = None
      /\ th'[t].at = None /\ th'[t].back = FALSE
      /\ th'[t].answer = (th[t].key \in leaf[th[t].leaf].keys)
  BY <1>1, <1>3 DEF Types, Record, Idle
<1>r. Released(t, {th[t].leaf})
  BY <1>2, <1>4, LocksReleased DEF LocksRight
<1>5. Types'
  <2>0. th' \in [Threads -> Record]
    BY <1>1, <1>3 DEF Types
  <2> QED BY <2>0, <1>2, <1>4, <1>r DEF Types, Released, At, Seeking, HoldsLeaf, Changing, NextPlaces,
       Moving
<1>6. LocksRight'
  BY <1>2, <1>4, <1>r
   DEF Types, Released, LocksRight, LocksApart, HasLocks, HoldsLeaf, HoldsOther, Meta, Parks, Changing,
       NextPlaces, Moving, Seeking, At
<1>7. StatesRight'
  BY <1>2, <1>4 DEF StatesRight, Linked, Splitting, Moving, HoldsLeaf, Changing
<1>8. Present' = Present
  BY <1>2, <1>4, PresentStays DEF Splitting, Moving
<1>9. AnswersRight'
  BY <1>2, <1>4 DEF AnswersRight, Changing, NextPlaces, Moving, At
<1>10. Knows(t)'
  BY <1>2, <1>4
   DEF LeafRight, Knows, Linked, Merging, Splitting, Moving, Seeking, NextPlaces, Changing, InRange, At
<1>11. Quiet(t)'
  BY <1>2, <1>4 DEF Quiescence, Quiet, Seeking, Awaited, Changing, At, Types
<1>12. Scans(t)'
  BY <1>8, <1>2, <1>4 DEF ScansRight, Scans, NextPlaces, Seeking, At
<1> QED BY <1>2, <1>4, <1>5, <1>6, <1>7, <1>8, <1>9, <1>10, <1>11, <1>12, OwnStep DEF Merging, Moving,
     Changing

\* An insertion without memory leaves no trace.
LEMMA PutFailsKeeps ==
    ASSUME IInv, "back" \notin Ops, NEW t \in Threads, PutFails(t)
    PROVE  IInv'
<1> USE DEF IInv
<1>1. th' = [th EXCEPT ![t] = [Idle EXCEPT !.answer = FALSE]]
  BY SMT DEF PutFails, Return, Keeps
<1>2. /\ th[t].pc = "held" /\ th[t].op = "put"
      /\ UNCHANGED <<leaf, table, hv, cur, metalock, qstate, unquiet, must>>
      /\ Unlock(t, {th[t].leaf})
      /\ parked' = parked \cup {t}
  BY SMT DEF PutFails, At, Keeps, Return, Unlock
<1>3. [Idle EXCEPT !.answer = FALSE] \in Record
  <2>1. FALSE \in BOOLEAN \cup {None}
    OBVIOUS
  <2> QED BY <2>1, IdleRecord
<1>4. /\ \A u \in Threads : u # t => th'[u] = th[u]
      /\ th'[t].pc = "idle" /\ th'[t].op = None /\ th'[t].key = None /\ th'[t].hm = 0
      /\ th'[t].v = 0 /\ th'[t].v1 = 0 /\ th'[t].leaf = None /\ th'[t].other = None
      /\ th'[t].at = None /\ th'[t].back = FALSE /\ th'[t].answer = FALSE
  BY <1>1, <1>3 DEF Types, Record, Idle
<1>r. Released(t, {th[t].leaf})
  BY <1>2, <1>4, LocksReleased DEF LocksRight
<1>5. Types'
  <2>0. th' \in [Threads -> Record]
    BY <1>1, <1>3 DEF Types
  <2> QED BY <2>0, <1>2, <1>4, <1>r DEF Types, Released, At, Seeking, HoldsLeaf, Changing, NextPlaces,
       Moving
<1>6. LocksRight'
  BY <1>2, <1>4, <1>r
   DEF Types, Released, LocksRight, LocksApart, HasLocks, HoldsLeaf, HoldsOther, Meta, Parks, Changing,
       NextPlaces, Moving, Seeking, At
<1>7. StatesRight'
  BY <1>2, <1>4 DEF StatesRight, Linked, Splitting, Moving, HoldsLeaf, Changing
<1>8. Present' = Present
  BY <1>2, <1>4, PresentStays DEF Splitting, Moving
<1>9. AnswersRight'
  BY <1>2, <1>4 DEF AnswersRight, Changing, NextPlaces, Moving, At
<1>10. Knows(t)'
  BY <1>2, <1>4
   DEF LeafRight, Knows, Linked, Merging, Splitting, Moving, Seeking, NextPlaces, Changing, InRange, At
<1>11. Quiet(t)'
  BY <1>2, <1>4 DEF Quiescence, Quiet, Seeking, Awaited, Changing, At, Types
<1>12. Scans(t)'
  BY <1>8, <1>2, <1>4 DEF ScansRight, Scans, NextPlaces, Seeking, At
<1> QED BY <1>2, <1>4, <1>5, <1>6, <1>7, <1>8, <1>9, <1>10, <1>11, <1>12, OwnStep DEF Merging, Moving,
     Changing

\* Nor does a deletion that finds nothing.
LEMMA DelNothingKeeps ==
    ASSUME IInv, "back" \notin Ops, NEW t \in Threads, DelNothing(t)
    PROVE  IInv'
<1> USE DEF IInv
<1>1. th' = [th EXCEPT ![t] = [Idle EXCEPT !.answer = FALSE]]
  BY SMT DEF DelNothing, Return, Keeps
<1>2. /\ th[t].pc = "held" /\ th[t].op = "del"
      /\ UNCHANGED <<leaf, table, hv, cur, metalock, qstate, unquiet, must>>
      /\ Unlock(t, {th[t].leaf})
      /\ parked' = parked \cup {t}
  BY SMT DEF DelNothing, At, Keeps, Return, Unlock
<1>3. [Idle EXCEPT !.answer = FALSE] \in Record
  <2>1. FALSE \in BOOLEAN \cup {None}
    OBVIOUS
  <2> QED BY <2>1, IdleRecord
<1>4. /\ \A u \in Threads : u # t => th'[u] = th[u]
      /\ th'[t].pc = "idle" /\ th'[t].op = None /\ th'[t].key = None /\ th'[t].hm = 0
      /\ th'[t].v = 0 /\ th'[t].v1 = 0 /\ th'[t].leaf = None /\ th'[t].other = None
      /\ th'[t].at = None /\ th'[t].back = FALSE /\ th'[t].answer = FALSE
  BY <1>1, <1>3 DEF Types, Record, Idle
<1>r. Released(t, {th[t].leaf})
  BY <1>2, <1>4, LocksReleased DEF LocksRight
<1>5. Types'
  <2>0. th' \in [Threads -> Record]
    BY <1>1, <1>3 DEF Types
  <2> QED BY <2>0, <1>2, <1>4, <1>r DEF Types, Released, At, Seeking, HoldsLeaf, Changing, NextPlaces,
       Moving
<1>6. LocksRight'
  BY <1>2, <1>4, <1>r
   DEF Types, Released, LocksRight, LocksApart, HasLocks, HoldsLeaf, HoldsOther, Meta, Parks, Changing,
       NextPlaces, Moving, Seeking, At
<1>7. StatesRight'
  BY <1>2, <1>4 DEF StatesRight, Linked, Splitting, Moving, HoldsLeaf, Changing
<1>8. Present' = Present
  BY <1>2, <1>4, PresentStays DEF Splitting, Moving
<1>9. AnswersRight'
  BY <1>2, <1>4 DEF AnswersRight, Changing, NextPlaces, Moving, At
<1>10. Knows(t)'
  BY <1>2, <1>4
   DEF LeafRight, Knows, Linked, Merging, Splitting, Moving, Seeking, NextPlaces, Changing, InRange, At
<1>11. Quiet(t)'
  BY <1>2, <1>4 DEF Quiescence, Quiet, Seeking, Awaited, Changing, At, Types
<1>12. Scans(t)'
  BY <1>8, <1>2, <1>4 DEF ScansRight, Scans, NextPlaces, Seeking, At
<1> QED BY <1>2, <1>4, <1>5, <1>6, <1>7, <1>8, <1>9, <1>10, <1>11, <1>12, OwnStep DEF Merging, Moving,
     Changing

\* wormhole_iter_seek: no key from the iterator's key on is passed.
LEMMA IterSeekKeeps ==
    ASSUME IInv, "back" \notin Ops, NEW t \in Threads, IterSeek(t)
    PROVE  IInv'
<1> USE DEF IInv
<1> DEFINE l == th[t].leaf
           ks == {k \in leaf[l].keys : k >= th[t].key}
<1>a. /\ th[t].pc = "held" /\ th[t].op = "scan" /\ l \in Linked /\ l \in Leaves /\ l # None
      /\ Holds(t, l) /\ InRange(l, th[t].key) /\ must[t] \subseteq Keys /\ must[t] \subseteq Present
      /\ \A k \in must[t] : leaf[l].anchor <= k /\ th[t].key <= k /\ k \in Nat
      /\ ks \subseteq leaf[l].keys /\ ks \subseteq Keys /\ l = th[t].leaf
  <2>1. th[t].pc = "held" /\ th[t].op = "scan"
    BY DEF IterSeek, Iterates, At, Types
  <2>2. th[t].key \in Nat /\ Keys \subseteq Nat
    BY <2>1, IndexAssumption DEF Types, At
  <2>3. l \in Linked /\ InRange(l, th[t].key) /\ Holds(t, l)
    BY <2>1 DEF StatesRight, LeafRight, Knows, LocksRight, HasLocks, HoldsLeaf, At
  <2>4. l \in Leaves /\ leaf[l].keys \subseteq Keys /\ l # None /\ leaf[l].anchor \in Nat
    BY <2>3, NoneApart DEF Linked, Types, LeafRecord, ListRight, ListOrder, KeysRight
  <2>5. must[t] \subseteq Keys /\ must[t] \subseteq Present /\ \A k \in must[t] : th[t].key <= k
    BY <2>1 DEF Types, ScansRight, Scans
  <2>7. leaf[l].anchor <= th[t].key
    BY <2>3 DEF InRange
  <2>6. \A k \in must[t] : leaf[l].anchor <= k /\ th[t].key <= k /\ k \in Nat
    <3> HIDE DEF l
    <3> SUFFICES ASSUME NEW k \in must[t]
                 PROVE  leaf[l].anchor <= k /\ th[t].key <= k /\ k \in Nat
      OBVIOUS
    <3>1. k \in Nat /\ th[t].key <= k
      BY <2>2, <2>5
    <3> QED BY <2>2, <2>4, <2>7, <3>1
  <2> QED BY <2>1, <2>3, <2>4, <2>5, <2>6
<1>b. /\ ks = {} => \A k \in must[t] : leaf[l].next # None /\ leaf[leaf[l].next].anchor <= k
      /\ ks # {} => Least(ks) \in ks /\ \A k \in must[t] : Least(ks) <= k
  BY <1>a, StandRight DEF Moving
<1>e. Stand(t, l, FALSE, ks)
  BY DEF IterSeek
<1>d. UNCHANGED <<shared, qstate, parked, unquiet, calls, must>>
  BY DEF IterSeek
<1> HIDE DEF ks, l
<1>c. /\ ks = {} => th' = [th EXCEPT ![t].pc = "hop", ![t].at = None, ![t].leaf = l,
                                     ![t].other = None, ![t].back = FALSE]
      /\ ks # {} => th' = [th EXCEPT ![t].pc = "cursor", ![t].at = Least(ks), ![t].leaf = l,
                                     ![t].other = None, ![t].back = FALSE]
  <2>1. CASE ks = {}
    <3>1. (IF ks = {} THEN "hop" ELSE "cursor") = "hop"
          /\ (IF ks = {} THEN None ELSE IF FALSE THEN Greatest(ks) ELSE Least(ks)) = None
      BY <2>1
    <3> QED BY <1>e, <2>1, <3>1, Zenon DEF Stand
  <2>2. CASE ks # {}
    <3>1. (IF ks = {} THEN "hop" ELSE "cursor") = "cursor"
          /\ (IF ks = {} THEN None ELSE IF FALSE THEN Greatest(ks) ELSE Least(ks)) = Least(ks)
      BY <2>2
    <3> QED BY <1>e, <2>2, <3>1, Zenon DEF Stand
  <2> QED BY <2>1, <2>2
<1>1. CASE ks = {}
  <2>0. l \in Leaves /\ l # None /\ None \in Keys \cup {None} /\ FALSE = FALSE
    BY <1>a, <1>b, <1>1
  <2>1. th' = [th EXCEPT ![t].pc = "hop", ![t].at = None, ![t].leaf = l, ![t].other = None, ![t].back = FALSE]
    BY <1>a, <1>c, <1>1, <1>d, SMT DEF shared
  <2>2. /\ th[t].pc = "held" /\ th[t].op = "scan" /\ l = th[t].leaf
        /\ UNCHANGED <<leaf, wlock, rlock, table, hv, cur, metalock, qstate, parked, unquiet, must>>
    BY <2>0, <1>a, <1>c, <1>1, <1>d, SMT DEF shared
  <2>3. [th[t] EXCEPT !.pc = "hop", !.at = None, !.leaf = l, !.other = None, !.back = FALSE] \in Record
    <3>1. "hop" \in Places /\ l \in Leaves /\ None \in Keys \cup {None} /\ FALSE \in {FALSE}
      BY <2>0, <2>2 DEF Types, Places
    <3>2. th[t] \in Record
      BY DEF Types
    <3> QED BY <3>1, <3>2 DEF Record
  <2>4. /\ \A u \in Threads : u # t => th'[u] = th[u]
        /\ th'[t].pc = "hop" /\ th'[t].op = th[t].op /\ th'[t].key = th[t].key
        /\ th'[t].hm = th[t].hm
        /\ th'[t].v = th[t].v /\ th'[t].v1 = th[t].v1 /\ th'[t].leaf = l /\ th'[t].other = None
        /\ th'[t].at = None /\ th'[t].back = FALSE /\ th'[t].answer = th[t].answer
    BY <2>1, <2>3 DEF Types, Record
  <2>5. Types'
    <3>0. th' \in [Threads -> Record]
      BY <2>1, <2>3 DEF Types
    <3> QED BY <2>0, <3>0, <2>2, <2>4 DEF Types, At, Seeking, HoldsLeaf, Changing, NextPlaces, Moving
  <2>6. LocksRight'
    BY <2>2, <2>4
     DEF LocksRight, LocksApart, HasLocks, Holds, Writes, HoldsLeaf, HoldsOther, Meta, Parks, Changing
  <2>7. StatesRight'
    BY <2>2, <2>4, <1>a DEF StatesRight, Linked, Splitting, Moving, HoldsLeaf, Changing
  <2>8. Present' = Present
    BY <2>2, <2>4, PresentStays DEF Splitting, Moving
  <2>9. AnswersRight'
    BY <2>2, <2>4 DEF AnswersRight, Changing, NextPlaces, Moving, At
  <2>10. Knows(t)'
    BY <2>2, <2>4
     DEF LeafRight, Knows, Linked, Merging, Splitting, Moving, Seeking, NextPlaces, Changing, InRange,
         At
  <2>11. Quiet(t)'
    BY <2>0, <2>2, <2>4 DEF Quiescence, Quiet, Seeking, Awaited, Changing, At, Types
  <2>12. Scans(t)'
    BY <2>8, <2>2, <2>4, <1>a, <1>b, <1>1 DEF ScansRight, Scans, NextPlaces, Seeking, At
  <2> QED BY <2>2, <2>4, <2>5, <2>6, <2>7, <2>8, <2>9, <2>10, <2>11, <2>12, OwnStep DEF Merging, Moving,
       Changing
<1>2. CASE ks # {}
  <2>0. l \in Leaves /\ l # None /\ Least(ks) \in Keys \cup {None} /\ FALSE = FALSE
    BY <1>a, <1>b, <1>2
  <2>1. th' = [th EXCEPT ![t].pc = "cursor", ![t].at = Least(ks), ![t].leaf = l, ![t].other = None, ![t].back = FALSE]
    BY <1>a, <1>c, <1>2, <1>d, SMT DEF shared
  <2>2. /\ th[t].pc = "held" /\ th[t].op = "scan" /\ l = th[t].leaf
        /\ UNCHANGED <<leaf, wlock, rlock, table, hv, cur, metalock, qstate, parked, unquiet, must>>
    BY <2>0, <1>a, <1>c, <1>2, <1>d, SMT DEF shared
  <2>3. [th[t] EXCEPT !.pc = "cursor", !.at = Least(ks), !.leaf = l, !.other = None, !.back = FALSE] \in Record
    <3>1. "cursor" \in Places /\ l \in Leaves /\ Least(ks) \in Keys \cup {None} /\ FALSE \in {FALSE}
      BY <2>0, <2>2 DEF Types, Places
    <3>2. th[t] \in Record
      BY DEF Types
    <3> QED BY <3>1, <3>2 DEF Record
  <2>4. /\ \A u \in Threads : u # t => th'[u] = th[u]
        /\ th'[t].pc = "cursor" /\ th'[t].op = th[t].op /\ th'[t].key = th[t].key
        /\ th'[t].hm = th[t].hm
        /\ th'[t].v = th[t].v /\ th'[t].v1 = th[t].v1 /\ th'[t].leaf = l /\ th'[t].other = None
        /\ th'[t].at = Least(ks) /\ th'[t].back = FALSE /\ th'[t].answer = th[t].answer
    BY <2>1, <2>3 DEF Types, Record
  <2>5. Types'
    <3>0. th' \in [Threads -> Record]
      BY <2>1, <2>3 DEF Types
    <3> QED BY <2>0, <3>0, <2>2, <2>4 DEF Types, At, Seeking, HoldsLeaf, Changing, NextPlaces, Moving
  <2>6. LocksRight'
    BY <2>2, <2>4
     DEF LocksRight, LocksApart, HasLocks, Holds, Writes, HoldsLeaf, HoldsOther, Meta, Parks, Changing
  <2>7. StatesRight'
    BY <2>2, <2>4, <1>a DEF StatesRight, Linked, Splitting, Moving, HoldsLeaf, Changing
  <2>8. Present' = Present
    BY <2>2, <2>4, PresentStays DEF Splitting, Moving
  <2>9. AnswersRight'
    BY <2>2, <2>4 DEF AnswersRight, Changing, NextPlaces, Moving, At
  <2>10. Knows(t)'
    BY <2>2, <2>4
     DEF LeafRight, Knows, Linked, Merging, Splitting, Moving, Seeking, NextPlaces, Changing, InRange,
         At
  <2>11. Quiet(t)'
    BY <2>0, <2>2, <2>4 DEF Quiescence, Quiet, Seeking, Awaited, Changing, At, Types
  <2>12. Scans(t)'
    BY <2>8, <2>2, <2>4, <1>a, <1>b, <1>2 DEF ScansRight, Scans, NextPlaces, Seeking, At
  <2> QED BY <2>2, <2>4, <2>5, <2>6, <2>7, <2>8, <2>9, <2>10, <2>11, <2>12, OwnStep DEF Merging, Moving,
       Changing
<1> QED BY <1>1, <1>2

\* wormhole_iter_skip1: only the key the iterator stands on is passed.
LEMMA IterSkipKeeps ==
    ASSUME IInv, "back" \notin Ops, NEW t \in Threads, IterSkip(t)
    PROVE  IInv'
<1> USE DEF IInv
<1> DEFINE l == th[t].leaf
           M == must[t] \ {th[t].at}
           ks == {x \in leaf[l].keys : x > th[t].at}
<1>a. /\ th[t].pc = "cursor" /\ th[t].op = "scan" /\ l \in Linked /\ l \in Leaves /\ l # None
      /\ Holds(t, l) /\ M \subseteq Keys /\ M \subseteq Present /\ M \subseteq must[t]
      /\ \A k \in M : leaf[l].anchor <= k /\ th[t].at < k /\ k \in Nat
      /\ ks \subseteq leaf[l].keys /\ ks \subseteq Keys /\ l = th[t].leaf
  <2>1. th[t].pc = "cursor" /\ th[t].op = "scan" /\ th[t].at \in leaf[l].keys
    BY DEF IterSkip, At, ScansRight, Scans
  <2>2. Keys \subseteq Nat
    BY IndexAssumption
  <2>3. l \in Linked /\ Holds(t, l)
    BY <2>1 DEF StatesRight, LocksRight, HasLocks, HoldsLeaf
  <2>4. l \in Leaves /\ leaf[l].keys \subseteq Keys /\ l # None /\ leaf[l].anchor \in Nat
    BY <2>3, NoneApart DEF Linked, Types, LeafRecord, ListRight, ListOrder, KeysRight
  <2>5. must[t] \subseteq Keys /\ must[t] \subseteq Present /\ \A k \in must[t] : th[t].at <= k
    BY <2>1 DEF Types, ScansRight, Scans, At
  <2>6. InRange(l, th[t].at)
    BY <2>1, <2>3, HeldLeaf DEF Moving
  <2>7. leaf[l].anchor <= th[t].at
    BY <2>6 DEF InRange
  <2>8. \A k \in M : leaf[l].anchor <= k /\ th[t].at < k /\ k \in Nat
    <3> HIDE DEF l
    <3> SUFFICES ASSUME NEW k \in M
                 PROVE  leaf[l].anchor <= k /\ th[t].at < k /\ k \in Nat
      OBVIOUS
    <3>1. k \in Nat /\ th[t].at <= k /\ th[t].at # k /\ th[t].at \in Nat
      BY <2>1, <2>2, <2>4, <2>5
    <3> QED BY <2>4, <2>7, <3>1
  <2> QED BY <2>1, <2>3, <2>4, <2>5, <2>8
<1>f. \A k \in M : leaf[l].anchor <= k /\ (k \in leaf[l].keys => k \in ks)
  BY <1>a
<1>b. /\ ks = {} => \A k \in M : leaf[l].next # None /\ leaf[leaf[l].next].anchor <= k
      /\ ks # {} => Least(ks) \in ks /\ \A k \in M : Least(ks) <= k
  <2> HIDE DEF ks, M, l
  <2> QED BY <1>a, <1>f, StandRight DEF Moving
<1>g. (th[t].op = "back") = FALSE
  BY <1>a
<1>e. Stand(t, l, FALSE, ks)
  <2>1. Stand(t, l, th[t].op = "back", {x \in leaf[l].keys : IF th[t].op = "back" THEN x < th[t].at ELSE x > th[t].at})
    BY DEF IterSkip
  <2>2. {x \in leaf[l].keys : IF th[t].op = "back" THEN x < th[t].at ELSE x > th[t].at} = ks
    BY <1>g
  <2> QED BY <1>g, <2>1, <2>2
<1>d. /\ UNCHANGED <<shared, qstate, parked, unquiet, calls>>
      /\ must' = [must EXCEPT ![t] = M]
  BY DEF IterSkip
<1> HIDE DEF ks, l, M
<1>h. must' \in [Threads -> SUBSET Keys] /\ must'[t] = M /\ \A u \in Threads : u # t => must'[u] = must[u]
  BY <1>a, <1>d DEF Types
<1>c. /\ ks = {} => th' = [th EXCEPT ![t].pc = "hop", ![t].at = None, ![t].leaf = l,
                                     ![t].other = None, ![t].back = FALSE]
      /\ ks # {} => th' = [th EXCEPT ![t].pc = "cursor", ![t].at = Least(ks), ![t].leaf = l,
                                     ![t].other = None, ![t].back = FALSE]
  <2>1. CASE ks = {}
    <3>1. (IF ks = {} THEN "hop" ELSE "cursor") = "hop"
          /\ (IF ks = {} THEN None ELSE IF FALSE THEN Greatest(ks) ELSE Least(ks)) = None
      BY <2>1
    <3> QED BY <1>e, <2>1, <3>1, Zenon DEF Stand
  <2>2. CASE ks # {}
    <3>1. (IF ks = {} THEN "hop" ELSE "cursor") = "cursor"
          /\ (IF ks = {} THEN None ELSE IF FALSE THEN Greatest(ks) ELSE Least(ks)) = Least(ks)
      BY <2>2
    <3> QED BY <1>e, <2>2, <3>1, Zenon DEF Stand
  <2> QED BY <2>1, <2>2
<1>1. CASE ks = {}
  <2>0. l \in Leaves /\ l # None /\ None \in Keys \cup {None} /\ FALSE = FALSE
    BY <1>a, <1>b, <1>1
  <2>1. th' = [th EXCEPT ![t].pc = "hop", ![t].at = None, ![t].leaf = l, ![t].other = None, ![t].back = FALSE]
    BY <1>a, <1>c, <1>1, <1>d, <1>h, SMT DEF shared
  <2>2. /\ th[t].pc = "cursor" /\ th[t].op = "scan" /\ l = th[t].leaf
        /\ UNCHANGED <<leaf, wlock, rlock, table, hv, cur, metalock, qstate, parked, unquiet>>
        /\ must' \in [Threads -> SUBSET Keys] /\ must'[t] = M
        /\ \A u \in Threads : u # t => must'[u] = must[u]
    BY <2>0, <1>a, <1>c, <1>1, <1>d, <1>h, SMT DEF shared
  <2>3. [th[t] EXCEPT !.pc = "hop", !.at = None, !.leaf = l, !.other = None, !.back = FALSE] \in Record
    <3>1. "hop" \in Places /\ l \in Leaves /\ None \in Keys \cup {None} /\ FALSE \in {FALSE}
      BY <2>0, <2>2 DEF Types, Places
    <3>2. th[t] \in Record
      BY DEF Types
    <3> QED BY <3>1, <3>2 DEF Record
  <2>4. /\ \A u \in Threads : u # t => th'[u] = th[u]
        /\ th'[t].pc = "hop" /\ th'[t].op = th[t].op /\ th'[t].key = th[t].key
        /\ th'[t].hm = th[t].hm
        /\ th'[t].v = th[t].v /\ th'[t].v1 = th[t].v1 /\ th'[t].leaf = l /\ th'[t].other = None
        /\ th'[t].at = None /\ th'[t].back = FALSE /\ th'[t].answer = th[t].answer
    BY <2>1, <2>3 DEF Types, Record
  <2>5. Types'
    <3>0. th' \in [Threads -> Record]
      BY <2>1, <2>3 DEF Types
    <3> QED BY <2>0, <3>0, <2>2, <2>4 DEF Types, At, Seeking, HoldsLeaf, Changing, NextPlaces, Moving
  <2>6. LocksRight'
    BY <2>2, <2>4
     DEF LocksRight, LocksApart, HasLocks, Holds, Writes, HoldsLeaf, HoldsOther, Meta, Parks, Changing
  <2>7. StatesRight'
    BY <2>2, <2>4, <1>a DEF StatesRight, Linked, Splitting, Moving, HoldsLeaf, Changing
  <2>8. Present' = Present
    BY <2>2, <2>4, PresentStays DEF Splitting, Moving
  <2>9. AnswersRight'
    BY <2>2, <2>4 DEF AnswersRight, Changing, NextPlaces, Moving, At
  <2>10. Knows(t)'
    BY <2>2, <2>4
     DEF LeafRight, Knows, Linked, Merging, Splitting, Moving, Seeking, NextPlaces, Changing, InRange,
         At
  <2>11. Quiet(t)'
    BY <2>0, <2>2, <2>4 DEF Quiescence, Quiet, Seeking, Awaited, Changing, At, Types
  <2>12. Scans(t)'
    BY <2>8, <2>2, <2>4, <1>a, <1>b, <1>1 DEF ScansRight, Scans, NextPlaces, Seeking, At
  <2> QED BY <2>2, <2>4, <2>5, <2>6, <2>7, <2>8, <2>9, <2>10, <2>11, <2>12, OwnStep DEF Merging, Moving,
       Changing
<1>2. CASE ks # {}
  <2>0. l \in Leaves /\ l # None /\ Least(ks) \in Keys \cup {None} /\ FALSE = FALSE
    BY <1>a, <1>b, <1>2
  <2>1. th' = [th EXCEPT ![t].pc = "cursor", ![t].at = Least(ks), ![t].leaf = l, ![t].other = None, ![t].back = FALSE]
    BY <1>a, <1>c, <1>2, <1>d, <1>h, SMT DEF shared
  <2>2. /\ th[t].pc = "cursor" /\ th[t].op = "scan" /\ l = th[t].leaf
        /\ UNCHANGED <<leaf, wlock, rlock, table, hv, cur, metalock, qstate, parked, unquiet>>
        /\ must' \in [Threads -> SUBSET Keys] /\ must'[t] = M
        /\ \A u \in Threads : u # t => must'[u] = must[u]
    BY <2>0, <1>a, <1>c, <1>2, <1>d, <1>h, SMT DEF shared
  <2>3. [th[t] EXCEPT !.pc = "cursor", !.at = Least(ks), !.leaf = l, !.other = None, !.back = FALSE] \in Record
    <3>1. "cursor" \in Places /\ l \in Leaves /\ Least(ks) \in Keys \cup {None} /\ FALSE \in {FALSE}
      BY <2>0, <2>2 DEF Types, Places
    <3>2. th[t] \in Record
      BY DEF Types
    <3> QED BY <3>1, <3>2 DEF Record
  <2>4. /\ \A u \in Threads : u # t => th'[u] = th[u]
        /\ th'[t].pc = "cursor" /\ th'[t].op = th[t].op /\ th'[t].key = th[t].key
        /\ th'[t].hm = th[t].hm
        /\ th'[t].v = th[t].v /\ th'[t].v1 = th[t].v1 /\ th'[t].leaf = l /\ th'[t].other = None
        /\ th'[t].at = Least(ks) /\ th'[t].back = FALSE /\ th'[t].answer = th[t].answer
    BY <2>1, <2>3 DEF Types, Record
  <2>5. Types'
    <3>0. th' \in [Threads -> Record]
      BY <2>1, <2>3 DEF Types
    <3> QED BY <2>0, <3>0, <2>2, <2>4 DEF Types, At, Seeking, HoldsLeaf, Changing, NextPlaces, Moving
  <2>6. LocksRight'
    BY <2>2, <2>4
     DEF LocksRight, LocksApart, HasLocks, Holds, Writes, HoldsLeaf, HoldsOther, Meta, Parks, Changing
  <2>7. StatesRight'
    BY <2>2, <2>4, <1>a DEF StatesRight, Linked, Splitting, Moving, HoldsLeaf, Changing
  <2>8. Present' = Present
    BY <2>2, <2>4, PresentStays DEF Splitting, Moving
  <2>9. AnswersRight'
    BY <2>2, <2>4 DEF AnswersRight, Changing, NextPlaces, Moving, At
  <2>10. Knows(t)'
    BY <2>2, <2>4
     DEF LeafRight, Knows, Linked, Merging, Splitting, Moving, Seeking, NextPlaces, Changing, InRange,
         At
  <2>11. Quiet(t)'
    BY <2>0, <2>2, <2>4 DEF Quiescence, Quiet, Seeking, Awaited, Changing, At, Types
  <2>12. Scans(t)'
    BY <2>8, <2>2, <2>4, <1>a, <1>b, <1>2 DEF ScansRight, Scans, NextPlaces, Seeking, At
  <2> QED BY <2>2, <2>4, <2>5, <2>6, <2>7, <2>8, <2>9, <2>10, <2>11, <2>12, OwnStep DEF Merging, Moving,
       Changing
<1> QED BY <1>1, <1>2

\* The next leaf is the one the iterator's leaf names, and it stays while that is
\* locked.
LEMMA IterHopKeeps ==
    ASSUME IInv, "back" \notin Ops, NEW t \in Threads, IterHop(t)
    PROVE  IInv'
<1> USE DEF IInv
<1> DEFINE n == leaf[th[t].leaf].next
<1>a. /\ th[t].pc = "hop" /\ th[t].back = FALSE /\ n \in Leaves \cup {None} /\ th[t].leaf \in Linked
      /\ n # None => n \in Leaves
  <2>1. th[t].pc = "hop" /\ th[t].back = FALSE
    BY DEF IterHop, At, Types, Record
  <2>2. th[t].leaf \in Linked
    BY <2>1 DEF StatesRight, HoldsLeaf
  <2> QED BY <2>1, <2>2 DEF Types, LeafRecord, Linked
<1>b. n = IF th[t].back THEN leaf[th[t].leaf].prev ELSE leaf[th[t].leaf].next
  BY <1>a
<1>c. /\ n = None => th' = [th EXCEPT ![t].pc = "ended"] /\ Unlock(t, {th[t].leaf})
      /\ n # None => th' = [th EXCEPT ![t].pc = "next", ![t].other = n] /\ UNCHANGED <<wlock, rlock>>
      /\ UNCHANGED <<leaf, table, hv, cur, metalock, qstate, parked, unquiet, calls, must>>
  <2> HIDE DEF n
  <2> QED BY <1>b DEF IterHop
<1> HIDE DEF n
<1>1. CASE n = None
  <2>1. th' = [th EXCEPT ![t].pc = "ended"]
    BY <1>a, <1>c, <1>1, SMT
  <2>2. /\ th[t].pc = "hop" /\ n = None
        /\ UNCHANGED <<leaf, table, hv, cur, metalock, qstate, parked, unquiet, must>>
        /\ Unlock(t, {th[t].leaf})
    BY <1>a, <1>c, <1>1, SMT DEF Unlock
  <2>3. [th[t] EXCEPT !.pc = "ended"] \in Record
    <3>1. "ended" \in Places
      BY <2>2 DEF Types, Places
    <3>2. th[t] \in Record
      BY DEF Types
    <3> QED BY <3>1, <3>2 DEF Record
  <2>4. /\ \A u \in Threads : u # t => th'[u] = th[u]
        /\ th'[t].pc = "ended" /\ th'[t].op = th[t].op /\ th'[t].key = th[t].key
        /\ th'[t].hm = th[t].hm
        /\ th'[t].v = th[t].v /\ th'[t].v1 = th[t].v1 /\ th'[t].leaf = th[t].leaf
        /\ th'[t].other = th[t].other
        /\ th'[t].at = th[t].at /\ th'[t].back = th[t].back /\ th'[t].answer = th[t].answer
    BY <2>1, <2>3 DEF Types, Record
  <2>r. Released(t, {th[t].leaf})
    BY <2>2, <2>4, LocksReleased DEF LocksRight
  <2>5. Types'
    <3>0. th' \in [Threads -> Record]
      BY <2>1, <2>3 DEF Types
    <3> QED BY <3>0, <2>2, <2>4, <2>r DEF Types, Released, At, Seeking, HoldsLeaf, Changing, NextPlaces,
         Moving
  <2>6. LocksRight'
    BY <2>2, <2>4, <2>r
     DEF Types, Released, LocksRight, LocksApart, HasLocks, HoldsLeaf, HoldsOther, Meta, Parks,
         Changing, NextPlaces, Moving, Seeking, At
  <2>7. StatesRight'
    BY <2>2, <2>4 DEF StatesRight, Linked, Splitting, Moving, HoldsLeaf, Changing
  <2>8. Present' = Present
    BY <2>2, <2>4, PresentStays DEF Splitting, Moving
  <2>9. AnswersRight'
    BY <2>2, <2>4 DEF AnswersRight, Changing, NextPlaces, Moving, At
  <2>10. Knows(t)'
    BY <2>2, <2>4
     DEF LeafRight, Knows, Linked, Merging, Splitting, Moving, Seeking, NextPlaces, Changing, InRange,
         At
  <2>11. Quiet(t)'
    BY <2>2, <2>4 DEF Quiescence, Quiet, Seeking, Awaited, Changing, At, Types
  <2>12. Scans(t)'
    BY <2>8, <2>2, <2>4 DEF ScansRight, Scans, NextPlaces, Seeking, At, n
  <2> QED BY <2>2, <2>4, <2>5, <2>6, <2>7, <2>8, <2>9, <2>10, <2>11, <2>12, OwnStep DEF Merging, Moving,
       Changing
<1>2. CASE n # None
  <2>1. th' = [th EXCEPT ![t].pc = "next", ![t].other = n]
    BY <1>a, <1>c, <1>2, SMT
  <2>2. /\ th[t].pc = "hop" /\ n # None /\ n \in Leaves
        /\ UNCHANGED <<leaf, wlock, rlock, table, hv, cur, metalock, qstate, parked, unquiet, must>>
    BY <1>a, <1>c, <1>2, SMT DEF Unlock
  <2>3. [th[t] EXCEPT !.pc = "next", !.other = n] \in Record
    <3>1. "next" \in Places /\ n \in Leaves
      BY <2>2 DEF Types, Places
    <3>2. th[t] \in Record
      BY DEF Types
    <3> QED BY <3>1, <3>2 DEF Record
  <2>4. /\ \A u \in Threads : u # t => th'[u] = th[u]
        /\ th'[t].pc = "next" /\ th'[t].op = th[t].op /\ th'[t].key = th[t].key
        /\ th'[t].hm = th[t].hm
        /\ th'[t].v = th[t].v /\ th'[t].v1 = th[t].v1 /\ th'[t].leaf = th[t].leaf
        /\ th'[t].other = n
        /\ th'[t].at = th[t].at /\ th'[t].back = th[t].back /\ th'[t].answer = th[t].answer
    BY <2>1, <2>3 DEF Types, Record
  <2>5. Types'
    <3>0. th' \in [Threads -> Record]
      BY <2>1, <2>3 DEF Types
    <3> QED BY <3>0, <2>2, <2>4 DEF Types, At, Seeking, HoldsLeaf, Changing, NextPlaces, Moving
  <2>6. LocksRight'
    BY <2>2, <2>4
     DEF LocksRight, LocksApart, HasLocks, Holds, Writes, HoldsLeaf, HoldsOther, Meta, Parks, Changing
  <2>7. StatesRight'
    BY <2>2, <2>4 DEF StatesRight, Linked, Splitting, Moving, HoldsLeaf, Changing
  <2>8. Present' = Present
    BY <2>2, <2>4, PresentStays DEF Splitting, Moving
  <2>9. AnswersRight'
    <3>0. th[t].op = "scan"
      BY <2>2 DEF ScansRight, Scans
    <3> QED BY <3>0, <2>2, <2>4 DEF AnswersRight, Changing, NextPlaces, Moving, At
  <2>10. Knows(t)'
    <3>0. th[t].op = "scan" /\ n = leaf[th[t].leaf].next
      BY <2>2 DEF ScansRight, Scans, n
    <3> QED BY <3>0, <2>2, <2>4 DEF LeafRight, Knows, Linked, Merging, Splitting, Moving, Seeking,
         NextPlaces, Changing, InRange, At
  <2>11. Quiet(t)'
    BY <2>2, <2>4 DEF Quiescence, Quiet, Seeking, Awaited, Changing, At, Types
  <2>12. Scans(t)'
    <3>0. th[t].op = "scan" /\ n = leaf[th[t].leaf].next
      BY <2>2 DEF ScansRight, Scans, n
    <3> QED BY <3>0, <2>8, <2>2, <2>4 DEF ScansRight, Scans, NextPlaces, Seeking, At
  <2> QED BY <2>2, <2>4, <2>5, <2>6, <2>7, <2>8, <2>9, <2>10, <2>11, <2>12, OwnStep DEF Merging, Moving,
       Changing
<1> QED BY <1>1, <1>2

\* The next leaf has all keys that are left: there is none between the two leaves.
LEMMA IterMoveKeeps ==
    ASSUME IInv, "back" \notin Ops, NEW t \in Threads, IterMove(t)
    PROVE  IInv'
<1> USE DEF IInv
<1> DEFINE l == th[t].other
           ks == leaf[l].keys
<1>a. /\ th[t].pc = "both" /\ th[t].op = "scan" /\ l \in Linked /\ l \in Leaves /\ l # None
      /\ Holds(t, l) /\ must[t] \subseteq Keys /\ must[t] \subseteq Present
      /\ \A k \in must[t] : leaf[l].anchor <= k
      /\ ks \subseteq leaf[l].keys /\ ks \subseteq Keys /\ l = th[t].other /\ l # th[t].leaf
      /\ th[t].back = FALSE
  <2>1. th[t].pc = "both" /\ th[t].op = "scan" /\ th[t].back = FALSE
    BY DEF IterMove, Iterates, At, Types, Record
  <2>2. th[t].leaf \in Linked /\ leaf[th[t].leaf].next = l /\ Holds(t, l) /\ l \in Leaves
    BY <2>1
     DEF StatesRight, LeafRight, Knows, NextPlaces, LocksRight, HasLocks, HoldsLeaf, HoldsOther, Types
  <2>3. l # None /\ l \in Linked /\ l # th[t].leaf
    BY <2>2, NoneApart DEF ListRight, ListOrder, KeysRight
  <2>4. leaf[l].keys \subseteq Keys
    BY <2>2 DEF Types, LeafRecord
  <2>5. /\ must[t] \subseteq Keys /\ must[t] \subseteq Present
        /\ \A k \in must[t] : leaf[l].anchor <= k
    BY <2>1 DEF Types, ScansRight, Scans, NextPlaces
  <2> QED BY <2>1, <2>2, <2>3, <2>4, <2>5
<1>b. /\ ks = {} => \A k \in must[t] : leaf[l].next # None /\ leaf[leaf[l].next].anchor <= k
      /\ ks # {} => Least(ks) \in ks /\ \A k \in must[t] : Least(ks) <= k
  <2>1. ks = leaf[l].keys
    OBVIOUS
  <2> HIDE DEF ks, l
  <2>2. \A k \in must[t] : leaf[l].anchor <= k /\ (k \in leaf[l].keys => k \in ks)
    BY <1>a, <2>1
  <2>3. th[t].pc \notin Moving
    BY <1>a DEF Moving
  <2> QED BY <1>a, <2>2, <2>3, StandRight
<1>e. Stand(t, l, FALSE, ks)
  BY <1>a DEF IterMove
<1>d. /\ UNCHANGED <<leaf, table, hv, cur, metalock, qstate, parked, unquiet, calls, must>>
      /\ Unlock(t, {th[t].leaf})
  BY DEF IterMove
<1> HIDE DEF ks, l
<1>c. /\ ks = {} => th' = [th EXCEPT ![t].pc = "hop", ![t].at = None, ![t].leaf = l,
                                     ![t].other = None, ![t].back = FALSE]
      /\ ks # {} => th' = [th EXCEPT ![t].pc = "cursor", ![t].at = Least(ks), ![t].leaf = l,
                                     ![t].other = None, ![t].back = FALSE]
  <2>1. CASE ks = {}
    <3>1. (IF ks = {} THEN "hop" ELSE "cursor") = "hop"
          /\ (IF ks = {} THEN None ELSE IF FALSE THEN Greatest(ks) ELSE Least(ks)) = None
      BY <2>1
    <3> QED BY <1>e, <2>1, <3>1, Zenon DEF Stand
  <2>2. CASE ks # {}
    <3>1. (IF ks = {} THEN "hop" ELSE "cursor") = "cursor"
          /\ (IF ks = {} THEN None ELSE IF FALSE THEN Greatest(ks) ELSE Least(ks)) = Least(ks)
      BY <2>2
    <3> QED BY <1>e, <2>2, <3>1, Zenon DEF Stand
  <2> QED BY <2>1, <2>2
<1>1. CASE ks = {}
  <2>0. l \in Leaves /\ l # None /\ None \in Keys \cup {None} /\ FALSE = FALSE
    BY <1>a, <1>b, <1>1
  <2>1. th' = [th EXCEPT ![t].pc = "hop", ![t].at = None, ![t].leaf = l, ![t].other = None, ![t].back = FALSE]
    BY <1>a, <1>c, <1>1, <1>d, SMT
  <2>2. /\ th[t].pc = "both" /\ th[t].op = "scan" /\ l = th[t].other /\ l # th[t].leaf
        /\ UNCHANGED <<leaf, table, hv, cur, metalock, qstate, parked, unquiet, must>>
        /\ Unlock(t, {th[t].leaf})
    BY <2>0, <1>a, <1>c, <1>1, <1>d, SMT DEF Unlock
  <2>3. [th[t] EXCEPT !.pc = "hop", !.at = None, !.leaf = l, !.other = None, !.back = FALSE] \in Record
    <3>1. "hop" \in Places /\ l \in Leaves /\ None \in Keys \cup {None} /\ FALSE \in {FALSE}
      BY <2>0, <2>2 DEF Types, Places
    <3>2. th[t] \in Record
      BY DEF Types
    <3> QED BY <3>1, <3>2 DEF Record
  <2>4. /\ \A u \in Threads : u # t => th'[u] = th[u]
        /\ th'[t].pc = "hop" /\ th'[t].op = th[t].op /\ th'[t].key = th[t].key
        /\ th'[t].hm = th[t].hm
        /\ th'[t].v = th[t].v /\ th'[t].v1 = th[t].v1 /\ th'[t].leaf = l /\ th'[t].other = None
        /\ th'[t].at = None /\ th'[t].back = FALSE /\ th'[t].answer = th[t].answer
    BY <2>1, <2>3 DEF Types, Record
  <2>r. Released(t, {th[t].leaf})
    BY <2>2, <2>4, LocksReleased DEF LocksRight
  <2>5. Types'
    <3>0. th' \in [Threads -> Record]
      BY <2>1, <2>3 DEF Types
    <3> QED BY <2>0, <3>0, <2>2, <2>4, <2>r DEF Types, Released, At, Seeking, HoldsLeaf, Changing,
         NextPlaces, Moving
  <2>6. LocksRight'
    <3>1. t \in rlock'[l]
      BY <2>r, <2>2, <1>a DEF Released, Holds, Writes
    <3>2. HasLocks(t)'
      BY <3>1, <2>r, <2>2, <2>4
       DEF LocksRight, HasLocks, Holds, Writes, HoldsLeaf, HoldsOther, Meta, Parks, Changing
    <3> QED BY <3>2, <2>2, <2>4, <2>r DEF Types, Released, LocksRight, LocksApart, HasLocks, HoldsLeaf,
         HoldsOther, Meta, Parks, Changing, NextPlaces, Moving, Seeking, At
  <2>7. StatesRight'
    BY <2>2, <2>4, <1>a DEF StatesRight, Linked, Splitting, Moving, HoldsLeaf, Changing
  <2>8. Present' = Present
    BY <2>2, <2>4, PresentStays DEF Splitting, Moving
  <2>9. AnswersRight'
    BY <2>2, <2>4 DEF AnswersRight, Changing, NextPlaces, Moving, At
  <2>10. Knows(t)'
    BY <2>2, <2>4
     DEF LeafRight, Knows, Linked, Merging, Splitting, Moving, Seeking, NextPlaces, Changing, InRange,
         At
  <2>11. Quiet(t)'
    BY <2>0, <2>2, <2>4 DEF Quiescence, Quiet, Seeking, Awaited, Changing, At, Types
  <2>12. Scans(t)'
    BY <2>8, <2>2, <2>4, <1>a, <1>b, <1>1 DEF ScansRight, Scans, NextPlaces, Seeking, At
  <2> QED BY <2>2, <2>4, <2>5, <2>6, <2>7, <2>8, <2>9, <2>10, <2>11, <2>12, OwnStep DEF Merging, Moving,
       Changing
<1>2. CASE ks # {}
  <2>0. l \in Leaves /\ l # None /\ Least(ks) \in Keys \cup {None} /\ FALSE = FALSE
    BY <1>a, <1>b, <1>2
  <2>1. th' = [th EXCEPT ![t].pc = "cursor", ![t].at = Least(ks), ![t].leaf = l, ![t].other = None, ![t].back = FALSE]
    BY <1>a, <1>c, <1>2, <1>d, SMT
  <2>2. /\ th[t].pc = "both" /\ th[t].op = "scan" /\ l = th[t].other /\ l # th[t].leaf
        /\ UNCHANGED <<leaf, table, hv, cur, metalock, qstate, parked, unquiet, must>>
        /\ Unlock(t, {th[t].leaf})
    BY <2>0, <1>a, <1>c, <1>2, <1>d, SMT DEF Unlock
  <2>3. [th[t] EXCEPT !.pc = "cursor", !.at = Least(ks), !.leaf = l, !.other = None, !.back = FALSE] \in Record
    <3>1. "cursor" \in Places /\ l \in Leaves /\ Least(ks) \in Keys \cup {None} /\ FALSE \in {FALSE}
      BY <2>0, <2>2 DEF Types, Places
    <3>2. th[t] \in Record
      BY DEF Types
    <3> QED BY <3>1, <3>2 DEF Record
  <2>4. /\ \A u \in Threads : u # t => th'[u] = th[u]
        /\ th'[t].pc = "cursor" /\ th'[t].op = th[t].op /\ th'[t].key = th[t].key
        /\ th'[t].hm = th[t].hm
        /\ th'[t].v = th[t].v /\ th'[t].v1 = th[t].v1 /\ th'[t].leaf = l /\ th'[t].other = None
        /\ th'[t].at = Least(ks) /\ th'[t].back = FALSE /\ th'[t].answer = th[t].answer
    BY <2>1, <2>3 DEF Types, Record
  <2>r. Released(t, {th[t].leaf})
    BY <2>2, <2>4, LocksReleased DEF LocksRight
  <2>5. Types'
    <3>0. th' \in [Threads -> Record]
      BY <2>1, <2>3 DEF Types
    <3> QED BY <2>0, <3>0, <2>2, <2>4, <2>r DEF Types, Released, At, Seeking, HoldsLeaf, Changing,
         NextPlaces, Moving
  <2>6. LocksRight'
    <3>1. t \in rlock'[l]
      BY <2>r, <2>2, <1>a DEF Released, Holds, Writes
    <3>2. HasLocks(t)'
      BY <3>1, <2>r, <2>2, <2>4
       DEF LocksRight, HasLocks, Holds, Writes, HoldsLeaf, HoldsOther, Meta, Parks, Changing
    <3> QED BY <3>2, <2>2, <2>4, <2>r DEF Types, Released, LocksRight, LocksApart, HasLocks, HoldsLeaf,
         HoldsOther, Meta, Parks, Changing, NextPlaces, Moving, Seeking, At
  <2>7. StatesRight'
    BY <2>2, <2>4, <1>a DEF StatesRight, Linked, Splitting, Moving, HoldsLeaf, Changing
  <2>8. Present' = Present
    BY <2>2, <2>4, PresentStays DEF Splitting, Moving
  <2>9. AnswersRight'
    BY <2>2, <2>4 DEF AnswersRight, Changing, NextPlaces, Moving, At
  <2>10. Knows(t)'
    BY <2>2, <2>4
     DEF LeafRight, Knows, Linked, Merging, Splitting, Moving, Seeking, NextPlaces, Changing, InRange,
         At
  <2>11. Quiet(t)'
    BY <2>0, <2>2, <2>4 DEF Quiescence, Quiet, Seeking, Awaited, Changing, At, Types
  <2>12. Scans(t)'
    BY <2>8, <2>2, <2>4, <1>a, <1>b, <1>2 DEF ScansRight, Scans, NextPlaces, Seeking, At
  <2> QED BY <2>2, <2>4, <2>5, <2>6, <2>7, <2>8, <2>9, <2>10, <2>11, <2>12, OwnStep DEF Merging, Moving,
       Changing
<1> QED BY <1>1, <1>2

\* whsafe_iter_park: the leaf is released, and nothing is left to visit.
LEMMA IterParkKeeps ==
    ASSUME IInv, "back" \notin Ops, NEW t \in Threads, IterPark(t)
    PROVE  IInv'
<1> USE DEF IInv
<1>1. th' = [th EXCEPT ![t] = [Idle EXCEPT !.answer = None]]
  BY SMT DEF IterPark, Return, Types
<1>2. /\ th[t].pc \in {"cursor", "ended"}
      /\ UNCHANGED <<leaf, table, hv, cur, metalock, qstate, unquiet>>
      /\ Unlock(t, {th[t].leaf})
      /\ parked' = parked \cup {t}
      /\ must' \in [Threads -> SUBSET Keys] /\ must'[t] = {}
      /\ \A u \in Threads : u # t => must'[u] = must[u]
  BY SMT DEF IterPark, At, Return, Unlock, Types
<1>3. [Idle EXCEPT !.answer = None] \in Record
  <2>1. None \in BOOLEAN \cup {None}
    OBVIOUS
  <2> QED BY <2>1, IdleRecord
<1>4. /\ \A u \in Threads : u # t => th'[u] = th[u]
      /\ th'[t].pc = "idle" /\ th'[t].op = None /\ th'[t].key = None /\ th'[t].hm = 0
      /\ th'[t].v = 0 /\ th'[t].v1 = 0 /\ th'[t].leaf = None /\ th'[t].other = None
      /\ th'[t].at = None /\ th'[t].back = FALSE /\ th'[t].answer = None
  BY <1>1, <1>3 DEF Types, Record, Idle
<1>r. Released(t, {th[t].leaf})
  BY <1>2, <1>4, LocksReleased DEF LocksRight
<1>5. Types'
  <2>0. th' \in [Threads -> Record]
    BY <1>1, <1>3 DEF Types
  <2> QED BY <2>0, <1>2, <1>4, <1>r DEF Types, Released, At, Seeking, HoldsLeaf, Changing, NextPlaces,
       Moving
<1>6. LocksRight'
  BY <1>2, <1>4, <1>r
   DEF Types, Released, LocksRight, LocksApart, HasLocks, HoldsLeaf, HoldsOther, Meta, Parks, Changing,
       NextPlaces, Moving, Seeking, At
<1>7. StatesRight'
  BY <1>2, <1>4 DEF StatesRight, Linked, Splitting, Moving, HoldsLeaf, Changing
<1>8. Present' = Present
  BY <1>2, <1>4, PresentStays DEF Splitting, Moving
<1>9. AnswersRight'
  BY <1>2, <1>4 DEF AnswersRight, Changing, NextPlaces, Moving, At
<1>10. Knows(t)'
  BY <1>2, <1>4
   DEF LeafRight, Knows, Linked, Merging, Splitting, Moving, Seeking, NextPlaces, Changing, InRange, At
<1>11. Quiet(t)'
  BY <1>2, <1>4 DEF Quiescence, Quiet, Seeking, Awaited, Changing, At, Types
<1>12. Scans(t)'
  BY <1>8, <1>2, <1>4 DEF ScansRight, Scans, NextPlaces, Seeking, At
<1> QED BY <1>2, <1>4, <1>5, <1>6, <1>7, <1>8, <1>9, <1>10, <1>11, <1>12, OwnStep DEF Merging, Moving,
     Changing

-----------------------------------------------------------------------------
(* Steps that change the keys of leaves and nothing else of them             *)

OnlyKeys ==
    /\ leaf' \in [Leaves -> LeafRecord]
    /\ \A m \in Leaves : /\ leaf'[m].anchor = leaf[m].anchor /\ leaf'[m].next = leaf[m].next
                         /\ leaf'[m].prev = leaf[m].prev /\ leaf'[m].lv = leaf[m].lv
                         /\ leaf'[m].state = leaf[m].state

\* The list, its ranges and its order stay what they were.
LEMMA KeysChange ==
    ASSUME Types, ListRight, OnlyKeys
    PROVE  /\ Linked' = Linked
           /\ \A m \in Leaves, k \in Keys : InRange(m, k)' <=> InRange(m, k)
           /\ ListOrder'
<1>1. Linked' = Linked
  BY DEF OnlyKeys, Linked
<1>2. \A m \in Leaves : leaf[m].next # None => leaf[m].next \in Leaves
  BY DEF Types, LeafRecord
<1>3. \A m \in Leaves, k \in Keys : InRange(m, k)' <=> InRange(m, k)
  BY <1>2 DEF OnlyKeys, InRange
<1>4. \A m \in Linked : m \in Leaves
  BY DEF Linked
<1>5. ListOrder'
  BY <1>1, <1>2, <1>4 DEF ListRight, ListOrder, OnlyKeys
<1> QED BY <1>1, <1>3, <1>5

\* A thread that moves no keys knows what it knew.
LEMMA KnowsStays ==
    ASSUME Types, ListRight, OnlyKeys, NEW u \in Threads, th'[u] = th[u], Knows(u),
           th[u].pc \in Moving => /\ leaf'[th[u].leaf].keys = leaf[th[u].leaf].keys
                                  /\ leaf'[th[u].other].keys = leaf[th[u].other].keys
    PROVE  Knows(u)'
<1>1. /\ Linked' = Linked
      /\ \A m \in Leaves, k \in Keys : InRange(m, k)' <=> InRange(m, k)
  BY KeysChange
<1>2. /\ \A m \in Leaves : leaf[m].next # None => leaf[m].next \in Leaves
      /\ \A m \in Leaves : leaf[m].keys \subseteq Keys
  BY DEF Types, LeafRecord
<1>3. /\ th[u].pc \in Seeking \cup HoldsLeaf \cup Changing => th[u].leaf \in Leaves /\ th[u].key \in Keys
      /\ th[u].pc \in NextPlaces \cup Moving \cup Changing => th[u].other \in Leaves /\ th[u].leaf \in Leaves
  BY DEF Types, Seeking, HoldsLeaf, Changing, NextPlaces, Moving, At
<1>4. CASE th[u].pc \in Moving
  BY <1>1, <1>2, <1>3, <1>4
   DEF Knows, OnlyKeys, Merging, Splitting, Moving, Seeking, NextPlaces, Changing, At, Linked
<1>5. CASE th[u].pc \notin Moving
  <2>1. \A m \in Leaves : InRange(m, th[u].key) /\ th[u].key \in Keys => InRange(m, th[u].key)'
    BY <1>1 DEF InRange
  <2> QED BY <1>1, <1>2, <1>3, <1>5 DEF Knows, OnlyKeys, Merging, Splitting, HoldsLeaf, At
<1> QED BY <1>4, <1>5

\* An iterator that stands on a key that is still there knows what it knew.
LEMMA ScansStays ==
    ASSUME Types, OnlyKeys, NEW u \in Threads, th'[u] = th[u], Scans(u),
           must'[u] \subseteq must[u], must'[u] \subseteq Present',
           At(u, "cursor") => th[u].at \in leaf'[th[u].leaf].keys
    PROVE  Scans(u)'
<1>1. \A m \in Leaves : leaf[m].next # None => leaf[m].next \in Leaves
  BY DEF Types, LeafRecord
<1>2. /\ th[u].pc \in Seeking \cup HoldsLeaf => th[u].leaf \in Leaves
      /\ th[u].pc \in NextPlaces => th[u].other \in Leaves
  BY DEF Types
<1> QED BY <1>1, <1>2 DEF Scans, OnlyKeys, HoldsLeaf, At

-----------------------------------------------------------------------------
(* Steps that change keys, and a leaf that is not in the list                *)

Aside(n) ==
    /\ leaf' \in [Leaves -> LeafRecord]
    /\ n \in Leaves /\ leaf[n].state \in {"free", "local"} /\ leaf'[n].state \in {"free", "local"}
    /\ \A m \in Leaves : m # n =>
          /\ leaf'[m].anchor = leaf[m].anchor /\ leaf'[m].next = leaf[m].next
          /\ leaf'[m].prev = leaf[m].prev /\ leaf'[m].lv = leaf[m].lv
          /\ leaf'[m].state = leaf[m].state

\* A leaf that is not in the list changes nothing of it.
LEMMA AsideChange ==
    ASSUME Types, ListRight, NEW n, Aside(n)
    PROVE  /\ Linked' = Linked
           /\ \A m \in Linked, k \in Keys : InRange(m, k)' <=> InRange(m, k)
           /\ ListOrder'
<1>1. Linked' = Linked
  BY DEF Aside, Linked
<1>2. \A m \in Linked : /\ m \in Leaves /\ m # n
                        /\ leaf[m].next # None => leaf[m].next \in Linked
                                                  /\ leaf[m].next \in Leaves /\ leaf[m].next # n
  BY DEF Linked, Aside, ListRight, ListOrder
<1>3. \A m \in Linked, k \in Keys : InRange(m, k)' <=> InRange(m, k)
  BY <1>2 DEF Aside, InRange
<1>5. ListOrder'
  <2>1. \A m \in Linked : /\ leaf'[m].anchor = leaf[m].anchor /\ leaf'[m].next = leaf[m].next
                          /\ leaf'[m].prev = leaf[m].prev
    BY <1>2 DEF Aside
  <2> QED BY <1>1, <1>2, <2>1 DEF ListRight, ListOrder
<1> QED BY <1>1, <1>3, <1>5

\* A thread whose leaves keep their keys knows what it knew.
LEMMA KnowsAside ==
    ASSUME Types, ListRight, StatesRight, NEW n, Aside(n), NEW u \in Threads, th'[u] = th[u], Knows(u),
           th[u].pc \in Moving => /\ th[u].other # n
                                  /\ leaf'[th[u].leaf].keys = leaf[th[u].leaf].keys
                                  /\ leaf'[th[u].other].keys = leaf[th[u].other].keys
    PROVE  Knows(u)'
<1>1. /\ Linked' = Linked
      /\ \A m \in Linked, k \in Keys : InRange(m, k)' <=> InRange(m, k)
  BY AsideChange
<1>2. /\ \A m \in Linked : /\ m \in Leaves /\ m # n
                           /\ leaf[m].next # None => leaf[m].next \in Linked
                                                     /\ leaf[m].next \in Leaves /\ leaf[m].next # n
      /\ \A m \in Leaves : leaf[m].keys \subseteq Keys
  BY DEF Linked, Aside, ListRight, ListOrder, Types, LeafRecord
<1>3. /\ th[u].pc \in Seeking \cup HoldsLeaf \cup Changing => th[u].leaf \in Leaves /\ th[u].key \in Keys
      /\ th[u].pc \in HoldsLeaf \cup Changing => th[u].leaf \in Linked
      /\ th[u].pc \in NextPlaces \cup Moving \cup Changing => th[u].other \in Leaves /\ th[u].leaf \in Linked
  BY DEF Types, Seeking, HoldsLeaf, Changing, NextPlaces, Moving, At, StatesRight
<1>4. CASE th[u].pc \in Moving
  <2>1. th[u].leaf # n /\ th[u].other # n
    BY <1>2, <1>3, <1>4
  <2> QED BY <1>1, <1>2, <1>3, <1>4, <2>1 DEF Knows, Aside, Merging, Splitting, Moving, Seeking,
       NextPlaces, Changing, At
<1>5. CASE th[u].pc \in Seeking
  <2>1. th[u].leaf \in Leaves /\ th[u].leaf # n
    BY <1>3, <1>5 DEF Knows, Aside
  <2> QED BY <1>1, <1>2, <1>3, <1>5, <2>1 DEF Knows, Aside, Merging, Splitting, Moving, Seeking,
       NextPlaces, Changing, At
<1>6. CASE th[u].pc \in NextPlaces
  BY <1>1, <1>2, <1>3, <1>6
   DEF Knows, Aside, Merging, Splitting, Moving, Seeking, NextPlaces, Changing, At
<1>7. CASE th[u].pc \in Changing
  BY <1>1, <1>2, <1>3, <1>7
   DEF Knows, Aside, Merging, Splitting, Moving, Seeking, NextPlaces, Changing, At
<1>8. CASE At(u, "held")
  BY <1>1, <1>2, <1>3, <1>8
   DEF Knows, HoldsLeaf, Merging, Splitting, Moving, Seeking, NextPlaces, Changing, At
<1>9. CASE th[u].pc \notin Moving \cup Seeking \cup NextPlaces \cup Changing \cup {"held"}
  BY <1>9 DEF Knows, Merging, Splitting, At
<1> QED BY <1>4, <1>5, <1>6, <1>7, <1>8, <1>9 DEF At

\* An iterator whose leaf keeps its keys knows what it knew.
LEMMA ScansAside ==
    ASSUME Types, ListRight, StatesRight, NEW n, Aside(n), NEW u \in Threads, th'[u] = th[u], Scans(u),
           Knows(u), must'[u] = must[u], must[u] \subseteq Present',
           At(u, "cursor") => th[u].at \in leaf'[th[u].leaf].keys
    PROVE  Scans(u)'
<1>1. \A m \in Linked : /\ m \in Leaves /\ m # n
                        /\ leaf[m].next # None => leaf[m].next \in Linked
                                                  /\ leaf[m].next \in Leaves /\ leaf[m].next # n
  BY DEF Linked, Aside, ListRight, ListOrder
<1>2. /\ th[u].pc \in HoldsLeaf => th[u].leaf \in Linked
      /\ th[u].pc \in NextPlaces => th[u].leaf \in Linked /\ leaf[th[u].leaf].next = th[u].other
                                    /\ th[u].other \in Leaves
  BY DEF StatesRight, Knows, NextPlaces, HoldsLeaf, Types
<1>3. th[u].pc \in NextPlaces => th[u].other # n /\ th[u].other \in Leaves
  BY <1>1, <1>2, NoneApart
<1> QED BY <1>1, <1>2, <1>3 DEF Scans, Aside, HoldsLeaf, At

\* What a thread has announced goes by versions and states of leaves of the list,
\* which stay.
LEMMA QuietAside ==
    ASSUME Types, Quiescence, LeafRight, NEW n, Aside(n), NEW t \in Threads,
           UNCHANGED <<hv, cur, unquiet>>,
           \A u \in Threads : u # t => th'[u] = th[u] /\ qstate'[u] = qstate[u],
           th[t].pc \notin Changing, th'[t].pc \notin Changing, Quiet(t)'
    PROVE  Quiescence'
<1>1. \A u \in Threads : Awaited(u) => Awaited(u)'
  BY DEF Awaited, At, Changing
<1>2. ASSUME NEW u \in Threads, u # t PROVE Quiet(u)'
  <2>1. th[u].pc \in Seeking => th[u].leaf \in Leaves /\ th[u].leaf # n
    BY DEF Types, LeafRight, Knows, Aside
  <2>2. \A w \in Threads : (th'[w].pc \in Changing => th[w].pc \in Changing /\ th'[w] = th[w])
    OBVIOUS
  <2>3. th'[u] = th[u] /\ Quiet(u) /\ qstate'[u] = qstate[u]
    BY <1>2 DEF Quiescence
  <2> QED BY <1>1, <2>1, <2>2, <2>3 DEF Quiet, At, Aside
<1> QED BY <1>2 DEF Quiescence

\* The key of a leaf is in no other, but that of a thread that moves keys of the leaf.
LEMMA KeyIsHere ==
    ASSUME IInv, NEW t \in Threads, NEW l \in Linked, NEW k \in Keys, InRange(l, k),
           \A u \in Threads : u # t /\ th[u].pc \in Moving => th[u].leaf # l /\ th[u].other # l,
           NEW m \in Leaves, m # l, leaf[m].state \in {"linked", "local"}, k \in leaf[m].keys
    PROVE  \/ th[t].pc \in Moving /\ th[t].leaf = l /\ th[t].other = m
           \/ th[t].pc \in Moving /\ th[t].leaf = m /\ th[t].other = l
<1>1. k \in Nat
  BY IndexAssumption
<1>2. CASE m \in Linked
  <2>1. ~InRange(m, k)
    BY <1>1, <1>2, RangesApart DEF IInv
  <2>2. PICK u \in Threads : Merging(u) /\ th[u].leaf = m /\ InRange(th[u].other, k)
    BY <1>2, <2>1 DEF IInv, ListRight, KeysRight
  <2>3. th[u].other = leaf[m].next /\ th[u].other \in Leaves /\ th[u].pc \in Moving
    BY <2>2 DEF IInv, LeafRight, Knows, Merging, Types
  <2>4. th[u].other \in Linked
    BY <1>2, <2>3, NoneApart DEF IInv, ListRight, ListOrder
  <2>5. th[u].other = l
    BY <1>1, <2>2, <2>4, RangesApart DEF IInv
  <2> QED BY <2>2, <2>3, <2>5
<1>3. CASE leaf[m].state = "local"
  <2>1. PICK u \in Threads : Splitting(u) /\ th[u].other = m
    BY <1>3 DEF IInv, StatesRight
  <2>2. th[u].leaf \in Linked /\ InRange(th[u].leaf, k) /\ th[u].pc \in Moving
    BY <2>1 DEF IInv, LeafRight, Knows, StatesRight, Splitting, Moving, HoldsLeaf
  <2>3. th[u].leaf = l
    BY <1>1, <2>2, RangesApart DEF IInv
  <2> QED BY <2>1, <2>2, <2>3
<1> QED BY <1>2, <1>3 DEF Linked

-----------------------------------------------------------------------------
(* Insertions and deletions                                                  *)

\* wormhole_put: the key goes to the leaf of its range.
LEMMA PutInLeafKeeps ==
    ASSUME IInv, "back" \notin Ops, NEW t \in Threads, PutInLeaf(t)
    PROVE  IInv' /\ Present' = Present \cup {th[t].key}
<1> USE DEF IInv
<1> DEFINE l == th[t].leaf
           k == th[t].key
<1>a. /\ th[t].pc = "held" /\ th[t].op = "put" /\ l \in Linked /\ l \in Leaves /\ k \in Keys
      /\ l = th[t].leaf /\ k = th[t].key /\ InRange(l, k) /\ wlock[l] = t /\ t # None
      /\ \A x \in leaf[l].keys : InRange(l, x)
      /\ k \in Present <=> k \in leaf[l].keys
      /\ \A u \in Threads : th[u].pc \in Moving => th[u].leaf # l /\ th[u].other # l
      /\ \A u \in Threads : At(u, "cursor") => th[u].leaf # l
  <2>1. th[t].pc = "held" /\ th[t].op = "put"
    BY DEF PutInLeaf, At
  <2>2. l \in Linked /\ l \in Leaves /\ k \in Keys /\ InRange(l, k) /\ Holds(t, l)
    BY <2>1 DEF StatesRight, LeafRight, Knows, LocksRight, HasLocks, HoldsLeaf, Linked, Types, At
  <2>3. wlock[l] = t /\ t # None
    BY <2>1, <2>2, NoneApart DEF Holds, Writes
  <2>4. /\ \A x \in leaf[l].keys : InRange(l, x)
        /\ k \in Present <=> k \in leaf[l].keys
        /\ \A u \in Threads : th[u].pc \in Moving => th[u].leaf # l /\ th[u].other # l
    BY <2>1, <2>2, HeldLeaf DEF Moving
  <2>5. \A u \in Threads : At(u, "cursor") => th[u].leaf # l
    <3> SUFFICES ASSUME NEW u \in Threads, At(u, "cursor"), th[u].leaf = l PROVE FALSE
      OBVIOUS
    <3>1. Holds(u, l) /\ th[u].op = "scan"
      BY DEF LocksRight, HasLocks, HoldsLeaf, At, ScansRight, Scans
    <3>2. rlock[l] = {}
      BY <2>2, <2>3 DEF LocksRight, LocksApart
    <3> QED BY <3>1, <3>2 DEF Holds, Writes
  <2> QED BY <2>1, <2>2, <2>3, <2>4, <2>5
<1>c. /\ leaf' = [leaf EXCEPT ![l].keys = leaf[l].keys \cup {k}]
      /\ Keeps(t, TRUE) /\ UNCHANGED must
  BY DEF PutInLeaf
<1> HIDE DEF l, k
<1>e. OnlyKeys /\ leaf'[l].keys = leaf[l].keys \cup {k} /\ \A m \in Leaves : m # l => leaf'[m].keys = leaf[m].keys
  BY <1>a, <1>c DEF Types, LeafRecord, OnlyKeys
<1>k. /\ Linked' = Linked
      /\ \A m \in Leaves, x \in Keys : InRange(m, x)' <=> InRange(m, x)
      /\ ListOrder'
  BY <1>e, KeysChange
<1>p. Present' = Present \cup {k} /\ must' = must
  <2>1. \A u \in Threads : Splitting(u)' <=> Splitting(u)
    BY <1>a, <1>c DEF Keeps, Return, Splitting, Moving, Idle, Types
  <2>2. \A u \in Threads : Splitting(u) => th'[u].key = th[u].key /\ th[u].key # k
    <3> SUFFICES ASSUME NEW u \in Threads, Splitting(u) PROVE th'[u].key = th[u].key /\ th[u].key # k
      OBVIOUS
    <3>1. u # t
      BY <1>a DEF Splitting, Moving
    <3>2. th[u].leaf \in Linked /\ InRange(th[u].leaf, th[u].key) /\ th[u].leaf # l
      BY <1>a DEF LeafRight, Knows, StatesRight, Splitting, Moving, HoldsLeaf
    <3>3. th[u].key # k
      BY <1>a, <3>2, RangesApart, IndexAssumption
    <3> QED BY <1>c, <3>1, <3>3 DEF Keeps, Return, Types
  <2>3. \A x : InMap(x)' <=> InMap(x) \/ x = k
    <3>1. leaf[l].state = "linked"
      BY <1>a DEF Linked
    <3> QED BY <1>a, <1>e, <2>1, <2>2, <3>1 DEF InMap, OnlyKeys
  <2> QED BY <1>c, <2>3, IsPresent, IsPresentNext
<1>1. th' = [th EXCEPT ![t] = [Idle EXCEPT !.answer = TRUE]]
  BY <1>a, <1>c, <1>e, SMT DEF Return, Keeps
<1>2. /\ th[t].pc = "held" /\ l = th[t].leaf /\ k = th[t].key /\ OnlyKeys
      /\ (\A m \in Leaves : m # l => leaf'[m].keys = leaf[m].keys)
      /\ leaf'[l].keys = leaf[l].keys \cup {k}
      /\ UNCHANGED <<table, hv, cur, metalock, qstate, unquiet, must>>
      /\ Unlock(t, {l})
      /\ parked' = parked \cup {t}
  BY <1>a, <1>c, <1>e, SMT DEF At, Keeps, Return, Unlock
<1>3. [Idle EXCEPT !.answer = TRUE] \in Record
  <2>1. TRUE \in BOOLEAN \cup {None}
    OBVIOUS
  <2> QED BY <2>1, IdleRecord
<1>4. /\ \A u \in Threads : u # t => th'[u] = th[u]
      /\ th'[t].pc = "idle" /\ th'[t].op = None /\ th'[t].key = None /\ th'[t].hm = 0
      /\ th'[t].v = 0 /\ th'[t].v1 = 0 /\ th'[t].leaf = None /\ th'[t].other = None
      /\ th'[t].at = None /\ th'[t].back = FALSE /\ th'[t].answer = TRUE
  BY <1>1, <1>3 DEF Types, Record, Idle
<1>r. Released(t, {l})
  BY <1>2, <1>4, LocksReleased DEF LocksRight
<1>5. Types'
  <2>0. th' \in [Threads -> Record]
    BY <1>1, <1>3 DEF Types
  <2> QED BY <2>0, <1>2, <1>4, <1>r DEF Types, Released, At, Seeking, HoldsLeaf, Changing, NextPlaces,
       Moving, OnlyKeys
<1>6. LocksRight'
  BY <1>2, <1>4, <1>r
   DEF Types, Released, LocksRight, LocksApart, HasLocks, HoldsLeaf, HoldsOther, Meta, Parks, Changing,
       NextPlaces, Moving, Seeking, At, OnlyKeys
<1>7. ListRight'
  <2>1. ASSUME NEW a \in Linked, NEW x \in leaf'[a].keys
        PROVE  InRange(a, x)' \/ \E u \in Threads : Merging(u)' /\ th'[u].leaf = a /\ InRange(th[u].other, x)'
    <3>1. a \in Leaves /\ x \in Keys
      BY <2>1, <1>2 DEF Linked, OnlyKeys, LeafRecord
    <3>2. CASE a = l
      <4>2. x \in leaf[a].keys \/ x = k
        BY <2>1, <3>2, <1>2
      <4>1. InRange(a, x)
        BY <4>2, <3>2, <1>a
      <4> QED BY <3>1, <4>1, <1>k
    <3>3. CASE a # l
      <4>1. InRange(a, x) \/ \E u \in Threads : Merging(u) /\ th[u].leaf = a /\ InRange(th[u].other, x)
        BY <3>3, <3>1, <1>2 DEF ListRight, KeysRight
      <4>2. CASE InRange(a, x)
        BY <3>1, <4>2, <1>k
      <4>3. ASSUME NEW u \in Threads, Merging(u), th[u].leaf = a, InRange(th[u].other, x)
            PROVE  Merging(u)' /\ th'[u].leaf = a /\ InRange(th[u].other, x)'
        <5>1. u # t /\ th[u].other \in Leaves
          BY <4>3, <1>a DEF Merging, Moving, Types
        <5>2. th'[u] = th[u]
          BY <5>1, <1>4
        <5> QED BY <3>1, <4>3, <5>1, <5>2, <1>k DEF Merging
      <4> QED BY <4>1, <4>2, <4>3
    <3> QED BY <3>2, <3>3
  <2> QED BY <2>1, <1>k DEF ListRight, KeysRight
<1>8. StatesRight'
  BY <1>2, <1>4, <1>a, <1>k DEF StatesRight, OnlyKeys, Splitting, Moving, HoldsLeaf, Changing
<1>9. LeafRight'
  <2>1. \A u \in Threads : u # t => Knows(u)'
    <3> SUFFICES ASSUME NEW u \in Threads, u # t PROVE Knows(u)'
      OBVIOUS
    <3>1. th[u].pc \in Moving => th[u].leaf \in Leaves \ {l} /\ th[u].other \in Leaves \ {l}
      BY <1>a DEF Types, Moving, HoldsLeaf
    <3> QED BY <3>1, <1>2, <1>4, KnowsStays DEF LeafRight
  <2>2. Knows(t)'
    BY <1>2, <1>4, <1>a, <1>k
     DEF LeafRight, Knows, OnlyKeys, Merging, Splitting, Moving, Seeking, NextPlaces, Changing, At
  <2> QED BY <2>1, <2>2 DEF LeafRight
<1>10. TablesRight'
  <2>1. /\ th[t].pc \notin Changing /\ th'[t].pc \notin Changing
        /\ \A u \in Threads : th[u].pc \in Changing => th[u].leaf \in Leaves /\ th[u].other \in Leaves
    BY <1>2, <1>4 DEF Changing, Types
  <2>2. MetaRight'
    BY <1>2, <1>4 DEF TablesRight, MetaRight, LocksRight, HasLocks, Meta, Changing, Types
  <2> QED BY <2>1, <2>2, <1>2, <1>4, <1>k, TablesStay DEF OnlyKeys
<1>11. Quiescence'
  <2>1. Quiet(t)'
    BY <1>2, <1>4 DEF Quiescence, Quiet, Seeking, Awaited, Changing, At, Types
  <2>2. th[t].pc \notin Changing /\ th'[t].pc \notin Changing
    BY <1>2, <1>4 DEF Changing
  <2> QED BY <2>1, <2>2, <1>2, <1>4, QuietStays DEF OnlyKeys
<1>12. AnswersRight'
  BY <1>2, <1>4 DEF AnswersRight, Changing, NextPlaces, Moving, At
<1>13. ScansRight'
  <2>1. \A u \in Threads : u # t => Scans(u)'
    <3> SUFFICES ASSUME NEW u \in Threads, u # t PROVE Scans(u)'
      OBVIOUS
    <3>1. At(u, "cursor") => th[u].leaf \in Leaves \ {l}
      BY <1>a DEF Types, HoldsLeaf, At
    <3>2. At(u, "cursor") => th[u].at \in leaf'[th[u].leaf].keys
      BY <3>1, <1>2 DEF ScansRight, Scans
    <3>3. must'[u] \subseteq must[u] /\ must'[u] \subseteq Present'
      BY <1>2, <1>p DEF ScansRight, Scans
    <3> QED BY <3>2, <3>3, <1>2, <1>4, ScansStays DEF ScansRight
  <2>2. must[t] = {}
    BY <1>a DEF ScansRight, Scans
  <2>3. Scans(t)'
    BY <2>2, <1>2, <1>4, <1>p DEF Scans, NextPlaces, Seeking, At
  <2> QED BY <2>1, <2>3 DEF ScansRight
<1>q. IInv'
  BY <1>5, <1>6, <1>7, <1>8, <1>9, <1>10, <1>11, <1>12, <1>13 DEF IInv
<1> QED BY <1>q, <1>p, <1>a

\* wormhole_del: the key leaves the map and every iterator's account; a leaf that
\* has become small stays locked.
LEMMA DelKeyKeeps ==
    ASSUME IInv, "back" \notin Ops, NEW t \in Threads, DelKey(t)
    PROVE  IInv' /\ Present' = Present \ {th[t].key}
<1> USE DEF IInv
<1> DEFINE l == th[t].leaf
           k == th[t].key
<1>a. /\ k \in leaf[l].keys
      /\ th[t].pc = "held" /\ th[t].op = "del" /\ l \in Linked /\ l \in Leaves /\ k \in Keys
      /\ l = th[t].leaf /\ k = th[t].key /\ InRange(l, k) /\ wlock[l] = t /\ t # None
      /\ \A x \in leaf[l].keys : InRange(l, x)
      /\ k \in Present <=> k \in leaf[l].keys
      /\ \A u \in Threads : th[u].pc \in Moving => th[u].leaf # l /\ th[u].other # l
      /\ \A u \in Threads : At(u, "cursor") => th[u].leaf # l
  <2>1. th[t].pc = "held" /\ th[t].op = "del"
    BY DEF DelKey, At
  <2>6. k \in leaf[l].keys
    BY DEF DelKey
  <2>2. l \in Linked /\ l \in Leaves /\ k \in Keys /\ InRange(l, k) /\ Holds(t, l)
    BY <2>1 DEF StatesRight, LeafRight, Knows, LocksRight, HasLocks, HoldsLeaf, Linked, Types, At
  <2>3. wlock[l] = t /\ t # None
    BY <2>1, <2>2, NoneApart DEF Holds, Writes
  <2>4. /\ \A x \in leaf[l].keys : InRange(l, x)
        /\ k \in Present <=> k \in leaf[l].keys
        /\ \A u \in Threads : th[u].pc \in Moving => th[u].leaf # l /\ th[u].other # l
    BY <2>1, <2>2, HeldLeaf DEF Moving
  <2>5. \A u \in Threads : At(u, "cursor") => th[u].leaf # l
    <3> SUFFICES ASSUME NEW u \in Threads, At(u, "cursor"), th[u].leaf = l PROVE FALSE
      OBVIOUS
    <3>1. Holds(u, l) /\ th[u].op = "scan"
      BY DEF LocksRight, HasLocks, HoldsLeaf, At, ScansRight, Scans
    <3>2. rlock[l] = {}
      BY <2>2, <2>3 DEF LocksRight, LocksApart
    <3> QED BY <3>1, <3>2 DEF Holds, Writes
  <2> QED BY <2>1, <2>2, <2>3, <2>4, <2>5, <2>6
<1>c. /\ leaf' = [leaf EXCEPT ![l].keys = leaf[l].keys \ {k}]
      /\ must' = [u \in Threads |-> must[u] \ {k}]
      /\ UNCHANGED <<table, hv, cur, metalock, qstate, unquiet>>
  BY DEF DelKey
<1> DEFINE small == Small(Cardinality(leaf[l].keys \ {k}), l)
           n == leaf[l].next
<1>d. /\ small => /\ th' = [th EXCEPT ![t].pc = "next", ![t].other = n, ![t].answer = TRUE]
                  /\ UNCHANGED <<wlock, rlock, parked>>
      /\ ~small => Return(t, TRUE) /\ Unlock(t, {l})
      /\ small => n # None
  BY DEF DelKey, Small
<1>n. n \in Leaves \cup {None} /\ n = leaf[l].next
  BY <1>a DEF Types, LeafRecord
<1> HIDE DEF l, k, small, n
<1>e. OnlyKeys /\ leaf'[l].keys = leaf[l].keys \ {k} /\ \A m \in Leaves : m # l => leaf'[m].keys = leaf[m].keys
  BY <1>a, <1>c DEF Types, LeafRecord, OnlyKeys
<1>t. \A u \in Threads : /\ u # t => th'[u] = th[u]
                         /\ th'[t].pc \in {"idle", "next"}
  <2>1. CASE small
    <3>1. th' = [th EXCEPT ![t].pc = "next", ![t].other = n, ![t].answer = TRUE]
      BY <1>d, <2>1
    <3>2. th \in [Threads -> Record] /\ th[t] \in Record
      BY DEF Types
    <3>3. \A u \in Threads : u # t => th'[u] = th[u]
      BY <3>1, <3>2
    <3>4. th'[t] = [th[t] EXCEPT !.pc = "next", !.other = n, !.answer = TRUE]
      BY <3>1, <3>2
    <3>5. th'[t].pc = "next"
      BY <3>2, <3>4 DEF Record
    <3> QED BY <3>3, <3>5
  <2>2. CASE ~small
    BY <1>d, <2>2 DEF Types, Return, Idle
  <2> QED BY <2>1, <2>2
<1>k. /\ Linked' = Linked
      /\ \A m \in Leaves, x \in Keys : InRange(m, x)' <=> InRange(m, x)
      /\ ListOrder'
  BY <1>e, KeysChange
<1>p. /\ Present' = Present \ {k} /\ \A u \in Threads : must'[u] = must[u] \ {k}
      /\ must' \in [Threads -> SUBSET Keys]
  <2>1. \A u \in Threads : Splitting(u)' <=> Splitting(u)
    BY <1>a, <1>t DEF Splitting, Moving
  <2>2. \A u \in Threads : Splitting(u) => th'[u].key = th[u].key
    BY <1>a, <1>t DEF Splitting, Moving
  <2>3. ASSUME NEW x PROVE InMap(x)' <=> InMap(x) /\ x # k
    <3>1. leaf[l].state = "linked"
      BY <1>a DEF Linked
    <3>2. CASE x # k
      BY <1>a, <1>e, <2>1, <2>2, <3>1, <3>2 DEF InMap, OnlyKeys
    <3>3. ASSUME x = k, InMap(x)' PROVE FALSE
      <4>0. PICK m \in Leaves : leaf[m].state \in {"linked", "local"} /\ x \in leaf'[m].keys
        BY <1>e, <3>3 DEF InMap, OnlyKeys
      <4>1. leaf[m].state \in {"linked", "local"} /\ k \in leaf'[m].keys
        BY <3>3, <4>0
      <4>2. m # l /\ k \in leaf[m].keys
        BY <1>e, <4>1
      <4>3. k \in Nat
        BY <1>a, IndexAssumption
      <4>4. CASE m \in Linked
        <5>1. ~InRange(m, k)
          BY <1>a, <4>2, <4>3, <4>4, RangesApart
        <5>2. PICK u \in Threads : Merging(u) /\ th[u].leaf = m /\ InRange(th[u].other, k)
          BY <4>2, <4>4, <5>1 DEF ListRight, KeysRight
        <5>3. th[u].other = leaf[m].next /\ th[u].other \in Leaves /\ th[u].pc \in Moving
          BY <5>2 DEF LeafRight, Knows, Merging, Types
        <5>4. th[u].other \in Linked
          BY <4>4, <5>3, NoneApart DEF ListRight, ListOrder
        <5>5. th[u].other = l
          BY <1>a, <4>3, <5>2, <5>4, RangesApart
        <5> QED BY <1>a, <5>3, <5>5
      <4>5. CASE leaf[m].state = "local"
        <5>1. PICK u \in Threads : Splitting(u) /\ th[u].other = m
          BY <4>5 DEF StatesRight
        <5>2. th[u].leaf \in Linked /\ InRange(th[u].leaf, k) /\ th[u].pc \in Moving
          BY <4>2, <5>1 DEF LeafRight, Knows, StatesRight, Splitting, Moving, HoldsLeaf
        <5>3. th[u].leaf = l
          BY <1>a, <4>3, <5>2, RangesApart
        <5> QED BY <1>a, <5>2, <5>3
      <4> QED BY <4>1, <4>4, <4>5 DEF Linked
    <3> QED BY <3>2, <3>3
  <2> QED BY <1>c, <2>3, IsPresent, IsPresentNext DEF Types
<1>1. CASE small
  <2>0. n \in Leaves /\ n = leaf[l].next
    BY <1>1, <1>d, <1>n
  <2>1. th' = [th EXCEPT ![t].pc = "next", ![t].other = n, ![t].answer = TRUE]
    BY <1>1, <1>a, <1>c, <1>d, <1>e, <1>p, SMT DEF Return
  <2>2. /\ th[t].pc = "held" /\ l = th[t].leaf /\ k = th[t].key /\ OnlyKeys
        /\ (\A m \in Leaves : m # l => leaf'[m].keys = leaf[m].keys)
        /\ leaf'[l].keys = leaf[l].keys \ {k} /\ th[t].op = "del"
        /\ UNCHANGED <<wlock, rlock, table, hv, cur, metalock, qstate, parked, unquiet>>
        /\ must' \in [Threads -> SUBSET Keys] /\ \A u \in Threads : must'[u] = must[u] \ {k}
    BY <2>0, <1>1, <1>a, <1>c, <1>d, <1>e, <1>p, SMT DEF At, Return, Unlock
  <2>3. [th[t] EXCEPT !.pc = "next", !.other = n, !.answer = TRUE] \in Record
    <3>1. "next" \in Places /\ n \in Leaves
      BY <2>0, <2>2 DEF Types, Places
    <3>2. th[t] \in Record
      BY DEF Types
    <3> QED BY <3>1, <3>2 DEF Record
  <2>4. /\ \A u \in Threads : u # t => th'[u] = th[u]
        /\ th'[t].pc = "next" /\ th'[t].op = th[t].op /\ th'[t].key = th[t].key
        /\ th'[t].hm = th[t].hm
        /\ th'[t].v = th[t].v /\ th'[t].v1 = th[t].v1 /\ th'[t].leaf = th[t].leaf
        /\ th'[t].other = n
        /\ th'[t].at = th[t].at /\ th'[t].back = th[t].back /\ th'[t].answer = TRUE
    BY <2>1, <2>3 DEF Types, Record
  <2>5. Types'
    <3>1. th'[t].leaf \in Leaves /\ th'[t].other \in Leaves /\ th'[t].op \in Ops /\ th'[t].key \in Keys
      BY <2>0, <2>2, <2>4, <1>a DEF Types, At
    <3>2. leaf' \in [Leaves -> LeafRecord]
      BY <2>2 DEF OnlyKeys
    <3>0. th' \in [Threads -> Record]
      BY <2>1, <2>3 DEF Types
    <3> QED BY <2>0, <3>0, <3>1, <3>2, <2>2, <2>4 DEF Types, At, Seeking, HoldsLeaf, Changing,
         NextPlaces, Moving, OnlyKeys
  <2>6. LocksRight'
    <3>1. LocksApart'
      BY <2>2 DEF LocksRight, LocksApart, OnlyKeys
    <3>2. ASSUME NEW u \in Threads, u # t PROVE HasLocks(u)'
      BY <3>2, <2>2, <2>4 DEF LocksRight, HasLocks, Holds
    <3>3. HasLocks(t)'
      BY <2>2, <2>4
       DEF LocksRight, HasLocks, Holds, Writes, HoldsLeaf, HoldsOther, Meta, Parks, Changing
    <3> QED BY <3>1, <3>2, <3>3 DEF LocksRight
  <2>7. ListRight'
    <3>1. ASSUME NEW a \in Linked, NEW x \in leaf'[a].keys
          PROVE  InRange(a, x)' \/ \E u \in Threads : Merging(u)' /\ th'[u].leaf = a /\ InRange(th[u].other, x)'
      <4>1. a \in Leaves /\ x \in Keys
        BY <3>1, <2>2 DEF Linked, OnlyKeys, LeafRecord
      <4>2. CASE a = l
        <5>2. x \in leaf[a].keys
          BY <3>1, <4>2, <2>2
        <5>1. InRange(a, x)
          BY <5>2, <4>2, <1>a
        <5> QED BY <4>1, <5>1, <1>k
      <4>3. CASE a # l
        <5>1. InRange(a, x) \/ \E u \in Threads : Merging(u) /\ th[u].leaf = a /\ InRange(th[u].other, x)
          BY <3>1, <4>3, <4>1, <2>2 DEF ListRight, KeysRight
        <5>2. CASE InRange(a, x)
          BY <4>1, <5>2, <1>k
        <5>3. ASSUME NEW u \in Threads, Merging(u), th[u].leaf = a, InRange(th[u].other, x)
              PROVE  Merging(u)' /\ th'[u].leaf = a /\ InRange(th[u].other, x)'
          <6>1. u # t /\ th[u].other \in Leaves
            BY <5>3, <1>a DEF Merging, Moving, Types
          <6>2. th'[u] = th[u]
            BY <6>1, <2>4
          <6> QED BY <4>1, <5>3, <6>1, <6>2, <1>k DEF Merging
        <5> QED BY <5>1, <5>2, <5>3
      <4> QED BY <4>2, <4>3
    <3> QED BY <3>1, <1>k DEF ListRight, KeysRight
  <2>8. StatesRight'
    BY <2>2, <2>4, <1>a, <1>k DEF StatesRight, OnlyKeys, Splitting, Moving, HoldsLeaf, Changing
  <2>9. LeafRight'
    <3>1. \A u \in Threads : u # t => Knows(u)'
      <4> SUFFICES ASSUME NEW u \in Threads, u # t PROVE Knows(u)'
        OBVIOUS
      <4>1. th[u].pc \in Moving => th[u].leaf \in Leaves \ {l} /\ th[u].other \in Leaves \ {l}
        BY <1>a DEF Types, Moving, HoldsLeaf
      <4> QED BY <4>1, <2>2, <2>4, KnowsStays DEF LeafRight
    <3>2. Knows(t)'
      BY <2>0, <2>2, <2>4, <1>a, <1>k
       DEF LeafRight, Knows, OnlyKeys, Merging, Splitting, Moving, Seeking, NextPlaces, Changing, At
    <3> QED BY <3>1, <3>2 DEF LeafRight
  <2>10. TablesRight'
    <3>1. /\ th[t].pc \notin Changing /\ th'[t].pc \notin Changing
          /\ \A u \in Threads : th[u].pc \in Changing => th[u].leaf \in Leaves /\ th[u].other \in Leaves
      BY <2>2, <2>4 DEF Changing, Types
    <3>2. MetaRight'
      BY <2>2, <2>4 DEF TablesRight, MetaRight, LocksRight, HasLocks, Meta, Changing, Types
    <3> QED BY <3>1, <3>2, <2>2, <2>4, <1>k, TablesStay DEF OnlyKeys
  <2>11. Quiescence'
    <3>1. Quiet(t)'
      BY <2>2, <2>4 DEF Quiescence, Quiet, Seeking, Awaited, Changing, At, Types
    <3>2. th[t].pc \notin Changing /\ th'[t].pc \notin Changing
      BY <2>2, <2>4 DEF Changing
    <3> QED BY <3>1, <3>2, <2>2, <2>4, QuietStays DEF OnlyKeys
  <2>12. AnswersRight'
    BY <2>2, <2>4 DEF AnswersRight, Changing, NextPlaces, Moving, At
  <2>13. ScansRight'
    <3>1. \A u \in Threads : u # t => Scans(u)'
      <4> SUFFICES ASSUME NEW u \in Threads, u # t PROVE Scans(u)'
        OBVIOUS
      <4>1. At(u, "cursor") => th[u].leaf \in Leaves \ {l}
        BY <1>a DEF Types, HoldsLeaf, At
      <4>2. At(u, "cursor") => th[u].at \in leaf'[th[u].leaf].keys
        BY <4>1, <2>2 DEF ScansRight, Scans
      <4>3. must'[u] \subseteq must[u] /\ must'[u] \subseteq Present'
        BY <2>2, <1>p DEF ScansRight, Scans
      <4> QED BY <4>2, <4>3, <2>2, <2>4, ScansStays DEF ScansRight
    <3>2. must[t] = {}
      BY <1>a DEF ScansRight, Scans
    <3>3. Scans(t)'
      BY <3>2, <1>n,  <2>2, <2>4, <1>p DEF Scans, NextPlaces, Seeking, At
    <3> QED BY <3>1, <3>3 DEF ScansRight
  <2>q. IInv'
    BY <2>5, <2>6, <2>7, <2>8, <2>9, <2>10, <2>11, <2>12, <2>13 DEF IInv
  <2> QED BY <2>q, <1>p, <1>a
<1>2. CASE ~small
  <2>1. th' = [th EXCEPT ![t] = [Idle EXCEPT !.answer = TRUE]]
    BY <1>2, <1>a, <1>c, <1>d, <1>e, <1>p, SMT DEF Return
  <2>2. /\ th[t].pc = "held" /\ l = th[t].leaf /\ k = th[t].key /\ OnlyKeys
        /\ (\A m \in Leaves : m # l => leaf'[m].keys = leaf[m].keys)
        /\ leaf'[l].keys = leaf[l].keys \ {k} /\ th[t].op = "del"
        /\ UNCHANGED <<table, hv, cur, metalock, qstate, unquiet>>
        /\ must' \in [Threads -> SUBSET Keys] /\ \A u \in Threads : must'[u] = must[u] \ {k}
        /\ Unlock(t, {l})
        /\ parked' = parked \cup {t}
    BY <1>2, <1>a, <1>c, <1>d, <1>e, <1>p, SMT DEF At, Return, Unlock
  <2>3. [Idle EXCEPT !.answer = TRUE] \in Record
    <3>1. TRUE \in BOOLEAN \cup {None}
      OBVIOUS
    <3> QED BY <3>1, IdleRecord
  <2>4. /\ \A u \in Threads : u # t => th'[u] = th[u]
        /\ th'[t].pc = "idle" /\ th'[t].op = None /\ th'[t].key = None /\ th'[t].hm = 0
        /\ th'[t].v = 0 /\ th'[t].v1 = 0 /\ th'[t].leaf = None /\ th'[t].other = None
        /\ th'[t].at = None /\ th'[t].back = FALSE /\ th'[t].answer = TRUE
    BY <2>1, <2>3 DEF Types, Record, Idle
  <2>r. Released(t, {l})
    BY <2>2, <2>4, LocksReleased DEF LocksRight
  <2>5. Types'
    <3>0. th' \in [Threads -> Record]
      BY <2>1, <2>3 DEF Types
    <3> QED BY <3>0, <2>2, <2>4, <2>r DEF Types, Released, At, Seeking, HoldsLeaf, Changing, NextPlaces,
         Moving, OnlyKeys
  <2>6. LocksRight'
    BY <2>2, <2>4, <2>r
     DEF Types, Released, LocksRight, LocksApart, HasLocks, HoldsLeaf, HoldsOther, Meta, Parks,
         Changing, NextPlaces, Moving, Seeking, At, OnlyKeys
  <2>7. ListRight'
    <3>1. ASSUME NEW a \in Linked, NEW x \in leaf'[a].keys
          PROVE  InRange(a, x)' \/ \E u \in Threads : Merging(u)' /\ th'[u].leaf = a /\ InRange(th[u].other, x)'
      <4>1. a \in Leaves /\ x \in Keys
        BY <3>1, <2>2 DEF Linked, OnlyKeys, LeafRecord
      <4>2. CASE a = l
        <5>2. x \in leaf[a].keys
          BY <3>1, <4>2, <2>2
        <5>1. InRange(a, x)
          BY <5>2, <4>2, <1>a
        <5> QED BY <4>1, <5>1, <1>k
      <4>3. CASE a # l
        <5>1. InRange(a, x) \/ \E u \in Threads : Merging(u) /\ th[u].leaf = a /\ InRange(th[u].other, x)
          BY <3>1, <4>3, <4>1, <2>2 DEF ListRight, KeysRight
        <5>2. CASE InRange(a, x)
          BY <4>1, <5>2, <1>k
        <5>3. ASSUME NEW u \in Threads, Merging(u), th[u].leaf = a, InRange(th[u].other, x)
              PROVE  Merging(u)' /\ th'[u].leaf = a /\ InRange(th[u].other, x)'
          <6>1. u # t /\ th[u].other \in Leaves
            BY <5>3, <1>a DEF Merging, Moving, Types
          <6>2. th'[u] = th[u]
            BY <6>1, <2>4
          <6> QED BY <4>1, <5>3, <6>1, <6>2, <1>k DEF Merging
        <5> QED BY <5>1, <5>2, <5>3
      <4> QED BY <4>2, <4>3
    <3> QED BY <3>1, <1>k DEF ListRight, KeysRight
  <2>8. StatesRight'
    BY <2>2, <2>4, <1>a, <1>k DEF StatesRight, OnlyKeys, Splitting, Moving, HoldsLeaf, Changing
  <2>9. LeafRight'
    <3>1. \A u \in Threads : u # t => Knows(u)'
      <4> SUFFICES ASSUME NEW u \in Threads, u # t PROVE Knows(u)'
        OBVIOUS
      <4>1. th[u].pc \in Moving => th[u].leaf \in Leaves \ {l} /\ th[u].other \in Leaves \ {l}
        BY <1>a DEF Types, Moving, HoldsLeaf
      <4> QED BY <4>1, <2>2, <2>4, KnowsStays DEF LeafRight
    <3>2. Knows(t)'
      BY <2>2, <2>4, <1>a, <1>k
       DEF LeafRight, Knows, OnlyKeys, Merging, Splitting, Moving, Seeking, NextPlaces, Changing, At
    <3> QED BY <3>1, <3>2 DEF LeafRight
  <2>10. TablesRight'
    <3>1. /\ th[t].pc \notin Changing /\ th'[t].pc \notin Changing
          /\ \A u \in Threads : th[u].pc \in Changing => th[u].leaf \in Leaves /\ th[u].other \in Leaves
      BY <2>2, <2>4 DEF Changing, Types
    <3>2. MetaRight'
      BY <2>2, <2>4 DEF TablesRight, MetaRight, LocksRight, HasLocks, Meta, Changing, Types
    <3> QED BY <3>1, <3>2, <2>2, <2>4, <1>k, TablesStay DEF OnlyKeys
  <2>11. Quiescence'
    <3>1. Quiet(t)'
      BY <2>2, <2>4 DEF Quiescence, Quiet, Seeking, Awaited, Changing, At, Types
    <3>2. th[t].pc \notin Changing /\ th'[t].pc \notin Changing
      BY <2>2, <2>4 DEF Changing
    <3> QED BY <3>1, <3>2, <2>2, <2>4, QuietStays DEF OnlyKeys
  <2>12. AnswersRight'
    BY <2>2, <2>4 DEF AnswersRight, Changing, NextPlaces, Moving, At
  <2>13. ScansRight'
    <3>1. \A u \in Threads : u # t => Scans(u)'
      <4> SUFFICES ASSUME NEW u \in Threads, u # t PROVE Scans(u)'
        OBVIOUS
      <4>1. At(u, "cursor") => th[u].leaf \in Leaves \ {l}
        BY <1>a DEF Types, HoldsLeaf, At
      <4>2. At(u, "cursor") => th[u].at \in leaf'[th[u].leaf].keys
        BY <4>1, <2>2 DEF ScansRight, Scans
      <4>3. must'[u] \subseteq must[u] /\ must'[u] \subseteq Present'
        BY <2>2, <1>p DEF ScansRight, Scans
      <4> QED BY <4>2, <4>3, <2>2, <2>4, ScansStays DEF ScansRight
    <3>2. must[t] = {}
      BY <1>a DEF ScansRight, Scans
    <3>3. Scans(t)'
      BY <3>2, <1>n,  <2>2, <2>4, <1>p DEF Scans, NextPlaces, Seeking, At
    <3> QED BY <3>1, <3>3 DEF ScansRight
  <2>q. IInv'
    BY <2>5, <2>6, <2>7, <2>8, <2>9, <2>10, <2>11, <2>12, <2>13 DEF IInv
  <2> QED BY <2>q, <1>p, <1>a
<1> QED BY <1>1, <1>2

\* wormhole_split_leaf: the anchor divides the leaf's range, and the map does not
\* have the new key until the list has the new leaf.
LEMMA PutSplitsKeeps ==
    ASSUME IInv, "back" \notin Ops, NEW t \in Threads, PutSplits(t)
    PROVE  IInv' /\ Present' = Present
<1> USE DEF IInv
<1> DEFINE l == th[t].leaf
           k == th[t].key
<1>a. /\ k \notin leaf[l].keys
      /\ th[t].pc = "held" /\ th[t].op = "put" /\ l \in Linked /\ l \in Leaves /\ k \in Keys
      /\ l = th[t].leaf /\ k = th[t].key /\ InRange(l, k) /\ wlock[l] = t /\ t # None
      /\ \A x \in leaf[l].keys : InRange(l, x)
      /\ k \in Present <=> k \in leaf[l].keys
      /\ \A u \in Threads : th[u].pc \in Moving => th[u].leaf # l /\ th[u].other # l
      /\ \A u \in Threads : At(u, "cursor") => th[u].leaf # l
  <2>1. th[t].pc = "held" /\ th[t].op = "put"
    BY DEF PutSplits, At
  <2>6. k \notin leaf[l].keys
    BY DEF PutSplits
  <2>2. l \in Linked /\ l \in Leaves /\ k \in Keys /\ InRange(l, k) /\ Holds(t, l)
    BY <2>1 DEF StatesRight, LeafRight, Knows, LocksRight, HasLocks, HoldsLeaf, Linked, Types, At
  <2>3. wlock[l] = t /\ t # None
    BY <2>1, <2>2, NoneApart DEF Holds, Writes
  <2>4. /\ \A x \in leaf[l].keys : InRange(l, x)
        /\ k \in Present <=> k \in leaf[l].keys
        /\ \A u \in Threads : th[u].pc \in Moving => th[u].leaf # l /\ th[u].other # l
    BY <2>1, <2>2, HeldLeaf DEF Moving
  <2>5. \A u \in Threads : At(u, "cursor") => th[u].leaf # l
    <3> SUFFICES ASSUME NEW u \in Threads, At(u, "cursor"), th[u].leaf = l PROVE FALSE
      OBVIOUS
    <3>1. Holds(u, l) /\ th[u].op = "scan"
      BY DEF LocksRight, HasLocks, HoldsLeaf, At, ScansRight, Scans
    <3>2. rlock[l] = {}
      BY <2>2, <2>3 DEF LocksRight, LocksApart
    <3> QED BY <3>1, <3>2 DEF Holds, Writes
  <2> QED BY <2>1, <2>2, <2>3, <2>4, <2>5, <2>6
<1> DEFINE all == leaf[l].keys \cup {k}
           Low(f) == {x \in all : x < f}
           NewLeaf(f, a) == [keys |-> all \ Low(f), anchor |-> a, prev |-> l,
                             next |-> leaf[l].next, lv |-> 0, state |-> "local"]
<1>b. PICK new \in Leaves, first \in all \ {Least(all)} :
         /\ leaf[new].state = "free"
         /\ \E a \in Anchors(Greatest(Low(first)), first) :
               leaf' = [leaf EXCEPT ![l].keys = Low(first), ![new] = NewLeaf(first, a)]
         /\ wlock' = [wlock EXCEPT ![new] = t]
         /\ th' = [th EXCEPT ![t].pc = "meta", ![t].other = new]
  BY DEF PutSplits
<1>c. UNCHANGED <<rlock, table, hv, cur, metalock, qstate, parked, unquiet, must>>
  BY DEF PutSplits
<1> DEFINE low == Low(first)
<1>d. PICK a \in Anchors(Greatest(low), first) :
         leaf' = [leaf EXCEPT ![l].keys = low, ![new] = NewLeaf(first, a)]
  BY <1>b
<1>f. /\ first \in all /\ all \in SUBSET Keys /\ all \in SUBSET Nat /\ low \subseteq all
      /\ \A x \in all : InRange(l, x)
      /\ a \in Nat /\ leaf[l].anchor < a /\ leaf[l].anchor \in Nat
      /\ \A x \in low : x < a
      /\ \A x \in all \ low : a <= x
      /\ leaf[l].next # None => a < leaf[leaf[l].next].anchor
  <2>1. /\ all \in SUBSET Keys /\ all \in SUBSET Nat /\ all # {} /\ low \subseteq all
        /\ low \in SUBSET Nat
        /\ first \in all /\ first \in Nat /\ first # Least(all)
    BY <1>a, IndexAssumption DEF Types, LeafRecord
  <2>2. Least(all) \in all /\ \A y \in all : Least(all) <= y
    <3> HIDE DEF all
    <3> QED BY <2>1, LeastOf
  <2>3. Least(all) \in low
    BY <2>1, <2>2
  <2>4. \A y \in low : y < first /\ y <= first
    BY <2>1
  <2>5. Greatest(low) \in low /\ \A y \in low : y <= Greatest(low)
    <3> HIDE DEF low
    <3> QED BY <2>1, <2>3, <2>4, GreatestOf
  <2>6. \A x \in all : InRange(l, x)
    BY <1>a
  <2>7. a = Greatest(low) + 1 \/ a = first
    BY <1>d DEF Anchors
  <2>8. leaf[l].anchor \in Nat /\ leaf[l].anchor <= Greatest(low) /\ Greatest(low) \in Nat /\ Greatest(low) < first
    BY <1>a, <2>1, <2>4, <2>5, <2>6 DEF InRange, ListRight, ListOrder
  <2>9. a \in Nat /\ leaf[l].anchor < a /\ Greatest(low) < a /\ a <= first
    BY <2>1, <2>7, <2>8
  <2>10. \A x \in low : x < a
    BY <2>1, <2>5, <2>8, <2>9
  <2>11. \A x \in all \ low : a <= x
    BY <2>1, <2>9
  <2>12. leaf[l].next # None => a < leaf[leaf[l].next].anchor
    <3> SUFFICES ASSUME leaf[l].next # None PROVE a < leaf[leaf[l].next].anchor
      OBVIOUS
    <3>1. first < leaf[leaf[l].next].anchor /\ leaf[leaf[l].next].anchor \in Nat
      BY <1>a, <2>1, <2>6 DEF InRange, ListRight, ListOrder
    <3> QED BY <2>1, <2>9, <3>1
  <2> QED BY <2>1, <2>6, <2>8, <2>9, <2>10, <2>11, <2>12
<1>n. /\ new # l /\ \A u \in Threads : th[u].pc \in Moving => th[u].leaf # new /\ th[u].other # new
      /\ wlock[new] = None /\ rlock[new] = {}
  <2>1. wlock[new] = None /\ rlock[new] = {}
    BY <1>b DEF LocksRight, LocksApart
  <2>2. ASSUME NEW u \in Threads, th[u].pc \in Moving PROVE ~Holds(u, new)
    BY <2>1, NoneApart DEF Holds
  <2>3. ASSUME NEW u \in Threads, th[u].pc \in Moving PROVE th[u].leaf # new /\ th[u].other # new
    BY <2>2, <2>3 DEF LocksRight, HasLocks, Moving, HoldsLeaf, HoldsOther
  <2> QED BY <1>a, <1>b, <2>1, <2>3 DEF Linked
<1>e. /\ Aside(new) /\ leaf'[l].keys = low
      /\ \A m \in Leaves : m \notin {l, new} => leaf'[m].keys = leaf[m].keys
      /\ leaf'[new].keys = all \ low /\ leaf'[new].anchor = a /\ leaf'[new].prev = l
      /\ leaf'[new].next = leaf[l].next /\ leaf'[new].lv = 0 /\ leaf'[new].state = "local"
  <2>1. NewLeaf(first, a) \in LeafRecord
    <3>1. all \ Low(first) \in SUBSET Keys /\ a \in Nat /\ l \in Leaves /\ leaf[l].next \in Leaves \cup {None}
      BY <1>a, <1>f DEF Types, LeafRecord
    <3> HIDE DEF all, Low
    <3> QED BY <3>1 DEF LeafRecord
  <2>2. leaf \in [Leaves -> LeafRecord] /\ low \in SUBSET Keys
    BY <1>f DEF Types
  <2> DEFINE nl == NewLeaf(first, a)
  <2>3. nl.keys = all \ low /\ nl.anchor = a /\ nl.prev = l /\ nl.next = leaf[l].next /\ nl.lv = 0 /\ nl.state = "local"
    OBVIOUS
  <2>4. leaf' = [leaf EXCEPT ![l].keys = low, ![new] = nl]
    BY <1>d
  <2> HIDE DEF nl, low
  <2>5. leaf' \in [Leaves -> LeafRecord]
    <3>1. nl \in LeafRecord
      BY <2>1 DEF nl
    <3>2. [leaf[l] EXCEPT !.keys = low] \in LeafRecord
      BY <1>a, <2>2 DEF LeafRecord
    <3> QED BY <1>a, <1>b, <1>n, <2>2, <2>4, <3>1, <3>2
  <2>6. leaf'[new] = nl /\ \A m \in Leaves : m \notin {l, new} => leaf'[m] = leaf[m]
    BY <1>a, <1>b, <1>n, <2>2, <2>4
  <2>7. leaf'[l] = [leaf[l] EXCEPT !.keys = low]
    BY <1>a, <1>b, <1>n, <2>2, <2>4
  <2>8. /\ leaf'[l].keys = low /\ leaf'[l].anchor = leaf[l].anchor /\ leaf'[l].next = leaf[l].next
        /\ leaf'[l].prev = leaf[l].prev /\ leaf'[l].lv = leaf[l].lv
        /\ leaf'[l].state = leaf[l].state
    BY <1>a, <2>2, <2>7 DEF LeafRecord
  <2> QED BY <1>b, <2>3, <2>5, <2>6, <2>8 DEF Aside
<1>x. \A x : x \in leaf'[l].keys \cup leaf'[new].keys <=> x \in leaf[l].keys \/ x = k
  BY <1>e, <1>f
<1>y. k \in leaf'[l].keys \cup leaf'[new].keys
  BY <1>x
<1>i. /\ \A x \in leaf'[l].keys : x < a /\ InRange(l, x) /\ x \in Keys
      /\ \A x \in leaf'[new].keys : a <= x /\ InRange(l, x) /\ x \in Keys
  BY <1>e, <1>f
<1>f1. /\ a \in Nat /\ leaf[l].anchor < a /\ leaf[l].anchor \in Nat
       /\ leaf[l].next # None => a < leaf[leaf[l].next].anchor
  BY <1>f
<1>g. th' = [th EXCEPT ![t].pc = "meta", ![t].other = new] /\ wlock' = [wlock EXCEPT ![new] = t]
  BY <1>b
<1>h. leaf[new].state = "free" /\ new \in Leaves
  BY <1>b
<1>e1. /\ Aside(new)
       /\ \A m \in Leaves : m \notin {l, new} => leaf'[m].keys = leaf[m].keys
       /\ leaf'[new].anchor = a /\ leaf'[new].prev = l
       /\ leaf'[new].next = leaf[l].next /\ leaf'[new].state = "local"
  BY <1>e
<1> HIDE DEF l, k, all, low
<1>k. /\ Linked' = Linked
      /\ \A m \in Linked, x \in Keys : InRange(m, x)' <=> InRange(m, x)
      /\ ListOrder'
  BY <1>e1, AsideChange
<1>p. Present' = Present
  <2>0. th[t] \in Record /\ th \in [Threads -> Record]
    BY DEF Types
  <2>1. /\ \A u \in Threads : u # t => th'[u] = th[u]
        /\ th'[t].op = th[t].op /\ th'[t].key = th[t].key /\ th'[t].pc = "meta"
    BY <1>g, <2>0 DEF Record
  <2>2. Splitting(t)' /\ ~Splitting(t) /\ \A u \in Threads : u # t => (Splitting(u)' <=> Splitting(u))
    BY <1>a, <2>1 DEF Splitting, Moving
  <2>3. ~InMap(k)
    <3>1. k \notin Present
      BY <1>a
    <3> QED BY <3>1, IsPresent
  <2>4. ASSUME NEW x PROVE InMap(x)' <=> InMap(x)
    <3>1. CASE x = k
      <4>1. ~InMap(x)
        BY <2>3, <3>1
      <4>2. th'[t].key = x
        BY <1>a, <2>1, <3>1
      <4>3. ~InMap(x)'
        BY <2>2, <4>2 DEF InMap
      <4> QED BY <4>1, <4>3
    <3>2. CASE x # k
      <4>1. (\E m \in Leaves : leaf'[m].state \in {"linked", "local"} /\ x \in leaf'[m].keys)
            <=> \E m \in Leaves : leaf[m].state \in {"linked", "local"} /\ x \in leaf[m].keys
        <5>1. leaf[l].state = "linked" /\ leaf'[l].state = "linked" /\ l \in Leaves /\ new # l
          BY <1>a, <1>e1, <1>n DEF Linked, Aside
        <5>2. x \in leaf'[l].keys \cup leaf'[new].keys <=> x \in leaf[l].keys
          BY <1>x, <3>2
        <5>3. \A m \in Leaves : m \notin {l, new} => (leaf'[m].state = leaf[m].state /\ leaf'[m].keys = leaf[m].keys)
          BY <1>e1 DEF Aside
        <5> QED BY <1>h, <1>e1, <5>1, <5>2, <5>3
      <4>2. (\A u \in Threads : Splitting(u)' => th'[u].key # x) <=> \A u \in Threads : Splitting(u) => th[u].key # x
        BY <1>a, <2>1, <2>2, <3>2
      <4> QED BY <4>1, <4>2 DEF InMap
    <3> QED BY <3>1, <3>2
  <2> QED BY <2>4, IsPresent, IsPresentNext
<1>1. th' = [th EXCEPT ![t].pc = "meta", ![t].other = new]
  BY <1>a, <1>c, <1>e1, <1>g, SMT
<1>2. /\ th[t].pc = "held" /\ th[t].op = "put" /\ l = th[t].leaf /\ k = th[t].key /\ Aside(new)
      /\ (\A m \in Leaves : m \notin {l, new} => leaf'[m].keys = leaf[m].keys)
      /\ UNCHANGED <<rlock, table, hv, cur, metalock, qstate, parked, unquiet, must>>
      /\ wlock' = [wlock EXCEPT ![new] = t]
  BY <1>a, <1>c, <1>e1, <1>g, SMT DEF At
<1>3. [th[t] EXCEPT !.pc = "meta", !.other = new] \in Record
  <2>1. "meta" \in Places /\ new \in Leaves
    BY <1>2 DEF Types, Places
  <2>2. th[t] \in Record
    BY DEF Types
  <2> QED BY <2>1, <2>2 DEF Record
<1>4. /\ \A u \in Threads : u # t => th'[u] = th[u]
      /\ th'[t].pc = "meta" /\ th'[t].op = th[t].op /\ th'[t].key = th[t].key
      /\ th'[t].hm = th[t].hm
      /\ th'[t].v = th[t].v /\ th'[t].v1 = th[t].v1 /\ th'[t].leaf = th[t].leaf
      /\ th'[t].other = new
      /\ th'[t].at = th[t].at /\ th'[t].back = th[t].back /\ th'[t].answer = th[t].answer
  BY <1>1, <1>3 DEF Types, Record
<1>5. Types'
  <2>2. leaf' \in [Leaves -> LeafRecord]
    BY <1>2 DEF Aside
  <2>0. th' \in [Threads -> Record]
    BY <1>1, <1>3 DEF Types
  <2> QED BY <2>0, <2>2, <1>2, <1>4 DEF Types, At, Seeking, HoldsLeaf, Changing, NextPlaces, Moving
<1>6. LocksRight'
  <2>0. /\ wlock'[new] = t /\ rlock'[new] = {} /\ leaf'[new].state = "local"
        /\ \A m \in Leaves : m # new => wlock'[m] = wlock[m] /\ rlock'[m] = rlock[m] /\ leaf'[m].state = leaf[m].state
    BY <1>2, <1>n, <1>h, <1>e1 DEF Types, Aside
  <2>1. LocksApart'
    BY <2>0 DEF LocksRight, LocksApart
  <2>4. \A u \in Threads, x \in Leaves : Holds(u, x) => Holds(u, x)'
    BY <2>0, <1>2, <1>4, <1>n, NoneApart DEF Holds
  <2>5. th[t].leaf \in Leaves /\ th'[t].leaf = l /\ th'[t].other = new /\ new \in Leaves
    BY <1>2, <1>4, <1>a
  <2>2. ASSUME NEW u \in Threads, u # t PROVE HasLocks(u)'
    <3>1. th'[u] = th[u] /\ metalock' = metalock /\ parked' = parked
      BY <2>2, <1>2, <1>4
    <3>2. th[u].pc \in HoldsLeaf => th[u].leaf \in Leaves
      BY DEF Types
    <3>3. th[u].pc \in HoldsOther => th[u].other \in Leaves
      BY DEF Types, HoldsOther, NextPlaces, Moving, Changing
    <3>4. HasLocks(u)
      BY DEF LocksRight
    <3> QED BY <2>4, <3>1, <3>2, <3>3, <3>4 DEF HasLocks
  <2>6. wlock'[l] = t /\ wlock'[new] = t
    BY <2>0, <1>a, <1>n
  <2>3. HasLocks(t)'
    BY <2>0, <2>5, <2>6, <1>2, <1>4
     DEF LocksRight, HasLocks, Holds, Writes, HoldsLeaf, HoldsOther, Meta, Parks, Changing
  <2> QED BY <2>1, <2>2, <2>3 DEF LocksRight
<1>7. ListRight'
  <2>1. ASSUME NEW b \in Linked, NEW x \in leaf'[b].keys
        PROVE  InRange(b, x)' \/ \E u \in Threads : Merging(u)' /\ th'[u].leaf = b /\ InRange(th[u].other, x)'
    <3>1. b \in Leaves /\ x \in Keys
      BY <2>1, <1>2 DEF Linked, Aside, LeafRecord
    <3>2. CASE b = l
      <4>1. InRange(b, x)
        BY <2>1, <3>2, <1>2, <1>i
      <4> QED BY <3>1, <4>1, <1>k
    <3>3. CASE b # l
      <4>0. b # new
        BY <1>2 DEF Aside, Linked
      <4>1. InRange(b, x) \/ \E u \in Threads : Merging(u) /\ th[u].leaf = b /\ InRange(th[u].other, x)
        BY <2>1, <3>3, <3>1, <4>0, <1>2 DEF ListRight, KeysRight
      <4>2. CASE InRange(b, x)
        BY <3>1, <4>2, <1>k
      <4>3. ASSUME NEW u \in Threads, Merging(u), th[u].leaf = b, InRange(th[u].other, x)
            PROVE  Merging(u)' /\ th'[u].leaf = b /\ InRange(th[u].other, x)'
        <5>1. u # t /\ th[u].other \in Leaves /\ th[u].other = leaf[b].next
          BY <4>3, <1>a DEF Merging, Moving, Types, LeafRight, Knows
        <5>3. th[u].other \in Linked
          BY <5>1, NoneApart DEF ListRight, ListOrder
        <5>2. th'[u] = th[u]
          BY <5>1, <1>4
        <5> QED BY <3>1, <4>3, <5>3, <5>2, <1>k DEF Merging
      <4> QED BY <4>1, <4>2, <4>3
    <3> QED BY <3>2, <3>3
  <2> QED BY <2>1, <1>k DEF ListRight, KeysRight
<1>8. StatesRight'
  <2>1. \A u \in Threads : u # t => (Splitting(u)' <=> Splitting(u)) /\ th'[u].other = th[u].other
    BY <1>4 DEF Splitting
  <2>2. Splitting(t)' /\ th'[t].other = new /\ ~Splitting(t)
    BY <1>2, <1>4 DEF Splitting, Moving
  <2>3. \A m \in Leaves : leaf'[m].state = "local" => \E u \in Threads : Splitting(u)' /\ th'[u].other = m
    BY <2>1, <2>2, <1>2 DEF StatesRight, Aside
  <2>4. \A u \in Threads : th'[u].pc \in HoldsLeaf \cup Changing => th'[u].leaf \in Linked
    BY <1>2, <1>4, <1>a DEF StatesRight, HoldsLeaf, Changing
  <2> QED BY <2>3, <2>4, <1>k DEF StatesRight
<1>9. LeafRight'
  <2>1. \A u \in Threads : u # t => Knows(u)'
    <3> SUFFICES ASSUME NEW u \in Threads, u # t PROVE Knows(u)'
      OBVIOUS
    <3>1. th[u].pc \in Moving => th[u].leaf \in Leaves \ {l, new} /\ th[u].other \in Leaves \ {l, new}
      BY <1>a, <1>n DEF Types, Moving, HoldsLeaf
    <3>2. th'[u] = th[u]
      BY <1>4
    <3>3. th[u].pc \in Moving => /\ th[u].other # new
                                 /\ leaf'[th[u].leaf].keys = leaf[th[u].leaf].keys
                                 /\ leaf'[th[u].other].keys = leaf[th[u].other].keys
      BY <3>1, <1>2
    <3>4. Types /\ ListRight /\ StatesRight /\ Knows(u)
      BY DEF LeafRight
    <3> QED BY <3>2, <3>3, <3>4, <1>2, KnowsAside
  <2>3. \A m \in Linked, x \in Keys : m = l /\ (x = k \/ x \in leaf'[new].keys) => InRange(m, x)'
    BY <1>a, <1>i, <1>k
  <2>6. l \in Linked /\ k \in Keys /\ \A x \in leaf'[new].keys : x \in Keys
    BY <1>a, <1>i
  <2>4. leaf[l].next # None => leaf[l].next \in Leaves /\ leaf[l].next # new
    BY <1>a, <1>h DEF ListRight, ListOrder, Linked
  <2>5. leaf'[l].anchor = leaf[l].anchor /\ leaf'[l].next = leaf[l].next
       /\ (leaf[l].next # None => leaf'[leaf[l].next].anchor = leaf[leaf[l].next].anchor)
    BY <2>4, <1>a, <1>n, <1>2 DEF Aside
  <2>2. Knows(t)'
    BY <2>3, <2>5, <2>6, <1>2, <1>4, <1>a, <1>e1, <1>f1, <1>i, <1>y
     DEF Merging, Splitting, Moving, Seeking, NextPlaces, Changing, At, Knows
  <2> QED BY <2>1, <2>2 DEF LeafRight
<1>10. TablesRight'
  <2>1. /\ th[t].pc \notin Changing /\ th'[t].pc \notin Changing
        /\ \A u \in Threads : th[u].pc \in Changing => th[u].leaf \in Linked /\ th[u].leaf \in Leaves
               /\ th[u].other \in Leaves /\ leaf[th[u].other].state \in {"linked", "unlinked"}
    BY <1>2, <1>4 DEF Changing, Types, StatesRight, LeafRight, Knows, Linked
  <2>2. MetaRight'
    BY <1>2, <1>4 DEF TablesRight, MetaRight, LocksRight, HasLocks, Meta, Changing, Types
  <2>3. \A u \in Threads : th[u].pc \in Changing =>
               /\ leaf'[th[u].leaf].lv = leaf[th[u].leaf].lv
               /\ leaf'[th[u].other].lv = leaf[th[u].other].lv
    BY <2>1, <1>2 DEF Aside, Linked
  <2> QED BY <2>1, <2>2, <2>3, <1>2, <1>4, <1>k, TablesStay
<1>11. Quiescence'
  <2>1. Quiet(t)'
    BY <1>2, <1>4 DEF Quiescence, Quiet, Seeking, Awaited, Changing, At, Types
  <2>2. th[t].pc \notin Changing /\ th'[t].pc \notin Changing
    BY <1>2, <1>4 DEF Changing
  <2> QED BY <2>1, <2>2, <1>2, <1>4, QuietAside
<1>12. AnswersRight'
  BY <1>2, <1>4 DEF AnswersRight, Changing, NextPlaces, Moving, At
<1>13. ScansRight'
  <2>1. \A u \in Threads : u # t => Scans(u)'
    <3> SUFFICES ASSUME NEW u \in Threads, u # t PROVE Scans(u)'
      OBVIOUS
    <3>1. At(u, "cursor") => th[u].leaf \in Linked /\ th[u].leaf \in Leaves \ {l, new}
      BY <1>2, <1>a DEF Types, HoldsLeaf, At, StatesRight, Linked, Aside
    <3>2. At(u, "cursor") => th[u].at \in leaf'[th[u].leaf].keys
      BY <3>1, <1>2 DEF ScansRight, Scans
    <3>3. must'[u] = must[u] /\ must'[u] \subseteq Present' /\ th'[u] = th[u]
      BY <1>2, <1>4, <1>p DEF ScansRight, Scans
    <3>4. Knows(u) /\ Scans(u)
      BY DEF LeafRight, ScansRight
    <3> QED BY <3>2, <3>3, <3>4, <1>2, ScansAside
  <2>2. must[t] = {} /\ must'[t] = {}
    BY <1>2, <1>a DEF ScansRight, Scans
  <2>3. Scans(t)'
    BY <2>2, <1>2, <1>4, <1>p DEF Scans, NextPlaces, Seeking, At
  <2> QED BY <2>1, <2>3 DEF ScansRight
<1>q. IInv'
  BY <1>5, <1>6, <1>7, <1>8, <1>9, <1>10, <1>11, <1>12, <1>13 DEF IInv
<1> QED BY <1>q, <1>p

\* wormleaf_split_undo: the keys go back to the leaf they came from, without the
\* new one.
LEMMA SplitFailsKeeps ==
    ASSUME IInv, "back" \notin Ops, NEW t \in Threads, SplitFails(t)
    PROVE  IInv' /\ Present' = Present
<1> USE DEF IInv
<1> DEFINE l == th[t].leaf
           r == th[t].other
           k == th[t].key
<1>a. /\ th[t].pc = "link" /\ th[t].op = "put" /\ l \in Linked /\ l \in Leaves /\ k \in Keys
      /\ r \in Leaves /\ leaf[r].state = "local" /\ l # r /\ l = th[t].leaf /\ r = th[t].other
      /\ k = th[t].key
      /\ InRange(l, k) /\ wlock[l] = t /\ wlock[r] = t /\ rlock[r] = {} /\ t # None /\ metalock = t
      /\ \A x \in leaf[l].keys \cup leaf[r].keys : InRange(l, x)
      /\ \A u \in Threads : u # t /\ th[u].pc \in Moving => th[u].leaf \notin {l, r} /\ th[u].other \notin {l, r}
      /\ \A u \in Threads : At(u, "cursor") => th[u].leaf # l
  <2>1. th[t].pc = "link" /\ th[t].op = "put"
    BY DEF SplitFails, At, Splits
  <2>2. /\ l \in Linked /\ l \in Leaves /\ k \in Keys /\ InRange(l, k) /\ Holds(t, l) /\ Holds(t, r)
        /\ r \in Leaves /\ leaf[r].state = "local" /\ metalock = t /\ l # r
        /\ \A x \in leaf[r].keys : InRange(l, x)
    BY <2>1
     DEF StatesRight, LeafRight, Knows, LocksRight, HasLocks, HoldsLeaf, HoldsOther, Meta, Linked,
         Types, At, Splitting, Moving
  <2>3. wlock[l] = t /\ wlock[r] = t /\ t # None
    BY <2>1, <2>2, NoneApart DEF Holds, Writes
  <2>4. rlock[l] = {} /\ rlock[r] = {}
    BY <2>2, <2>3 DEF LocksRight, LocksApart
  <2>5. ASSUME NEW u \in Threads, u # t, th[u].pc \in Moving
        PROVE  th[u].leaf \notin {l, r} /\ th[u].other \notin {l, r}
    <3>1. th[u].op \in {"put", "del"}
      BY <2>5 DEF LeafRight, Knows
    <3>2. Holds(u, th[u].leaf) /\ Holds(u, th[u].other)
      BY <2>5 DEF LocksRight, HasLocks, Moving, HoldsLeaf, HoldsOther
    <3> QED BY <2>3, <2>5, <3>1, <3>2 DEF Holds, Writes
  <2>6. \A x \in leaf[l].keys : InRange(l, x)
    BY <2>1, <2>2, <2>5 DEF ListRight, KeysRight, Merging
  <2>7. \A u \in Threads : At(u, "cursor") => th[u].leaf # l
    <3> SUFFICES ASSUME NEW u \in Threads, At(u, "cursor"), th[u].leaf = l PROVE FALSE
      OBVIOUS
    <3>1. Holds(u, l) /\ th[u].op = "scan"
      BY DEF LocksRight, HasLocks, HoldsLeaf, At, ScansRight, Scans
    <3> QED BY <2>4, <3>1 DEF Holds, Writes
  <2> QED BY <2>1, <2>2, <2>3, <2>4, <2>5, <2>6, <2>7
<1>c. /\ leaf' = [leaf EXCEPT ![l].keys = (leaf[l].keys \cup leaf[r].keys) \ {k}, ![r] = Unused]
      /\ Return(t, FALSE) /\ Unlock(t, {l, r}) /\ metalock' = None
      /\ UNCHANGED <<table, hv, cur, qstate, unquiet, must>>
  BY DEF SplitFails
<1>c1. /\ Return(t, FALSE) /\ Unlock(t, {l, r}) /\ metalock' = None
       /\ UNCHANGED <<table, hv, cur, qstate, unquiet, must>>
  BY <1>c
<1> HIDE DEF l, r, k
<1>e1. /\ Aside(r) /\ leaf'[l].keys = (leaf[l].keys \cup leaf[r].keys) \ {k}
       /\ \A m \in Leaves : m \notin {l, r} => leaf'[m].keys = leaf[m].keys
       /\ leaf'[r].state = "free"
  <2> DEFINE ks == (leaf[l].keys \cup leaf[r].keys) \ {k}
  <2>1. leaf \in [Leaves -> LeafRecord] /\ ks \in SUBSET Keys
    BY <1>a DEF Types, LeafRecord
  <2>2. leaf' = [leaf EXCEPT ![l].keys = ks, ![r] = Unused]
    BY <1>c
  <2>3. Unused \in LeafRecord /\ Unused.state = "free"
    BY DEF Unused, LeafRecord
  <2> HIDE DEF ks
  <2>4. [leaf[l] EXCEPT !.keys = ks] \in LeafRecord
    BY <1>a, <2>1 DEF LeafRecord
  <2>5. leaf' \in [Leaves -> LeafRecord]
    BY <1>a, <2>1, <2>2, <2>3, <2>4
  <2>6. leaf'[r] = Unused /\ \A m \in Leaves : m \notin {l, r} => leaf'[m] = leaf[m]
    BY <1>a, <2>1, <2>2
  <2>7. leaf'[l] = [leaf[l] EXCEPT !.keys = ks]
    BY <1>a, <2>1, <2>2
  <2>8. /\ leaf'[l].keys = ks /\ leaf'[l].anchor = leaf[l].anchor /\ leaf'[l].next = leaf[l].next
        /\ leaf'[l].prev = leaf[l].prev /\ leaf'[l].lv = leaf[l].lv
        /\ leaf'[l].state = leaf[l].state
    BY <1>a, <2>1, <2>7 DEF LeafRecord
  <2> QED BY <1>a, <2>3, <2>5, <2>6, <2>8 DEF Aside, ks
<1>i. \A x \in leaf'[l].keys : InRange(l, x) /\ x \in Keys
  BY <1>a, <1>e1 DEF Types, LeafRecord
<1>n. \A u \in Threads : u # t /\ th[u].pc \in Moving => th[u].leaf # r /\ th[u].other # r
  BY <1>a
<1>k. /\ Linked' = Linked
      /\ \A m \in Linked, x \in Keys : InRange(m, x)' <=> InRange(m, x)
      /\ ListOrder'
  BY <1>e1, AsideChange
<1>p. Present' = Present
  <2>0. th[t] \in Record /\ th \in [Threads -> Record]
    BY DEF Types
  <2>1. /\ \A u \in Threads : u # t => th'[u] = th[u]
        /\ th'[t].pc = "idle"
    BY <1>c, <2>0 DEF Return, Idle
  <2>2. ~Splitting(t)' /\ Splitting(t) /\ \A u \in Threads : u # t => (Splitting(u)' <=> Splitting(u))
    BY <1>a, <2>1 DEF Splitting, Moving
  <2>4. ASSUME NEW x PROVE InMap(x)' <=> InMap(x)
    <3>1. CASE x = k
      <4>1. ~InMap(x)
        BY <1>a, <2>2, <3>1 DEF InMap
      <4>2. ASSUME NEW m \in Leaves, leaf'[m].state \in {"linked", "local"}, x \in leaf'[m].keys PROVE FALSE
        <5>1. m # l /\ m # r /\ leaf[m].state \in {"linked", "local"} /\ k \in leaf[m].keys
          BY <1>e1, <3>1, <4>2 DEF Aside
        <5> QED BY <1>a, <5>1, KeyIsHere
      <4>3. ~InMap(x)'
        BY <4>2 DEF InMap
      <4> QED BY <4>1, <4>3
    <3>2. CASE x # k
      <4>1. (\E m \in Leaves : leaf'[m].state \in {"linked", "local"} /\ x \in leaf'[m].keys)
            <=> \E m \in Leaves : leaf[m].state \in {"linked", "local"} /\ x \in leaf[m].keys
        <5>1. leaf[l].state = "linked" /\ leaf'[l].state = "linked" /\ l \in Leaves /\ r # l
          BY <1>a, <1>e1 DEF Linked, Aside
        <5>2. x \in leaf'[l].keys <=> x \in leaf[l].keys \cup leaf[r].keys
          BY <1>e1, <3>2
        <5>3. \A m \in Leaves : m \notin {l, r} => (leaf'[m].state = leaf[m].state /\ leaf'[m].keys = leaf[m].keys)
          BY <1>e1 DEF Aside
        <5> QED BY <1>a, <1>e1, <5>1, <5>2, <5>3
      <4>2. (\A u \in Threads : Splitting(u)' => th'[u].key # x) <=> \A u \in Threads : Splitting(u) => th[u].key # x
        BY <1>a, <2>1, <2>2, <3>2
      <4> QED BY <4>1, <4>2 DEF InMap
    <3> QED BY <3>1, <3>2
  <2> QED BY <2>4, IsPresent, IsPresentNext
<1>1. th' = [th EXCEPT ![t] = [Idle EXCEPT !.answer = FALSE]]
  BY <1>a, <1>c1, <1>e1, SMT DEF Return
<1>2. /\ th[t].pc = "link" /\ th[t].op = "put" /\ l = th[t].leaf /\ k = th[t].key
      /\ r = th[t].other /\ Aside(r)
      /\ (\A m \in Leaves : m \notin {l, r} => leaf'[m].keys = leaf[m].keys)
      /\ UNCHANGED <<table, hv, cur, qstate, unquiet, must>>
      /\ Unlock(t, {l, r})
      /\ parked' = parked \cup {t}
      /\ metalock' = None
  BY <1>a, <1>c1, <1>e1, SMT DEF At, Return, Unlock
<1>3. [Idle EXCEPT !.answer = FALSE] \in Record
  <2>1. FALSE \in BOOLEAN \cup {None}
    OBVIOUS
  <2> QED BY <2>1, IdleRecord
<1>4. /\ \A u \in Threads : u # t => th'[u] = th[u]
      /\ th'[t].pc = "idle" /\ th'[t].op = None /\ th'[t].key = None /\ th'[t].hm = 0
      /\ th'[t].v = 0 /\ th'[t].v1 = 0 /\ th'[t].leaf = None /\ th'[t].other = None
      /\ th'[t].at = None /\ th'[t].back = FALSE /\ th'[t].answer = FALSE
  BY <1>1, <1>3 DEF Types, Record, Idle
<1>r. Released(t, {l, r})
  BY <1>2, <1>4, LocksReleased DEF LocksRight
<1>5. Types'
  <2>2. leaf' \in [Leaves -> LeafRecord]
    BY <1>2 DEF Aside
  <2>0. th' \in [Threads -> Record]
    BY <1>1, <1>3 DEF Types
  <2> QED BY <2>0, <2>2, <1>2, <1>4, <1>r DEF Types, Released, At, Seeking, HoldsLeaf, Changing,
       NextPlaces, Moving
<1>6. LocksRight'
  <2>0. /\ wlock'[r] = None /\ rlock'[r] = {}
        /\ \A m \in Leaves : m # r => leaf'[m].state = leaf[m].state
    BY <1>2, <1>r, <1>a, <1>e1 DEF Released, Aside
  <2>1. LocksApart'
    BY <2>0, <1>r DEF LocksRight, LocksApart, Released
  <2>2. ASSUME NEW u \in Threads, u # t PROVE HasLocks(u)'
    <3>1. th'[u] = th[u] /\ (u \in parked' => u \in parked)
      BY <2>2, <1>2, <1>4
    <3>2. th[u].pc \in HoldsLeaf => th[u].leaf \in Leaves
      BY DEF Types
    <3>3. th[u].pc \in HoldsOther => th[u].other \in Leaves
      BY DEF Types, HoldsOther, NextPlaces, Moving, Changing
    <3>4. HasLocks(u)
      BY DEF LocksRight
    <3>5. metalock = t /\ metalock' = None /\ u # None
      BY <1>2, <1>a, NoneApart
    <3>6. \A x \in Leaves : Holds(u, x) => Holds(u, x)'
      BY <2>2, <1>r DEF Released
    <3> QED BY <2>2, <3>1, <3>2, <3>3, <3>4, <3>5, <3>6 DEF HasLocks
  <2>3. HasLocks(t)'
    BY <1>2, <1>4, <1>a DEF HasLocks, HoldsLeaf, HoldsOther, Meta, Parks, Changing
  <2> QED BY <2>1, <2>2, <2>3 DEF LocksRight
<1>7. ListRight'
  <2>1. ASSUME NEW a \in Linked, NEW x \in leaf'[a].keys
        PROVE  InRange(a, x)' \/ \E u \in Threads : Merging(u)' /\ th'[u].leaf = a /\ InRange(th[u].other, x)'
    <3>1. a \in Leaves /\ x \in Keys
      BY <2>1, <1>2 DEF Linked, Aside, LeafRecord
    <3>2. CASE a = l
      <4>1. InRange(a, x)
        BY <2>1, <3>2, <1>2, <1>i
      <4> QED BY <3>1, <4>1, <1>k
    <3>3. CASE a # l
      <4>0. a # r
        BY <1>2 DEF Aside, Linked
      <4>1. InRange(a, x) \/ \E u \in Threads : Merging(u) /\ th[u].leaf = a /\ InRange(th[u].other, x)
        BY <2>1, <3>3, <3>1, <4>0, <1>2 DEF ListRight, KeysRight
      <4>2. CASE InRange(a, x)
        BY <3>1, <4>2, <1>k
      <4>3. ASSUME NEW u \in Threads, Merging(u), th[u].leaf = a, InRange(th[u].other, x)
            PROVE  Merging(u)' /\ th'[u].leaf = a /\ InRange(th[u].other, x)'
        <5>1. u # t /\ th[u].other \in Leaves /\ th[u].other = leaf[a].next
          BY <4>3, <1>a DEF Merging, Moving, Types, LeafRight, Knows
        <5>3. th[u].other \in Linked
          BY <5>1, NoneApart DEF ListRight, ListOrder
        <5>2. th'[u] = th[u]
          BY <5>1, <1>4
        <5> QED BY <3>1, <4>3, <5>3, <5>2, <1>k DEF Merging
      <4> QED BY <4>1, <4>2, <4>3
    <3> QED BY <3>2, <3>3
  <2> QED BY <2>1, <1>k DEF ListRight, KeysRight
<1>8. StatesRight'
  <2>1. \A u \in Threads : u # t => (Splitting(u)' <=> Splitting(u)) /\ th'[u].other = th[u].other
    BY <1>4 DEF Splitting
  <2>3. \A m \in Leaves : leaf'[m].state = "local" => \E u \in Threads : Splitting(u)' /\ th'[u].other = m
    BY <2>1, <1>a, <1>e1, <1>2 DEF StatesRight, Aside
  <2>4. \A u \in Threads : th'[u].pc \in HoldsLeaf \cup Changing => th'[u].leaf \in Linked
    BY <1>2, <1>4, <1>a DEF StatesRight, HoldsLeaf, Changing
  <2> QED BY <2>3, <2>4, <1>k DEF StatesRight
<1>9. LeafRight'
  <2>1. \A u \in Threads : u # t => Knows(u)'
    <3> SUFFICES ASSUME NEW u \in Threads, u # t PROVE Knows(u)'
      OBVIOUS
    <3>1. th[u].pc \in Moving => th[u].leaf \in Leaves \ {l, r} /\ th[u].other \in Leaves \ {l, r}
      BY <1>a, <1>n DEF Types, Moving, HoldsLeaf
    <3>2. th'[u] = th[u]
      BY <1>4
    <3>3. th[u].pc \in Moving => /\ th[u].other # r
                                 /\ leaf'[th[u].leaf].keys = leaf[th[u].leaf].keys
                                 /\ leaf'[th[u].other].keys = leaf[th[u].other].keys
      BY <3>1, <1>2
    <3>4. Types /\ ListRight /\ StatesRight /\ Knows(u)
      BY DEF LeafRight
    <3> QED BY <3>2, <3>3, <3>4, <1>2, KnowsAside
  <2>2. Knows(t)'
    BY <1>2, <1>4, <1>a, <1>k DEF Merging, Splitting, Moving, Seeking, NextPlaces, Changing, At, Knows
  <2> QED BY <2>1, <2>2 DEF LeafRight
<1>10. TablesRight'
  <2>1. /\ th[t].pc \notin Changing /\ th'[t].pc \notin Changing
        /\ \A u \in Threads : th[u].pc \in Changing => th[u].leaf \in Linked /\ th[u].leaf \in Leaves
               /\ th[u].other \in Leaves /\ leaf[th[u].other].state \in {"linked", "unlinked"}
    BY <1>2, <1>4 DEF Changing, Types, StatesRight, LeafRight, Knows, Linked
  <2>2. MetaRight'
    BY <1>2, <1>4 DEF TablesRight, MetaRight, LocksRight, HasLocks, Meta, Changing, Types
  <2>3. \A u \in Threads : th[u].pc \in Changing =>
               /\ leaf'[th[u].leaf].lv = leaf[th[u].leaf].lv
               /\ leaf'[th[u].other].lv = leaf[th[u].other].lv
    BY <2>1, <1>2 DEF Aside, Linked
  <2> QED BY <2>1, <2>2, <2>3, <1>2, <1>4, <1>k, TablesStay
<1>11. Quiescence'
  <2>1. Quiet(t)'
    BY <1>2, <1>4 DEF Quiescence, Quiet, Seeking, Awaited, Changing, At, Types
  <2>2. th[t].pc \notin Changing /\ th'[t].pc \notin Changing
    BY <1>2, <1>4 DEF Changing
  <2> QED BY <2>1, <2>2, <1>2, <1>4, QuietAside
<1>12. AnswersRight'
  BY <1>2, <1>4 DEF AnswersRight, Changing, NextPlaces, Moving, At
<1>13. ScansRight'
  <2>1. \A u \in Threads : u # t => Scans(u)'
    <3> SUFFICES ASSUME NEW u \in Threads, u # t PROVE Scans(u)'
      OBVIOUS
    <3>1. At(u, "cursor") => th[u].leaf \in Linked /\ th[u].leaf \in Leaves \ {l, r}
      BY <1>2, <1>a DEF Types, HoldsLeaf, At, StatesRight, Linked, Aside
    <3>2. At(u, "cursor") => th[u].at \in leaf'[th[u].leaf].keys
      BY <3>1, <1>2 DEF ScansRight, Scans
    <3>3. must'[u] = must[u] /\ must'[u] \subseteq Present' /\ th'[u] = th[u]
      BY <1>2, <1>4, <1>p DEF ScansRight, Scans
    <3>4. Knows(u) /\ Scans(u)
      BY DEF LeafRight, ScansRight
    <3> QED BY <3>2, <3>3, <3>4, <1>2, ScansAside
  <2>2. must[t] = {} /\ must'[t] = {}
    BY <1>2, <1>a DEF ScansRight, Scans
  <2>3. Scans(t)'
    BY <2>2, <1>2, <1>4, <1>p DEF Scans, NextPlaces, Seeking, At
  <2> QED BY <2>1, <2>3 DEF ScansRight
<1>q. IInv'
  BY <1>5, <1>6, <1>7, <1>8, <1>9, <1>10, <1>11, <1>12, <1>13 DEF IInv
<1> QED BY <1>q, <1>p

\* wormhole_meta_leaf_merge: the keys of the right leaf go to the left one, which
\* is locked too.
LEMMA MergeKeeps ==
    ASSUME IInv, "back" \notin Ops, NEW t \in Threads, Merge(t)
    PROVE  IInv' /\ Present' = Present
<1> USE DEF IInv
<1> DEFINE l == th[t].leaf
           r == th[t].other
<1>a. /\ th[t].pc = "both" /\ th[t].op = "del" /\ l \in Linked /\ l \in Leaves /\ r \in Linked
      /\ r \in Leaves
      /\ l = th[t].leaf /\ r = th[t].other /\ leaf[l].next = r /\ r # None /\ l # r
      /\ \A x \in leaf[l].keys : InRange(l, x)
      /\ \A x \in leaf[r].keys : InRange(r, x)
      /\ \A u \in Threads : th[u].pc \in Moving => th[u].leaf \notin {l, r} /\ th[u].other \notin {l, r}
      /\ \A u \in Threads : At(u, "cursor") => th[u].leaf # l
  <2>1. th[t].pc = "both" /\ th[t].op = "del"
    BY DEF Merge, At
  <2>2. /\ l \in Linked /\ l \in Leaves /\ r \in Leaves /\ r = leaf[l].next /\ r # None
        /\ Holds(t, l) /\ Holds(t, r)
    BY <2>1, NoneApart
     DEF StatesRight, LeafRight, Knows, LocksRight, HasLocks, HoldsLeaf, HoldsOther, NextPlaces, Linked,
         Types
  <2>3. r \in Linked /\ leaf[l].anchor < leaf[r].anchor /\ leaf[l].anchor \in Nat
    BY <2>2 DEF ListRight, ListOrder
  <2>4. l # r
    BY <2>3
  <2>5. /\ \A x \in leaf[l].keys : InRange(l, x)
        /\ \A u \in Threads : th[u].pc \in Moving => th[u].leaf # l /\ th[u].other # l
    BY <2>1, <2>2, HeldLeaf DEF Moving
  <2>6. /\ \A x \in leaf[r].keys : InRange(r, x)
        /\ \A u \in Threads : th[u].pc \in Moving => th[u].leaf # r /\ th[u].other # r
    BY <2>1, <2>2, <2>3, HeldLeaf DEF Moving
  <2>7. \A u \in Threads : At(u, "cursor") => th[u].leaf # l
    <3> SUFFICES ASSUME NEW u \in Threads, At(u, "cursor"), th[u].leaf = l PROVE FALSE
      OBVIOUS
    <3>1. Holds(u, l) /\ th[u].op = "scan"
      BY DEF LocksRight, HasLocks, HoldsLeaf, At, ScansRight, Scans
    <3>2. wlock[l] = t /\ t # None
      BY <2>1, <2>2, NoneApart DEF Holds, Writes
    <3>3. rlock[l] = {}
      BY <2>2, <3>2 DEF LocksRight, LocksApart
    <3> QED BY <3>1, <3>3 DEF Holds, Writes
  <2> QED BY <2>1, <2>2, <2>3, <2>4, <2>5, <2>6, <2>7
<1> DEFINE fits == Cardinality(leaf[l].keys) + Cardinality(leaf[r].keys) <= Capacity
<1>c. /\ fits => /\ leaf' = [leaf EXCEPT ![l].keys = leaf[l].keys \cup leaf[r].keys]
                 /\ th' = [th EXCEPT ![t].pc = "meta"]
                 /\ UNCHANGED <<wlock, rlock, parked>>
      /\ ~fits => Return(t, TRUE) /\ Unlock(t, {l, r}) /\ UNCHANGED leaf
      /\ UNCHANGED <<table, hv, cur, metalock, qstate, unquiet, must>>
  BY DEF Merge, Goto
<1> HIDE DEF l, r, fits
<1>1. CASE fits
  <2>e. OnlyKeys /\ leaf'[l].keys = leaf[l].keys \cup leaf[r].keys /\ \A m \in Leaves : m # l => leaf'[m].keys = leaf[m].keys
    <3>1. leaf' = [leaf EXCEPT ![l].keys = leaf[l].keys \cup leaf[r].keys]
      BY <1>1, <1>c
    <3>2. l \in Leaves /\ leaf \in [Leaves -> LeafRecord] /\ leaf[l].keys \cup leaf[r].keys \in SUBSET Keys
      BY <1>a DEF Types, LeafRecord
    <3> QED BY <3>1, <3>2 DEF LeafRecord, OnlyKeys
  <2>k. /\ Linked' = Linked
        /\ \A m \in Leaves, x \in Keys : InRange(m, x)' <=> InRange(m, x)
        /\ ListOrder'
    BY <2>e, KeysChange
  <2>p. Present' = Present
    <3>1. \A u \in Threads : (Splitting(u)' <=> Splitting(u)) /\ th'[u].key = th[u].key
      <4>1. th' = [th EXCEPT ![t].pc = "meta"]
        BY <1>1, <1>c
      <4>2. th'[t].op = th[t].op /\ th'[t].key = th[t].key /\ \A u \in Threads : u # t => th'[u] = th[u]
        BY <4>1 DEF Types, Record
      <4>3. ~Splitting(t) /\ ~Splitting(t)'
        BY <4>2, <1>a DEF Splitting, Moving
      <4>4. \A u \in Threads : u # t => (Splitting(u)' <=> Splitting(u))
        BY <4>2 DEF Splitting
      <4> QED BY <4>2, <4>3, <4>4
    <3>2. \A x : InMap(x)' <=> InMap(x)
      <4>1. leaf[l].state = "linked" /\ leaf[r].state = "linked"
        BY <1>a DEF Linked
      <4> QED BY <1>a, <2>e, <3>1, <4>1 DEF InMap, OnlyKeys
    <3> QED BY <3>2, IsPresent, IsPresentNext
  <2>1. th' = [th EXCEPT ![t].pc = "meta"]
    BY <1>1, <1>a, <1>c, <2>e, <2>p, SMT DEF Return
  <2>2. /\ th[t].pc = "both" /\ th[t].op = "del" /\ l = th[t].leaf /\ r = th[t].other /\ OnlyKeys
        /\ (\A m \in Leaves : m # l => leaf'[m].keys = leaf[m].keys)
        /\ leaf'[l].keys = leaf[l].keys \cup leaf[r].keys
        /\ UNCHANGED <<wlock, rlock, table, hv, cur, metalock, qstate, parked, unquiet, must>>
    BY <1>1, <1>a, <1>c, <2>e, <2>p, SMT DEF At, Return, Unlock
  <2>3. [th[t] EXCEPT !.pc = "meta"] \in Record
    <3>1. "meta" \in Places
      BY <2>2 DEF Types, Places
    <3>2. th[t] \in Record
      BY DEF Types
    <3> QED BY <3>1, <3>2 DEF Record
  <2>4. /\ \A u \in Threads : u # t => th'[u] = th[u]
        /\ th'[t].pc = "meta" /\ th'[t].op = th[t].op /\ th'[t].key = th[t].key
        /\ th'[t].hm = th[t].hm
        /\ th'[t].v = th[t].v /\ th'[t].v1 = th[t].v1 /\ th'[t].leaf = th[t].leaf
        /\ th'[t].other = th[t].other
        /\ th'[t].at = th[t].at /\ th'[t].back = th[t].back /\ th'[t].answer = th[t].answer
    BY <2>1, <2>3 DEF Types, Record
  <2>5. Types'
    <3>2. leaf' \in [Leaves -> LeafRecord]
      BY <2>2 DEF OnlyKeys
    <3>0. th' \in [Threads -> Record]
      BY <2>1, <2>3 DEF Types
    <3> QED BY <3>0, <3>2, <2>2, <2>4 DEF Types, At, Seeking, HoldsLeaf, Changing, NextPlaces, Moving,
         OnlyKeys
  <2>6. LocksRight'
    <3>1. LocksApart'
      BY <2>2 DEF LocksRight, LocksApart, OnlyKeys
    <3>2. ASSUME NEW u \in Threads, u # t PROVE HasLocks(u)'
      BY <3>2, <2>2, <2>4 DEF LocksRight, HasLocks, Holds
    <3>3. HasLocks(t)'
      BY <2>2, <2>4
       DEF LocksRight, HasLocks, Holds, Writes, HoldsLeaf, HoldsOther, Meta, Parks, Changing
    <3> QED BY <3>1, <3>2, <3>3 DEF LocksRight
  <2>7. ListRight'
    <3>1. ASSUME NEW a \in Linked, NEW x \in leaf'[a].keys
          PROVE  InRange(a, x)' \/ \E u \in Threads : Merging(u)' /\ th'[u].leaf = a /\ InRange(th[u].other, x)'
      <4>1. a \in Leaves /\ x \in Keys
        BY <3>1, <2>2 DEF Linked, OnlyKeys, LeafRecord
      <4>2. CASE a = l /\ x \in leaf[l].keys
        BY <4>1, <4>2, <1>a, <2>k
      <4>4. CASE a = l /\ x \in leaf[r].keys
        <5>1. InRange(r, x)
          BY <4>4, <1>a
        <5>2. Merging(t)' /\ th'[t].leaf = a /\ th'[t].other = r
          BY <4>4, <2>2, <2>4, <1>a DEF Merging, Moving
        <5> QED BY <4>1, <5>1, <5>2, <1>a, <2>k
      <4>3. CASE a # l
        <5>1. InRange(a, x) \/ \E u \in Threads : Merging(u) /\ th[u].leaf = a /\ InRange(th[u].other, x)
          BY <3>1, <4>3, <4>1, <2>2 DEF ListRight, KeysRight
        <5>2. CASE InRange(a, x)
          BY <4>1, <5>2, <2>k
        <5>3. ASSUME NEW u \in Threads, Merging(u), th[u].leaf = a, InRange(th[u].other, x)
              PROVE  Merging(u)' /\ th'[u].leaf = a /\ InRange(th[u].other, x)'
          <6>1. u # t /\ th[u].other \in Leaves
            BY <5>3, <1>a DEF Merging, Moving, Types
          <6>2. th'[u] = th[u]
            BY <6>1, <2>4
          <6> QED BY <4>1, <5>3, <6>1, <6>2, <2>k DEF Merging
        <5> QED BY <5>1, <5>2, <5>3
      <4> QED BY <3>1, <4>2, <4>3, <4>4, <2>2
    <3> QED BY <3>1, <2>k DEF ListRight, KeysRight
  <2>8. StatesRight'
    BY <2>2, <2>4, <1>a, <2>k DEF StatesRight, OnlyKeys, Splitting, Moving, HoldsLeaf, Changing
  <2>9. LeafRight'
    <3>1. \A u \in Threads : u # t => Knows(u)'
      <4> SUFFICES ASSUME NEW u \in Threads, u # t PROVE Knows(u)'
        OBVIOUS
      <4>1. th[u].pc \in Moving => th[u].leaf \in Leaves \ {l} /\ th[u].other \in Leaves \ {l}
        BY <1>a DEF Types, Moving, HoldsLeaf
      <4> QED BY <4>1, <2>2, <2>4, KnowsStays DEF LeafRight
    <3>2. Knows(t)'
      BY <2>2, <2>4, <1>a, <2>k
       DEF LeafRight, Knows, OnlyKeys, Merging, Splitting, Moving, Seeking, NextPlaces, Changing, At
    <3> QED BY <3>1, <3>2 DEF LeafRight
  <2>10. TablesRight'
    <3>1. /\ th[t].pc \notin Changing /\ th'[t].pc \notin Changing
          /\ \A u \in Threads : th[u].pc \in Changing => th[u].leaf \in Leaves /\ th[u].other \in Leaves
      BY <2>2, <2>4 DEF Changing, Types
    <3>2. MetaRight'
      BY <2>2, <2>4 DEF TablesRight, MetaRight, LocksRight, HasLocks, Meta, Changing, Types
    <3> QED BY <3>1, <3>2, <2>2, <2>4, <2>k, TablesStay DEF OnlyKeys
  <2>11. Quiescence'
    <3>1. Quiet(t)'
      BY <2>2, <2>4 DEF Quiescence, Quiet, Seeking, Awaited, Changing, At, Types
    <3>2. th[t].pc \notin Changing /\ th'[t].pc \notin Changing
      BY <2>2, <2>4 DEF Changing
    <3> QED BY <3>1, <3>2, <2>2, <2>4, QuietStays DEF OnlyKeys
  <2>12. AnswersRight'
    BY <2>2, <2>4 DEF AnswersRight, Changing, NextPlaces, Moving, At
  <2>13. ScansRight'
    <3>1. \A u \in Threads : u # t => Scans(u)'
      <4> SUFFICES ASSUME NEW u \in Threads, u # t PROVE Scans(u)'
        OBVIOUS
      <4>1. At(u, "cursor") => th[u].leaf \in Leaves \ {l}
        BY <1>a DEF Types, HoldsLeaf, At
      <4>2. At(u, "cursor") => th[u].at \in leaf'[th[u].leaf].keys
        BY <4>1, <2>2 DEF ScansRight, Scans
      <4>3. must'[u] \subseteq must[u] /\ must'[u] \subseteq Present'
        BY <2>2, <2>p DEF ScansRight, Scans
      <4> QED BY <4>2, <4>3, <2>2, <2>4, ScansStays DEF ScansRight
    <3>2. must[t] = {}
      BY <1>a DEF ScansRight, Scans
    <3>3. Scans(t)'
      BY <3>2, <2>2, <2>4, <2>p DEF Scans, NextPlaces, Seeking, At
    <3> QED BY <3>1, <3>3 DEF ScansRight
  <2>q. IInv'
    BY <2>5, <2>6, <2>7, <2>8, <2>9, <2>10, <2>11, <2>12, <2>13 DEF IInv
  <2> QED BY <2>p, <2>q
<1>2. CASE ~fits
  <2>1. th' = [th EXCEPT ![t] = [Idle EXCEPT !.answer = TRUE]]
    BY <1>2, <1>a, <1>c, SMT DEF Return
  <2>2. /\ th[t].pc = "both" /\ th[t].op = "del"
        /\ UNCHANGED <<leaf, table, hv, cur, metalock, qstate, unquiet, must>>
        /\ Unlock(t, {l, r})
        /\ parked' = parked \cup {t}
    BY <1>2, <1>a, <1>c, SMT DEF At, Return, Unlock
  <2>3. [Idle EXCEPT !.answer = TRUE] \in Record
    <3>1. TRUE \in BOOLEAN \cup {None}
      OBVIOUS
    <3> QED BY <3>1, IdleRecord
  <2>4. /\ \A u \in Threads : u # t => th'[u] = th[u]
        /\ th'[t].pc = "idle" /\ th'[t].op = None /\ th'[t].key = None /\ th'[t].hm = 0
        /\ th'[t].v = 0 /\ th'[t].v1 = 0 /\ th'[t].leaf = None /\ th'[t].other = None
        /\ th'[t].at = None /\ th'[t].back = FALSE /\ th'[t].answer = TRUE
    BY <2>1, <2>3 DEF Types, Record, Idle
  <2>r. Released(t, {l, r})
    BY <2>2, <2>4, LocksReleased DEF LocksRight
  <2>5. Types'
    <3>0. th' \in [Threads -> Record]
      BY <2>1, <2>3 DEF Types
    <3> QED BY <3>0, <2>2, <2>4, <2>r DEF Types, Released, At, Seeking, HoldsLeaf, Changing, NextPlaces,
         Moving
  <2>6. LocksRight'
    BY <2>2, <2>4, <2>r
     DEF Types, Released, LocksRight, LocksApart, HasLocks, HoldsLeaf, HoldsOther, Meta, Parks,
         Changing, NextPlaces, Moving, Seeking, At
  <2>7. StatesRight'
    BY <2>2, <2>4 DEF StatesRight, Linked, Splitting, Moving, HoldsLeaf, Changing
  <2>8. Present' = Present
    BY <2>2, <2>4, PresentStays DEF Splitting, Moving
  <2>9. AnswersRight'
    BY <2>2, <2>4 DEF AnswersRight, Changing, NextPlaces, Moving, At
  <2>10. Knows(t)'
    BY <2>2, <2>4
     DEF LeafRight, Knows, Linked, Merging, Splitting, Moving, Seeking, NextPlaces, Changing, InRange,
         At
  <2>11. Quiet(t)'
    BY <2>2, <2>4 DEF Quiescence, Quiet, Seeking, Awaited, Changing, At, Types
  <2>12. Scans(t)'
    BY <2>8, <2>2, <2>4 DEF ScansRight, Scans, NextPlaces, Seeking, At
  <2>p. Present' = Present
    BY <2>2, <2>4, PresentStays DEF Splitting, Moving
  <2>q. IInv'
    BY <2>2, <2>4, <2>5, <2>6, <2>7, <2>8, <2>9, <2>10, <2>11, <2>12, OwnStep
     DEF Merging, Moving, Changing
  <2> QED BY <2>q, <2>p
<1> QED BY <1>1, <1>2

-----------------------------------------------------------------------------
(* The list and the tables                                                   *)

\* wormhole_split_meta, wormhole_meta_merge: the list changes under the locks of
\* both leaves and of the tables; the versions of the leaves send away who came by
\* a table without the change.
LEMMA LinkKeeps ==
    ASSUME IInv, "back" \notin Ops, NEW t \in Threads, Link(t)
    PROVE  IInv' /\ Present' = IF Splits(t) THEN Present \cup {th[t].key} ELSE Present
<1> USE DEF IInv
<1> DEFINE l == th[t].leaf
           r == th[t].other
           k == th[t].key
           after == leaf[r].next
           v1 == hv[cur] + 1
<1>a. /\ th[t].pc = "link" /\ th[t].op \in {"put", "del"} /\ l \in Linked /\ l \in Leaves
      /\ r \in Leaves
      /\ l = th[t].leaf /\ r = th[t].other /\ k = th[t].key /\ k \in Keys
      /\ metalock = t /\ t # None /\ must[t] = {}
      /\ \A u \in Threads : th[u].pc \notin Changing
      /\ \A u \in Threads : u # t /\ th[u].pc \in HoldsLeaf => th[u].leaf # l /\ th[u].leaf # r
      /\ \A u \in Threads : u # t /\ th[u].pc \in HoldsOther => th[u].other # l /\ th[u].other # r
      /\ \A h \in 0 .. 1 : table[h] = Linked
      /\ after \in Leaves \cup {None} /\ after = leaf[r].next
      /\ v1 = hv[cur] + 1 /\ hv[cur] \in Nat /\ v1 \in Nat /\ v1 > hv[cur]
      /\ l # r
  <2>1. th[t].pc = "link"
    BY DEF Link, At
  <2>2. /\ l \in Linked /\ l \in Leaves /\ k \in Keys /\ Holds(t, l) /\ Holds(t, r)
        /\ r \in Leaves /\ metalock = t /\ th[t].op \in {"put", "del"}
    BY <2>1
     DEF StatesRight, LeafRight, Knows, LocksRight, HasLocks, HoldsLeaf, HoldsOther, Meta, Linked,
         Types, At, Moving
  <2>3. wlock[l] = t /\ wlock[r] = t /\ t # None
    BY <2>1, <2>2, NoneApart DEF Holds, Writes
  <2>4. rlock[l] = {} /\ rlock[r] = {}
    BY <2>2, <2>3 DEF LocksRight, LocksApart
  <2>5. \A u \in Threads : th[u].pc \notin Changing
    BY <2>1, <2>2 DEF LocksRight, HasLocks, Meta, Changing
  <2>6. \A u \in Threads : u # t => ~Holds(u, l) /\ ~Holds(u, r)
    BY <2>3, <2>4 DEF Holds
  <2>7. \A u \in Threads : u # t /\ th[u].pc \in HoldsLeaf => th[u].leaf # l /\ th[u].leaf # r
    BY <2>6 DEF LocksRight, HasLocks
  <2>8. \A u \in Threads : u # t /\ th[u].pc \in HoldsOther => th[u].other # l /\ th[u].other # r
    BY <2>6 DEF LocksRight, HasLocks
  <2>9. \A h \in 0 .. 1 : table[h] = Linked
    BY <2>5 DEF TablesRight
  <2>10. after \in Leaves \cup {None} /\ hv[cur] \in Nat /\ v1 \in Nat /\ v1 > hv[cur]
    BY <2>2 DEF Types, LeafRecord
  <2>11. must[t] = {}
    BY <2>2 DEF ScansRight, Scans
  <2>12. l # r
    <3>1. CASE th[t].op = "put"
      BY <2>1, <2>2, <3>1 DEF LeafRight, Knows, Splitting, Moving, Linked
    <3>2. CASE th[t].op = "del"
      BY <2>1, <2>2, <3>2, NoneApart DEF LeafRight, Knows, Merging, Moving, ListRight, ListOrder
    <3> QED BY <2>2, <3>1, <3>2
  <2> QED BY <2>1, <2>2, <2>3, <2>5, <2>7, <2>8, <2>9, <2>10, <2>11, <2>12
<1>b. /\ leaf' = [m \in Leaves |->
             IF m = l THEN [leaf[l] EXCEPT !.lv = v1, !.next = IF Splits(t) THEN r ELSE after]
             ELSE IF m = r THEN [leaf[r] EXCEPT !.lv = v1,
                                     !.state = IF Splits(t) THEN "linked" ELSE "unlinked"]
             ELSE IF m = after THEN [leaf[m] EXCEPT !.prev = IF Splits(t) THEN r ELSE l]
             ELSE leaf[m]]
      /\ hv' = [hv EXCEPT ![1 - cur] = v1]
      /\ th' = [th EXCEPT ![t].pc = "patch", ![t].answer = TRUE]
      /\ UNCHANGED <<wlock, rlock, table, cur, metalock, qstate, parked, unquiet, must>>
  BY DEF Link
<1>c. /\ th' = [th EXCEPT ![t].pc = "patch", ![t].answer = TRUE]
      /\ UNCHANGED <<wlock, rlock, table, cur, metalock, qstate, parked, unquiet, must>>
      /\ hv' \in [0 .. 1 -> Nat] /\ hv'[1 - cur] = v1 /\ hv'[cur] = hv[cur]
      /\ cur \in 0 .. 1 /\ 1 - cur \in 0 .. 1 /\ 1 - cur # cur
  <2>1. cur \in 0 .. 1 /\ 1 - cur \in 0 .. 1 /\ 1 - cur # cur /\ hv \in [0 .. 1 -> Nat]
    BY DEF Types
  <2>2. hv' = [hv EXCEPT ![1 - cur] = v1]
    BY <1>b
  <2> DEFINE o == 1 - cur
  <2> HIDE DEF v1, o
  <2>3. hv' = [hv EXCEPT ![o] = v1] /\ o \in 0 .. 1 /\ o # cur
    BY <2>1, <2>2 DEF o
  <2>4. hv' \in [0 .. 1 -> Nat] /\ hv'[o] = v1 /\ hv'[cur] = hv[cur]
    BY <1>a, <2>1, <2>3
  <2> QED BY <1>b, <2>1, <2>4 DEF o
<1> HIDE DEF l, r, k, after, v1
<1>d. Splits(t) <=> th[t].op = "put"
  BY DEF Splits
<1>e. /\ leaf' \in [Leaves -> LeafRecord]
      /\ \A m \in Leaves : leaf'[m].keys = leaf[m].keys /\ leaf'[m].anchor = leaf[m].anchor
      /\ \A m \in Leaves : m # l /\ m # r => /\ leaf'[m].next = leaf[m].next /\ leaf'[m].lv = leaf[m].lv
                                             /\ leaf'[m].state = leaf[m].state
      /\ \A m \in Leaves : m # after => leaf'[m].prev = leaf[m].prev
      /\ leaf'[l].lv = v1 /\ leaf'[r].lv = v1 /\ leaf'[l].state = leaf[l].state
      /\ leaf'[r].next = leaf[r].next
      /\ th[t].op = "put" => leaf'[l].next = r /\ leaf'[r].state = "linked"
                             /\ \A m \in Leaves : m = after /\ m # l /\ m # r => leaf'[m].prev = r
      /\ th[t].op = "del" => leaf'[l].next = after /\ leaf'[r].state = "unlinked"
                             /\ \A m \in Leaves : m = after /\ m # l /\ m # r => leaf'[m].prev = l
  <2> DEFINE nx == IF Splits(t) THEN r ELSE after
             st == IF Splits(t) THEN "linked" ELSE "unlinked"
             pv == IF Splits(t) THEN r ELSE l
  <2>1. /\ nx \in Leaves \cup {None} /\ st \in {"linked", "unlinked"} /\ pv \in Leaves
        /\ th[t].op = "put" => nx = r /\ st = "linked" /\ pv = r
        /\ th[t].op = "del" => nx = after /\ st = "unlinked" /\ pv = l
    BY <1>a, <1>d
  <2>2. leaf' = [m \in Leaves |->
             IF m = l THEN [leaf[l] EXCEPT !.lv = v1, !.next = nx]
             ELSE IF m = r THEN [leaf[r] EXCEPT !.lv = v1, !.state = st]
             ELSE IF m = after THEN [leaf[m] EXCEPT !.prev = pv]
             ELSE leaf[m]]
    BY <1>b
  <2> HIDE DEF nx, st, pv
  <2>3. \A m \in Leaves : leaf[m] \in LeafRecord
    BY DEF Types
  <2>4. leaf'[l] = [leaf[l] EXCEPT !.lv = v1, !.next = nx] /\ leaf'[r] = [leaf[r] EXCEPT !.lv = v1, !.state = st]
    BY <1>a, <2>2
  <2>5. \A m \in Leaves : m # l /\ m # r => leaf'[m] = IF m = after THEN [leaf[m] EXCEPT !.prev = pv] ELSE leaf[m]
    BY <2>2
  <2>6. /\ leaf'[l] \in LeafRecord /\ leaf'[l].keys = leaf[l].keys
        /\ leaf'[l].anchor = leaf[l].anchor
        /\ leaf'[l].next = nx /\ leaf'[l].prev = leaf[l].prev /\ leaf'[l].lv = v1
        /\ leaf'[l].state = leaf[l].state
    BY <1>a, <2>1, <2>3, <2>4 DEF LeafRecord
  <2>7. /\ leaf'[r] \in LeafRecord /\ leaf'[r].keys = leaf[r].keys
        /\ leaf'[r].anchor = leaf[r].anchor
        /\ leaf'[r].next = leaf[r].next /\ leaf'[r].prev = leaf[r].prev /\ leaf'[r].lv = v1
        /\ leaf'[r].state = st
    <3>1. leaf[r] \in LeafRecord /\ v1 \in Nat /\ st \in {"free", "local", "linked", "unlinked", "freed"}
      BY <1>a, <2>1, <2>3
    <3>2. leaf'[r] = [leaf[r] EXCEPT !.lv = v1, !.state = st]
      BY <2>4
    <3> QED BY <3>1, <3>2 DEF LeafRecord
  <2>8. ASSUME NEW m \in Leaves, m # l, m # r
        PROVE  /\ leaf'[m] \in LeafRecord /\ leaf'[m].keys = leaf[m].keys
               /\ leaf'[m].anchor = leaf[m].anchor
               /\ leaf'[m].next = leaf[m].next /\ leaf'[m].lv = leaf[m].lv
               /\ leaf'[m].state = leaf[m].state
               /\ leaf'[m].prev = IF m = after THEN pv ELSE leaf[m].prev
    <3>1. CASE m = after
      <4>1. leaf'[m] = [leaf[m] EXCEPT !.prev = pv]
        BY <2>5, <2>8, <3>1
      <4> QED BY <2>1, <2>3, <3>1, <4>1 DEF LeafRecord
    <3>2. CASE m # after
      BY <2>3, <2>5, <2>8, <3>2
    <3> QED BY <3>1, <3>2
  <2>9. leaf' \in [Leaves -> LeafRecord]
    <3>1. \A m \in Leaves : leaf'[m] \in LeafRecord
      BY <2>6, <2>7, <2>8
    <3> HIDE DEF LeafRecord
    <3> QED BY <2>2, <3>1
  <2>10. \A m \in Leaves : leaf'[m].keys = leaf[m].keys /\ leaf'[m].anchor = leaf[m].anchor
    BY <2>6, <2>7, <2>8
  <2>11. \A m \in Leaves : m # l /\ m # r => /\ leaf'[m].next = leaf[m].next /\ leaf'[m].lv = leaf[m].lv
                                             /\ leaf'[m].state = leaf[m].state
    BY <2>8
  <2>12. \A m \in Leaves : m # after => leaf'[m].prev = leaf[m].prev
    BY <2>6, <2>7, <2>8
  <2>13. \A m \in Leaves : m = after /\ m # l /\ m # r => leaf'[m].prev = pv
    BY <2>8
  <2> QED BY <2>1, <2>6, <2>7, <2>9, <2>10, <2>11, <2>12, <2>13
<1>f. /\ \A m \in Leaves : leaf[m].next \in Leaves \cup {None}
      /\ \A m \in Linked : m \in Leaves
  BY DEF Types, LeafRecord, Linked
<1>g. \A m \in Leaves, x \in Keys : m # l /\ m # r => (InRange(m, x)' <=> InRange(m, x))
  BY <1>e, <1>f DEF InRange
<1>1. CASE th[t].op = "put"
  <2>a. /\ leaf[r].state = "local" /\ leaf[l].next = after /\ leaf[r].prev = l
        /\ leaf[r].anchor \in Nat /\ leaf[l].anchor \in Nat /\ leaf[l].anchor < leaf[r].anchor
        /\ after # None => leaf[r].anchor < leaf[after].anchor
        /\ \A x \in leaf[l].keys : InRange(l, x) /\ x < leaf[r].anchor
        /\ \A x \in leaf[r].keys : InRange(l, x) /\ leaf[r].anchor <= x
        /\ k \in leaf[l].keys \cup leaf[r].keys
    <3>1. Splitting(t)
      BY <1>1, <1>a DEF Splitting, Moving
    <3>2. Knows(t)
      BY DEF LeafRight
    <3>3. \A x \in leaf[l].keys : InRange(l, x)
      BY <1>1, <1>a DEF ListRight, KeysRight, Merging, Moving, HoldsLeaf
    <3> QED BY <1>a, <3>1, <3>2, <3>3 DEF Knows, ListRight, ListOrder
  <2>b. Linked' = Linked \cup {r} /\ r \notin Linked
    BY <1>1, <1>a, <1>e, <2>a DEF Linked
  <2>c. after # None => after \in Linked /\ leaf[after].prev = l /\ after # l /\ after # r
    BY <1>a, <2>a, <2>b DEF ListRight, ListOrder
  <2>d. /\ leaf'[l].next = r /\ leaf'[r].next = after /\ (after # None => leaf'[after].prev = r)
        /\ leaf'[r].prev = l /\ leaf'[r].state = "linked"
    BY <1>1, <1>a, <1>e, <1>f, <2>a, <2>c, NoneApart
  <2>t. /\ \A u \in Threads : u # t => th'[u] = th[u]
        /\ th'[t].pc = "patch" /\ th'[t].key = k
    <3>1. th[t] \in Record /\ th \in [Threads -> Record]
      BY DEF Types
    <3> QED BY <1>a, <1>c, <3>1 DEF Record
  <2>p. Present \subseteq Present' /\ Present' = Present \cup {k}
    <3>2. ~Splitting(t)' /\ Splitting(t) /\ \A u \in Threads : u # t => (Splitting(u)' <=> Splitting(u))
      BY <1>1, <1>a, <2>t DEF Splitting, Moving
    <3>3. \A m \in Leaves : leaf[m].state \in {"linked", "local"} <=> leaf'[m].state \in {"linked", "local"}
      BY <1>a, <1>e, <2>a, <2>d DEF Linked
    <3>4. \A u \in Threads : u # t /\ Splitting(u) => th[u].key # k
      <4> SUFFICES ASSUME NEW u \in Threads, u # t, Splitting(u), th[u].key = k PROVE FALSE
        OBVIOUS
      <4>1. th[u].leaf \in Linked /\ InRange(th[u].leaf, k) /\ th[u].leaf # l
        BY <1>a DEF LeafRight, Knows, StatesRight, Splitting, Moving, HoldsLeaf
      <4>2. InRange(l, k) /\ k \in Nat
        BY <1>a, <2>a, IndexAssumption
      <4> QED BY <1>a, <4>1, <4>2, RangesApart
    <3>5. \E m \in Leaves : leaf[m].state \in {"linked", "local"} /\ k \in leaf[m].keys
      BY <1>a, <2>a DEF Linked
    <3>6. \A x : InMap(x)' <=> InMap(x) \/ x = k
      BY <1>a, <1>e, <2>t, <3>2, <3>3, <3>4, <3>5 DEF InMap
    <3> QED BY <3>6, IsPresent, IsPresentNext
  <2>1. th' = [th EXCEPT ![t].pc = "patch", ![t].answer = TRUE]
    BY <1>1, <1>a, <1>c, <1>e, SMT
  <2>2. /\ th[t].pc = "link" /\ th[t].op = "put" /\ l = th[t].leaf /\ r = th[t].other
        /\ k = th[t].key /\ leaf' \in [Leaves -> LeafRecord]
        /\ (\A m \in Leaves : leaf'[m].keys = leaf[m].keys /\ leaf'[m].anchor = leaf[m].anchor)
        /\ (\A m \in Leaves : m # l /\ m # r => leaf'[m].next = leaf[m].next /\ leaf'[m].lv = leaf[m].lv /\ leaf'[m].state = leaf[m].state)
        /\ (\A m \in Leaves : m # after => leaf'[m].prev = leaf[m].prev) /\ leaf'[l].lv = v1
        /\ leaf'[r].lv = v1 /\ leaf'[l].state = leaf[l].state /\ hv' \in [0 .. 1 -> Nat]
        /\ UNCHANGED <<wlock, rlock, table, cur, metalock, qstate, parked, unquiet, must>>
    BY <1>1, <1>a, <1>c, <1>e, SMT
  <2>3. [th[t] EXCEPT !.pc = "patch", !.answer = TRUE] \in Record
    <3>1. "patch" \in Places
      BY <2>2 DEF Types, Places
    <3>2. th[t] \in Record
      BY DEF Types
    <3> QED BY <3>1, <3>2 DEF Record
  <2>4. /\ \A u \in Threads : u # t => th'[u] = th[u]
        /\ th'[t].pc = "patch" /\ th'[t].op = th[t].op /\ th'[t].key = th[t].key
        /\ th'[t].hm = th[t].hm
        /\ th'[t].v = th[t].v /\ th'[t].v1 = th[t].v1 /\ th'[t].leaf = th[t].leaf
        /\ th'[t].other = th[t].other
        /\ th'[t].at = th[t].at /\ th'[t].back = th[t].back /\ th'[t].answer = TRUE
    BY <2>1, <2>3 DEF Types, Record
  <2>5. Types'
    <3>2. th'[t].leaf \in Leaves /\ th'[t].other \in Leaves /\ th'[t].op \in Ops /\ th'[t].key \in Keys
      BY <2>2, <2>4, <1>a DEF Types, At
    <3>0. th' \in [Threads -> Record]
      BY <2>1, <2>3 DEF Types
    <3> QED BY <3>0, <3>2, <2>2, <2>4 DEF Types, At, Seeking, HoldsLeaf, Changing, NextPlaces, Moving
  <2>6. LocksRight'
    <3>1. LocksApart'
      <4>1. \A m \in Leaves : leaf'[m].state = "free" => leaf[m].state = "free"
        BY <2>2, <1>a, <2>d DEF Linked
      <4> QED BY <4>1, <2>2 DEF LocksRight, LocksApart
    <3>2. ASSUME NEW u \in Threads, u # t PROVE HasLocks(u)'
      BY <3>2, <2>2, <2>4 DEF LocksRight, HasLocks, Holds
    <3>3. HasLocks(t)'
      BY <2>2, <2>4
       DEF LocksRight, HasLocks, Holds, Writes, HoldsLeaf, HoldsOther, Meta, Parks, Changing
    <3> QED BY <3>1, <3>2, <3>3 DEF LocksRight
  <2>7. ListRight'
    <3>0. /\ \A a \in Linked : a # l /\ a # r => leaf'[a].next = leaf[a].next /\ leaf'[a].next # r
          /\ \A a \in Linked' : leaf'[a].anchor = leaf[a].anchor /\ leaf[a].anchor \in Nat
          /\ \A a \in Linked' : a # after => leaf'[a].prev = leaf[a].prev
      BY <2>2, <1>f, <2>a, <2>b, NoneApart, <1>a DEF ListRight, ListOrder
    <3>4. ASSUME NEW a \in Linked', leaf'[a].next # None
          PROVE  /\ leaf'[a].next \in Linked' /\ leaf'[leaf'[a].next].prev = a
                 /\ leaf'[a].anchor < leaf'[leaf'[a].next].anchor
      <4>1. CASE a = l
        BY <3>0, <4>1, <1>a, <2>a, <2>b, <2>d
      <4>2. CASE a = r
        BY <3>0, <3>4, <4>2, <1>a, <2>a, <2>b, <2>c, <2>d
      <4>3. CASE a # l /\ a # r
        <5>1. a \in Linked /\ leaf'[a].next = leaf[a].next
          BY <3>0, <4>3, <2>b
        <5>2. leaf[a].next \in Linked /\ leaf[leaf[a].next].prev = a /\ leaf[a].anchor < leaf[leaf[a].next].anchor
          BY <3>4, <5>1 DEF ListRight, ListOrder
        <5>3. leaf[a].next # after
          BY <3>4, <4>3, <5>1, <5>2, <2>c
        <5> QED BY <3>0, <5>1, <5>2, <5>3, <2>b
      <4> QED BY <4>1, <4>2, <4>3
    <3>5. \A b \in Linked : leaf[l].anchor < leaf[b].anchor => after # None /\ leaf[after].anchor <= leaf[b].anchor
      BY <1>a, <2>a DEF ListRight, ListOrder
    <3>6. \A b \in Linked : leaf[b].anchor \in Nat /\ leaf[b].anchor # leaf[r].anchor
      BY <3>0, <3>5, <2>a, <2>b, <2>c
    <3>7. ASSUME NEW a \in Linked', NEW b \in Linked', leaf[a].anchor < leaf[b].anchor
          PROVE  leaf'[a].next # None /\ leaf[leaf'[a].next].anchor <= leaf[b].anchor
      <4>1. CASE a = l
        <5>1. CASE b = r
          BY <4>1, <5>1, <1>a, <2>a, <2>d, NoneApart
        <5>2. CASE b \in Linked
          <6>1. after # None /\ leaf[after].anchor <= leaf[b].anchor
            BY <3>5, <3>7, <4>1, <5>2
          <6>2. leaf[after].anchor \in Nat /\ leaf[b].anchor \in Nat
            BY <3>0, <5>2, <6>1, <2>b, <2>c
          <6> QED BY <4>1, <6>1, <6>2, <1>a, <2>a, <2>d, NoneApart
        <5> QED BY <5>1, <5>2, <2>b
      <4>2. CASE a = r
        <5>1. b \in Linked
          BY <3>7, <4>2, <3>0, <2>a, <2>b
        <5>2. leaf[l].anchor < leaf[b].anchor
          BY <3>6, <3>7, <4>2, <5>1, <2>a
        <5> QED BY <3>5, <4>2, <5>1, <5>2, <2>d
      <4>3. CASE a # l /\ a # r
        <5>1. a \in Linked /\ leaf'[a].next = leaf[a].next
          BY <3>0, <4>3, <2>b
        <5>2. CASE b \in Linked
          BY <3>7, <5>1, <5>2 DEF ListRight, ListOrder
        <5>3. CASE b = r
          <6>1. leaf[a].anchor \in Nat /\ leaf[a].anchor # leaf[l].anchor
            BY <4>3, <5>1, <1>a DEF ListRight, ListOrder
          <6>2. ~(leaf[l].anchor < leaf[a].anchor)
            <7>1. ASSUME leaf[l].anchor < leaf[a].anchor PROVE FALSE
              <8>1. after # None /\ leaf[after].anchor <= leaf[a].anchor /\ leaf[after].anchor \in Nat
                BY <3>0, <3>5, <5>1, <7>1, <2>b, <2>c
              <8> QED BY <3>7, <5>3, <6>1, <8>1, <2>a
            <7> QED BY <7>1
          <6>3. leaf[a].anchor < leaf[l].anchor
            BY <6>1, <6>2, <2>a
          <6>4. leaf[a].next # None /\ leaf[leaf[a].next].anchor <= leaf[l].anchor /\ leaf[a].next \in Linked
            BY <5>1, <6>3, <1>a DEF ListRight, ListOrder
          <6>5. leaf[leaf[a].next].anchor \in Nat
            BY <3>6, <6>4
          <6> QED BY <5>1, <5>3, <6>4, <6>5, <2>a
        <5> QED BY <5>2, <5>3, <2>b
      <4> QED BY <4>1, <4>2, <4>3
    <3>8. \A a, b \in Linked' : leaf[a].anchor = leaf[b].anchor => a = b
      BY <3>6, <2>b DEF ListRight, ListOrder
    <3>9. \A x \in Keys : \E a \in Linked' : leaf[a].anchor <= x
      BY <2>b DEF ListRight, ListOrder
    <3>z. \A a \in Linked' : leaf'[a].next # None => leaf'[leaf'[a].next].anchor = leaf[leaf'[a].next].anchor
      BY <3>0, <3>4
    <3>2. ListOrder'
      BY <3>0, <3>4, <3>7, <3>8, <3>9, <3>z DEF ListOrder
    <3>3. ASSUME NEW a \in Linked', NEW x \in leaf'[a].keys
          PROVE  InRange(a, x)' \/ \E u \in Threads : Merging(u)' /\ th'[u].leaf = a /\ InRange(th[u].other, x)'
      <4>1. a \in Leaves /\ x \in Keys /\ x \in leaf[a].keys /\ x \in Nat
        BY <3>3, <2>2, <1>a, <1>f, <2>b, IndexAssumption DEF LeafRecord
      <4>2. \A m \in Leaves : InRange(m, x)' <=> leaf[m].anchor <= x /\ (leaf'[m].next # None => x < leaf[leaf'[m].next].anchor)
        BY <2>2, <1>a, <1>f DEF InRange, LeafRecord
      <4>3. CASE a = l
        BY <4>1, <4>2, <4>3, <1>a, <2>a, <2>c, <2>d DEF InRange
      <4>5. CASE a = r
        BY <4>1, <4>2, <4>5, <1>a, <2>a, <2>c, <2>d DEF InRange
      <4>4. CASE a # l /\ a # r
        <5>1. a \in Linked
          BY <3>3, <4>4, <2>b
        <5>2. InRange(a, x) \/ \E u \in Threads : Merging(u) /\ th[u].leaf = a /\ InRange(th[u].other, x)
          BY <4>1, <5>1 DEF ListRight, KeysRight
        <5>3. CASE InRange(a, x)
          BY <4>1, <4>4, <5>3, <1>g
        <5>4. ASSUME NEW u \in Threads, Merging(u), th[u].leaf = a, InRange(th[u].other, x)
              PROVE  Merging(u)' /\ th'[u].leaf = a /\ InRange(th[u].other, x)'
          <6>1. u # t
            BY <5>4, <4>4, <1>a
          <6>2. th[u].other \in Leaves /\ th[u].other # l /\ th[u].other # r
            BY <5>4, <6>1, <1>a DEF Merging, Moving, HoldsOther, Types
          <6>3. th'[u] = th[u]
            BY <6>1, <2>4
          <6> QED BY <4>1, <5>4, <6>2, <6>3, <1>g DEF Merging
        <5> QED BY <5>2, <5>3, <5>4
      <4> QED BY <4>3, <4>4, <4>5
    <3> QED BY <3>2, <3>3 DEF ListRight, KeysRight
  <2>8. StatesRight'
    <3>1. \A u \in Threads : u # t => (Splitting(u)' <=> Splitting(u)) /\ th'[u].other = th[u].other
      BY <2>4 DEF Splitting
    <3>3. \A m \in Leaves : leaf'[m].state = "local" => \E u \in Threads : Splitting(u)' /\ th'[u].other = m
      <4>1. \A m \in Leaves : leaf'[m].state = "local" => leaf[m].state = "local" /\ m # r
        BY <1>a, <2>d, <2>2 DEF Linked
      <4> QED BY <3>1, <4>1, <1>a, <2>2 DEF StatesRight
    <3>4. \A u \in Threads : u # t /\ th[u].pc \in HoldsLeaf => th[u].leaf \in Linked /\ th[u].leaf # r
      BY <1>a DEF StatesRight
    <3>5. \A u \in Threads : th'[u].pc \in HoldsLeaf \cup Changing => th'[u].leaf \in Linked /\ th'[u].leaf # r
      BY <3>4, <2>2, <2>4, <1>a DEF Changing, HoldsLeaf
    <3> QED BY <3>3, <3>5, <2>b DEF StatesRight
  <2>9. LeafRight'
    <3>1. ASSUME NEW u \in Threads, u # t PROVE Knows(u)'
      <4>1. th'[u] = th[u] /\ Knows(u)
        BY <3>1, <2>4 DEF LeafRight
      <4>2. /\ th[u].pc \in HoldsLeaf => th[u].leaf \in Leaves /\ th[u].leaf # l /\ th[u].leaf # r
            /\ th[u].pc \in NextPlaces \cup Moving => th[u].other \in Leaves
            /\ th[u].pc \in Moving => th[u].other # l /\ th[u].other # r
            /\ th[u].pc \notin Changing
            /\ th[u].pc \in Seeking \cup HoldsLeaf => th[u].key \in Keys /\ th[u].leaf \in Leaves
        BY <3>1, <1>a DEF Types, Moving, HoldsOther, HoldsLeaf, At, Seeking
      <4>3. CASE th[u].pc \in Seeking
        <5>1. th[u].v \in Nat /\ th[u].v <= hv[cur]
          BY DEF Types, Record, Quiescence, Quiet
        <5>2. CASE th[u].leaf = l \/ th[u].leaf = r
          <6>1. leaf'[th[u].leaf].lv > th[u].v /\ leaf'[th[u].leaf].lv \in Nat
            BY <5>1, <5>2, <2>2, <1>a
          <6>2. leaf'[th[u].leaf].state \in {"linked", "unlinked"}
            BY <5>2, <2>2, <1>a, <2>d DEF Linked
          <6>3. ~(leaf'[th[u].leaf].lv <= th[u].v)
            BY <6>1, <5>1
          <6> QED BY <4>1, <4>3, <6>2, <6>3 DEF Knows, Merging, Splitting, Moving, Seeking, NextPlaces,
               Changing, At
        <5>3. CASE th[u].leaf # l /\ th[u].leaf # r
          <6>1. /\ leaf'[th[u].leaf].lv = leaf[th[u].leaf].lv
                /\ leaf'[th[u].leaf].state = leaf[th[u].leaf].state
                /\ InRange(th[u].leaf, th[u].key)' <=> InRange(th[u].leaf, th[u].key)
            BY <4>1, <4>2, <4>3, <5>3, <2>2, <1>g
          <6>2. th[u].leaf \in Linked' <=> th[u].leaf \in Linked
            BY <5>3, <2>b
          <6> QED BY <4>1, <4>3, <6>1, <6>2 DEF Knows, Merging, Splitting, Moving, Seeking, NextPlaces,
               Changing, At
        <5> QED BY <5>2, <5>3
      <4>4. CASE th[u].pc \in HoldsLeaf
        <5>1. /\ \A x \in Keys : InRange(th[u].leaf, x)' <=> InRange(th[u].leaf, x)
              /\ leaf'[th[u].leaf].next = leaf[th[u].leaf].next
              /\ th[u].key \in Keys /\ \A m \in Leaves : leaf[m].keys \subseteq Keys
          BY <4>1, <4>2, <4>4, <2>2, <1>g DEF Types, LeafRecord
        <5>2. CASE th[u].pc \in Moving
          <6>1. /\ leaf[th[u].leaf].next # None => leaf[th[u].leaf].next \in Leaves
                /\ leaf'[th[u].other].next = leaf[th[u].other].next
                /\ leaf'[th[u].other].state = leaf[th[u].other].state
            BY <4>2, <4>4, <5>2, <2>2, <1>f
          <6>2. Splitting(u) => th[u].other # after
                <9>1. Splitting(u) => leaf[th[u].other].state = "local"
                  BY <4>1 DEF Knows
                <9> QED BY <9>1, <4>2, <5>2, NoneApart, <2>c DEF Linked
          <6>3. Splitting(u) => leaf'[th[u].other].prev = leaf[th[u].other].prev
            BY <4>2, <5>2, <6>2, <2>2
          <6> QED BY <4>1, <4>2, <4>4, <5>1, <5>2, <6>1, <6>3, <2>2 DEF Knows, Merging, Splitting,
               Moving, Seeking, NextPlaces, Changing, At
        <5>3. CASE th[u].pc \notin Moving
          BY <4>1, <4>2, <4>4, <5>1, <5>3
           DEF Knows, Merging, Splitting, HoldsLeaf, Seeking, Changing, At
        <5> QED BY <5>2, <5>3
      <4>5. CASE th[u].pc \notin Seeking \cup HoldsLeaf
        BY <4>1, <4>2, <4>5
         DEF Knows, Merging, Splitting, Moving, Seeking, HoldsLeaf, NextPlaces, Changing, At
      <4> QED BY <4>3, <4>4, <4>5
    <3>2. Knows(t)'
      BY <2>2, <2>4, <1>a, <2>a, <2>b, <2>d
       DEF Merging, Splitting, Moving, Seeking, NextPlaces, Changing, At, Knows
    <3> QED BY <3>1, <3>2 DEF LeafRight
  <2>10. TablesRight'
    <3>1. Before(t)' = Linked
      BY <2>2, <2>4, <1>a, <2>a, <2>b DEF Before, Splits
    <3>2. MetaRight'
      BY <2>2, <2>4, <1>a DEF MetaRight, Meta, Changing
    <3>3. Behind(t, cur, 1 - cur)'
      <4>1. /\ leaf'[th'[t].leaf].lv = hv'[1 - cur] /\ leaf'[th'[t].other].lv = hv'[1 - cur]
            /\ hv'[1 - cur] = hv'[cur] + 1 /\ table'[cur] = Linked /\ cur' = cur
        BY <2>2, <2>4, <1>a, <1>c
      <4> QED BY <3>1, <4>1 DEF Behind
    <3>4. \A u \in Threads : u # t => th'[u].pc \notin Changing
      BY <2>4, <1>a
    <3>5. table'[1 - cur'] = Linked
      BY <2>2, <1>a, <1>c
    <3> QED BY <3>1, <3>2, <3>3, <3>4, <3>5, <2>4 DEF TablesRight, Changing, At
  <2>11. Quiescence'
    <3>1. \A u \in Threads : ~Awaited(u)
      BY <1>a DEF Awaited, Changing, At
    <3>2. ASSUME NEW u \in Threads PROVE Quiet(u)'
      <4>1. /\ Quiet(u) /\ hv'[cur] = hv[cur] /\ cur' = cur /\ qstate'[u] = qstate[u]
            /\ th'[u].v = th[u].v
            /\ th'[u].v1 = th[u].v1 /\ th'[u].hm = th[u].hm /\ th'[u].leaf = th[u].leaf
            /\ qstate[u] \in Nat /\ qstate[u] <= hv[cur]
        BY <2>2, <2>4, <1>c DEF Quiescence, Quiet, Types
      <4>2. \A w \in Threads : th'[w].pc \in Changing => w = t /\ th'[w].pc = "patch" /\ th'[w].other = r
        BY <2>2, <2>4, <1>a
      <4>3. th'[u].pc # th[u].pc => u = t /\ th'[u].pc = "patch"
        BY <2>4
      <4>4. CASE th'[u].pc = "patch"
        BY <4>1, <4>4 DEF Quiet, Seeking, At
      <4>5. CASE th'[u].pc # "patch"
        <5>1. th'[u].pc = th[u].pc
          BY <4>3, <4>5
        <5>2. th[u].pc \in Seeking => th[u].leaf \in Leaves
          BY DEF Types
        <5>3. th[u].pc \in Seeking /\ leaf'[th[u].leaf].state = "unlinked" => qstate[u] < leaf'[th[u].leaf].lv
          <6>1. CASE th[u].leaf = r
            BY <4>1, <6>1, <2>2, <1>a
          <6>2. CASE th[u].leaf # r
            BY <3>1, <4>1, <5>2, <6>2, <2>2, <1>a DEF Quiet, Linked
          <6> QED BY <6>1, <6>2
        <5>4. th[u].pc \in {"version", "jump"} => th[u].hm = cur
          BY <3>1, <4>1 DEF Quiet
        <5> QED BY <4>1, <4>2, <5>1, <5>3, <5>4 DEF Quiet, At
      <4> QED BY <4>4, <4>5
    <3> QED BY <3>2 DEF Quiescence
  <2>12. AnswersRight'
    BY <2>2, <2>4 DEF AnswersRight, Changing, NextPlaces, Moving, At
  <2>13. ScansRight'
    <3>1. ASSUME NEW u \in Threads, u # t PROVE Scans(u)'
      <4>1. th'[u] = th[u] /\ must'[u] = must[u] /\ Scans(u) /\ must[u] \subseteq Present'
        BY <3>1, <2>2, <2>4, <2>p DEF ScansRight, Scans
      <4>2. /\ th[u].pc \in HoldsLeaf => th[u].leaf \in Leaves /\ th[u].leaf # l /\ th[u].leaf # r
            /\ th[u].pc \in NextPlaces => th[u].other \in Leaves
        BY <3>1, <1>a DEF Types
      <4>3. th[u].pc \in HoldsLeaf => leaf'[th[u].leaf].next = leaf[th[u].leaf].next
                                    /\ leaf'[th[u].leaf].keys = leaf[th[u].leaf].keys
                                    /\ leaf[th[u].leaf].next \in Leaves \cup {None}
        BY <4>2, <2>2, <1>f
      <4> QED BY <4>1, <4>2, <4>3, <2>2 DEF Scans, HoldsLeaf, At
    <3>3. Scans(t)'
      BY <2>2, <2>4, <1>a DEF Scans, NextPlaces, Seeking, At
    <3> QED BY <3>1, <3>3 DEF ScansRight
  <2>q. IInv'
    BY <2>5, <2>6, <2>7, <2>8, <2>9, <2>10, <2>11, <2>12, <2>13 DEF IInv
  <2> QED BY <2>q, <2>p, <1>d, <1>1, <1>a DEF k
<1>2. CASE th[t].op = "del"
  <2>a. /\ r \in Linked /\ leaf[l].next = r /\ r # None /\ leaf[r].prev = l
        /\ leaf[r].anchor \in Nat /\ leaf[l].anchor \in Nat /\ leaf[l].anchor < leaf[r].anchor
        /\ leaf[r].keys \subseteq leaf[l].keys
        /\ \A x \in leaf[l].keys : InRange(l, x) \/ InRange(r, x)
    <3>1. Merging(t)
      BY <1>2, <1>a DEF Merging, Moving
    <3>2. Knows(t)
      BY DEF LeafRight
    <3>3. \A x \in leaf[l].keys : InRange(l, x) \/ InRange(r, x)
      BY <1>2, <1>a DEF ListRight, KeysRight, Merging, Moving, HoldsLeaf
    <3>4. leaf[l].next = r /\ r # None /\ leaf[r].keys \subseteq leaf[l].keys
      BY <1>a, <3>1, <3>2, NoneApart DEF Knows
    <3> QED BY <1>a, <3>3, <3>4 DEF ListRight, ListOrder
  <2>b. Linked' = Linked \ {r}
    BY <1>2, <1>a, <1>e, <2>a DEF Linked
  <2>c. after # None => after \in Linked /\ leaf[after].prev = r /\ after # l /\ after # r
                        /\ leaf[r].anchor < leaf[after].anchor /\ leaf[after].anchor \in Nat
    <3>1. after # None => after \in Linked /\ leaf[after].prev = r /\ leaf[r].anchor < leaf[after].anchor
                          /\ leaf[after].anchor \in Nat
      BY <1>a, <2>a DEF ListRight, ListOrder
    <3> QED BY <2>a, <3>1
  <2>d. /\ leaf'[l].next = after /\ (after # None => leaf'[after].prev = l)
        /\ leaf'[r].state = "unlinked"
    BY <1>2, <1>a, <1>e, <1>f, <2>a, <2>c
  <2>t. /\ \A u \in Threads : u # t => th'[u] = th[u]
        /\ th'[t].pc = "patch" /\ th'[t].key = k
    <3>1. th[t] \in Record /\ th \in [Threads -> Record]
      BY DEF Types
    <3> QED BY <1>a, <1>c, <3>1 DEF Record
  <2>p. Present' = Present
    <3>1. \A u \in Threads : (Splitting(u)' <=> Splitting(u)) /\ (Splitting(u) => th'[u].key = th[u].key)
      BY <1>2, <1>a, <2>t DEF Splitting, Moving
    <3>2. leaf[l].state = "linked" /\ leaf'[l].state = "linked" /\ leaf[r].state = "linked"
      BY <1>a, <1>e, <2>a DEF Linked
    <3>3. \A x : InMap(x)' <=> InMap(x)
      BY <1>a, <1>e, <2>a, <2>d, <3>1, <3>2 DEF InMap
    <3> QED BY <3>3, IsPresent, IsPresentNext
  <2>1. th' = [th EXCEPT ![t].pc = "patch", ![t].answer = TRUE]
    BY <1>2, <1>a, <1>c, <1>e, SMT
  <2>2. /\ th[t].pc = "link" /\ th[t].op = "del" /\ l = th[t].leaf /\ r = th[t].other
        /\ k = th[t].key /\ leaf' \in [Leaves -> LeafRecord]
        /\ (\A m \in Leaves : leaf'[m].keys = leaf[m].keys /\ leaf'[m].anchor = leaf[m].anchor)
        /\ (\A m \in Leaves : m # l /\ m # r => leaf'[m].next = leaf[m].next /\ leaf'[m].lv = leaf[m].lv /\ leaf'[m].state = leaf[m].state)
        /\ (\A m \in Leaves : m # after => leaf'[m].prev = leaf[m].prev) /\ leaf'[l].lv = v1
        /\ leaf'[r].lv = v1 /\ leaf'[l].state = leaf[l].state /\ hv' \in [0 .. 1 -> Nat]
        /\ UNCHANGED <<wlock, rlock, table, cur, metalock, qstate, parked, unquiet, must>>
    BY <1>2, <1>a, <1>c, <1>e, SMT
  <2>3. [th[t] EXCEPT !.pc = "patch", !.answer = TRUE] \in Record
    <3>1. "patch" \in Places
      BY <2>2 DEF Types, Places
    <3>2. th[t] \in Record
      BY DEF Types
    <3> QED BY <3>1, <3>2 DEF Record
  <2>4. /\ \A u \in Threads : u # t => th'[u] = th[u]
        /\ th'[t].pc = "patch" /\ th'[t].op = th[t].op /\ th'[t].key = th[t].key
        /\ th'[t].hm = th[t].hm
        /\ th'[t].v = th[t].v /\ th'[t].v1 = th[t].v1 /\ th'[t].leaf = th[t].leaf
        /\ th'[t].other = th[t].other
        /\ th'[t].at = th[t].at /\ th'[t].back = th[t].back /\ th'[t].answer = TRUE
    BY <2>1, <2>3 DEF Types, Record
  <2>5. Types'
    <3>2. th'[t].leaf \in Leaves /\ th'[t].other \in Leaves /\ th'[t].op \in Ops /\ th'[t].key \in Keys
      BY <2>2, <2>4, <1>a DEF Types, At
    <3>0. th' \in [Threads -> Record]
      BY <2>1, <2>3 DEF Types
    <3> QED BY <3>0, <3>2, <2>2, <2>4 DEF Types, At, Seeking, HoldsLeaf, Changing, NextPlaces, Moving
  <2>6. LocksRight'
    <3>1. LocksApart'
      <4>1. \A m \in Leaves : leaf'[m].state = "free" => leaf[m].state = "free"
        BY <2>2, <1>a, <2>d DEF Linked
      <4> QED BY <4>1, <2>2 DEF LocksRight, LocksApart
    <3>2. ASSUME NEW u \in Threads, u # t PROVE HasLocks(u)'
      BY <3>2, <2>2, <2>4 DEF LocksRight, HasLocks, Holds
    <3>3. HasLocks(t)'
      BY <2>2, <2>4
       DEF LocksRight, HasLocks, Holds, Writes, HoldsLeaf, HoldsOther, Meta, Parks, Changing
    <3> QED BY <3>1, <3>2, <3>3 DEF LocksRight
  <2>7. ListRight'
    <3>0. /\ \A a \in Linked' : a \in Linked /\ leaf'[a].anchor = leaf[a].anchor /\ leaf[a].anchor \in Nat
          /\ \A a \in Linked' : a # l => leaf'[a].next = leaf[a].next /\ leaf[a].next # r /\ (after # None => leaf[a].next # after)
          /\ \A a \in Linked' : a # after => leaf'[a].prev = leaf[a].prev
      <4>1. \A a \in Linked' : a \in Linked /\ a \in Leaves /\ a # r
        BY <1>f, <2>b
      <4>2. ASSUME NEW a \in Linked', a # l PROVE leaf[a].next # r /\ (after # None => leaf[a].next # after)
        <5>1. leaf[a].next # None => leaf[leaf[a].next].prev = a
          BY <4>1 DEF ListRight, ListOrder
        <5> QED BY <4>1, <4>2, <5>1, <2>a, <2>c
      <4> QED BY <4>1, <4>2, <2>2 DEF ListRight, ListOrder
    <3>4. ASSUME NEW a \in Linked', leaf'[a].next # None
          PROVE  /\ leaf'[a].next \in Linked' /\ leaf'[leaf'[a].next].prev = a
                 /\ leaf'[a].anchor < leaf'[leaf'[a].next].anchor
      <4>1. CASE a = l
        <5>1. after \in Linked' /\ leaf'[after].prev = l /\ leaf'[after].anchor = leaf[after].anchor /\ leaf'[l].next = after
          BY <3>0, <3>4, <4>1, <2>b, <2>c, <2>d
        <5>2. leaf[l].anchor < leaf[after].anchor
          BY <3>4, <4>1, <5>1, <2>a, <2>c
        <5> QED BY <3>0, <4>1, <5>1, <5>2
      <4>3. CASE a # l
        <5>1. a \in Linked /\ leaf'[a].next = leaf[a].next
          BY <3>0, <4>3
        <5>2. leaf[a].next \in Linked /\ leaf[leaf[a].next].prev = a /\ leaf[a].anchor < leaf[leaf[a].next].anchor
          BY <3>4, <5>1 DEF ListRight, ListOrder
        <5>3. leaf[a].next \in Linked' /\ leaf[a].next # after
          BY <3>0, <3>4, <4>3, <5>1, <5>2, <2>b
        <5> QED BY <3>0, <5>1, <5>2, <5>3
      <4> QED BY <4>1, <4>3
    <3>7. ASSUME NEW a \in Linked', NEW b \in Linked', leaf[a].anchor < leaf[b].anchor
          PROVE  leaf'[a].next # None /\ leaf[leaf'[a].next].anchor <= leaf[b].anchor
      <4>1. CASE a = l
        <5>1. leaf[r].anchor <= leaf[b].anchor /\ leaf[r].anchor # leaf[b].anchor
          BY <3>0, <3>7, <4>1, <1>a, <2>a, <2>b DEF ListRight, ListOrder
        <5>2. leaf[r].anchor < leaf[b].anchor /\ b \in Linked
          BY <3>0, <5>1, <2>a
        <5> QED BY <4>1, <5>2, <1>a, <2>a, <2>d DEF ListRight, ListOrder
      <4>3. CASE a # l
        BY <3>0, <3>7, <4>3 DEF ListRight, ListOrder
      <4> QED BY <4>1, <4>3
    <3>8. \A a, b \in Linked' : leaf[a].anchor = leaf[b].anchor => a = b
      BY <3>0 DEF ListRight, ListOrder
    <3>9. \A x \in Keys : \E a \in Linked' : leaf[a].anchor <= x
      <4>1. SUFFICES ASSUME NEW x \in Keys PROVE \E a \in Linked' : leaf[a].anchor <= x
        OBVIOUS
      <4>2. PICK a \in Linked : leaf[a].anchor <= x
        BY DEF ListRight, ListOrder
      <4>3. l \in Linked' /\ x \in Nat
        BY <1>a, <2>b, IndexAssumption
      <4> QED BY <4>2, <4>3, <2>a, <2>b
    <3>z. \A a \in Linked' : leaf'[a].next # None => leaf'[leaf'[a].next].anchor = leaf[leaf'[a].next].anchor
      BY <3>0, <3>4
    <3>2. ListOrder'
      BY <3>0, <3>4, <3>7, <3>8, <3>9, <3>z DEF ListOrder
    <3>3. ASSUME NEW a \in Linked', NEW x \in leaf'[a].keys
          PROVE  InRange(a, x)' \/ \E u \in Threads : Merging(u)' /\ th'[u].leaf = a /\ InRange(th[u].other, x)'
      <4>1. a \in Leaves /\ x \in Keys /\ x \in leaf[a].keys /\ x \in Nat
        BY <3>3, <2>2, <1>a, <1>f, <2>b, IndexAssumption DEF LeafRecord
      <4>2. \A m \in Leaves : InRange(m, x)' <=> leaf[m].anchor <= x /\ (leaf'[m].next # None => x < leaf[leaf'[m].next].anchor)
        BY <2>2, <1>a, <1>f DEF InRange, LeafRecord
      <4>3. CASE a = l
        BY <4>1, <4>2, <4>3, <1>a, <2>a, <2>c, <2>d DEF InRange
      <4>4. CASE a # l /\ a # r
        <5>1. a \in Linked
          BY <3>3, <4>4, <2>b
        <5>2. InRange(a, x) \/ \E u \in Threads : Merging(u) /\ th[u].leaf = a /\ InRange(th[u].other, x)
          BY <4>1, <5>1 DEF ListRight, KeysRight
        <5>3. CASE InRange(a, x)
          BY <4>1, <4>4, <5>3, <1>g
        <5>4. ASSUME NEW u \in Threads, Merging(u), th[u].leaf = a, InRange(th[u].other, x)
              PROVE  Merging(u)' /\ th'[u].leaf = a /\ InRange(th[u].other, x)'
          <6>1. u # t
            BY <5>4, <4>4, <1>a
          <6>2. th[u].other \in Leaves /\ th[u].other # l /\ th[u].other # r
            BY <5>4, <6>1, <1>a DEF Merging, Moving, HoldsOther, Types
          <6>3. th'[u] = th[u]
            BY <6>1, <2>4
          <6> QED BY <4>1, <5>4, <6>2, <6>3, <1>g DEF Merging
        <5> QED BY <5>2, <5>3, <5>4
      <4> QED BY <4>3, <4>4, <3>3, <2>b
    <3> QED BY <3>2, <3>3 DEF ListRight, KeysRight
  <2>8. StatesRight'
    <3>1. \A u \in Threads : u # t => (Splitting(u)' <=> Splitting(u)) /\ th'[u].other = th[u].other
      BY <2>4 DEF Splitting
    <3>3. \A m \in Leaves : leaf'[m].state = "local" => \E u \in Threads : Splitting(u)' /\ th'[u].other = m
      <4>1. \A m \in Leaves : leaf'[m].state = "local" => leaf[m].state = "local" /\ m # r
        BY <1>a, <2>d, <2>2 DEF Linked
      <4> QED BY <3>1, <4>1, <1>a, <2>2 DEF StatesRight
    <3>4. \A u \in Threads : u # t /\ th[u].pc \in HoldsLeaf => th[u].leaf \in Linked /\ th[u].leaf # r
      BY <1>a DEF StatesRight
    <3>5. \A u \in Threads : th'[u].pc \in HoldsLeaf \cup Changing => th'[u].leaf \in Linked /\ th'[u].leaf # r
      BY <3>4, <2>2, <2>4, <1>a DEF Changing, HoldsLeaf
    <3> QED BY <3>3, <3>5, <2>b DEF StatesRight
  <2>9. LeafRight'
    <3>1. ASSUME NEW u \in Threads, u # t PROVE Knows(u)'
      <4>1. th'[u] = th[u] /\ Knows(u)
        BY <3>1, <2>4 DEF LeafRight
      <4>2. /\ th[u].pc \in HoldsLeaf => th[u].leaf \in Leaves /\ th[u].leaf # l /\ th[u].leaf # r
            /\ th[u].pc \in NextPlaces \cup Moving => th[u].other \in Leaves
            /\ th[u].pc \in Moving => th[u].other # l /\ th[u].other # r
            /\ th[u].pc \notin Changing
            /\ th[u].pc \in Seeking \cup HoldsLeaf => th[u].key \in Keys /\ th[u].leaf \in Leaves
        BY <3>1, <1>a DEF Types, Moving, HoldsOther, HoldsLeaf, At, Seeking
      <4>3. CASE th[u].pc \in Seeking
        <5>1. th[u].v \in Nat /\ th[u].v <= hv[cur]
          BY DEF Types, Record, Quiescence, Quiet
        <5>2. CASE th[u].leaf = l \/ th[u].leaf = r
          <6>1. leaf'[th[u].leaf].lv > th[u].v /\ leaf'[th[u].leaf].lv \in Nat
            BY <5>1, <5>2, <2>2, <1>a
          <6>2. leaf'[th[u].leaf].state \in {"linked", "unlinked"}
            BY <5>2, <2>2, <1>a, <2>d DEF Linked
          <6>3. ~(leaf'[th[u].leaf].lv <= th[u].v)
            BY <6>1, <5>1
          <6> QED BY <4>1, <4>3, <6>2, <6>3 DEF Knows, Merging, Splitting, Moving, Seeking, NextPlaces,
               Changing, At
        <5>3. CASE th[u].leaf # l /\ th[u].leaf # r
          <6>1. /\ leaf'[th[u].leaf].lv = leaf[th[u].leaf].lv
                /\ leaf'[th[u].leaf].state = leaf[th[u].leaf].state
                /\ InRange(th[u].leaf, th[u].key)' <=> InRange(th[u].leaf, th[u].key)
            BY <4>1, <4>2, <4>3, <5>3, <2>2, <1>g
          <6>2. th[u].leaf \in Linked' <=> th[u].leaf \in Linked
            BY <5>3, <2>b
          <6> QED BY <4>1, <4>3, <6>1, <6>2 DEF Knows, Merging, Splitting, Moving, Seeking, NextPlaces,
               Changing, At
        <5> QED BY <5>2, <5>3
      <4>4. CASE th[u].pc \in HoldsLeaf
        <5>1. /\ \A x \in Keys : InRange(th[u].leaf, x)' <=> InRange(th[u].leaf, x)
              /\ leaf'[th[u].leaf].next = leaf[th[u].leaf].next
              /\ th[u].key \in Keys /\ \A m \in Leaves : leaf[m].keys \subseteq Keys
          BY <4>1, <4>2, <4>4, <2>2, <1>g DEF Types, LeafRecord
        <5>2. CASE th[u].pc \in Moving
          <6>1. /\ leaf[th[u].leaf].next # None => leaf[th[u].leaf].next \in Leaves
                /\ leaf'[th[u].other].next = leaf[th[u].other].next
                /\ leaf'[th[u].other].state = leaf[th[u].other].state
            BY <4>2, <4>4, <5>2, <2>2, <1>f
          <6>2. Splitting(u) => th[u].other # after
                <9>1. Splitting(u) => leaf[th[u].other].state = "local"
                  BY <4>1 DEF Knows
                <9> QED BY <9>1, <4>2, <5>2, NoneApart, <2>c DEF Linked
          <6>3. Splitting(u) => leaf'[th[u].other].prev = leaf[th[u].other].prev
            BY <4>2, <5>2, <6>2, <2>2
          <6> QED BY <4>1, <4>2, <4>4, <5>1, <5>2, <6>1, <6>3, <2>2 DEF Knows, Merging, Splitting,
               Moving, Seeking, NextPlaces, Changing, At
        <5>3. CASE th[u].pc \notin Moving
          BY <4>1, <4>2, <4>4, <5>1, <5>3
           DEF Knows, Merging, Splitting, HoldsLeaf, Seeking, Changing, At
        <5> QED BY <5>2, <5>3
      <4>5. CASE th[u].pc \notin Seeking \cup HoldsLeaf
        BY <4>1, <4>2, <4>5
         DEF Knows, Merging, Splitting, Moving, Seeking, HoldsLeaf, NextPlaces, Changing, At
      <4> QED BY <4>3, <4>4, <4>5
    <3>2. Knows(t)'
      BY <2>2, <2>4, <1>a, <2>a, <2>b, <2>d
       DEF Merging, Splitting, Moving, Seeking, NextPlaces, Changing, At, Knows
    <3> QED BY <3>1, <3>2 DEF LeafRight
  <2>10. TablesRight'
    <3>1. Before(t)' = Linked
      BY <2>2, <2>4, <1>a, <2>a, <2>b DEF Before, Splits
    <3>2. MetaRight'
      BY <2>2, <2>4, <1>a DEF MetaRight, Meta, Changing
    <3>3. Behind(t, cur, 1 - cur)'
      <4>1. /\ leaf'[th'[t].leaf].lv = hv'[1 - cur] /\ leaf'[th'[t].other].lv = hv'[1 - cur]
            /\ hv'[1 - cur] = hv'[cur] + 1 /\ table'[cur] = Linked /\ cur' = cur
        BY <2>2, <2>4, <1>a, <1>c
      <4> QED BY <3>1, <4>1 DEF Behind
    <3>4. \A u \in Threads : u # t => th'[u].pc \notin Changing
      BY <2>4, <1>a
    <3>5. table'[1 - cur'] = Linked
      BY <2>2, <1>a, <1>c
    <3> QED BY <3>1, <3>2, <3>3, <3>4, <3>5, <2>4 DEF TablesRight, Changing, At
  <2>11. Quiescence'
    <3>1. \A u \in Threads : ~Awaited(u)
      BY <1>a DEF Awaited, Changing, At
    <3>2. ASSUME NEW u \in Threads PROVE Quiet(u)'
      <4>1. /\ Quiet(u) /\ hv'[cur] = hv[cur] /\ cur' = cur /\ qstate'[u] = qstate[u]
            /\ th'[u].v = th[u].v
            /\ th'[u].v1 = th[u].v1 /\ th'[u].hm = th[u].hm /\ th'[u].leaf = th[u].leaf
            /\ qstate[u] \in Nat /\ qstate[u] <= hv[cur]
        BY <2>2, <2>4, <1>c DEF Quiescence, Quiet, Types
      <4>2. \A w \in Threads : th'[w].pc \in Changing => w = t /\ th'[w].pc = "patch" /\ th'[w].other = r
        BY <2>2, <2>4, <1>a
      <4>3. th'[u].pc # th[u].pc => u = t /\ th'[u].pc = "patch"
        BY <2>4
      <4>4. CASE th'[u].pc = "patch"
        BY <4>1, <4>4 DEF Quiet, Seeking, At
      <4>5. CASE th'[u].pc # "patch"
        <5>1. th'[u].pc = th[u].pc
          BY <4>3, <4>5
        <5>2. th[u].pc \in Seeking => th[u].leaf \in Leaves
          BY DEF Types
        <5>3. th[u].pc \in Seeking /\ leaf'[th[u].leaf].state = "unlinked" => qstate[u] < leaf'[th[u].leaf].lv
          <6>1. CASE th[u].leaf = r
            BY <4>1, <6>1, <2>2, <1>a
          <6>2. CASE th[u].leaf # r
            BY <3>1, <4>1, <5>2, <6>2, <2>2, <1>a DEF Quiet, Linked
          <6> QED BY <6>1, <6>2
        <5>4. th[u].pc \in {"version", "jump"} => th[u].hm = cur
          BY <3>1, <4>1 DEF Quiet
        <5> QED BY <4>1, <4>2, <5>1, <5>3, <5>4 DEF Quiet, At
      <4> QED BY <4>4, <4>5
    <3> QED BY <3>2 DEF Quiescence
  <2>12. AnswersRight'
    BY <2>2, <2>4 DEF AnswersRight, Changing, NextPlaces, Moving, At
  <2>13. ScansRight'
    <3>1. ASSUME NEW u \in Threads, u # t PROVE Scans(u)'
      <4>1. th'[u] = th[u] /\ must'[u] = must[u] /\ Scans(u) /\ must[u] \subseteq Present'
        BY <3>1, <2>2, <2>4, <2>p DEF ScansRight, Scans
      <4>2. /\ th[u].pc \in HoldsLeaf => th[u].leaf \in Leaves /\ th[u].leaf # l /\ th[u].leaf # r
            /\ th[u].pc \in NextPlaces => th[u].other \in Leaves
        BY <3>1, <1>a DEF Types
      <4>3. th[u].pc \in HoldsLeaf => leaf'[th[u].leaf].next = leaf[th[u].leaf].next
                                    /\ leaf'[th[u].leaf].keys = leaf[th[u].leaf].keys
                                    /\ leaf[th[u].leaf].next \in Leaves \cup {None}
        BY <4>2, <2>2, <1>f
      <4> QED BY <4>1, <4>2, <4>3, <2>2 DEF Scans, HoldsLeaf, At
    <3>3. Scans(t)'
      BY <2>2, <2>4, <1>a DEF Scans, NextPlaces, Seeking, At
    <3> QED BY <3>1, <3>3 DEF ScansRight
  <2>q. IInv'
    BY <2>5, <2>6, <2>7, <2>8, <2>9, <2>10, <2>11, <2>12, <2>13 DEF IInv
  <2> QED BY <2>q, <2>p, <1>d, <1>2
<1> QED BY <1>1, <1>2, <1>a

\* The table nobody goes by gets the change.
LEMMA PatchNextKeeps ==
    ASSUME IInv, "back" \notin Ops, NEW t \in Threads, PatchNext(t)
    PROVE  IInv'
<1> USE DEF IInv
<1>u. /\ \A u \in Threads : th[u].pc \in Changing => u = t
      /\ t \notin parked /\ metalock = t /\ t # None /\ t \in Threads
  BY NoneApart DEF LocksRight, HasLocks, Meta, Changing, Parks, PatchNext, At
<1>a. Patched(t, 1 - cur) = Linked /\ Linked \subseteq Leaves
  <2>1. th[t].pc = "patch" /\ table[1 - cur] = Before(t)
    BY DEF PatchNext, At, TablesRight
  <2>2. IF Splits(t) THEN th[t].other \in Linked ELSE th[t].other \notin Linked
    BY <2>1 DEF LeafRight, Knows, Splits, Linked, Changing
  <2> QED BY <2>1, <2>2 DEF Patched, Before, Linked
<1>1. th' = [th EXCEPT ![t].pc = "switch"]
  BY <1>a, SMT DEF PatchNext, Goto, Types
<1>2. /\ th[t].pc = "patch"
      /\ UNCHANGED <<leaf, wlock, rlock, hv, cur, metalock, qstate, parked, unquiet, must>>
      /\ table' \in [0 .. 1 -> SUBSET Leaves] /\ table'[1 - cur] = Linked
      /\ table'[cur] = table[cur]
  BY <1>a, SMT DEF PatchNext, At, Types
<1>3. [th[t] EXCEPT !.pc = "switch"] \in Record
  <2>1. "switch" \in Places
    BY <1>2 DEF Types, Places
  <2>2. th[t] \in Record
    BY DEF Types
  <2> QED BY <2>1, <2>2 DEF Record
<1>4. /\ \A u \in Threads : u # t => th'[u] = th[u]
      /\ th'[t].pc = "switch" /\ th'[t].op = th[t].op /\ th'[t].key = th[t].key
      /\ th'[t].hm = th[t].hm
      /\ th'[t].v = th[t].v /\ th'[t].v1 = th[t].v1 /\ th'[t].leaf = th[t].leaf
      /\ th'[t].other = th[t].other
      /\ th'[t].at = th[t].at /\ th'[t].back = th[t].back /\ th'[t].answer = th[t].answer
  BY <1>1, <1>3 DEF Types, Record
<1>5. Types'
  <2>0. th' \in [Threads -> Record]
    BY <1>1, <1>3 DEF Types
  <2> QED BY <2>0, <1>2, <1>4 DEF Types, At, Seeking, HoldsLeaf, Changing, NextPlaces, Moving
<1>6. LocksRight'
  BY <1>2, <1>4
   DEF LocksRight, LocksApart, HasLocks, Holds, Writes, HoldsLeaf, HoldsOther, Meta, Parks, Changing
<1>7. ListRight'
  BY <1>2, <1>4 DEF ListRight, ListOrder, KeysRight, Linked, Merging, Moving, InRange
<1>8. StatesRight'
  BY <1>2, <1>4 DEF StatesRight, Linked, Splitting, Moving, HoldsLeaf, Changing
<1>9. LeafRight'
  <2>1. Knows(t)'
    BY <1>2, <1>4
     DEF LeafRight, Knows, Linked, Merging, Splitting, Moving, Seeking, NextPlaces, Changing, InRange,
         At
  <2> QED BY <2>1, <1>2, <1>4, LeafStays
<1>10. TablesRight'
  <2>1. MetaRight'
    BY <1>2, <1>4, <1>u DEF MetaRight, Meta, Changing
  <2>2. \A u \in Threads : u # t => th'[u].pc \notin Changing
    BY <1>4, <1>u
  <2>3. Linked' = Linked
    BY <1>2 DEF Linked
  <2>4. Before(t)' = Before(t)
    BY <1>4, <2>3 DEF Before, Splits
  <2> QED BY <2>1, <2>2, <2>3, <2>4, <1>2, <1>4 DEF TablesRight, Behind, Changing, At, Types
<1>11. Quiescence'
  <2>1. ASSUME NEW u \in Threads, u # t PROVE Quiet(u)'
    BY <2>1, <1>2, <1>4, <1>u DEF Quiescence, Quiet, Awaited, Seeking, Changing, At
  <2>2. Quiet(t)'
    BY <1>2, <1>4, <1>u DEF Quiescence, Quiet, Awaited, Seeking, Changing, At
  <2> QED BY <2>1, <2>2 DEF Quiescence
<1>12. AnswersRight'
  BY <1>2, <1>4 DEF AnswersRight, Changing, NextPlaces, Moving, At
<1>13. ScansRight'
  <2>1. Present' = Present
    BY <1>2, <1>4, PresentStays DEF Splitting, Moving
  <2>2. Scans(t)'
    BY <2>1, <1>2, <1>4 DEF ScansRight, Scans, NextPlaces, Seeking, At
  <2> QED BY <2>1, <2>2, <1>2, <1>4, ScanStays
<1> QED BY <1>5, <1>6, <1>7, <1>8, <1>9, <1>10, <1>11, <1>12, <1>13 DEF IInv

\* wormhmap_store: from now on lookups find the list as it is; the writer waits
\* for all that go by the other table.
LEMMA SwitchKeeps ==
    ASSUME IInv, "back" \notin Ops, NEW t \in Threads, Switch(t)
    PROVE  IInv'
<1> USE DEF IInv
<1>u. /\ \A u \in Threads : th[u].pc \in Changing => u = t
      /\ t \notin parked /\ metalock = t /\ t # None /\ t \in Threads
  BY NoneApart DEF LocksRight, HasLocks, Meta, Changing, Parks, Switch, At
<1>0. cur \in 0 .. 1 /\ 1 - cur \in 0 .. 1 /\ hv[1 - cur] \in Nat
  BY DEF Types
<1>1. th' = [th EXCEPT ![t].pc = "unlock"]
  BY SMT DEF Switch, Goto, Types
<1>2. /\ th[t].pc = "switch"
      /\ UNCHANGED <<leaf, wlock, rlock, table, hv, metalock, parked, unquiet, must>>
      /\ cur' = 1 - cur /\ cur' \in 0 .. 1 /\ 1 - cur' = cur
      /\ qstate' \in [Threads -> Nat] /\ qstate'[t] = hv[1 - cur]
      /\ \A u \in Threads : u # t => qstate'[u] = qstate[u]
  BY <1>0, SMT DEF Switch, At, Types
<1>3. [th[t] EXCEPT !.pc = "unlock"] \in Record
  <2>1. "unlock" \in Places
    BY <1>0, <1>2 DEF Types, Places
  <2>2. th[t] \in Record
    BY DEF Types
  <2> QED BY <2>1, <2>2 DEF Record
<1>4. /\ \A u \in Threads : u # t => th'[u] = th[u]
      /\ th'[t].pc = "unlock" /\ th'[t].op = th[t].op /\ th'[t].key = th[t].key
      /\ th'[t].hm = th[t].hm
      /\ th'[t].v = th[t].v /\ th'[t].v1 = th[t].v1 /\ th'[t].leaf = th[t].leaf
      /\ th'[t].other = th[t].other
      /\ th'[t].at = th[t].at /\ th'[t].back = th[t].back /\ th'[t].answer = th[t].answer
  BY <1>1, <1>3 DEF Types, Record
<1>5. Types'
  <2>0. th' \in [Threads -> Record]
    BY <1>1, <1>3 DEF Types
  <2> QED BY <1>0, <2>0, <1>2, <1>4 DEF Types, At, Seeking, HoldsLeaf, Changing, NextPlaces, Moving
<1>6. LocksRight'
  BY <1>2, <1>4
   DEF LocksRight, LocksApart, HasLocks, Holds, Writes, HoldsLeaf, HoldsOther, Meta, Parks, Changing
<1>7. ListRight'
  BY <1>2, <1>4 DEF ListRight, ListOrder, KeysRight, Linked, Merging, Moving, InRange
<1>8. StatesRight'
  BY <1>2, <1>4 DEF StatesRight, Linked, Splitting, Moving, HoldsLeaf, Changing
<1>9. LeafRight'
  <2>1. Knows(t)'
    BY <1>2, <1>4
     DEF LeafRight, Knows, Linked, Merging, Splitting, Moving, Seeking, NextPlaces, Changing, InRange,
         At
  <2> QED BY <2>1, <1>2, <1>4, LeafStays
<1>10. TablesRight'
  <2>1. MetaRight'
    BY <1>2, <1>4, <1>u DEF MetaRight, Meta, Changing
  <2>2. \A u \in Threads : u # t => th'[u].pc \notin Changing
    BY <1>4, <1>u
  <2>3. Linked' = Linked
    BY <1>2 DEF Linked
  <2>4. Before(t)' = Before(t)
    BY <1>4, <2>3 DEF Before, Splits
  <2> QED BY <2>1, <2>2, <2>3, <2>4, <1>2, <1>4 DEF TablesRight, Behind, Changing, At, Types
<1>11. Quiescence'
  <2>0. hv[1 - cur] = hv[cur] + 1 /\ hv[cur] \in Nat
    BY <1>2 DEF TablesRight, Behind, Types
  <2>3. \A u \in Threads : Awaited(u)'
    BY <1>4 DEF Awaited, At
  <2>4. ASSUME NEW u \in Threads PROVE Quiet(u)'
    <3>1. /\ qstate[u] <= hv[cur] /\ th[u].v <= hv[cur] /\ th[u].v1 <= hv[cur] /\ Quiet(u)
          /\ qstate[u] \in Nat /\ th[u].v \in Nat /\ th[u].v1 \in Nat
      BY DEF Quiescence, Quiet, Types, Record
    <3>2. hv'[cur'] = hv[cur] + 1 /\ th'[u].v = th[u].v /\ th'[u].v1 = th[u].v1
      BY <2>0, <1>2, <1>4
    <3>3. qstate'[u] <= hv[cur] + 1 /\ (u # t => qstate'[u] < hv[cur] + 1)
      BY <2>0, <3>1, <1>2
    <3>4. CASE u = t
      BY <2>0, <3>1, <3>2, <3>3, <3>4, <1>2, <1>4 DEF Quiet, Seeking, At
    <3>5. CASE u # t
      BY <2>0, <2>3, <3>1, <3>2, <3>3, <3>5, <1>2, <1>4 DEF Quiet, Seeking, Changing, At
    <3> QED BY <3>4, <3>5
  <2> QED BY <2>4 DEF Quiescence
<1>12. AnswersRight'
  BY <1>2, <1>4 DEF AnswersRight, Changing, NextPlaces, Moving, At
<1>13. ScansRight'
  <2>1. Present' = Present
    BY <1>2, <1>4, PresentStays DEF Splitting, Moving
  <2>2. Scans(t)'
    BY <2>1, <1>2, <1>4 DEF ScansRight, Scans, NextPlaces, Seeking, At
  <2> QED BY <2>1, <2>2, <1>2, <1>4, ScanStays
<1> QED BY <1>5, <1>6, <1>7, <1>8, <1>9, <1>10, <1>11, <1>12, <1>13 DEF IInv

\* Both leaves are right for lookups again.
LEMMA UnlockBothKeeps ==
    ASSUME IInv, "back" \notin Ops, NEW t \in Threads, UnlockBoth(t)
    PROVE  IInv'
<1> USE DEF IInv
<1>u. /\ \A u \in Threads : th[u].pc \in Changing => u = t
      /\ t \notin parked /\ metalock = t /\ t # None /\ t \in Threads
  BY NoneApart DEF LocksRight, HasLocks, Meta, Changing, Parks, UnlockBoth, At
<1>1. th' = [th EXCEPT ![t].pc = "qwait"]
  BY SMT DEF UnlockBoth, Goto
<1>2. /\ th[t].pc = "unlock" /\ unquiet' = Threads
      /\ UNCHANGED <<leaf, table, hv, cur, metalock, qstate, parked, must>>
      /\ Unlock(t, {th[t].leaf, th[t].other})
  BY SMT DEF UnlockBoth, At, Unlock
<1>3. [th[t] EXCEPT !.pc = "qwait"] \in Record
  <2>1. "qwait" \in Places
    BY <1>2 DEF Types, Places
  <2>2. th[t] \in Record
    BY DEF Types
  <2> QED BY <2>1, <2>2 DEF Record
<1>4. /\ \A u \in Threads : u # t => th'[u] = th[u]
      /\ th'[t].pc = "qwait" /\ th'[t].op = th[t].op /\ th'[t].key = th[t].key
      /\ th'[t].hm = th[t].hm
      /\ th'[t].v = th[t].v /\ th'[t].v1 = th[t].v1 /\ th'[t].leaf = th[t].leaf
      /\ th'[t].other = th[t].other
      /\ th'[t].at = th[t].at /\ th'[t].back = th[t].back /\ th'[t].answer = th[t].answer
  BY <1>1, <1>3 DEF Types, Record
<1>r. Released(t, {th[t].leaf, th[t].other})
  BY <1>2, <1>4, LocksReleased DEF LocksRight
<1>5. Types'
  <2>0. th' \in [Threads -> Record]
    BY <1>1, <1>3 DEF Types
  <2> QED BY <2>0, <1>2, <1>4, <1>r DEF Types, Released, At, Seeking, HoldsLeaf, Changing, NextPlaces,
       Moving
<1>6. LocksRight'
  BY <1>2, <1>4, <1>r
   DEF Types, Released, LocksRight, LocksApart, HasLocks, HoldsLeaf, HoldsOther, Meta, Parks, Changing,
       NextPlaces, Moving, Seeking, At
<1>7. ListRight'
  BY <1>2, <1>4 DEF ListRight, ListOrder, KeysRight, Linked, Merging, Moving, InRange
<1>8. StatesRight'
  BY <1>2, <1>4 DEF StatesRight, Linked, Splitting, Moving, HoldsLeaf, Changing
<1>9. LeafRight'
  <2>1. Knows(t)'
    BY <1>2, <1>4
     DEF LeafRight, Knows, Linked, Merging, Splitting, Moving, Seeking, NextPlaces, Changing, InRange,
         At
  <2> QED BY <2>1, <1>2, <1>4, LeafStays
<1>10. TablesRight'
  <2>1. MetaRight'
    BY <1>2, <1>4, <1>u DEF MetaRight, Meta, Changing
  <2>2. \A u \in Threads : u # t => th'[u].pc \notin Changing
    BY <1>4, <1>u
  <2>3. Linked' = Linked
    BY <1>2 DEF Linked
  <2>4. Before(t)' = Before(t)
    BY <1>4, <2>3 DEF Before, Splits
  <2> QED BY <2>1, <2>2, <2>3, <2>4, <1>2, <1>4 DEF TablesRight, Behind, Changing, At, Types
<1>11. Quiescence'
  <2>0. \A u \in Threads : Awaited(u)'
    BY <1>2, <1>4 DEF Awaited, At
  <2>1. ASSUME NEW u \in Threads, u # t PROVE Quiet(u)'
    BY <2>1, <1>2, <1>4, <1>u, <2>0 DEF Quiescence, Quiet, Awaited, Seeking, Changing, At
  <2>2. Quiet(t)'
    BY <1>2, <1>4, <1>u, <2>0 DEF Quiescence, Quiet, Awaited, Seeking, Changing, At
  <2> QED BY <2>1, <2>2 DEF Quiescence
<1>12. AnswersRight'
  BY <1>2, <1>4 DEF AnswersRight, Changing, NextPlaces, Moving, At
<1>13. ScansRight'
  <2>1. Present' = Present
    BY <1>2, <1>4, PresentStays DEF Splitting, Moving
  <2>2. Scans(t)'
    BY <2>1, <1>2, <1>4 DEF ScansRight, Scans, NextPlaces, Seeking, At
  <2> QED BY <2>1, <2>2, <1>2, <1>4, ScanStays
<1> QED BY <1>5, <1>6, <1>7, <1>8, <1>9, <1>10, <1>11, <1>12, <1>13 DEF IInv

\* A thread that is parked or has announced the new version goes by no old table
\* and to no leaf that is out of the list.
LEMMA QsbrSeeKeeps ==
    ASSUME IInv, "back" \notin Ops, NEW t \in Threads, QsbrSee(t)
    PROVE  IInv'
<1> USE DEF IInv
<1>1. PICK u \in unquiet : /\ u \in parked \/ qstate[u] = hv[cur]
                           /\ unquiet' = unquiet \ {u}
  BY DEF QsbrSee
<1>2. /\ th[t].pc = "qwait"
      /\ UNCHANGED <<leaf, wlock, rlock, table, hv, cur, metalock, qstate, parked, th, must>>
  BY DEF QsbrSee, At, shared
<1>3. Types' /\ LocksRight'
  BY <1>2 DEF Types, At, LocksRight, LocksApart, HasLocks, Holds
<1>8. ListRight'
  BY <1>2 DEF ListRight, ListOrder, KeysRight, Linked, InRange, Merging
<1>9. StatesRight' /\ AnswersRight'
  BY <1>2 DEF StatesRight, Linked, Splitting, AnswersRight, At
<1>4. LeafRight'
  BY <1>2 DEF LeafRight, Knows, At, Merging, Splitting, Linked, InRange
<1>5. TablesRight'
  BY <1>2 DEF TablesRight, MetaRight, Behind, Before, Splits, Linked, At
<1>6. ScansRight'
  <2>1. Present' = Present
    BY <1>2 DEF Present
  <2> QED BY <1>2, <2>1 DEF ScansRight, Scans, At
<1>7. Quiescence'
  <2> SUFFICES ASSUME NEW x \in Threads PROVE Quiet(x)'
    BY DEF Quiescence
  <2>0. Quiet(x)
    BY DEF Quiescence
  <2>1. CASE x # u
    <3>1. Awaited(x)' <=> Awaited(x)
      BY <1>1, <1>2, <2>1 DEF Awaited, At
    <3> QED BY <1>2, <2>0, <3>1 DEF Quiet, At
  <2>2. CASE x = u
    <3>1. th[x].pc \in {"version", "jump"} \cup Seeking => qstate[x] = hv[cur]
      BY <1>1, <2>2 DEF LocksRight, HasLocks, Parks, Seeking
    <3>2. \A w \in Threads : th[w].pc \in Changing => w = t
      BY <1>2 DEF LocksRight, HasLocks, Meta, Changing
    <3>3. leaf[th[t].other].lv = hv[cur]
      BY <1>2 DEF TablesRight, Behind
    <3>4. qstate[x] \in Nat /\ hv[cur] \in Nat
      BY DEF Types
    <3> QED BY <1>2, <2>0, <3>1, <3>2, <3>3, <3>4 DEF Quiet, At
  <2> QED BY <2>1, <2>2
<1> QED BY <1>3, <1>4, <1>5, <1>6, <1>7, <1>8, <1>9

\* When the wait ends nobody goes by the other table.
LEMMA QsbrDoneKeeps ==
    ASSUME IInv, "back" \notin Ops, NEW t \in Threads, QsbrDone(t)
    PROVE  IInv'
<1> USE DEF IInv
<1>u. /\ \A u \in Threads : th[u].pc \in Changing => u = t
      /\ t \notin parked /\ metalock = t /\ t # None /\ t \in Threads
  BY NoneApart DEF LocksRight, HasLocks, Meta, Changing, Parks, QsbrDone, At
<1>1. th' = [th EXCEPT ![t].pc = "repatch"]
  BY SMT DEF QsbrDone, Goto
<1>2. /\ th[t].pc = "qwait" /\ unquiet = {}
      /\ UNCHANGED <<leaf, wlock, rlock, table, hv, cur, metalock, qstate, parked, unquiet, must>>
  BY SMT DEF QsbrDone, At, shared
<1>3. [th[t] EXCEPT !.pc = "repatch"] \in Record
  <2>1. "repatch" \in Places
    BY <1>2 DEF Types, Places
  <2>2. th[t] \in Record
    BY DEF Types
  <2> QED BY <2>1, <2>2 DEF Record
<1>4. /\ \A u \in Threads : u # t => th'[u] = th[u]
      /\ th'[t].pc = "repatch" /\ th'[t].op = th[t].op /\ th'[t].key = th[t].key
      /\ th'[t].hm = th[t].hm
      /\ th'[t].v = th[t].v /\ th'[t].v1 = th[t].v1 /\ th'[t].leaf = th[t].leaf
      /\ th'[t].other = th[t].other
      /\ th'[t].at = th[t].at /\ th'[t].back = th[t].back /\ th'[t].answer = th[t].answer
  BY <1>1, <1>3 DEF Types, Record
<1>5. Types'
  <2>0. th' \in [Threads -> Record]
    BY <1>1, <1>3 DEF Types
  <2> QED BY <2>0, <1>2, <1>4 DEF Types, At, Seeking, HoldsLeaf, Changing, NextPlaces, Moving
<1>6. LocksRight'
  BY <1>2, <1>4
   DEF LocksRight, LocksApart, HasLocks, Holds, Writes, HoldsLeaf, HoldsOther, Meta, Parks, Changing
<1>7. ListRight'
  BY <1>2, <1>4 DEF ListRight, ListOrder, KeysRight, Linked, Merging, Moving, InRange
<1>8. StatesRight'
  BY <1>2, <1>4 DEF StatesRight, Linked, Splitting, Moving, HoldsLeaf, Changing
<1>9. LeafRight'
  <2>1. Knows(t)'
    BY <1>2, <1>4
     DEF LeafRight, Knows, Linked, Merging, Splitting, Moving, Seeking, NextPlaces, Changing, InRange,
         At
  <2> QED BY <2>1, <1>2, <1>4, LeafStays
<1>10. TablesRight'
  <2>1. MetaRight'
    BY <1>2, <1>4, <1>u DEF MetaRight, Meta, Changing
  <2>2. \A u \in Threads : u # t => th'[u].pc \notin Changing
    BY <1>4, <1>u
  <2>3. Linked' = Linked
    BY <1>2 DEF Linked
  <2>4. Before(t)' = Before(t)
    BY <1>4, <2>3 DEF Before, Splits
  <2> QED BY <2>1, <2>2, <2>3, <2>4, <1>2, <1>4 DEF TablesRight, Behind, Changing, At, Types
<1>11. Quiescence'
  <2>1. ASSUME NEW u \in Threads, u # t PROVE Quiet(u)'
    BY <2>1, <1>2, <1>4, <1>u DEF Quiescence, Quiet, Awaited, Seeking, Changing, At
  <2>2. Quiet(t)'
    BY <1>2, <1>4, <1>u DEF Quiescence, Quiet, Awaited, Seeking, Changing, At
  <2> QED BY <2>1, <2>2 DEF Quiescence
<1>12. AnswersRight'
  BY <1>2, <1>4 DEF AnswersRight, Changing, NextPlaces, Moving, At
<1>13. ScansRight'
  <2>1. Present' = Present
    BY <1>2, <1>4, PresentStays DEF Splitting, Moving
  <2>2. Scans(t)'
    BY <2>1, <1>2, <1>4 DEF ScansRight, Scans, NextPlaces, Seeking, At
  <2> QED BY <2>1, <2>2, <1>2, <1>4, ScanStays
<1> QED BY <1>5, <1>6, <1>7, <1>8, <1>9, <1>10, <1>11, <1>12, <1>13 DEF IInv

\* Both tables are the list again, and nobody is on its way to the leaf that is
\* freed.
LEMMA RepatchKeeps ==
    ASSUME IInv, "back" \notin Ops, NEW t \in Threads, Repatch(t)
    PROVE  IInv' /\ Present' = Present
<1> USE DEF IInv
<1> DEFINE l == th[t].leaf
           r == th[t].other
<1>a. /\ th[t].pc = "repatch" /\ th[t].op \in {"put", "del"} /\ r \in Leaves /\ r = th[t].other
      /\ metalock = t /\ t # None /\ must[t] = {} /\ r # None
      /\ \A u \in Threads : u # t => th[u].pc \notin Changing
      /\ \A u \in Threads : ~Awaited(u)
      /\ cur \in 0 .. 1 /\ 1 - cur \in 0 .. 1 /\ \A h \in 0 .. 1 : h # cur => h = 1 - cur
      /\ table[cur] = Linked /\ table[1 - cur] = Before(t) /\ hv[1 - cur] <= hv[cur]
      /\ th[t].op = "put" => r \in Linked
      /\ th[t].op = "del" => leaf[r].state = "unlinked"
  <2>1. th[t].pc = "repatch"
    BY DEF Repatch, At
  <2>2. /\ metalock = t /\ th[t].op \in {"put", "del"} /\ r \in Leaves
        /\ \A u \in Threads : u # t => th[u].pc \notin Changing
    BY <2>1 DEF LeafRight, Knows, LocksRight, HasLocks, Meta, Types, Changing
  <2>3. \A u \in Threads : ~Awaited(u)
    BY <2>1, <2>2 DEF Awaited, Changing, At
  <2>4. cur \in 0 .. 1 /\ 1 - cur \in 0 .. 1 /\ (\A h \in 0 .. 1 : h # cur => h = 1 - cur) /\ hv \in [0 .. 1 -> Nat]
    BY DEF Types
  <2>5. table[cur] = Linked /\ table[1 - cur] = Before(t) /\ hv[cur] = hv[1 - cur] + 1
    BY <2>1 DEF TablesRight, Behind
  <2>6. hv[1 - cur] <= hv[cur]
    BY <2>4, <2>5
  <2>7. (th[t].op = "put" => r \in Linked) /\ (th[t].op = "del" => leaf[r].state = "unlinked")
    BY <2>1 DEF LeafRight, Knows, Changing
  <2>8. must[t] = {}
    BY <2>2 DEF ScansRight, Scans
  <2> QED BY <2>1, <2>2, <2>3, <2>4, <2>5, <2>6, <2>7, <2>8, NoneApart
<1>b. /\ table' = [table EXCEPT ![1 - cur] = Patched(t, 1 - cur)]
      /\ leaf' = IF Splits(t) THEN leaf ELSE [leaf EXCEPT ![r] = [Unused EXCEPT !.state = "freed"]]
      /\ metalock' = None
      /\ Return(t, TRUE)
      /\ UNCHANGED <<wlock, rlock, hv, cur, qstate, unquiet, must>>
  BY DEF Repatch
<1>c. /\ metalock' = None /\ Return(t, TRUE)
      /\ UNCHANGED <<wlock, rlock, hv, cur, qstate, unquiet, must>>
  BY <1>b
<1> HIDE DEF l, r
<1>e. /\ leaf' \in [Leaves -> LeafRecord]
      /\ \A m \in Leaves : m # r => leaf'[m] = leaf[m]
      /\ th[t].op = "put" => leaf' = leaf
      /\ th[t].op = "del" => leaf'[r].state = "freed"
  <2>1. Splits(t) <=> th[t].op = "put"
    BY DEF Splits
  <2>2. leaf \in [Leaves -> LeafRecord]
    BY DEF Types
  <2>3. CASE th[t].op = "put"
    BY <1>b, <2>1, <2>2, <2>3
  <2>4. CASE th[t].op = "del"
    <3>1. leaf' = [leaf EXCEPT ![r] = [Unused EXCEPT !.state = "freed"]]
      BY <1>b, <2>1, <2>4
    <3>2. [Unused EXCEPT !.state = "freed"] \in LeafRecord /\ [Unused EXCEPT !.state = "freed"].state = "freed"
      BY DEF Unused, LeafRecord
    <3> QED BY <1>a, <2>2, <2>4, <3>1, <3>2
  <2> QED BY <1>a, <2>3, <2>4
<1>f. /\ Linked' = Linked /\ (th[t].op = "del" => r \notin Linked)
      /\ \A m \in Linked : m \in Leaves /\ leaf'[m] = leaf[m]
                           /\ leaf[m].next \in Leaves \cup {None}
                           /\ (leaf[m].next # None => leaf[m].next \in Linked /\ leaf[m].next \in Leaves
                                                      /\ leaf'[leaf[m].next] = leaf[leaf[m].next])
      /\ \A m \in Leaves : leaf'[m].state \in {"linked", "local"} <=> leaf[m].state \in {"linked", "local"}
  <2>1. th[t].op = "del" => r \notin Linked
    BY <1>a DEF Linked
  <2>2. \A m \in Leaves : leaf'[m].state \in {"linked", "local"} <=> leaf[m].state \in {"linked", "local"}
    BY <1>a, <1>e
  <2>3. Linked' = Linked
    BY <1>a, <1>e DEF Linked
  <2>4. \A m \in Linked : m \in Leaves /\ leaf'[m] = leaf[m] /\ leaf[m].next \in Leaves \cup {None}
    BY <1>a, <1>e, <2>1 DEF Linked, Types, LeafRecord
  <2>5. \A m \in Linked : leaf[m].next # None => leaf[m].next \in Linked
    BY DEF ListRight, ListOrder
  <2> QED BY <2>1, <2>2, <2>3, <2>4, <2>5
<1>g. \A m \in Linked, x \in Keys : InRange(m, x)' <=> InRange(m, x)
  BY <1>f DEF InRange
<1>h. table' \in [0 .. 1 -> SUBSET Leaves] /\ \A h \in 0 .. 1 : table'[h] = Linked
  <2>1. Patched(t, 1 - cur) = Linked
    <3>1. CASE th[t].op = "put"
      <4>1. Patched(t, 1 - cur) = table[1 - cur] \cup {r} /\ Before(t) = Linked \ {r}
        BY <3>1, <1>a DEF Patched, Before, Splits
      <4> QED BY <1>a, <3>1, <4>1
    <3>2. CASE th[t].op = "del"
      <4>1. Patched(t, 1 - cur) = table[1 - cur] \ {r} /\ Before(t) = Linked \cup {r}
        BY <3>2, <1>a DEF Patched, Before, Splits
      <4>2. r \notin Linked
        BY <1>f, <3>2
      <4>3. (Linked \cup {r}) \ {r} = Linked
        BY <4>2
      <4> QED BY <1>a, <4>1, <4>3
    <3> QED BY <1>a, <3>1, <3>2
  <2> DEFINE o == 1 - cur
  <2>2. o \in 0 .. 1 /\ \A h \in 0 .. 1 : h # cur => h = o
    BY <1>a
  <2>3. table' = [table EXCEPT ![o] = Linked]
    BY <1>b, <2>1
  <2>4. table \in [0 .. 1 -> SUBSET Leaves] /\ Linked \in SUBSET Leaves
    BY DEF Types, Linked
  <2> HIDE DEF o
  <2> QED BY <1>a, <2>2, <2>3, <2>4
<1>i. \A u \in Threads : u # t =>
         /\ th[u].pc \in Seeking => th[u].leaf \in Leaves /\ (th[u].leaf # r \/ th[t].op = "put")
         /\ th[u].pc \in {"version", "jump"} => th[u].hm = cur
  <2> SUFFICES ASSUME NEW u \in Threads, u # t
               PROVE  /\ th[u].pc \in Seeking => th[u].leaf \in Leaves /\ (th[u].leaf # r \/ th[t].op = "put")
                      /\ th[u].pc \in {"version", "jump"} => th[u].hm = cur
    OBVIOUS
  <2>1. Quiet(u) /\ ~Awaited(u)
    BY <1>a DEF Quiescence
  <2>2. ASSUME th[u].pc \in Seeking, th[t].op = "del" PROVE th[u].leaf # r
    <3> SUFFICES ASSUME th[u].leaf = r PROVE FALSE
      OBVIOUS
    <3>1. leaf[th[u].leaf].state = "unlinked" /\ th[t].pc \in Changing /\ th[t].other = th[u].leaf
      BY <1>a, <2>2 DEF Changing
    <3>2. th[t].pc \in {"patch", "switch"}
      BY <2>1, <2>2, <3>1 DEF Quiet
    <3> QED BY <1>a, <3>2
  <2>3. th[u].pc \in Seeking => th[u].leaf \in Leaves
    BY DEF Types
  <2>4. th[u].pc \in {"version", "jump"} => th[u].hm = cur
    BY <2>1 DEF Quiet
  <2> QED BY <1>a, <2>2, <2>3, <2>4
<1>t. /\ \A u \in Threads : u # t => th'[u] = th[u]
      /\ th'[t].pc = "idle"
  BY <1>c DEF Types, Return, Idle
<1>p. Present' = Present
  <2>1. \A u \in Threads : (Splitting(u)' <=> Splitting(u)) /\ (Splitting(u) => th'[u].key = th[u].key)
    BY <1>a, <1>t DEF Splitting, Moving
  <2>2. \A m \in Leaves : leaf[m].state \in {"linked", "local"} => leaf'[m] = leaf[m]
    BY <1>a, <1>e
  <2>3. \A x : InMap(x)' <=> InMap(x)
    BY <1>f, <2>1, <2>2 DEF InMap
  <2> QED BY <2>3, IsPresent, IsPresentNext
<1>1. th' = [th EXCEPT ![t] = [Idle EXCEPT !.answer = TRUE]]
  BY <1>a, <1>c, SMT DEF Return
<1>2. /\ th[t].pc = "repatch" /\ r = th[t].other
      /\ UNCHANGED <<wlock, rlock, hv, cur, qstate, unquiet, must>>
      /\ metalock' = None
      /\ parked' = parked \cup {t}
  BY <1>a, <1>c, SMT DEF Return
<1>3. [Idle EXCEPT !.answer = TRUE] \in Record
  <2>1. TRUE \in BOOLEAN \cup {None}
    OBVIOUS
  <2> QED BY <2>1, IdleRecord
<1>4. /\ \A u \in Threads : u # t => th'[u] = th[u]
      /\ th'[t].pc = "idle" /\ th'[t].op = None /\ th'[t].key = None /\ th'[t].hm = 0
      /\ th'[t].v = 0 /\ th'[t].v1 = 0 /\ th'[t].leaf = None /\ th'[t].other = None
      /\ th'[t].at = None /\ th'[t].back = FALSE /\ th'[t].answer = TRUE
  BY <1>1, <1>3 DEF Types, Record, Idle
<1>5. Types'
  <2>1. leaf' \in [Leaves -> LeafRecord] /\ table' \in [0 .. 1 -> SUBSET Leaves]
    BY <1>e, <1>h
  <2>0. th' \in [Threads -> Record]
    BY <1>1, <1>3 DEF Types
  <2> QED BY <2>0, <2>1, <1>2, <1>4 DEF Types, At, Seeking, HoldsLeaf, Changing, NextPlaces, Moving
<1>6. LocksRight'
  <2>1. LocksApart'
    <3>1. \A m \in Leaves : leaf'[m].state = "free" => leaf[m].state = "free"
      BY <1>2, <1>a, <1>e
    <3> QED BY <3>1, <1>2 DEF LocksRight, LocksApart
  <2>2. ASSUME NEW u \in Threads, u # t PROVE HasLocks(u)'
    <3>1. th[u].pc \notin Meta /\ metalock' # u
      BY <2>2, <1>a, <1>2, NoneApart DEF LocksRight, HasLocks
    <3> QED BY <2>2, <3>1, <1>2, <1>4 DEF LocksRight, HasLocks, Holds
  <2>3. HasLocks(t)'
    BY <1>2, <1>4, <1>a DEF HasLocks, HoldsLeaf, HoldsOther, Meta, Parks, Changing
  <2> QED BY <2>1, <2>2, <2>3 DEF LocksRight
<1>7. ListRight'
  <2>1. ListOrder'
    BY <1>f DEF ListRight, ListOrder
  <2>2. ASSUME NEW a \in Linked, NEW x \in leaf'[a].keys
        PROVE  InRange(a, x)' \/ \E u \in Threads : Merging(u)' /\ th'[u].leaf = a /\ InRange(th[u].other, x)'
    <3>1. a \in Leaves /\ x \in Keys /\ x \in leaf[a].keys
      BY <2>2, <1>e, <1>f DEF LeafRecord
    <3>2. InRange(a, x) \/ \E u \in Threads : Merging(u) /\ th[u].leaf = a /\ InRange(th[u].other, x)
      BY <3>1 DEF ListRight, KeysRight
    <3>3. CASE InRange(a, x)
      BY <3>1, <3>3, <1>g
    <3>4. ASSUME NEW u \in Threads, Merging(u), th[u].leaf = a, InRange(th[u].other, x)
          PROVE  Merging(u)' /\ th'[u].leaf = a /\ InRange(th[u].other, x)'
      <4>1. u # t /\ th[u].other \in Leaves /\ th[u].other = leaf[a].next
        BY <3>4, <1>a DEF Merging, Moving, Types, LeafRight, Knows
      <4>2. th[u].other \in Linked
        BY <4>1, <1>f, NoneApart
      <4>3. th'[u] = th[u]
        BY <4>1, <1>4
      <4> QED BY <3>1, <3>4, <4>2, <4>3, <1>g DEF Merging
    <3> QED BY <3>2, <3>3, <3>4
  <2> QED BY <2>1, <2>2, <1>f DEF ListRight, KeysRight
<1>8. StatesRight'
  <2>1. \A u \in Threads : (Splitting(u) => Splitting(u)' /\ th'[u].other = th[u].other)
    BY <1>4, <1>a DEF Splitting, Moving
  <2>2. \A m \in Leaves : leaf'[m].state = "local" => leaf[m].state = "local"
    BY <1>a, <1>e
  <2>3. \A u \in Threads : th'[u].pc \in HoldsLeaf \cup Changing => th'[u].leaf \in Linked
    BY <1>4 DEF StatesRight, HoldsLeaf, Changing
  <2> QED BY <2>1, <2>2, <2>3, <1>f DEF StatesRight
<1>9. LeafRight'
  <2>1. ASSUME NEW u \in Threads, u # t PROVE Knows(u)'
    <3>1. th'[u] = th[u] /\ Knows(u) /\ th[u].pc \notin Changing
      BY <2>1, <1>4, <1>a DEF LeafRight
    <3>2. /\ th[u].pc \in HoldsLeaf => th[u].leaf \in Linked
          /\ th[u].pc \in NextPlaces \cup Moving => th[u].other \in Leaves /\ th[u].leaf \in Linked
          /\ th[u].pc \in Seeking \cup HoldsLeaf => th[u].key \in Keys
      BY DEF Types, StatesRight, NextPlaces, Moving, HoldsLeaf, At, Seeking
    <3>3. CASE th[u].pc \in Seeking
      <4>1. th[u].leaf \in Leaves /\ leaf'[th[u].leaf] = leaf[th[u].leaf]
        <5>1. th[u].leaf \in Leaves
          BY <3>3 DEF Types
        <5> QED BY <2>1, <3>3, <5>1, <1>a, <1>e, <1>i
      <4>2. th[u].leaf \in Linked => (InRange(th[u].leaf, th[u].key)' <=> InRange(th[u].leaf, th[u].key))
        BY <3>1, <3>2, <3>3, <1>g
      <4> QED BY <3>1, <3>3, <4>1, <4>2, <1>f DEF Knows, Merging, Splitting, Moving, Seeking,
           NextPlaces, Changing, At
    <3>4. CASE th[u].pc \in HoldsLeaf
      <4>1. /\ \A x \in Keys : InRange(th[u].leaf, x)' <=> InRange(th[u].leaf, x)
            /\ leaf'[th[u].leaf] = leaf[th[u].leaf] /\ th[u].key \in Keys
            /\ leaf[th[u].leaf].next # None => leaf'[leaf[th[u].leaf].next] = leaf[leaf[th[u].leaf].next]
            /\ \A m \in Leaves : leaf[m].keys \subseteq Keys
        BY <3>1, <3>2, <3>4, <1>f, <1>g DEF Types, LeafRecord
      <4>2. CASE th[u].pc \in Moving
        <5>1. leaf'[th[u].other] = leaf[th[u].other]
          <6>1. CASE th[u].op = "put"
            <7>1. leaf[th[u].other].state = "local"
              BY <3>1, <4>2, <6>1 DEF Knows, Splitting
            <7> QED BY <3>2, <4>2, <7>1, <1>a, <1>e
          <6>2. CASE th[u].op = "del"
            <7>1. th[u].other = leaf[th[u].leaf].next /\ th[u].other # None
              BY <3>1, <3>2, <4>2, <6>2, NoneApart DEF Knows, Merging
            <7> QED BY <4>1, <7>1
          <6> QED BY <3>1, <4>2, <6>1, <6>2 DEF Knows
        <5> QED BY <3>1, <3>2, <3>4, <4>1, <4>2, <5>1 DEF Knows, Merging, Splitting, Moving, Seeking,
             NextPlaces, Changing, At
      <4>3. CASE th[u].pc \notin Moving
        BY <3>1, <3>2, <3>4, <4>1, <4>3 DEF Knows, Merging, Splitting, HoldsLeaf, Seeking, Changing, At
      <4> QED BY <4>2, <4>3
    <3>5. CASE th[u].pc \notin Seeking \cup HoldsLeaf
      BY <3>1, <3>2, <3>5
       DEF Knows, Merging, Splitting, Moving, Seeking, HoldsLeaf, NextPlaces, Changing, At
    <3> QED BY <3>3, <3>4, <3>5
  <2>2. Knows(t)'
    BY <1>4 DEF Merging, Splitting, Moving, Seeking, NextPlaces, Changing, At, Knows
  <2> QED BY <2>1, <2>2 DEF LeafRight
<1>10. TablesRight'
  <2>1. MetaRight'
    BY <1>2 DEF MetaRight
  <2>2. \A u \in Threads : th'[u].pc \notin Changing
    BY <1>4, <1>a DEF Changing
  <2>3. hv'[1 - cur'] <= hv'[cur']
    BY <1>2, <1>a
  <2> QED BY <2>1, <2>2, <2>3, <1>f, <1>h DEF TablesRight, Changing, At
<1>11. Quiescence'
  <2>2. ASSUME NEW u \in Threads PROVE Quiet(u)'
    <3>z. \A w \in Threads : th'[w].pc \notin Changing
      BY <1>4, <1>a DEF Changing
    <3>1. Quiet(u) /\ hv' = hv /\ cur' = cur /\ qstate' = qstate
      BY <1>2 DEF Quiescence
    <3>2. CASE u = t
      <4>1. th'[u].v = 0 /\ th'[u].v1 = 0 /\ hv[cur] \in Nat
        BY <1>4, <3>2 DEF Types
      <4> QED BY <3>1, <3>2, <4>1, <1>4 DEF Quiet, Seeking, At
    <3>3. CASE u # t
      <4>1. th'[u] = th[u]
        BY <3>3, <1>4
      <4>2. th[u].pc \in Seeking => th[u].leaf \in Leaves
        BY DEF Types
      <4>3. th[u].pc \in Seeking /\ leaf'[th[u].leaf].state = "unlinked" => leaf'[th[u].leaf] = leaf[th[u].leaf]
        BY <4>2, <1>a, <1>e
      <4>4. th[u].pc \in {"version", "jump"} => th[u].hm = cur
        BY <3>3, <1>i
      <4> QED BY <3>z, <3>1, <4>1, <4>3, <4>4 DEF Quiet, At
    <3> QED BY <3>2, <3>3
  <2> QED BY <2>2 DEF Quiescence
<1>12. AnswersRight'
  BY <1>2, <1>4 DEF AnswersRight, Changing, NextPlaces, Moving, At
<1>13. ScansRight'
  <2>1. ASSUME NEW u \in Threads, u # t PROVE Scans(u)'
    <3>1. th'[u] = th[u] /\ must'[u] = must[u] /\ Scans(u) /\ must[u] \subseteq Present'
      BY <2>1, <1>2, <1>4, <1>p DEF ScansRight, Scans
    <3>2. /\ th[u].pc \in HoldsLeaf => th[u].leaf \in Linked /\ leaf'[th[u].leaf] = leaf[th[u].leaf]
          /\ th[u].pc \in NextPlaces => th[u].other \in Leaves /\ leaf[th[u].leaf].next = th[u].other
      BY <1>f DEF Types, StatesRight, LeafRight, Knows
    <3>3. th[u].pc \in NextPlaces => leaf'[th[u].other] = leaf[th[u].other]
      BY <3>2, <1>f, NoneApart DEF NextPlaces, HoldsLeaf
    <3> QED BY <3>1, <3>2, <3>3, <1>f DEF Scans, HoldsLeaf, At
  <2>3. Scans(t)'
    BY <1>2, <1>4, <1>a DEF Scans, NextPlaces, Seeking, At
  <2> QED BY <2>1, <2>3 DEF ScansRight
<1>q. IInv'
  BY <1>5, <1>6, <1>7, <1>8, <1>9, <1>10, <1>11, <1>12, <1>13 DEF IInv
<1> QED BY <1>q, <1>p

-----------------------------------------------------------------------------
(* The invariant, what it implies, and the refinement.                       *)

\* A list to start with satisfies the invariant.
LEMMA InitRight == Init => IInv
<1> SUFFICES ASSUME Init PROVE IInv
  OBVIOUS
<1>1. PICK list \in Starts :
          /\ leaf = Started(list)
          /\ wlock = [l \in Leaves |-> None]
          /\ rlock = [l \in Leaves |-> {}]
          /\ table = [h \in 0 .. 1 |-> DOMAIN list]
          /\ hv = [h \in 0 .. 1 |-> 0]
          /\ cur = 0
          /\ metalock = None
          /\ qstate = [t \in Threads |-> 0]
          /\ parked = Threads
          /\ unquiet = {}
          /\ th = [t \in Threads |-> Idle]
          /\ must = [t \in Threads |-> {}]
  BY DEF Init
<1> DEFINE n == Len(list)
<1>2. /\ list \in Seq([anchor : Nat, keys : SUBSET Keys]) /\ list # <<>>
      /\ DOMAIN list \subseteq Leaves
      /\ \A k \in Keys : list[1].anchor <= k
      /\ \A i, j \in DOMAIN list : i < j => list[i].anchor < list[j].anchor
      /\ \A i \in DOMAIN list : \A k \in list[i].keys :
            list[i].anchor <= k /\ (i < Len(list) => k < list[i + 1].anchor)
  BY IndexAssumption DEF StartRight
<1>3. n \in Nat \ {0} /\ DOMAIN list = 1 .. n
  BY <1>2
<1>4. \A i \in 1 .. n : list[i].anchor \in Nat /\ list[i].keys \subseteq Keys
  <2> DEFINE S == [anchor : Nat, keys : SUBSET Keys]
  <2>1. list \in Seq(S)
    BY <1>2
  <2> HIDE DEF S
  <2>2. \A i \in 1 .. n : list[i] \in S
    BY <2>1 DEF n
  <2> QED BY <2>2 DEF S
<1>5. None \notin Nat /\ Leaves \subseteq Nat /\ Keys \subseteq Nat /\ None \notin Threads
  BY IndexAssumption
<1> HIDE DEF n
<1>6. /\ \A l \in 1 .. n : leaf[l] = [keys |-> list[l].keys, anchor |-> list[l].anchor, lv |-> 0,
                                      state |-> "linked", prev |-> IF l = 1 THEN None ELSE l - 1,
                                      next |-> IF l = n THEN None ELSE l + 1]
      /\ \A l \in Leaves \ (1 .. n) : leaf[l] = Unused
      /\ leaf \in [Leaves -> LeafRecord]
  <2>1. leaf = [l \in Leaves |->
                 IF l \in 1 .. n
                 THEN [keys |-> list[l].keys, anchor |-> list[l].anchor, lv |-> 0, state |-> "linked",
                       prev |-> IF l = 1 THEN None ELSE l - 1,
                       next |-> IF l = n THEN None ELSE l + 1]
                 ELSE Unused]
    BY <1>1, <1>3 DEF Started, n
  <2>2. 1 .. n \subseteq Leaves
    BY <1>2, <1>3
  <2>3. Unused \in LeafRecord
    BY DEF Unused, LeafRecord
  <2>4. \A l \in 1 .. n : (IF l = 1 THEN None ELSE l - 1) \in Leaves \cup {None}
    BY <1>3, <2>2
  <2>5. \A l \in 1 .. n : (IF l = n THEN None ELSE l + 1) \in Leaves \cup {None}
    BY <1>3, <2>2
  <2>6. \A l \in 1 .. n : leaf[l] = [keys |-> list[l].keys, anchor |-> list[l].anchor, lv |-> 0,
                                     state |-> "linked", prev |-> IF l = 1 THEN None ELSE l - 1,
                                     next |-> IF l = n THEN None ELSE l + 1]
    BY <2>1, <2>2
  <2>7. ASSUME NEW l \in 1 .. n PROVE leaf[l] \in LeafRecord
    <3> DEFINE p == IF l = 1 THEN None ELSE l - 1
               q == IF l = n THEN None ELSE l + 1
    <3>1. leaf[l] = [keys |-> list[l].keys, anchor |-> list[l].anchor, lv |-> 0,
                     state |-> "linked", prev |-> p, next |-> q]
      BY <2>6
    <3>2. p \in Leaves \cup {None} /\ q \in Leaves \cup {None}
      BY <2>4, <2>5
    <3> HIDE DEF p, q
    <3> QED BY <1>4, <3>1, <3>2 DEF LeafRecord
  <2>8. \A l \in Leaves \ (1 .. n) : leaf[l] = Unused
    BY <2>1
  <2>9. \A l \in Leaves : leaf[l] \in LeafRecord
    BY <2>3, <2>7, <2>8
  <2> QED BY <2>1, <2>6, <2>8, <2>9
<1>7. Linked = 1 .. n
  <2>1. \A l \in 1 .. n : l \in Leaves /\ leaf[l].state = "linked"
    <3> SUFFICES ASSUME NEW l \in 1 .. n PROVE l \in Leaves /\ leaf[l].state = "linked"
      OBVIOUS
    <3> DEFINE p == IF l = 1 THEN None ELSE l - 1
               q == IF l = n THEN None ELSE l + 1
    <3>1. leaf[l] = [keys |-> list[l].keys, anchor |-> list[l].anchor, lv |-> 0,
                     state |-> "linked", prev |-> p, next |-> q]
      BY <1>6
    <3> HIDE DEF p, q
    <3>2. leaf[l].state = "linked"
      BY <3>1
    <3> QED BY <1>2, <1>3, <3>2
  <2>2. \A l \in Leaves \ (1 .. n) : leaf[l].state # "linked"
    BY <1>6 DEF Unused
  <2> QED BY <2>1, <2>2 DEF Linked
<1>8. \A l \in 1 .. n : /\ leaf[l].anchor = list[l].anchor /\ leaf[l].keys = list[l].keys
                        /\ leaf[l].state = "linked"
                        /\ leaf[l].next = (IF l = n THEN None ELSE l + 1)
                        /\ leaf[l].prev = (IF l = 1 THEN None ELSE l - 1)
  <2> SUFFICES ASSUME NEW l \in 1 .. n
               PROVE  /\ leaf[l].anchor = list[l].anchor /\ leaf[l].keys = list[l].keys
                      /\ leaf[l].state = "linked"
                      /\ leaf[l].next = (IF l = n THEN None ELSE l + 1)
                      /\ leaf[l].prev = (IF l = 1 THEN None ELSE l - 1)
    OBVIOUS
  <2> DEFINE p == IF l = 1 THEN None ELSE l - 1
             q == IF l = n THEN None ELSE l + 1
  <2>1. leaf[l] = [keys |-> list[l].keys, anchor |-> list[l].anchor, lv |-> 0,
                   state |-> "linked", prev |-> p, next |-> q]
    BY <1>6
  <2> HIDE DEF p, q
  <2>2. /\ leaf[l].anchor = list[l].anchor /\ leaf[l].keys = list[l].keys
        /\ leaf[l].state = "linked" /\ leaf[l].next = q /\ leaf[l].prev = p
    BY <2>1
  <2> QED BY <2>2 DEF p, q
<1>9. \A t \in Threads : th[t] = Idle
  BY <1>1
<1>10. \A t \in Threads : /\ th[t].pc = "idle" /\ th[t].v = 0 /\ th[t].v1 = 0 /\ th[t].op = None
                          /\ th[t].answer = None
  BY <1>9 DEF Idle
<1>11. Types
  <2>1. th \in [Threads -> Record]
    BY <1>1, IdleRecord
  <2> QED BY <1>1, <1>2, <1>6, <1>10, <2>1 DEF Types, At, Seeking, HoldsLeaf, Changing, NextPlaces,
       Moving
<1>12. LocksRight
  BY <1>1, <1>5, <1>10
   DEF LocksRight, LocksApart, HasLocks, HoldsLeaf, HoldsOther, Meta, Parks, Changing
<1>13. ListRight
  <2>1. \A l \in 1 .. n : leaf[l].next # None => /\ l < n /\ leaf[l].next = l + 1 /\ l + 1 \in 1 .. n
                                                 /\ leaf[l + 1].prev = l
    <3> SUFFICES ASSUME NEW l \in 1 .. n, leaf[l].next # None
                 PROVE  l < n /\ leaf[l].next = l + 1 /\ l + 1 \in 1 .. n /\ leaf[l + 1].prev = l
      OBVIOUS
    <3>1. l # n /\ leaf[l].next = l + 1
      BY <1>8
    <3>2. l < n /\ l + 1 \in 1 .. n /\ l + 1 # 1 /\ (l + 1) - 1 = l
      BY <1>3, <3>1
    <3>3. leaf[l + 1].prev = (l + 1) - 1
      BY <1>8, <3>2
    <3> QED BY <3>1, <3>2, <3>3
  <2>2. \A l \in 1 .. n : l < n => leaf[l].next = l + 1 /\ l + 1 # None
    BY <1>3, <1>5, <1>8
  <2>3. \A i, j \in 1 .. n : i < j => leaf[i].anchor < leaf[j].anchor
    BY <1>2, <1>3, <1>8
  <2>4. \A i \in 1 .. n : leaf[i].anchor \in Nat
    BY <1>4, <1>8
  <2>5. \A a, b \in 1 .. n : leaf[a].anchor = leaf[b].anchor => a = b
    <3> SUFFICES ASSUME NEW a \in 1 .. n, NEW b \in 1 .. n, leaf[a].anchor = leaf[b].anchor, a # b PROVE FALSE
      OBVIOUS
    <3>1. a < b \/ b < a
      BY <1>3
    <3> QED BY <2>3, <2>4, <3>1
  <2>6. \A a, b \in 1 .. n : leaf[a].anchor < leaf[b].anchor =>
            leaf[a].next # None /\ leaf[leaf[a].next].anchor <= leaf[b].anchor
    <3> SUFFICES ASSUME NEW a \in 1 .. n, NEW b \in 1 .. n, leaf[a].anchor < leaf[b].anchor
                 PROVE  leaf[a].next # None /\ leaf[leaf[a].next].anchor <= leaf[b].anchor
      OBVIOUS
    <3>1. a < b
      <4>1. ~(b < a) /\ a # b
        BY <2>3, <2>4
      <4> QED BY <1>3, <4>1
    <3>2. a < n /\ a + 1 \in 1 .. n /\ (a + 1 = b \/ a + 1 < b)
      BY <1>3, <3>1
    <3>3. leaf[a].next = a + 1 /\ a + 1 # None
      BY <2>2, <3>2
    <3>4. leaf[a + 1].anchor <= leaf[b].anchor
      BY <2>3, <2>4, <3>2
    <3> QED BY <3>3, <3>4
  <2>7. \A k \in Keys : \E a \in 1 .. n : leaf[a].anchor <= k
    BY <1>2, <1>3, <1>8
  <2>8. ListOrder
    <3>1. \A a \in Linked :
             /\ leaf[a].anchor \in Nat
             /\ leaf[a].next # None => /\ leaf[a].next \in Linked
                                       /\ leaf[leaf[a].next].prev = a
                                       /\ leaf[a].anchor < leaf[leaf[a].next].anchor
      BY <1>3, <1>7, <2>1, <2>3, <2>4
    <3> QED BY <1>7, <2>5, <2>6, <2>7, <3>1 DEF ListOrder
  <2>9. ASSUME NEW a \in 1 .. n, NEW k \in leaf[a].keys PROVE InRange(a, k)
    <3>1. leaf[a].anchor = list[a].anchor /\ k \in list[a].keys /\ list[a].anchor <= k
          /\ (a < n => k < list[a + 1].anchor)
      BY <1>2, <1>3, <1>8 DEF n
    <3>2. leaf[a].next # None => /\ a < n /\ leaf[a].next = a + 1
                                 /\ leaf[a + 1].anchor = list[a + 1].anchor
      BY <1>8, <2>1
    <3> QED BY <3>1, <3>2 DEF InRange
  <2> QED BY <1>7, <2>8, <2>9 DEF ListRight, KeysRight
<1>14. StatesRight
  BY <1>6, <1>8, <1>10 DEF StatesRight, HoldsLeaf, Changing, Unused
<1>15. LeafRight
  BY <1>10 DEF LeafRight, Knows, Merging, Splitting, Moving, Seeking, NextPlaces, Changing, At
<1>16. TablesRight
  <2>1. \A h \in 0 .. 1 : table[h] = Linked
    BY <1>1, <1>3, <1>7
  <2>2. hv[1 - cur] <= hv[cur]
    BY <1>1
  <2>3. metalock = None
    BY <1>1
  <2> QED BY <1>10, <2>1, <2>2, <2>3 DEF TablesRight, MetaRight, Changing, At
<1>17. Quiescence
  BY <1>1, <1>10 DEF Quiescence, Quiet, Seeking, At
<1>18. AnswersRight
  BY <1>10 DEF AnswersRight, At
<1>19. ScansRight
  BY <1>1, <1>10 DEF ScansRight, Scans, NextPlaces, Seeking, At
<1> QED BY <1>11, <1>12, <1>13, <1>14, <1>15, <1>16, <1>17, <1>18, <1>19 DEF IInv

\* A step that changes nothing keeps the invariant.
LEMMA Stutters == IInv /\ UNCHANGED vars => IInv'
<1> SUFFICES ASSUME IInv, UNCHANGED vars PROVE IInv'
  OBVIOUS
<1>1. UNCHANGED <<leaf, wlock, rlock, table, hv, cur, metalock, qstate, parked, unquiet, th, must>>
  BY DEF vars, shared
<1>2. Types' /\ LocksRight'
  BY <1>1 DEF IInv, Types, At, LocksRight, LocksApart, HasLocks, Holds
<1>3. ListRight'
  BY <1>1 DEF IInv, ListRight, ListOrder, KeysRight, Linked, InRange, Merging
<1>4. StatesRight' /\ AnswersRight'
  BY <1>1 DEF IInv, StatesRight, Linked, Splitting, AnswersRight, At
<1>5. LeafRight'
  BY <1>1 DEF IInv, LeafRight, Knows, At, Merging, Splitting, Linked, InRange
<1>6. TablesRight'
  BY <1>1 DEF IInv, TablesRight, MetaRight, Behind, Before, Splits, Linked, At
<1>7. Quiescence'
  BY <1>1 DEF IInv, Quiescence, Quiet, Awaited, At
<1>8. ScansRight'
  <2>1. Present' = Present
    BY <1>1 DEF Present
  <2> QED BY <1>1, <2>1 DEF IInv, ScansRight, Scans, At
<1> QED BY <1>2, <1>3, <1>4, <1>5, <1>6, <1>7, <1>8 DEF IInv

\* Every step keeps the invariant.
LEMMA NextRight ==
    ASSUME "back" \notin Ops, IInv, Next
    PROVE  IInv'
<1>1. PICK t \in Threads : Call(t) \/ Step(t)
  BY DEF Next
<1>2. CASE Call(t)
  BY <1>2, CallKeeps
<1>3. CASE Finds(t)
  BY <1>3, LoadHmapKeeps, LoadVersionKeeps, JumpKeeps, LockLeafKeeps, SpinVersionKeeps, SpinLeafKeeps
   DEF Finds
<1>4. CASE Works(t)
  BY <1>4, GetKeeps, PutInLeafKeeps, PutSplitsKeeps, PutFailsKeeps, DelNothingKeeps, DelKeyKeeps
   DEF Works
<1>5. CASE Locks(t)
  BY <1>5, NextLockKeeps, NextWaitKeeps, NextResumeKeeps, MetaLockKeeps, MetaWaitKeeps, MetaResumeKeeps
   DEF Locks
<1>6. CASE Alters(t)
  BY <1>6, MergeKeeps, SplitFailsKeeps, LinkKeeps, PatchNextKeeps, SwitchKeeps, UnlockBothKeeps,
     QsbrSeeKeeps, QsbrDoneKeeps, RepatchKeeps DEF Alters
<1>7. CASE Walks(t)
  BY <1>7, IterSeekKeeps, IterSkipKeeps, IterHopKeeps, IterMoveKeeps, IterParkKeeps DEF Walks
<1> QED BY <1>1, <1>2, <1>3, <1>4, <1>5, <1>6, <1>7 DEF Step

\* The inductive invariant holds.
THEOREM Invariance ==
    ASSUME "back" \notin Ops
    PROVE  Spec => []IInv
<1>1. IInv /\ [Next]_vars => IInv'
  BY NextRight, Stutters
<1> QED BY <1>1, InitRight, PTL DEF Spec

-----------------------------------------------------------------------------

\* The invariant says what LeavesSafe promises.
LEMMA Safely ==
    ASSUME IInv
    PROVE  LeavesSafe
<1> USE DEF IInv
<1>1. TypeOK
  <2>1. \A l \in Leaves : leaf[l] \in LeafRecord
    BY DEF Types
  <2>2. \A l \in Leaves : /\ leaf[l].keys \subseteq Keys
                          /\ {leaf[l].next, leaf[l].prev} \subseteq Leaves \cup {None}
                          /\ leaf[l].state \in {"free", "local", "linked", "unlinked", "freed"}
    BY <2>1 DEF LeafRecord
  <2>3. \A t \in Threads : th[t].pc \in Places /\ th[t].v \in Nat /\ th[t].v <= hv[cur]
    BY DEF Types, Record, Quiescence, Quiet
  <2>4. hv[0] \in Nat /\ hv[1] \in Nat /\ cur \in {0, 1}
    BY DEF Types
  <2>5. \A t \in Threads : th[t].v <= hv[0] + hv[1]
    BY <2>3, <2>4
  <2> QED BY <2>2, <2>3, <2>5 DEF TypeOK, Types
<1>2. HeldIsRight
  BY DEF HeldIsRight, LeafRight, Knows, StatesRight, HoldsLeaf, Linked, InRange, At
<1>3. ListInOrder
  <2> SUFFICES ASSUME NEW l \in Linked
               PROVE  /\ leaf[l].next # None => /\ leaf[leaf[l].next].prev = l
                                                /\ leaf[l].anchor < leaf[leaf[l].next].anchor
                      /\ \A k \in leaf[l].keys :
                            /\ leaf[l].anchor <= k
                            /\ leaf[l].next # None /\ wlock[leaf[l].next] = None => k < leaf[leaf[l].next].anchor
    BY Zenon DEF ListInOrder
  <2>1. leaf[l].next # None => /\ leaf[leaf[l].next].prev = l
                               /\ leaf[l].anchor < leaf[leaf[l].next].anchor
                               /\ leaf[leaf[l].next].anchor \in Nat
    BY DEF ListRight, ListOrder
  <2>2. ASSUME NEW k \in leaf[l].keys
        PROVE  /\ leaf[l].anchor <= k
               /\ leaf[l].next # None /\ wlock[leaf[l].next] = None => k < leaf[leaf[l].next].anchor
    <3>1. CASE InRange(l, k)
      BY <3>1 DEF InRange
    <3>2. ASSUME NEW t \in Threads, Merging(t), th[t].leaf = l, InRange(th[t].other, k)
          PROVE  leaf[l].anchor <= k /\ wlock[leaf[l].next] # None
      <4>1. /\ th[t].other = leaf[l].next /\ th[t].other \in Leaves
            /\ Holds(t, th[t].other) /\ th[t].op = "del"
        BY <3>2 DEF Merging, Moving, LeafRight, Knows, LocksRight, HasLocks, HoldsOther, Types
      <4>2. leaf[l].next # None /\ wlock[leaf[l].next] = t /\ t # None
        BY <4>1, NoneApart DEF Holds, Writes
      <4>3. leaf[leaf[l].next].anchor <= k
        BY <3>2, <4>1 DEF InRange
      <4>4. k \in Nat /\ leaf[l].anchor \in Nat
        <5>1. l \in Leaves /\ leaf[l].keys \subseteq Keys
          BY DEF Linked, Types, LeafRecord
        <5> QED BY <5>1, IndexAssumption DEF ListRight, ListOrder
      <4> QED BY <2>1, <4>2, <4>3, <4>4
    <3> QED BY <3>1, <3>2 DEF ListRight, KeysRight
  <2> QED BY <2>1, <2>2
<1>4. NoFreedLeaf
  <2> SUFFICES ASSUME NEW t \in Threads
               PROVE  /\ th[t].pc \in {"lock", "spin_lv", "held", "cursor", "hop"} =>
                            leaf[th[t].leaf].state # "freed"
                      /\ th[t].pc \in {"next", "next_wait", "both"} =>
                            leaf[th[t].leaf].state # "freed" /\ leaf[th[t].other].state # "freed"
    BY DEF NoFreedLeaf
  <2>1. th[t].pc \in {"lock", "spin_lv"} => leaf[th[t].leaf].state # "freed"
    BY DEF LeafRight, Knows, Seeking
  <2>2. th[t].pc \in HoldsLeaf => th[t].leaf \in Linked
    BY DEF StatesRight
  <2>3. th[t].pc \in NextPlaces => th[t].other = leaf[th[t].leaf].next /\ th[t].other # None
    BY NoneApart DEF LeafRight, Knows, Types
  <2>4. th[t].pc \in NextPlaces => th[t].other \in Linked
    BY <2>2, <2>3 DEF ListRight, ListOrder, HoldsLeaf, NextPlaces
  <2> QED BY <2>1, <2>2, <2>4 DEF HoldsLeaf, NextPlaces, Linked
<1>5. TablePrivate
  <2> SUFFICES ASSUME NEW t \in Threads, NEW u \in Threads,
                      th[t].pc \in {"link", "patch", "repatch"}, th[u].pc \in {"version", "jump"},
                      th[u].hm # cur
               PROVE  FALSE
    BY DEF TablePrivate
  <2>1. PICK w \in Threads : th[w].pc \in {"unlock", "qwait"}
    BY DEF Quiescence, Quiet, Awaited, At
  <2>2. metalock = t /\ metalock = w
    BY <2>1 DEF LocksRight, HasLocks, Meta, Changing
  <2> QED BY <2>1, <2>2
<1> QED BY <1>1, <1>2, <1>3, <1>4, <1>5 DEF LeavesSafe

\* wormhole_jump_leaf_read, wormhole_split_meta and wormhole_meta_leaf_merge: a leaf that was
\* found without a lock is the right one once it is locked, and is not touched once freed; a
\* table is changed only where no lookup goes.
THEOREM Safe ==
    ASSUME "back" \notin Ops
    PROVE  Spec => []LeavesSafe
  BY Invariance, Safely, PTL

\* whsafe_iter_*: an iterator that goes forward passes no key that was there when it
\* started and has not been deleted since.
THEOREM Complete ==
    ASSUME "back" \notin Ops
    PROVE  Spec => []ScanComplete
<1>1. IInv => ScanComplete
  BY DEF IInv, ScansRight, Scans, Types, Record, ScanComplete, At
<1> QED BY <1>1, Invariance, PTL

-----------------------------------------------------------------------------
(* The index implements OrderedMap.                                          *)

\* What OrderedMap sees of the threads.
Called   == [t \in Threads |-> IF At(t, "idle") THEN None ELSE [op |-> th[t].op, key |-> th[t].key]]
Answered == [t \in Threads |-> th[t].answer]

\* A step of t inside its operation, and one that ends it with an answer.
Inside(t)     == /\ \A u \in Threads : u # t => th'[u] = th[u]
                 /\ th[t].pc # "idle" /\ th'[t].pc # "idle"
                 /\ th'[t].op = th[t].op /\ th'[t].key = th[t].key
Returns(t, a) == /\ \A u \in Threads : u # t => th'[u] = th[u]
                 /\ th[t].pc # "idle" /\ th'[t].pc = "idle" /\ th'[t].answer = a

\* What such steps change of it.
LEMMA InsideOnly ==
    ASSUME NEW t \in Threads, Inside(t)
    PROVE  /\ Called' = Called
           /\ Answered' = [Answered EXCEPT ![t] = th'[t].answer]
  BY DEF Inside, Called, Answered, At

\* What a thread changes when it returns.
LEMMA ReturnsOnly ==
    ASSUME NEW t \in Threads, NEW a, Returns(t, a)
    PROVE  /\ Called' = [Called EXCEPT ![t] = None]
           /\ Answered' = [Answered EXCEPT ![t] = a]
  BY DEF Returns, Called, Answered, At

\* A thread in an operation has called it.
LEMMA HasCalled ==
    ASSUME IInv, NEW t \in Threads, th[t].pc # "idle"
    PROVE  /\ Called[t] # None /\ Called[t].op = th[t].op /\ Called[t].key = th[t].key
           /\ th[t].op \in Ops /\ th[t].key \in Keys
           /\ Answered[t] = th[t].answer
<1>1. th[t].op \in Ops /\ th[t].key \in Keys
  BY DEF IInv, Types, At
<1>2. Called[t] = [op |-> th[t].op, key |-> th[t].key]
  BY DEF Called, At
<1>3. Called[t] \in [op : Ops, key : Keys]
  BY <1>1, <1>2
<1>4. Called[t] # None
  BY <1>3, IndexAssumption
<1> QED BY <1>1, <1>2, <1>4 DEF Answered

\* The steps of OrderedMap in these terms.
LEMMA MapPending ==
    ASSUME IInv, NEW t \in Threads, th[t].pc # "idle", th[t].answer = None
    PROVE  Map!Pending(t, th[t].op)
<1>1. Called[t] # None /\ Called[t].op = th[t].op /\ Answered[t] = None
  BY HasCalled
<1> QED BY <1>1, Zenon DEF Map!Pending, Called, Answered

\* An operation with an answer acts on the map.
LEMMA MapActs ==
    ASSUME NEW t \in Threads, NEW a, Answered' = [Answered EXCEPT ![t] = a],
           Called' \in {Called, [Called EXCEPT ![t] = None]}
    PROVE  Map!Acts(t, a)
  BY Zenon DEF Map!Acts, Called, Answered

\* A lookup answers whether its key is there.
LEMMA MapLook ==
    ASSUME NEW t \in Threads, Map!Pending(t, "get") \/ Map!Pending(t, "inpw"),
           NEW a \in BOOLEAN, a <=> Called[t].key \in Present,
           Answered' = [Answered EXCEPT ![t] = a], Called' \in {Called, [Called EXCEPT ![t] = None]},
           Present' = Present
    PROVE  Map!Look(t)
<1>1. Answered' = [Answered EXCEPT ![t] = (Called[t].key \in Present)]
  OBVIOUS
<1> QED BY <1>1, Zenon DEF Map!Look, Map!Acts, Called, Answered

\* An insertion adds its key, or fails.
LEMMA MapPut ==
    ASSUME NEW t \in Threads, Map!Pending(t, "put"), NEW k, k = Called[t].key,
           \/ Present' = Present \cup {k} /\ Map!Acts(t, TRUE)
           \/ Present' = Present /\ Map!Acts(t, FALSE)
    PROVE  Map!Put(t)
  BY Zenon DEF Map!Put, Called

\* A deletion removes its key and tells whether it was there.
LEMMA MapDel ==
    ASSUME NEW t \in Threads, Map!Pending(t, "del"), Present' = Present \ {Called[t].key},
           NEW a \in BOOLEAN, a <=> Called[t].key \in Present,
           Answered' = [Answered EXCEPT ![t] = a], Called' \in {Called, [Called EXCEPT ![t] = None]}
    PROVE  Map!Del(t)
<1>1. Answered' = [Answered EXCEPT ![t] = (Called[t].key \in Present)]
  OBVIOUS
<1> QED BY <1>1, Zenon DEF Map!Del, Map!Acts, Called, Answered

\* An operation that has acted returns its answer.
LEMMA MapReturn ==
    ASSUME NEW t \in Threads, Called[t] # None, Answered[t] # None \/ Called[t].op \in {"scan", "back"},
           Called' = [Called EXCEPT ![t] = None], Present' = Present, Answered' = Answered
    PROVE  Map!Return(t)
  BY Zenon DEF Map!Return, Called, Answered

\* The steps on the way to a lock, those of iterators between their start and their
\* end, and those that change or wait for the tables are of no concern to the map.
Silent(t) == \/ Finds(t) \/ Locks(t) \/ PatchNext(t) \/ Switch(t) \/ UnlockBoth(t) \/ QsbrSee(t)
             \/ QsbrDone(t) \/ IterSeek(t) \/ IterSkip(t) \/ IterHop(t) \/ IterMove(t)

\* None of them lets a call start or return, or changes an answer.
LEMMA SilentInside ==
    ASSUME Types, NEW t \in Threads, Silent(t)
    PROVE  /\ Inside(t) /\ th'[t].answer = th[t].answer
           /\ UNCHANGED leaf /\ (Splitting(t)' <=> Splitting(t))
<1> DEFINE Goal == /\ Inside(t) /\ th'[t].answer = th[t].answer
                   /\ UNCHANGED leaf /\ (Splitting(t)' <=> Splitting(t))
<1>0. th \in [Threads -> Record] /\ th[t] \in Record
  BY DEF Types
<1>g. ASSUME NEW p, Goto(t, p), p # "idle", th[t].pc # "idle", UNCHANGED leaf,
             p \in Moving <=> th[t].pc \in Moving
      PROVE  Goal
  BY <1>0, <1>g DEF Goto, Inside, Record, Splitting
<1>s. ASSUME NEW l, NEW back, NEW ks, Stand(t, l, back, ks), UNCHANGED leaf, th[t].pc \in {"held", "cursor", "both"}
      PROVE  Goal
  <2> DEFINE p == IF ks = {} THEN "hop" ELSE "cursor"
             x == IF ks = {} THEN None ELSE IF back THEN Greatest(ks) ELSE Least(ks)
  <2>1. th' = [th EXCEPT ![t].pc = p, ![t].at = x, ![t].leaf = l, ![t].other = None, ![t].back = back]
    BY <1>s DEF Stand
  <2>2. p \in {"hop", "cursor"}
    OBVIOUS
  <2> HIDE DEF p, x
  <2> QED BY <1>0, <1>s, <2>1, <2>2 DEF Inside, Record, Splitting, Moving
<1>1. CASE LoadHmap(t)
  BY <1>0, <1>1 DEF LoadHmap, shared, Inside, Record, Splitting, Moving, At
<1>2. CASE LoadVersion(t)
  BY <1>0, <1>2 DEF LoadVersion, shared, Inside, Record, Splitting, Moving, At
<1>3. CASE Jump(t)
  BY <1>0, <1>3 DEF Jump, shared, Inside, Record, Splitting, Moving, At
<1>4. CASE LockLeaf(t)
  BY <1>g, <1>4 DEF LockLeaf, Moving, At
<1>5. CASE SpinVersion(t)
  BY <1>0, <1>5 DEF SpinVersion, shared, Inside, Record, Splitting, Moving, At
<1>6. CASE SpinLeaf(t)
  BY <1>g, <1>6 DEF SpinLeaf, shared, Moving, At
<1>7. CASE NextLock(t) \/ NextWait(t) \/ NextResume(t)
  BY <1>g, <1>7 DEF NextLock, NextWait, NextResume, shared, Moving, At
<1>8. CASE MetaLock(t) \/ MetaWait(t) \/ MetaResume(t)
  BY <1>g, <1>8 DEF MetaLock, MetaWait, MetaResume, shared, Moving, At
<1>9. CASE PatchNext(t) \/ Switch(t) \/ UnlockBoth(t)
  BY <1>g, <1>9 DEF PatchNext, Switch, UnlockBoth, Moving, At
<1>10. CASE QsbrSee(t)
  BY <1>10 DEF QsbrSee, shared, Inside, Splitting, At
<1>11. CASE QsbrDone(t)
  BY <1>g, <1>11 DEF QsbrDone, shared, Moving, At
<1>12. CASE IterSeek(t) \/ IterSkip(t) \/ IterMove(t)
  <2>1. UNCHANGED leaf /\ th[t].pc \in {"held", "cursor", "both"}
    BY <1>12 DEF IterSeek, IterSkip, IterMove, shared, At
  <2>2. \E l, back, ks : Stand(t, l, back, ks)
    BY <1>12, Zenon DEF IterSeek, IterSkip, IterMove
  <2> QED BY <1>s, <2>1, <2>2
<1>13. CASE IterHop(t)
  <2> DEFINE nxt == IF th[t].back THEN leaf[th[t].leaf].prev ELSE leaf[th[t].leaf].next
  <2>1. /\ th[t].pc = "hop" /\ UNCHANGED leaf
        /\ \/ th' = [th EXCEPT ![t].pc = "ended"]
           \/ th' = [th EXCEPT ![t].pc = "next", ![t].other = nxt]
    BY <1>13 DEF IterHop, At
  <2> HIDE DEF nxt
  <2> QED BY <1>0, <2>1 DEF Inside, Record, Splitting, Moving
<1> QED BY <1>1, <1>2, <1>3, <1>4, <1>5, <1>6, <1>7, <1>8, <1>9, <1>10, <1>11, <1>12, <1>13 DEF Silent,
     Finds, Locks

\* Such a step changes nothing the map knows.
LEMMA SilentStep ==
    ASSUME IInv, NEW t \in Threads, Silent(t)
    PROVE  UNCHANGED <<Present, Called, Answered>>
<1>1. /\ Inside(t) /\ th'[t].answer = th[t].answer
      /\ UNCHANGED leaf /\ (Splitting(t)' <=> Splitting(t))
  BY SilentInside DEF IInv
<1>2. Present' = Present
  BY <1>1, PresentStays DEF Inside
<1>3. Called' = Called /\ Answered' = Answered
  BY <1>1, InsideOnly DEF Answered
<1> QED BY <1>2, <1>3

\* An operation that returns without a change of the leaves leaves the map alone.
LEMMA ReturnKeeps ==
    ASSUME Types, NEW t \in Threads, NEW a, Return(t, a), th[t].pc \notin Moving \cup {"idle"}
    PROVE  Returns(t, a) /\ (UNCHANGED leaf => Present' = Present)
<1>1. Returns(t, a)
  BY DEF Types, Return, Idle, Returns
<1>2. ~Splitting(t) /\ ~Splitting(t)'
  BY <1>1 DEF Splitting, Moving, Returns
<1> QED BY <1>1, <1>2, PresentStays DEF Returns

\* What a thread that holds its leaf and has not acted finds there.
LEMMA HeldTells ==
    ASSUME IInv, NEW t \in Threads, At(t, "held")
    PROVE  /\ th[t].key \in Present <=> th[t].key \in leaf[th[t].leaf].keys
           /\ th[t].pc # "idle" /\ th[t].pc \notin Moving /\ th[t].answer = None
<1>1. th[t].leaf \in Linked /\ th[t].key \in Keys /\ Holds(t, th[t].leaf)
  BY DEF IInv, StatesRight, Types, LocksRight, HasLocks, HoldsLeaf, At
<1>2. InRange(th[t].leaf, th[t].key)
  BY DEF IInv, LeafRight, Knows
<1>3. th[t].pc \notin Moving
  BY DEF Moving, At
<1> QED BY <1>1, <1>2, <1>3, HeldLeaf DEF IInv, AnswersRight, Changing, NextPlaces, Moving, At

\* Get looks its key up, and an insertion for which there is no memory, or a
\* deletion of a key that is not there, changes nothing.
LEMMA GetLooks ==
    ASSUME IInv, NEW t \in Threads, Get(t)
    PROVE  Map!Look(t)
<1> DEFINE a == th[t].key \in leaf[th[t].leaf].keys
<1>1. At(t, "held") /\ th[t].op \in {"get", "inpw"} /\ UNCHANGED leaf /\ Return(t, a)
  BY DEF Get, Keeps
<1>2. a \in BOOLEAN /\ (a <=> th[t].key \in Present)
  BY <1>1, HeldTells
<1> HIDE DEF a
<1>3. Returns(t, a) /\ Present' = Present
  BY <1>1, <1>2, HeldTells, ReturnKeeps DEF IInv
<1>4. Map!Pending(t, th[t].op) /\ th[t].key = Called[t].key
  BY <1>1, HeldTells, HasCalled, MapPending
<1> QED BY <1>1, <1>2, <1>3, <1>4, ReturnsOnly, MapLook

\* An insertion without memory puts nothing.
LEMMA PutFailsPuts ==
    ASSUME IInv, NEW t \in Threads, PutFails(t)
    PROVE  Map!Put(t)
<1>1. At(t, "held") /\ th[t].op = "put" /\ UNCHANGED leaf /\ Return(t, FALSE)
  BY DEF PutFails, Keeps
<1>2. Returns(t, FALSE) /\ Present' = Present
  BY <1>1, HeldTells, ReturnKeeps DEF IInv
<1>3. Map!Pending(t, th[t].op) /\ th[t].key = Called[t].key
  BY <1>1, HeldTells, HasCalled, MapPending
<1>4. Map!Acts(t, FALSE)
  BY <1>2, ReturnsOnly, MapActs
<1> QED BY <1>1, <1>2, <1>3, <1>4, MapPut

\* A deletion of a key that is not there deletes nothing.
LEMMA DelNothingDels ==
    ASSUME IInv, NEW t \in Threads, DelNothing(t)
    PROVE  Map!Del(t)
<1>1. At(t, "held") /\ th[t].op = "del" /\ UNCHANGED leaf /\ Return(t, FALSE)
      /\ th[t].key \notin leaf[th[t].leaf].keys
  BY DEF DelNothing, Keeps
<1>2. Returns(t, FALSE) /\ Present' = Present /\ th[t].key \notin Present
  BY <1>1, HeldTells, ReturnKeeps DEF IInv
<1>3. Present' = Present \ {th[t].key}
  BY <1>2
<1>4. Map!Pending(t, th[t].op) /\ th[t].key = Called[t].key
  BY <1>1, HeldTells, HasCalled, MapPending
<1> QED BY <1>1, <1>2, <1>3, <1>4, ReturnsOnly, MapDel

\* Deletions act when they take the key out of its leaf, insertions when they put it
\* in, or when the list has the new leaf.
LEMMA DelKeyDels ==
    ASSUME IInv, "back" \notin Ops, NEW t \in Threads, DelKey(t)
    PROVE  Map!Del(t)
<1>1. At(t, "held") /\ th[t].op = "del" /\ th[t].key \in leaf[th[t].leaf].keys
  BY DEF DelKey
<1>2. Present' = Present \ {th[t].key} /\ th[t].key \in Present
  BY <1>1, HeldTells, DelKeyKeeps
<1>3. Answered' = [Answered EXCEPT ![t] = TRUE] /\ Called' \in {Called, [Called EXCEPT ![t] = None]}
  <2>1. CASE th' = [th EXCEPT ![t].pc = "next", ![t].other = leaf[th[t].leaf].next, ![t].answer = TRUE]
    <3>1. Inside(t) /\ th'[t].answer = TRUE
      BY <1>1, <2>1 DEF IInv, Types, Record, Inside, At
    <3> QED BY <3>1, InsideOnly
  <2>2. CASE Return(t, TRUE)
    <3>1. Returns(t, TRUE)
      BY <1>1, <2>2, HeldTells, ReturnKeeps DEF IInv
    <3> QED BY <3>1, ReturnsOnly
  <2> QED BY <2>1, <2>2 DEF DelKey
<1>4. Map!Pending(t, th[t].op) /\ th[t].key = Called[t].key
  BY <1>1, HeldTells, HasCalled, MapPending
<1> QED BY <1>1, <1>2, <1>3, <1>4, MapDel

\* An insertion with room acts when its leaf has the key.
LEMMA PutInLeafPuts ==
    ASSUME IInv, "back" \notin Ops, NEW t \in Threads, PutInLeaf(t)
    PROVE  Map!Put(t)
<1>1. At(t, "held") /\ th[t].op = "put" /\ Return(t, TRUE)
  BY DEF PutInLeaf, Keeps
<1>2. Returns(t, TRUE)
  BY <1>1, HeldTells, ReturnKeeps DEF IInv
<1>3. Map!Pending(t, th[t].op) /\ th[t].key = Called[t].key
  BY <1>1, HeldTells, HasCalled, MapPending
<1>4. Map!Acts(t, TRUE)
  BY <1>2, ReturnsOnly, MapActs
<1>5. Present' = Present \cup {th[t].key}
  BY PutInLeafKeeps
<1> QED BY <1>1, <1>3, <1>4, <1>5, MapPut

\* A split acts when the new leaf is linked; the unlinking of a merged leaf is no
\* step of the map.
LEMMA LinkPuts ==
    ASSUME IInv, "back" \notin Ops, NEW t \in Threads, Link(t)
    PROVE  Map!Put(t) \/ UNCHANGED <<Present, Called, Answered>>
<1>1. th[t].pc = "link" /\ th' = [th EXCEPT ![t].pc = "patch", ![t].answer = TRUE]
  BY DEF Link, At
<1>2. Inside(t) /\ th'[t].answer = TRUE
  BY <1>1 DEF IInv, Types, Record, Inside
<1>3. Called' = Called /\ Answered' = [Answered EXCEPT ![t] = TRUE]
  BY <1>2, InsideOnly
<1>4. Present' = IF Splits(t) THEN Present \cup {th[t].key} ELSE Present
  BY LinkKeeps
<1>5. th[t].op \in {"put", "del"} /\ th[t].pc # "idle" /\ th[t].pc \in Moving
  BY <1>1 DEF IInv, LeafRight, Knows, Moving
<1>6. CASE th[t].op = "put"
  <2>1. th[t].answer = None
    BY <1>1, <1>6 DEF IInv, AnswersRight, Changing, At
  <2>2. Map!Pending(t, th[t].op) /\ th[t].key = Called[t].key
    BY <1>5, <2>1, HasCalled, MapPending
  <2>3. Map!Acts(t, TRUE)
    BY <1>3, MapActs
  <2>4. Present' = Present \cup {th[t].key}
    BY <1>4, <1>6 DEF Splits
  <2> QED BY <1>6, <2>2, <2>3, <2>4, MapPut
<1>7. CASE th[t].op = "del"
  <2>1. th[t].answer = TRUE
    BY <1>1, <1>5, <1>7 DEF IInv, AnswersRight, At
  <2>2. Answered' = Answered
    BY <1>3, <2>1 DEF Answered
  <2> QED BY <1>3, <1>4, <1>7, <2>2 DEF Splits
<1> QED BY <1>5, <1>6, <1>7

\* The keys that move to a new leaf, or out of a leaf that goes, stay in the map, and
\* so do they when the split is undone.
LEMMA PutSplitsHides ==
    ASSUME IInv, "back" \notin Ops, NEW t \in Threads, PutSplits(t)
    PROVE  UNCHANGED <<Present, Called, Answered>>
<1>1. PICK new \in Leaves : th' = [th EXCEPT ![t].pc = "meta", ![t].other = new]
  BY DEF PutSplits
<1>2. At(t, "held")
  BY DEF PutSplits
<1>3. Inside(t) /\ th'[t].answer = th[t].answer
  BY <1>1, <1>2 DEF IInv, Types, Record, Inside, At
<1>4. Called' = Called /\ Answered' = Answered
  BY <1>3, InsideOnly DEF Answered
<1> QED BY <1>4, PutSplitsKeeps

\* A split that is undone puts nothing.
LEMMA SplitFailsPuts ==
    ASSUME IInv, "back" \notin Ops, NEW t \in Threads, SplitFails(t)
    PROVE  Map!Put(t)
<1>1. th[t].pc = "link" /\ th[t].op = "put" /\ Return(t, FALSE)
  BY DEF SplitFails, At, Splits
<1>2. Returns(t, FALSE)
  BY <1>1 DEF IInv, Types, Return, Idle, Returns
<1>3. th[t].answer = None
  BY <1>1 DEF IInv, AnswersRight, Changing, At
<1>4. Map!Pending(t, th[t].op) /\ th[t].key = Called[t].key
  BY <1>1, <1>3, HasCalled, MapPending
<1>5. Map!Acts(t, FALSE)
  BY <1>2, ReturnsOnly, MapActs
<1>6. Present' = Present
  BY SplitFailsKeeps
<1> QED BY <1>1, <1>4, <1>5, <1>6, MapPut

\* A merge moves keys and returns, if another thread has filled the leaves, what
\* the deletion has answered.
LEMMA MergeReturns ==
    ASSUME IInv, "back" \notin Ops, NEW t \in Threads, Merge(t)
    PROVE  Map!Return(t) \/ UNCHANGED <<Present, Called, Answered>>
<1>1. th[t].pc = "both" /\ th[t].op = "del"
  BY DEF Merge, At
<1>2. th[t].answer = TRUE
  BY <1>1 DEF IInv, AnswersRight, NextPlaces, At
<1>3. CASE Goto(t, "meta")
  <2>1. Inside(t) /\ th'[t].answer = th[t].answer
    BY <1>1, <1>3 DEF IInv, Types, Record, Inside, Goto
  <2>2. Called' = Called /\ Answered' = Answered
    BY <2>1, InsideOnly DEF Answered
  <2> QED BY <2>2, MergeKeeps
<1>4. CASE Return(t, TRUE)
  <2>1. Returns(t, TRUE)
    BY <1>1, <1>4 DEF IInv, Types, Return, Idle, Returns
  <2>2. Answered' = Answered
    BY <1>2, <2>1, ReturnsOnly DEF Answered
  <2>3. TRUE # None
    BY IndexAssumption
  <2> QED BY <1>1, <1>2, <2>1, <2>2, <2>3, MergeKeeps, HasCalled, ReturnsOnly, MapReturn
<1> QED BY <1>3, <1>4 DEF Merge

\* A split or a merge returns what it has answered.
LEMMA RepatchReturns ==
    ASSUME IInv, "back" \notin Ops, NEW t \in Threads, Repatch(t)
    PROVE  Map!Return(t)
<1>1. th[t].pc = "repatch" /\ Return(t, TRUE)
  BY DEF Repatch, At
<1>2. th[t].answer = TRUE
  BY <1>1 DEF IInv, AnswersRight, Changing, At
<1>3. Returns(t, TRUE)
  BY <1>1 DEF IInv, Types, Return, Idle, Returns
<1>4. Answered' = Answered
  BY <1>2, <1>3, ReturnsOnly DEF Answered
<1>5. TRUE # None
  BY IndexAssumption
<1> QED BY <1>1, <1>2, <1>3, <1>4, <1>5, RepatchKeeps, HasCalled, ReturnsOnly, MapReturn

\* An iterator returns nothing.
LEMMA IterParkReturns ==
    ASSUME IInv, NEW t \in Threads, IterPark(t)
    PROVE  Map!Return(t)
<1>1. th[t].pc \in {"cursor", "ended"} /\ Return(t, None) /\ UNCHANGED leaf
  BY DEF IterPark, At
<1>2. Returns(t, None) /\ Present' = Present
  BY <1>1, ReturnKeeps DEF IInv, Moving
<1>3. th[t].op = "scan"
  BY <1>1 DEF IInv, ScansRight, Scans
<1>4. th[t].answer = None
  BY <1>1, <1>3 DEF IInv, AnswersRight, Changing, At
<1>5. Answered' = Answered
  BY <1>2, <1>4, ReturnsOnly DEF Answered
<1> QED BY <1>1, <1>2, <1>3, <1>5, HasCalled, ReturnsOnly, MapReturn

\* A call is a call of the map.
LEMMA CallCalls ==
    ASSUME IInv, NEW t \in Threads, Call(t)
    PROVE  Map!Call(t)
<1>1. PICK f \in Ops, k \in Keys :
          th' = [th EXCEPT ![t] = [Idle EXCEPT !.pc = "load", !.op = f, !.key = k]]
  BY DEF Call
<1>2. th[t].pc = "idle" /\ UNCHANGED leaf
  BY DEF Call, At, shared
<1>3. /\ \A u \in Threads : u # t => th'[u] = th[u]
      /\ th'[t].pc = "load" /\ th'[t].op = f /\ th'[t].key = k /\ th'[t].answer = None
  BY <1>1 DEF IInv, Types, Idle
<1>4. Present' = Present
  BY <1>2, <1>3, PresentStays DEF Splitting, Moving
<1>5. Called[t] = None
  BY <1>2 DEF Called, At
<1>6. Called' = [Called EXCEPT ![t] = [op |-> f, key |-> k]]
  BY <1>3 DEF Called, At
<1>7. Answered' = [Answered EXCEPT ![t] = None]
  BY <1>3 DEF Answered
<1>8. f \in {"get", "put", "del", "inpw", "scan", "back"}
  BY IndexAssumption
<1> QED BY <1>4, <1>5, <1>6, <1>7, <1>8, Zenon DEF Map!Call, Called, Answered

\* Every operation of the index acts on the set of its keys at one moment.
THEOREM Implements ==
    ASSUME "back" \notin Ops
    PROVE  Spec => ImplementsMap
<1>1. Init => Map!Init
  <2> SUFFICES ASSUME Init PROVE Map!Init
    OBVIOUS
  <2>1. IInv
    BY InitRight
  <2>2. Present \subseteq Keys
    BY <2>1, IsPresent DEF InMap, IInv, Types, LeafRecord
  <2>3. \A t \in Threads : At(t, "idle") /\ th[t].answer = None
    BY DEF Init, Idle, At
  <2>4. Called = [t \in Threads |-> None] /\ Answered = [t \in Threads |-> None]
    BY <2>3 DEF Called, Answered
  <2> QED BY <2>2, <2>4 DEF Map!Init, Called, Answered
<1>2. IInv /\ [Next]_vars => [Map!Next]_(Map!ovars)
  <2> SUFFICES ASSUME IInv, [Next]_vars PROVE [Map!Next]_(Map!ovars)
    OBVIOUS
  <2>1. CASE UNCHANGED vars
    BY <2>1 DEF vars, shared, Map!ovars, Present, At
  <2>2. ASSUME NEW t \in Threads, Call(t) \/ Step(t)
        PROVE  \/ Map!Call(t) \/ Map!Look(t) \/ Map!Put(t) \/ Map!Del(t) \/ Map!Return(t)
               \/ UNCHANGED <<Present, Called, Answered>>
    <3>1. CASE Works(t)
      BY <3>1, GetLooks, PutInLeafPuts, PutSplitsHides, PutFailsPuts, DelNothingDels, DelKeyDels
       DEF Works
    <3>2. CASE Alters(t)
      BY <3>2, MergeReturns, SplitFailsPuts, LinkPuts, RepatchReturns, SilentStep DEF Alters, Silent
    <3>3. CASE Walks(t)
      BY <3>3, IterParkReturns, SilentStep DEF Walks, Silent
    <3>4. CASE Finds(t) \/ Locks(t)
      BY <3>4, SilentStep DEF Silent
    <3> QED BY <2>2, <3>1, <3>2, <3>3, <3>4, CallCalls DEF Step
  <2>3. UNCHANGED <<Present, Called, Answered>> => UNCHANGED Map!ovars
    BY Zenon DEF Map!ovars, Called, Answered
  <2> QED BY <2>1, <2>2, <2>3 DEF Next, Map!Next
<1> QED BY <1>1, <1>2, Invariance, PTL DEF Spec, ImplementsMap, Map!Spec

=============================================================================
