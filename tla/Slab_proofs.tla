----------------------------- MODULE Slab_proofs -----------------------------
(* No object is given out twice or lost: proofs about Slab for any number of  *)
(* threads, any set of blocks and any size of a block, for the calls that     *)
(* swap the word as well as for those that exclude each other.                *)
EXTENDS Slab, FiniteSetTheorems, SequenceTheorems, WellFoundedInduction, TLAPS

Places == {"idle", "load", "link", "cas", "lock", "expand", "push", "put"}

Word == [ptr : Objects \cup {None}, seq : Nat]

Elements(s) == {s[i] : i \in DOMAIN s}
Distinct(s) == \A i, j \in DOMAIN s : s[i] = s[j] => i = j

\* Every object of s is linked to the one after it, the last one to end.
Leads(s, end) == \A i \in DOMAIN s : next[s[i]] = IF i < Len(s) THEN s[i + 1] ELSE end

First(s) == IF s = <<>> THEN None ELSE s[1]

\* The shape of everything.
Types ==
    /\ magic \in Word
    /\ next \in [Objects -> Objects \cup {None}]
    /\ head_active \in Seq(Blocks) /\ head_backup \in Seq(Blocks)
    /\ nr_ready \in Nat /\ promised \in Nat
    /\ lock \in Procs \cup {None}
    /\ pc \in [Procs -> Places]
    /\ m0 \in [Procs -> Word]
    /\ link \in [Procs -> Objects \cup {None}]
    /\ list \in [Procs -> Seq(Objects)]
    /\ owner \in [Procs -> SUBSET Objects]
    /\ magic.seq < SeqMod

\* A block is in one of the two lists, once.
BlocksRight == /\ Distinct(head_active) /\ Distinct(head_backup)
               /\ Elements(head_active) \cap Elements(head_backup) = {}

\* What a thread is about to put on the stack is linked to what it saw there.
ListRight(p) == /\ Distinct(list[p])
                /\ pc[p] \in {"push", "put"} <=> list[p] # <<>>
                /\ pc[p] = "put" => Leads(list[p], m0[p].ptr)

\* A word that a thread has loaded is older than the one in memory, or the same. In
\* the second case the link that it read is still that of the top: nobody writes
\* an object of the stack.
WordRight(p) ==
    /\ pc[p] \in {"link", "cas", "put"} => /\ m0[p].seq <= magic.seq
                                           /\ m0[p].seq = magic.seq => m0[p] = magic
    /\ pc[p] \in {"link", "cas"} => m0[p].ptr # None
    /\ pc[p] = "cas" /\ m0[p] = magic => link[p] = next[magic.ptr]

\* The calls that exclude each other have no places.
KindRight == ~Safe => \A p \in Procs : pc[p] = "idle"

\* The objects s are the stack, from the top down.
StackIs(s) == /\ s \in Seq(Objects) /\ Distinct(s)
              /\ magic.ptr = First(s)
              /\ Leads(s, None)

\* An object is in the stack, or on the way to it, or given to one thread.
Apart(s) ==
    /\ \A p \in Procs : Elements(s) \cap owner[p] = {} /\ Elements(s) \cap Elements(list[p]) = {}
    /\ \A p, q \in Procs : owner[p] \cap Elements(list[q]) = {}
    /\ \A p, q \in Procs : p # q => /\ owner[p] \cap owner[q] = {}
                                    /\ Elements(list[p]) \cap Elements(list[q]) = {}

InUse(s, c) == c \in Elements(s) \/ \E p \in Procs : c \in owner[p] \/ c \in Elements(list[p])

\* Those are the objects of the blocks in use.
Whole(s) == \A c \in Objects : c[1] \in Elements(head_active) <=> InUse(s, c)

\* The counts of free objects and of those that were promised.
Counted(s) == IF Safe THEN nr_ready = 0 /\ promised = 0 ELSE nr_ready = Len(s) /\ promised <= Len(s)

Threads == \A p \in Procs : ListRight(p) /\ WordRight(p)

Right(s) == /\ Types /\ BlocksRight /\ Threads /\ KindRight
            /\ StackIs(s) /\ Apart(s) /\ Whole(s) /\ Counted(s)

\* The inductive invariant.
IInv == \E s \in Seq(Objects) : Right(s)

-----------------------------------------------------------------------------
(* Sequences and links                                                       *)

\* The stack, the least set that the word and the links lead through, is what the
\* sequence holds.
LEMMA StackElements ==
    ASSUME SlabAssumption, Types, NEW s \in Seq(Objects), StackIs(s)
    PROVE  Stack = Elements(s)
<1>1. None \notin Objects
  BY DEF SlabAssumption
<1>2. DOMAIN s = 1 .. Len(s) /\ Len(s) \in Nat /\ \A i \in DOMAIN s : s[i] \in Objects
  BY ElementOfSeq, LenProperties
<1>3. s # <<>> <=> 1 \in DOMAIN s
  BY <1>2, EmptySeq
<1>4. Elements(s) \in SUBSET Objects
  BY <1>2 DEF Elements
<1>5. LinkClosed(Elements(s))
  <2>1. magic.ptr # None => magic.ptr \in Elements(s)
    BY <1>3 DEF StackIs, First, Elements
  <2>2. ASSUME NEW i \in DOMAIN s, next[s[i]] # None PROVE next[s[i]] \in Elements(s)
    BY <1>2, <2>2 DEF StackIs, Leads, Elements
  <2> QED BY <2>1, <2>2 DEF LinkClosed, Elements
<1>6. ASSUME NEW S \in SUBSET Objects, LinkClosed(S) PROVE Elements(s) \subseteq S
  <2> DEFINE D == {i \in DOMAIN s : s[i] \notin S}
  <2> SUFFICES ASSUME D # {} PROVE FALSE
    BY DEF Elements
  <2>1. D \subseteq Nat
    BY <1>2
  <2>2. PICK i \in D : \A j \in D : ~(<<j, i>> \in OpToRel(<, Nat))
    <3> HIDE DEF D
    <3> QED BY <2>1, NatLessThanWellFounded, WFMin
  <2>3. \A j \in D : ~(j < i)
    BY <2>1, <2>2 DEF OpToRel
  <2>4. CASE i = 1
    BY <1>1, <1>2, <1>3, <1>6, <2>4 DEF StackIs, First, LinkClosed
  <2>5. CASE i # 1
    <3>1. i - 1 \in DOMAIN s /\ i - 1 < i
      BY <1>2, <2>5
    <3>2. s[i - 1] \in S
      BY <2>3, <3>1
    <3>3. next[s[i - 1]] = s[i]
      BY <1>2, <3>1 DEF StackIs, Leads
    <3> QED BY <1>1, <1>2, <1>6, <3>2, <3>3 DEF LinkClosed
  <2> QED BY <2>4, <2>5
<1> QED BY <1>4, <1>5, <1>6 DEF Stack

\* A chain of objects that is linked: its objects lead to the next one, others stay.
LEMMA LinkedRight ==
    ASSUME Types, NEW l \in Seq(Objects), Distinct(l), NEW e \in Objects \cup {None}
    PROVE  /\ Linked(l, e) \in [Objects -> Objects \cup {None}]
           /\ \A i \in DOMAIN l : Linked(l, e)[l[i]] = IF i < Len(l) THEN l[i + 1] ELSE e
           /\ \A c \in Objects \ Elements(l) : Linked(l, e)[c] = next[c]
<1>1. DOMAIN l = 1 .. Len(l) /\ Len(l) \in Nat /\ \A i \in DOMAIN l : l[i] \in Objects
  BY ElementOfSeq, LenProperties
<1> DEFINE G(c) == IF \E j \in DOMAIN l : l[j] = c
                   THEN LET j == CHOOSE i \in DOMAIN l : l[i] = c
                        IN  IF j < Len(l) THEN l[j + 1] ELSE e
                   ELSE next[c]
<1>2. Linked(l, e) = [c \in Objects |-> G(c)]
  BY DEF Linked
<1>3. ASSUME NEW i \in DOMAIN l PROVE G(l[i]) = IF i < Len(l) THEN l[i + 1] ELSE e
  <2>1. (CHOOSE j \in DOMAIN l : l[j] = l[i]) = i
    BY DEF Distinct
  <2> QED BY <2>1
<1>4. \A c \in Objects : c \notin Elements(l) => G(c) = next[c]
  BY DEF Elements
<1>5. ASSUME NEW c \in Objects PROVE G(c) \in Objects \cup {None}
  <2>1. CASE c \in Elements(l)
    <3>1. PICK i \in DOMAIN l : l[i] = c
      BY <2>1 DEF Elements
    <3>2. i < Len(l) => l[i + 1] \in Objects
      BY <1>1
    <3> QED BY <1>3, <3>1, <3>2
  <2>2. CASE c \notin Elements(l)
    BY <1>4, <2>2 DEF Types
  <2> QED BY <2>1, <2>2
<1> HIDE DEF G
<1> QED BY <1>1, <1>2, <1>3, <1>4, <1>5

\* One sequence on top of another.
LEMMA OnTop ==
    ASSUME NEW S, NEW l \in Seq(S), NEW s \in Seq(S), Distinct(l), Distinct(s),
           Elements(l) \cap Elements(s) = {}
    PROVE  /\ l \o s \in Seq(S) /\ Len(l \o s) = Len(l) + Len(s)
           /\ Distinct(l \o s)
           /\ Elements(l \o s) = Elements(l) \cup Elements(s)
           /\ l # <<>> => First(l \o s) = l[1]
<1>1. /\ DOMAIN l = 1 .. Len(l) /\ Len(l) \in Nat
      /\ DOMAIN s = 1 .. Len(s) /\ Len(s) \in Nat
  BY LenProperties
<1>2. /\ l \o s \in Seq(S)
      /\ Len(l \o s) = Len(l) + Len(s)
      /\ \A i \in 1 .. Len(l) + Len(s) : (l \o s)[i] = IF i <= Len(l) THEN l[i] ELSE s[i - Len(l)]
  BY ConcatProperties
<1> DEFINE t == l \o s
<1>3. DOMAIN t = 1 .. Len(l) + Len(s)
  BY <1>2, LenProperties
<1> HIDE DEF t
<1>4. /\ \A i \in DOMAIN l : i \in DOMAIN t /\ t[i] = l[i]
      /\ \A i \in DOMAIN s : i + Len(l) \in DOMAIN t /\ t[i + Len(l)] = s[i]
      /\ \A i \in DOMAIN t : i \in DOMAIN l \/ (i - Len(l) \in DOMAIN s /\ t[i] = s[i - Len(l)])
  BY <1>1, <1>2, <1>3 DEF t
<1>5. Elements(t) = Elements(l) \cup Elements(s)
  BY <1>4 DEF Elements
<1>6. Distinct(t)
  <2> SUFFICES ASSUME NEW i \in DOMAIN t, NEW j \in DOMAIN t, t[i] = t[j] PROVE i = j
    BY DEF Distinct
  <2>1. CASE i \in DOMAIN l /\ j \in DOMAIN l
    BY <1>4, <2>1 DEF Distinct
  <2>2. CASE i \notin DOMAIN l /\ j \notin DOMAIN l
    <3>1. i - Len(l) = j - Len(l)
      BY <1>4, <2>2 DEF Distinct
    <3> QED BY <1>1, <1>3, <3>1
  <2>3. ASSUME NEW a \in DOMAIN t, NEW b \in DOMAIN t, a \in DOMAIN l, b \notin DOMAIN l, t[a] = t[b]
        PROVE  FALSE
    <3>1. t[a] \in Elements(l)
      BY <1>4, <2>3 DEF Elements
    <3>2. t[b] \in Elements(s)
      BY <1>4, <2>3 DEF Elements
    <3> QED BY <2>3, <3>1, <3>2
  <2> QED BY <2>1, <2>2, <2>3
<1>7. l # <<>> => First(t) = l[1]
  <2> SUFFICES ASSUME l # <<>> PROVE First(t) = l[1]
    OBVIOUS
  <2>1. 1 \in DOMAIN l
    BY <1>1, EmptySeq
  <2>2. 1 \in DOMAIN t /\ t[1] = l[1]
    BY <1>4, <2>1
  <2>3. t # <<>>
    BY <1>2, <1>3, <2>2, EmptySeq DEF t
  <2> QED BY <2>2, <2>3 DEF First
<1> QED BY <1>2, <1>5, <1>6, <1>7 DEF t

\* A sequence without its first object.
LEMMA WithoutTop ==
    ASSUME NEW S, NEW s \in Seq(S), s # <<>>, Distinct(s)
    PROVE  /\ Tail(s) \in Seq(S) /\ Len(Tail(s)) = Len(s) - 1
           /\ \A i \in DOMAIN Tail(s) : i + 1 \in DOMAIN s /\ Tail(s)[i] = s[i + 1]
           /\ Distinct(Tail(s))
           /\ Elements(Tail(s)) = Elements(s) \ {s[1]}
           /\ s[1] \in Elements(s)
           /\ Tail(s) = <<>> <=> Len(s) = 1
<1>1. DOMAIN s = 1 .. Len(s) /\ Len(s) \in Nat \ {0}
  BY LenProperties, EmptySeq
<1>2. /\ Tail(s) \in Seq(S) /\ Len(Tail(s)) = Len(s) - 1
      /\ \A i \in 1 .. Len(Tail(s)) : Tail(s)[i] = s[i + 1]
  BY HeadTailProperties
<1> DEFINE t == Tail(s)
<1>3. DOMAIN t = 1 .. Len(s) - 1
  BY <1>2, LenProperties
<1>4. t = <<>> <=> Len(s) = 1
  BY <1>1, <1>2, EmptySeq
<1> HIDE DEF t
<1>5. /\ \A i \in DOMAIN t : i + 1 \in DOMAIN s /\ t[i] = s[i + 1]
      /\ \A i \in DOMAIN s : i # 1 => i - 1 \in DOMAIN t /\ t[i - 1] = s[i]
      /\ 1 \in DOMAIN s
  BY <1>1, <1>2, <1>3 DEF t
<1>6. Distinct(t)
  <2> SUFFICES ASSUME NEW i \in DOMAIN t, NEW j \in DOMAIN t, t[i] = t[j] PROVE i = j
    BY DEF Distinct
  <2>1. i + 1 = j + 1
    BY <1>5 DEF Distinct
  <2> QED BY <1>3, <1>1, <2>1
<1>7. ASSUME NEW i \in DOMAIN t PROVE t[i] # s[1]
  <2>1. i + 1 # 1
    BY <1>1, <1>3
  <2> QED BY <1>5, <2>1 DEF Distinct
<1>8. Elements(t) = Elements(s) \ {s[1]}
  BY <1>5, <1>7 DEF Elements
<1>9. s[1] \in Elements(s)
  BY <1>5 DEF Elements
<1> QED BY <1>2, <1>4, <1>5, <1>6, <1>8, <1>9 DEF t

-----------------------------------------------------------------------------
(* The stack after a step                                                    *)

\* Objects that are linked to each other and to the top come on top.
LEMMA PushRight ==
    ASSUME NEW s \in Seq(Objects), StackIs(s),
           NEW l \in Seq(Objects), l # <<>>, Distinct(l), Elements(l) \cap Elements(s) = {},
           \A i \in DOMAIN l : next'[l[i]] = IF i < Len(l) THEN l[i + 1] ELSE magic.ptr,
           \A c \in Elements(s) : next'[c] = next[c],
           magic'.ptr = l[1]
    PROVE  StackIs(l \o s)'
<1> DEFINE t == l \o s
<1>1. /\ DOMAIN l = 1 .. Len(l) /\ Len(l) \in Nat
      /\ DOMAIN s = 1 .. Len(s) /\ Len(s) \in Nat
  BY LenProperties
<1>2. /\ t \in Seq(Objects) /\ Len(t) = Len(l) + Len(s)
      /\ Distinct(t) /\ First(t) = l[1]
  BY OnTop DEF StackIs
<1>3. /\ \A i \in 1 .. Len(l) + Len(s) : t[i] = IF i <= Len(l) THEN l[i] ELSE s[i - Len(l)]
      /\ DOMAIN t = 1 .. Len(l) + Len(s)
  BY <1>2, ConcatProperties, LenProperties
<1> HIDE DEF t
<1>4. ASSUME NEW i \in DOMAIN t PROVE next'[t[i]] = IF i < Len(t) THEN t[i + 1] ELSE None
  <2>1. CASE i < Len(l)
    BY <1>1, <1>2, <1>3, <2>1
  <2>2. CASE i = Len(l)
    <3>1. next'[t[i]] = magic.ptr
      BY <1>1, <1>3, <2>2
    <3>2. CASE s = <<>>
      BY <1>1, <1>2, <2>2, <3>1, <3>2, EmptySeq DEF StackIs, First
    <3>3. CASE s # <<>>
      <4>1. magic.ptr = s[1] /\ Len(s) > 0
        BY <1>1, <3>3, EmptySeq DEF StackIs, First
      <4> QED BY <1>1, <1>2, <1>3, <2>2, <3>1, <4>1
    <3> QED BY <3>2, <3>3
  <2>3. CASE i > Len(l)
    <3> DEFINE j == i - Len(l)
    <3>1. j \in DOMAIN s /\ t[i] = s[j]
      BY <1>1, <1>3, <2>3
    <3>2. next'[s[j]] = IF j < Len(s) THEN s[j + 1] ELSE None
      BY <3>1 DEF StackIs, Leads, Elements
    <3>3. j < Len(s) => t[i + 1] = s[j + 1]
      BY <1>1, <1>3, <2>3
    <3> QED BY <1>1, <1>2, <1>3, <2>3, <3>1, <3>2, <3>3
  <2> QED BY <1>1, <1>3, <2>1, <2>2, <2>3
<1>5. magic'.ptr = First(t)
  BY <1>2
<1>6. Leads(t, None)'
  BY <1>4 DEF Leads
<1> QED BY <1>2, <1>5, <1>6 DEF StackIs, t, First, Distinct

\* The object after the first one comes to the top.
LEMMA PopRight ==
    ASSUME NEW s \in Seq(Objects), s # <<>>, Distinct(s),
           \A i \in DOMAIN s : next'[s[i]] = IF i < Len(s) THEN s[i + 1] ELSE None,
           magic'.ptr = next'[s[1]]
    PROVE  StackIs(Tail(s))'
<1> DEFINE t == Tail(s)
<1>1. DOMAIN s = 1 .. Len(s) /\ Len(s) \in Nat \ {0}
  BY LenProperties, EmptySeq
<1>2. /\ t \in Seq(Objects) /\ Len(t) = Len(s) - 1
      /\ \A i \in DOMAIN t : i + 1 \in DOMAIN s /\ t[i] = s[i + 1]
      /\ Distinct(t)
      /\ t = <<>> <=> Len(s) = 1
  BY WithoutTop
<1>3. DOMAIN t = 1 .. Len(s) - 1
  BY <1>2, LenProperties
<1> HIDE DEF t
<1>4. \A i \in DOMAIN t : next'[t[i]] = IF i < Len(t) THEN t[i + 1] ELSE None
  BY <1>1, <1>2, <1>3
<1>5. magic'.ptr = First(t)
  <2>1. next'[s[1]] = IF 1 < Len(s) THEN s[2] ELSE None
    BY <1>1
  <2>2. Len(s) # 1 => t[1] = s[2]
    BY <1>1, <1>2, <1>3
  <2> QED BY <1>1, <1>2, <2>1, <2>2 DEF First
<1>6. Leads(t, None)'
  BY <1>4 DEF Leads
<1> QED BY <1>2, <1>5, <1>6 DEF StackIs, t, First, Distinct

\* A stack that is not written stays.
LEMMA StackStays ==
    ASSUME NEW s \in Seq(Objects), StackIs(s), magic' = magic,
           \A c \in Elements(s) : next'[c] = next[c]
    PROVE  StackIs(s)'
BY DEF StackIs, Leads, Elements, First, Distinct

\* The top is in the stack.
LEMMA TopIn ==
    ASSUME SlabAssumption, Types, NEW s \in Seq(Objects), StackIs(s)
    PROVE  /\ magic.ptr # None => s # <<>> /\ magic.ptr = s[1] /\ magic.ptr \in Elements(s)
           /\ s # <<>> => magic.ptr # None
<1>1. DOMAIN s = 1 .. Len(s) /\ Len(s) \in Nat /\ (s # <<>> => Len(s) # 0)
  BY LenProperties, EmptySeq
<1>2. s # <<>> => 1 \in DOMAIN s /\ s[1] \in Objects
  BY <1>1, ElementOfSeq
<1> QED BY <1>2 DEF StackIs, First, Elements, SlabAssumption

\* What other threads know stays, as long as nobody writes their objects or the top.
LEMMA OthersStay ==
    ASSUME Types, Threads, NEW p \in Procs, magic' = magic,
           \A q \in Procs : q # p => /\ pc'[q] = pc[q] /\ m0'[q] = m0[q]
                                     /\ link'[q] = link[q] /\ list'[q] = list[q],
           \A q \in Procs : q # p => \A c \in Elements(list[q]) : next'[c] = next[c],
           magic.ptr # None => next'[magic.ptr] = next[magic.ptr],
           ListRight(p)', WordRight(p)'
    PROVE  Threads'
<1> SUFFICES ASSUME NEW q \in Procs, q # p PROVE ListRight(q)' /\ WordRight(q)'
  BY DEF Threads
<1>1. ListRight(q) /\ WordRight(q)
  BY DEF Threads
<1>2. ListRight(q)'
  BY <1>1 DEF ListRight, Leads, Elements, Distinct
<1>3. WordRight(q)'
  BY <1>1 DEF WordRight
<1> QED BY <1>2, <1>3

\* When the word is swapped, whatever others have loaded is old.
LEMMA OthersOld ==
    ASSUME Types, Threads, NEW p \in Procs, magic'.seq = magic.seq + 1,
           \A q \in Procs : q # p => /\ pc'[q] = pc[q] /\ m0'[q] = m0[q]
                                     /\ link'[q] = link[q] /\ list'[q] = list[q],
           next' = next,
           ListRight(p)', WordRight(p)'
    PROVE  Threads'
<1> SUFFICES ASSUME NEW q \in Procs, q # p PROVE ListRight(q)' /\ WordRight(q)'
  BY DEF Threads
<1>1. ListRight(q) /\ WordRight(q)
  BY DEF Threads
<1>2. ListRight(q)'
  BY <1>1 DEF ListRight, Leads, Elements, Distinct
<1>3. m0[q].seq \in Nat /\ magic.seq \in Nat
  BY DEF Types, Word
<1>4. pc[q] \in {"link", "cas", "put"} => m0[q].seq < magic'.seq
  BY <1>1, <1>3 DEF WordRight
<1>5. pc[q] \in {"link", "cas", "put"} => m0[q].seq # magic'.seq /\ m0[q].seq <= magic'.seq
  BY <1>3, <1>4
<1>6. WordRight(q)'
  BY <1>1, <1>5 DEF WordRight
<1> QED BY <1>2, <1>6

-----------------------------------------------------------------------------
(* Blocks                                                                    *)

\* The objects of a block, in order.
LEMMA BlockObjects ==
    ASSUME SlabAssumption, NEW blk \in Blocks
    PROVE  /\ ObjectsOf(blk) \in Seq(Objects) /\ ObjectsOf(blk) # <<>>
           /\ Distinct(ObjectsOf(blk))
           /\ \A c \in Objects : c \in Elements(ObjectsOf(blk)) <=> c[1] = blk
           /\ Elements(ObjectsOf(blk)) \subseteq Objects
           /\ ObjectsOf(blk)[1] = <<blk, 1>>
           /\ Len(ObjectsOf(blk)) = PerSlab
<1> DEFINE o == ObjectsOf(blk)
<1>1. PerSlab \in Nat \ {0}
  BY DEF SlabAssumption
<1>2. o = [j \in 1 .. PerSlab |-> <<blk, j>>]
  BY DEF ObjectsOf
<1>3. o \in Seq(Objects) /\ Len(o) = PerSlab /\ DOMAIN o = 1 .. PerSlab
  <2>1. \A j \in 1 .. PerSlab : <<blk, j>> \in Objects
    BY DEF Objects
  <2> QED BY <1>1, <1>2, <2>1
<1>4. \A j \in 1 .. PerSlab : o[j] = <<blk, j>>
  BY <1>2
<1> HIDE DEF o
<1>5. o # <<>>
  BY <1>1, <1>3, EmptySeq
<1>6. Distinct(o)
  BY <1>3, <1>4 DEF Distinct
<1>7. \A c \in Objects : c \in Elements(o) <=> c[1] = blk
  <2> SUFFICES ASSUME NEW b \in Blocks, NEW j \in 1 .. PerSlab
               PROVE  <<b, j>> \in Elements(o) <=> b = blk
    BY DEF Objects
  <2> QED BY <1>3, <1>4 DEF Elements
<1>8. Elements(o) \subseteq Objects
  BY <1>3, ElementOfSeq, LenProperties DEF Elements
<1> QED BY <1>1, <1>3, <1>4, <1>5, <1>6, <1>7, <1>8 DEF o

\* A block that comes into use was not in use.
LEMMA TakeBlockRight ==
    ASSUME Types, BlocksRight, NEW blk \in Spare, TakeBlock(blk)
    PROVE  /\ blk \in Blocks /\ blk \notin Elements(head_active)
           /\ head_active' \in Seq(Blocks) /\ head_backup' \in Seq(Blocks)
           /\ BlocksRight'
           /\ Elements(head_active') = Elements(head_active) \cup {blk}
<1>0. head_active \in Seq(Blocks) /\ head_backup \in Seq(Blocks)
  BY DEF Types
<1>1. PICK a : a = head_active
  OBVIOUS
<1>2. PICK b : b = head_backup
  OBVIOUS
<1>3. a \in Seq(Blocks) /\ b \in Seq(Blocks)
  BY <1>0, <1>1, <1>2
<1>4. Distinct(a) /\ Distinct(b) /\ Elements(a) \cap Elements(b) = {}
  BY <1>1, <1>2 DEF BlocksRight
<1>5. blk \in Blocks /\ blk \notin Elements(a)
  <2>1. CASE b # <<>>
    <3>1. blk = Head(b) /\ Head(b) = b[1]
      BY <1>2, <1>3, <2>1 DEF Spare
    <3>2. b[1] \in Elements(b) /\ b[1] \in Blocks
      BY <1>3, <1>4, <2>1, <3>1, WithoutTop, HeadTailProperties
    <3> QED BY <1>4, <3>1, <3>2
  <2>2. CASE b = <<>>
    BY <1>1, <1>2, <2>2 DEF Spare, Known, Elements
  <2> QED BY <2>1, <2>2
<1>6. PICK o : o = <<blk>>
  OBVIOUS
<1>7. /\ o \in Seq(Blocks) /\ Distinct(o) /\ Elements(o) = {blk}
  BY <1>5, <1>6 DEF Distinct, Elements
<1>8. /\ o \o a \in Seq(Blocks) /\ Distinct(o \o a)
      /\ Elements(o \o a) = {blk} \cup Elements(a)
  <2>1. Elements(o) \cap Elements(a) = {}
    BY <1>5, <1>7
  <2>2. Elements(o \o a) = Elements(o) \cup Elements(a)
    BY <1>3, <1>4, <1>7, <2>1, OnTop
  <2> QED BY <1>3, <1>4, <1>7, <2>1, <2>2, OnTop
<1>9. head_active' = o \o a
  BY <1>1, <1>6 DEF TakeBlock
<1>10. /\ head_backup' \in Seq(Blocks) /\ Distinct(head_backup')
       /\ Elements(head_backup') \subseteq Elements(b) /\ blk \notin Elements(head_backup')
  <2>1. CASE b # <<>>
    <3>1. head_backup' = Tail(b) /\ blk = b[1]
      BY <1>2, <1>3, <2>1 DEF TakeBlock, Spare
    <3>2. /\ Tail(b) \in Seq(Blocks) /\ Distinct(Tail(b)) /\ Elements(Tail(b)) = Elements(b) \ {b[1]}
      BY <1>3, <1>4, <2>1, WithoutTop, Zenon
    <3> QED BY <3>1, <3>2
  <2>2. CASE b = <<>>
    <3>1. head_backup' = b
      BY <1>2, <2>2 DEF TakeBlock
    <3>2. Elements(b) = {}
      BY <2>2 DEF Elements
    <3> QED BY <1>3, <1>4, <3>1, <3>2
  <2> QED BY <2>1, <2>2
<1>11. BlocksRight'
  <2>1. Elements(o \o a) \cap Elements(head_backup') = {}
    BY <1>4, <1>8, <1>10
  <2> QED BY <1>8, <1>9, <1>10, <2>1 DEF BlocksRight
<1> QED BY <1>1, <1>5, <1>8, <1>9, <1>10, <1>11

-----------------------------------------------------------------------------
(* The steps of the calls that swap the word. In each of them s is the stack. *)

\* Nothing is given, taken or brought.
LEMMA PartsStay ==
    ASSUME NEW s, Apart(s), Whole(s), UNCHANGED <<owner, list, head_active>>
    PROVE  Apart(s)' /\ Whole(s)'
<1>1. Apart(s)'
  BY DEF Apart
<1>2. \A c : InUse(s, c)' <=> InUse(s, c)
  BY DEF InUse
<1>3. Whole(s)'
  BY <1>2 DEF Whole
<1> QED BY <1>1, <1>3

\* A step that changes only what a thread knows.
LEMMA OwnStep ==
    ASSUME NEW s \in Seq(Objects), Right(s), UNCHANGED <<slabVars, list, owner, promised>>,
           Types', Threads', KindRight'
    PROVE  Right(s)'
<1> USE DEF Right, slabVars
<1>1. BlocksRight' /\ Counted(s)'
  BY DEF BlocksRight, Counted, Distinct, Elements
<1>2. StackIs(s)'
  BY StackStays
<1>3. Apart(s)' /\ Whole(s)'
  BY PartsStay
<1> QED BY <1>1, <1>2, <1>3

\* A thread begins slab_alloc_safe.
LEMMA AllocSafeKeeps ==
    ASSUME NEW s \in Seq(Objects), Right(s), NEW p \in Procs, AllocSafe(p)
    PROVE  Right(s)'
<1> USE DEF Right, AllocSafe, Go, slabVars
<1>1. Types'
  BY DEF Types, Places
<1>2. ListRight(p)' /\ WordRight(p)'
  BY DEF Types, Threads, ListRight, WordRight, Leads, Distinct
<1>3. Threads'
  BY <1>2, OthersStay DEF Types
<1>4. KindRight'
  BY DEF KindRight
<1> QED BY <1>1, <1>3, <1>4, OwnStep

\* A thread loads the word: what it has is the newest.
LEMMA PopLoadKeeps ==
    ASSUME NEW s \in Seq(Objects), Right(s), NEW p \in Procs, PopLoad(p)
    PROVE  Right(s)'
<1> USE DEF Right, PopLoad, Go, slabVars
<1>1. Types'
  BY DEF Types, Places
<1>2. ListRight(p)' /\ WordRight(p)'
  <2>1. pc'[p] \notin {"put", "push", "cas"} /\ pc[p] = "load"
    BY DEF Types
  <2>2. ListRight(p)'
    BY <2>1 DEF Types, Threads, ListRight, Distinct
  <2>3. m0'[p] = magic /\ magic.seq \in Nat /\ (pc'[p] = "link" => magic.ptr # None)
    BY DEF Types, Word
  <2>4. WordRight(p)'
    BY <2>1, <2>3 DEF WordRight
  <2> QED BY <2>2, <2>4
<1>3. Threads'
  BY <1>2, OthersStay DEF Types
<1>4. KindRight'
  BY DEF KindRight
<1> QED BY <1>1, <1>3, <1>4, OwnStep

\* A thread reads the link of the object that its word points to: that of the top, if
\* the word is still the one in memory.
LEMMA PopLinkKeeps ==
    ASSUME SlabAssumption, NEW s \in Seq(Objects), Right(s), NEW p \in Procs, PopLink(p)
    PROVE  Right(s)'
<1> USE DEF Right, PopLink, Go, slabVars
<1>0. m0[p].ptr \in Objects
  BY DEF Types, Threads, WordRight, Word
<1>1. Types'
  BY <1>0 DEF Types, Places
<1>2. ListRight(p)' /\ WordRight(p)'
  BY DEF Types, Threads, ListRight, WordRight, Leads, Distinct, Word
<1>3. Threads'
  BY <1>2, OthersStay DEF Types
<1>4. KindRight'
  BY DEF KindRight
<1> QED BY <1>1, <1>3, <1>4, OwnStep

\* The swap of a pop fails.
LEMMA PopAgainKeeps ==
    ASSUME NEW s \in Seq(Objects), Right(s), NEW p \in Procs, PopAgain(p)
    PROVE  Right(s)'
<1> USE DEF Right, PopAgain, Go, slabVars
<1>1. Types'
  BY DEF Types, Places
<1>2. ListRight(p)' /\ WordRight(p)'
  BY DEF Types, Threads, ListRight, WordRight, Leads, Distinct
<1>3. Threads'
  BY <1>2, OthersStay DEF Types
<1>4. KindRight'
  BY DEF KindRight
<1> QED BY <1>1, <1>3, <1>4, OwnStep

\* A thread gets the lock.
LEMMA LockKeeps ==
    ASSUME NEW s \in Seq(Objects), Right(s), NEW p \in Procs, Lock(p)
    PROVE  Right(s)'
<1> USE DEF Right, Lock, Go, slabVars
<1>1. Types'
  BY DEF Types, Places
<1>2. ListRight(p)' /\ WordRight(p)'
  BY DEF Types, Threads, ListRight, WordRight, Leads, Distinct
<1>3. Threads'
  BY <1>2, OthersStay DEF Types
<1>4. KindRight'
  BY DEF KindRight
<1> QED BY <1>1, <1>3, <1>4, OwnStep

\* A thread finds no memory, and lets the lock go.
LEMMA NoCoreKeeps ==
    ASSUME NEW s \in Seq(Objects), Right(s), NEW p \in Procs, NoCore(p)
    PROVE  Right(s)'
<1> USE DEF Right, NoCore, Go, slabVars
<1>1. Types'
  BY DEF Types, Places, Unlocked
<1>2. ListRight(p)' /\ WordRight(p)'
  BY DEF Types, Threads, ListRight, WordRight, Leads, Distinct
<1>3. Threads'
  BY <1>2, OthersStay DEF Types
<1>4. KindRight'
  BY DEF KindRight
<1> QED BY <1>1, <1>3, <1>4, OwnStep

\* The swap of a push fails.
LEMMA PushAgainKeeps ==
    ASSUME NEW s \in Seq(Objects), Right(s), NEW p \in Procs, PushAgain(p)
    PROVE  Right(s)'
<1> USE DEF Right, PushAgain, Go, slabVars
<1>1. Types'
  BY DEF Types, Places
<1>2. ListRight(p)' /\ WordRight(p)'
  BY DEF Types, Threads, ListRight, WordRight, Leads, Distinct
<1>3. Threads'
  BY <1>2, OthersStay DEF Types
<1>4. KindRight'
  BY DEF KindRight
<1> QED BY <1>1, <1>3, <1>4, OwnStep

\* Linking one's objects to the top writes nothing that another thread relies on.
LEMMA PushLoadKeeps ==
    ASSUME NEW s \in Seq(Objects), Right(s), NEW p \in Procs, PushLoad(p)
    PROVE  Right(s)'
<1> USE DEF Right, PushLoad, Go, slabVars
<1>1. list[p] \in Seq(Objects) /\ magic.ptr \in Objects \cup {None} /\ Distinct(list[p])
  BY DEF Types, Word, Threads, ListRight
<1>2. /\ next' \in [Objects -> Objects \cup {None}]
      /\ \A i \in DOMAIN list[p] : next'[list[p][i]] =
            IF i < Len(list[p]) THEN list[p][i + 1] ELSE magic.ptr
      /\ \A c \in Objects \ Elements(list[p]) : next'[c] = next[c]
  BY <1>1, LinkedRight
<1>3. /\ Elements(s) \subseteq Objects /\ \A q \in Procs : Elements(list[q]) \subseteq Objects
      /\ magic.ptr # None => magic.ptr \in Elements(s)
  <2>1. ASSUME NEW l \in Seq(Objects) PROVE Elements(l) \subseteq Objects
    BY <2>1, ElementOfSeq, LenProperties DEF Elements
  <2>2. magic.ptr # None => magic.ptr \in Elements(s)
    <3>1. s # <<>> => 1 \in DOMAIN s
      BY LenProperties, EmptySeq
    <3> QED BY <3>1 DEF StackIs, First, Elements
  <2> QED BY <2>1, <2>2 DEF Types
<1>4. \A c \in Elements(s) : next'[c] = next[c]
  BY <1>2, <1>3 DEF Apart
<1>5. \A q \in Procs : q # p => \A c \in Elements(list[q]) : next'[c] = next[c]
  BY <1>2, <1>3 DEF Apart
<1>6. Types'
  BY <1>2 DEF Types, Places
<1>7. ListRight(p)' /\ WordRight(p)'
  BY <1>2 DEF Types, Threads, ListRight, WordRight, Leads, Distinct, Word
<1>8. Threads'
  BY <1>3, <1>4, <1>5, <1>7, OthersStay DEF Types
<1>9. KindRight' /\ BlocksRight' /\ Counted(s)'
  BY DEF KindRight, BlocksRight, Counted, Types
<1>10. StackIs(s)'
  BY <1>4, StackStays
<1>11. Apart(s)' /\ Whole(s)'
  BY PartsStay
<1> QED BY <1>6, <1>8, <1>9, <1>10, <1>11

\* The owner of an object may write it.
LEMMA ScribbleKeeps ==
    ASSUME NEW s \in Seq(Objects), Right(s), NEW p \in Procs, Scribble(p)
    PROVE  Right(s)'
<1> USE DEF Right, Scribble, slabVars, regs
<1>1. PICK c \in owner[p], v \in Objects \cup {None} : next' = [next EXCEPT ![c] = v]
  OBVIOUS
<1>2. c \in Objects /\ \A d \in Objects : d # c => next'[d] = next[d]
  BY <1>1 DEF Types
<1>3. /\ Elements(s) \subseteq Objects /\ \A q \in Procs : Elements(list[q]) \subseteq Objects
      /\ magic.ptr # None => magic.ptr \in Elements(s)
  <2>1. ASSUME NEW l \in Seq(Objects) PROVE Elements(l) \subseteq Objects
    BY <2>1, ElementOfSeq, LenProperties DEF Elements
  <2>2. magic.ptr # None => magic.ptr \in Elements(s)
    <3>1. s # <<>> => 1 \in DOMAIN s
      BY LenProperties, EmptySeq
    <3> QED BY <3>1 DEF StackIs, First, Elements
  <2> QED BY <2>1, <2>2 DEF Types
<1>4. \A d \in Elements(s) : next'[d] = next[d]
  BY <1>2, <1>3 DEF Apart
<1>5. \A q \in Procs : \A d \in Elements(list[q]) : next'[d] = next[d]
  BY <1>2, <1>3 DEF Apart
<1>6. Types'
  BY <1>1 DEF Types
<1>7. ListRight(p)' /\ WordRight(p)'
  BY <1>3, <1>4, <1>5 DEF Types, Threads, ListRight, WordRight, Leads, Distinct, Word, Elements
<1>8. Threads'
  BY <1>3, <1>4, <1>5, <1>7, OthersStay DEF Types
<1>9. KindRight' /\ BlocksRight' /\ Counted(s)'
  BY DEF KindRight, BlocksRight, Counted, Types
<1>10. StackIs(s)'
  BY <1>4, StackStays
<1>11. Apart(s)' /\ Whole(s)'
  BY PartsStay
<1> QED BY <1>6, <1>8, <1>9, <1>10, <1>11

\* A new block: its objects were nowhere.
LEMMA ExpandKeeps ==
    ASSUME SlabAssumption, NEW s \in Seq(Objects), Right(s), NEW p \in Procs, Expand(p)
    PROVE  Right(s)'
<1> USE DEF Right
<1>1. PICK blk \in Spare : TakeBlock(blk) /\ list' = [list EXCEPT ![p] = ObjectsOf(blk)]
  BY DEF Expand, ChainOf
<1>2. /\ blk \in Blocks /\ blk \notin Elements(head_active)
      /\ head_active' \in Seq(Blocks) /\ head_backup' \in Seq(Blocks)
      /\ BlocksRight'
      /\ Elements(head_active') = Elements(head_active) \cup {blk}
  BY <1>1, TakeBlockRight
<1>3. PICK o : o = ObjectsOf(blk)
  OBVIOUS
<1>4. /\ o \in Seq(Objects) /\ o # <<>> /\ Distinct(o)
      /\ \A c \in Objects : c \in Elements(o) <=> c[1] = blk
      /\ Elements(o) \subseteq Objects
  BY <1>2, <1>3, BlockObjects
<1>5. \A c \in Elements(o) : ~InUse(s, c)
  BY <1>2, <1>4 DEF Whole
<1>6. /\ pc[p] = "expand" /\ pc' = [pc EXCEPT ![p] = "push"]
      /\ UNCHANGED <<magic, next, nr_ready, m0, link, lock, owner, promised>>
  BY DEF Expand, Go
<1>7. /\ pc'[p] = "push" /\ list'[p] = o
      /\ \A q \in Procs : q # p => list'[q] = list[q] /\ pc'[q] = pc[q]
  BY <1>1, <1>3, <1>6 DEF Types
<1>8. list[p] = <<>>
  BY <1>6 DEF Threads, ListRight
<1>9. Types'
  BY <1>1, <1>2, <1>3, <1>4, <1>6 DEF Types, Places
<1>10. ListRight(p)' /\ WordRight(p)'
  BY <1>4, <1>7 DEF ListRight, WordRight
<1>11. Threads'
  BY <1>6, <1>7, <1>10, OthersStay
<1>12. KindRight'
  BY <1>6 DEF KindRight
<1>13. StackIs(s)'
  BY <1>6, StackStays
<1>14. Counted(s)'
  BY <1>6 DEF Counted
<1>15. Apart(s)'
  BY <1>5, <1>6, <1>7 DEF Apart, InUse
<1>16. Whole(s)'
  <2> SUFFICES ASSUME NEW c \in Objects PROVE (c[1] \in Elements(head_active') <=> InUse(s, c)')
    BY DEF Whole
  <2>1. Elements(list[p]) = {}
    BY <1>8 DEF Elements
  <2>2. InUse(s, c)' <=> InUse(s, c) \/ c \in Elements(o)
    BY <1>6, <1>7, <2>1 DEF InUse
  <2> QED BY <1>2, <1>4, <2>2 DEF Whole
<1> QED BY <1>2, <1>9, <1>11, <1>12, <1>13, <1>14, <1>15, <1>16

\* An object that is given back is on its way to the stack.
LEMMA FreeSafeKeeps ==
    ASSUME NEW s \in Seq(Objects), Right(s), NEW p \in Procs, FreeSafe(p)
    PROVE  Right(s)'
<1> USE DEF Right
<1>1. PICK c \in owner[p] : /\ owner' = [owner EXCEPT ![p] = @ \ {c}]
                            /\ list' = [list EXCEPT ![p] = <<c>>]
  BY DEF FreeSafe
<1>2. PICK o : o = <<c>>
  OBVIOUS
<1>3. /\ c \in Objects
      /\ o \in Seq(Objects) /\ o # <<>> /\ Distinct(o) /\ Elements(o) = {c}
  BY <1>2 DEF Types, Distinct, Elements
<1>4. /\ pc[p] = "idle" /\ pc' = [pc EXCEPT ![p] = "push"] /\ Safe
      /\ UNCHANGED <<slabVars, m0, link, lock, promised>>
  BY DEF FreeSafe, Go
<1>5. /\ pc'[p] = "push" /\ list'[p] = o /\ owner'[p] = owner[p] \ {c}
      /\ \A q \in Procs : q # p => list'[q] = list[q] /\ pc'[q] = pc[q] /\ owner'[q] = owner[q]
  BY <1>1, <1>2, <1>4 DEF Types
<1>6. list[p] = <<>>
  BY <1>4 DEF Threads, ListRight
<1>7. Types'
  BY <1>1, <1>2, <1>3, <1>4 DEF Types, Places, slabVars
<1>8. ListRight(p)' /\ WordRight(p)'
  BY <1>3, <1>5 DEF ListRight, WordRight
<1>9. Threads'
  BY <1>4, <1>5, <1>8, OthersStay DEF slabVars
<1>10. KindRight'
  BY <1>4 DEF KindRight
<1>11. StackIs(s)' /\ BlocksRight' /\ Counted(s)'
  BY <1>4, StackStays DEF slabVars, BlocksRight, Counted
<1>12. Elements(list[p]) = {}
  BY <1>6 DEF Elements
<1>13. Apart(s)'
  <2>1. /\ Elements(list'[p]) = {c} /\ \A q \in Procs : q # p => list'[q] = list[q]
        /\ \A q \in Procs : owner'[q] \subseteq owner[q] /\ c \notin owner'[q]
    BY <1>3, <1>5 DEF Apart
  <2>2. c \notin Elements(s) /\ \A q \in Procs : c \notin Elements(list[q])
    BY DEF Apart
  <2>3. \A q \in Procs : Elements(s) \cap owner'[q] = {} /\ Elements(s) \cap Elements(list'[q]) = {}
    BY <2>1, <2>2 DEF Apart
  <2>4. \A q, r \in Procs : owner'[q] \cap Elements(list'[r]) = {}
    BY <2>1 DEF Apart
  <2>5. \A q, r \in Procs : q # r => /\ owner'[q] \cap owner'[r] = {}
                                      /\ Elements(list'[q]) \cap Elements(list'[r]) = {}
    BY <2>1, <2>2 DEF Apart
  <2> QED BY <2>3, <2>4, <2>5 DEF Apart
<1>14. Whole(s)'
  <2> SUFFICES ASSUME NEW d \in Objects PROVE (d[1] \in Elements(head_active') <=> InUse(s, d)')
    BY DEF Whole
  <2>1. InUse(s, d)' <=> InUse(s, d)
    BY <1>3, <1>5, <1>12 DEF InUse
  <2> QED BY <1>4, <2>1 DEF Whole, slabVars
<1> QED BY <1>7, <1>9, <1>10, <1>11, <1>13, <1>14

\* The number in the word does not come round.
LEMMA NoWrap ==
    ASSUME NEW n \in Nat, NEW m \in Nat, n + 1 < m
    PROVE  (n + 1) % m = n + 1
OBVIOUS

\* A pop: the word is the one that was loaded, so the link that was read is that of
\* the top.
LEMMA PopCasKeeps ==
    ASSUME SlabAssumption, NEW s \in Seq(Objects), Right(s), NEW p \in Procs, PopCas(p)
    PROVE  /\ Right(Tail(s))'
           /\ s # <<>> /\ magic.ptr = s[1] /\ owner' = [owner EXCEPT ![p] = @ \cup {s[1]}]
           /\ UNCHANGED list
<1> USE DEF Right
<1>1. /\ pc[p] = "cas" /\ magic = m0[p] /\ magic.seq + 1 < SeqMod
      /\ magic' = astk_m1(m0[p], link[p])
      /\ owner' = [owner EXCEPT ![p] = @ \cup {m0[p].ptr}]
      /\ lock' = Unlocked(p) /\ pc' = [pc EXCEPT ![p] = "idle"]
      /\ UNCHANGED <<next, head_active, head_backup, nr_ready, m0, link, list, promised>>
  BY DEF PopCas, Same, Go
<1>2. magic.ptr # None /\ link[p] = next[magic.ptr]
  BY <1>1 DEF Threads, WordRight
<1>3. s # <<>> /\ magic.ptr = s[1] /\ s[1] \in Elements(s) /\ s[1] \in Objects
  BY <1>2, TopIn DEF Types, Word
<1>4. magic'.seq = magic.seq + 1 /\ magic'.ptr = next[s[1]] /\ magic' \in Word
  <2>1. magic.seq \in Nat /\ SeqMod \in Nat
    BY DEF Types, Word, SlabAssumption
  <2>2. (magic.seq + 1) % SeqMod = magic.seq + 1
    BY <1>1, <2>1, NoWrap
  <2> QED BY <1>1, <1>2, <1>3, <2>1, <2>2 DEF astk_m1, Types, Word
<1>5. Safe
  BY <1>1 DEF KindRight
<1>6. PICK t : t = Tail(s)
  OBVIOUS
<1>7. /\ t \in Seq(Objects) /\ Elements(t) = Elements(s) \ {s[1]}
  BY <1>3, <1>6, WithoutTop DEF StackIs
<1>8. StackIs(t)'
  <2>1. \A i \in DOMAIN s : next'[s[i]] = IF i < Len(s) THEN s[i + 1] ELSE None
    BY <1>1 DEF StackIs, Leads
  <2> QED BY <1>1, <1>3, <1>4, <1>6, <2>1, PopRight DEF StackIs
<1>9. /\ pc'[p] = "idle" /\ owner'[p] = owner[p] \cup {s[1]}
      /\ \A q \in Procs : q # p => pc'[q] = pc[q] /\ owner'[q] = owner[q]
  BY <1>1, <1>3 DEF Types
<1>10. Types'
  BY <1>1, <1>3, <1>4 DEF Types, Places, Unlocked
<1>11. ListRight(p)' /\ WordRight(p)'
  BY <1>1, <1>9 DEF Threads, ListRight, WordRight
<1>12. Threads'
  BY <1>1, <1>4, <1>9, <1>11, OthersOld
<1>13. KindRight' /\ Counted(t)' /\ BlocksRight'
  BY <1>1, <1>5 DEF KindRight, Counted, BlocksRight
<1>14. Apart(t)'
  BY <1>1, <1>3, <1>7, <1>9 DEF Apart
<1>15. Whole(t)'
  <2> SUFFICES ASSUME NEW d \in Objects PROVE (d[1] \in Elements(head_active') <=> InUse(t, d)')
    BY DEF Whole
  <2>1. InUse(t, d)' <=> InUse(s, d)
    BY <1>1, <1>3, <1>7, <1>9 DEF InUse
  <2> QED BY <1>1, <2>1 DEF Whole
<1> QED BY <1>1, <1>3, <1>6, <1>8, <1>10, <1>12, <1>13, <1>14, <1>15

\* A push: the objects of a thread come on top.
LEMMA PushCasKeeps ==
    ASSUME SlabAssumption, NEW s \in Seq(Objects), Right(s), NEW p \in Procs, PushCas(p)
    PROVE  /\ \E t \in Seq(Objects) : Right(t)' /\ Elements(t) = Elements(list[p]) \cup Elements(s)
           /\ list' = [list EXCEPT ![p] = <<>>] /\ UNCHANGED owner
<1> USE DEF Right
<1>1. /\ pc[p] = "put" /\ magic = m0[p] /\ magic.seq + 1 < SeqMod
      /\ magic' = astk_m1(m0[p], list[p][1])
      /\ list' = [list EXCEPT ![p] = <<>>]
      /\ pc' = [pc EXCEPT ![p] = IF lock = p THEN "load" ELSE "idle"]
      /\ UNCHANGED <<next, head_active, head_backup, nr_ready, m0, link, lock, owner, promised>>
  BY DEF PushCas, Same, Go
<1>2. PICK l : l = list[p]
  OBVIOUS
<1>3. l \in Seq(Objects) /\ l # <<>> /\ Distinct(l) /\ Leads(l, magic.ptr)
  BY <1>1, <1>2 DEF Types, Threads, ListRight
<1>4. Elements(l) \cap Elements(s) = {} /\ l[1] \in Objects
  BY <1>2, <1>3, ElementOfSeq, EmptySeq, LenProperties DEF Apart
<1>5. magic'.seq = magic.seq + 1 /\ magic'.ptr = l[1] /\ magic' \in Word
  <2>1. magic.seq \in Nat /\ SeqMod \in Nat
    BY DEF Types, Word, SlabAssumption
  <2>2. (magic.seq + 1) % SeqMod = magic.seq + 1
    BY <1>1, <2>1, NoWrap
  <2> QED BY <1>1, <1>2, <1>4, <2>1, <2>2 DEF astk_m1, Types, Word
<1>6. Safe
  BY <1>1 DEF KindRight
<1>7. PICK t : t = l \o s
  OBVIOUS
<1>8. t \in Seq(Objects) /\ Elements(t) = Elements(l) \cup Elements(s)
  BY <1>3, <1>4, <1>7, OnTop DEF StackIs
<1>9. StackIs(t)'
  <2>1. \A i \in DOMAIN l : next'[l[i]] = IF i < Len(l) THEN l[i + 1] ELSE magic.ptr
    BY <1>1, <1>3 DEF Leads
  <2> QED BY <1>1, <1>3, <1>4, <1>5, <1>7, <2>1, PushRight
<1>10. /\ pc'[p] \in {"load", "idle"} /\ list'[p] = <<>>
       /\ \A q \in Procs : q # p => pc'[q] = pc[q] /\ list'[q] = list[q]
  BY <1>1 DEF Types
<1>11. Types'
  BY <1>1, <1>5 DEF Types, Places
<1>12. ListRight(p)' /\ WordRight(p)'
  BY <1>1, <1>10 DEF ListRight, WordRight, Distinct
<1>13. Threads'
  BY <1>1, <1>5, <1>10, <1>12, OthersOld
<1>14. KindRight' /\ Counted(t)' /\ BlocksRight'
  BY <1>1, <1>6 DEF KindRight, Counted, BlocksRight
<1>15. Elements(list'[p]) = {}
  BY <1>10 DEF Elements
<1>16. Apart(t)'
  BY <1>1, <1>2, <1>8, <1>10, <1>15 DEF Apart
<1>17. Whole(t)'
  <2> SUFFICES ASSUME NEW d \in Objects PROVE (d[1] \in Elements(head_active') <=> InUse(t, d)')
    BY DEF Whole
  <2>1. InUse(t, d)' <=> InUse(s, d)
    BY <1>1, <1>2, <1>8, <1>10, <1>15 DEF InUse
  <2> QED BY <1>1, <2>1 DEF Whole
<1> QED BY <1>1, <1>2, <1>8, <1>9, <1>11, <1>13, <1>14, <1>16, <1>17

-----------------------------------------------------------------------------
(* The steps of the calls that exclude each other.                           *)

\* Without the other kind of calls no thread is about to put anything.
LEMMA NoLists ==
    ASSUME NEW s, Right(s), ~Safe
    PROVE  \A p \in Procs : list[p] = <<>> /\ Elements(list[p]) = {}
<1>1. \A p \in Procs : list[p] = <<>>
  BY DEF Right, KindRight, Threads, ListRight
<1> QED BY <1>1 DEF Elements

\* Then no more is to show than that nobody is given an object of the stack, or one
\* that another thread has.
LEMMA ApartThen ==
    ASSUME NEW t, \A q \in Procs : Elements(list'[q]) = {},
           \A q \in Procs : Elements(t) \cap owner'[q] = {},
           \A q, r \in Procs : q # r => owner'[q] \cap owner'[r] = {}
    PROVE  Apart(t)'
BY DEF Apart

\* Such a step changes no place and no list.
LEMMA UnsafeThreads ==
    ASSUME NEW s, Right(s), ~Safe, UNCHANGED regs
    PROVE  Threads' /\ KindRight'
<1>1. \A p \in Procs : pc'[p] = "idle" /\ list'[p] = <<>>
  BY NoLists DEF Right, KindRight, regs
<1>2. Threads'
  BY <1>1 DEF Threads, ListRight, WordRight, Distinct
<1> QED BY <1>1, <1>2 DEF KindRight

\* A new block is linked on top of the stack.
LEMMA AddUnsafeRight ==
    ASSUME SlabAssumption, NEW s \in Seq(Objects), Right(s), ~Safe, NEW blk \in Spare,
           AddUnsafe(blk)
    PROVE  /\ blk \in Blocks
           /\ head_active' \in Seq(Blocks) /\ head_backup' \in Seq(Blocks)
           /\ BlocksRight'
           /\ Elements(head_active') = Elements(head_active) \cup {blk}
           /\ next' \in [Objects -> Objects \cup {None}]
           /\ \A c \in Objects : c \in Elements(ObjectsOf(blk)) => ~InUse(s, c)
           /\ \A i \in DOMAIN ObjectsOf(blk) : next'[ObjectsOf(blk)[i]] =
                 IF i < Len(ObjectsOf(blk)) THEN ObjectsOf(blk)[i + 1] ELSE magic.ptr
           /\ \A c \in Elements(s) : next'[c] = next[c]
<1> USE DEF Right
<1>1. TakeBlock(blk) /\ next' = Linked(ObjectsOf(blk), magic.ptr)
  BY DEF AddUnsafe
<1>2. /\ blk \in Blocks /\ blk \notin Elements(head_active)
      /\ head_active' \in Seq(Blocks) /\ head_backup' \in Seq(Blocks)
      /\ BlocksRight'
      /\ Elements(head_active') = Elements(head_active) \cup {blk}
  BY <1>1, TakeBlockRight
<1>3. PICK o : o = ObjectsOf(blk)
  OBVIOUS
<1>4. /\ o \in Seq(Objects) /\ o # <<>> /\ Distinct(o)
      /\ \A c \in Objects : c \in Elements(o) <=> c[1] = blk
      /\ Elements(o) \subseteq Objects
  BY <1>2, <1>3, BlockObjects
<1>5. \A c \in Elements(o) : ~InUse(s, c)
  BY <1>2, <1>4 DEF Whole
<1>6. magic.ptr \in Objects \cup {None}
  BY DEF Types, Word
<1>7. /\ next' \in [Objects -> Objects \cup {None}]
      /\ \A i \in DOMAIN o : next'[o[i]] = IF i < Len(o) THEN o[i + 1] ELSE magic.ptr
      /\ \A c \in Objects \ Elements(o) : next'[c] = next[c]
  BY <1>1, <1>3, <1>4, <1>6, LinkedRight
<1>8. Elements(s) \subseteq Objects
  BY ElementOfSeq, LenProperties DEF Elements
<1>9. \A c \in Elements(s) : next'[c] = next[c]
  BY <1>5, <1>7, <1>8 DEF InUse
<1> QED BY <1>2, <1>3, <1>5, <1>7, <1>9

\* A turn of the loop of slab_reserve_unsafe: a block more is on the stack.
LEMMA ReserveMoreKeeps ==
    ASSUME SlabAssumption, NEW s \in Seq(Objects), Right(s), NEW p \in Procs,
           NEW nr \in 1 .. MaxReserve, ReserveMore(p, nr)
    PROVE  \E t \in Seq(Objects) : Right(t)'
<1> USE DEF Right
<1>1. PICK blk \in Spare : AddUnsafe(blk) /\ magic' = astk_m1_unsafe(<<blk, 1>>)
  BY DEF ReserveMore
<1>2. /\ ~Safe /\ nr_ready' = nr_ready + PerSlab
      /\ promised' = IF nr_ready' >= nr THEN nr ELSE 0
      /\ UNCHANGED <<regs, lock, owner>>
  BY DEF ReserveMore
<1>3. PICK o : o = ObjectsOf(blk)
  OBVIOUS
<1>4. /\ blk \in Blocks
      /\ head_active' \in Seq(Blocks) /\ head_backup' \in Seq(Blocks)
      /\ BlocksRight'
      /\ Elements(head_active') = Elements(head_active) \cup {blk}
      /\ next' \in [Objects -> Objects \cup {None}]
      /\ \A c \in Objects : c \in Elements(o) => ~InUse(s, c)
      /\ \A i \in DOMAIN o : next'[o[i]] = IF i < Len(o) THEN o[i + 1] ELSE magic.ptr
      /\ \A c \in Elements(s) : next'[c] = next[c]
  BY <1>1, <1>2, <1>3, AddUnsafeRight
<1>5. /\ o \in Seq(Objects) /\ o # <<>> /\ Distinct(o)
      /\ \A c \in Objects : c \in Elements(o) <=> c[1] = blk
      /\ Elements(o) \subseteq Objects
      /\ o[1] = <<blk, 1>> /\ Len(o) = PerSlab
  BY <1>3, <1>4, BlockObjects
<1>6. Elements(o) \cap Elements(s) = {} /\ \A q \in Procs : Elements(o) \cap owner[q] = {}
  BY <1>4, <1>5 DEF InUse
<1>7. PICK t : t = o \o s
  OBVIOUS
<1>8. t \in Seq(Objects) /\ Len(t) = Len(o) + Len(s) /\ Elements(t) = Elements(o) \cup Elements(s)
  BY <1>5, <1>6, <1>7, OnTop DEF StackIs
<1>9. magic'.ptr = o[1] /\ magic' \in Word /\ magic'.seq = 0
  <2>1. o[1] \in Objects
    BY <1>5, WithoutTop
  <2> QED BY <1>1, <1>5, <2>1 DEF astk_m1_unsafe, Word
<1>10. StackIs(t)'
  BY <1>4, <1>5, <1>6, <1>7, <1>9, PushRight
<1>11. nr_ready' = Len(t) /\ nr_ready' \in Nat /\ promised' \in Nat /\ promised' <= Len(t)
  <2>1. nr_ready = Len(s) /\ Len(s) \in Nat /\ PerSlab \in Nat /\ nr \in Nat
    BY <1>2, LenProperties DEF Counted, SlabAssumption
  <2> QED BY <1>2, <1>5, <1>8, <2>1
<1>12. Types'
  BY <1>2, <1>4, <1>9, <1>11 DEF Types, regs, SlabAssumption
<1>13. Threads' /\ KindRight'
  BY <1>2, UnsafeThreads
<1>14. Counted(t)'
  BY <1>2, <1>11 DEF Counted
<1>15. \A q \in Procs : Elements(list'[q]) = {} /\ owner'[q] = owner[q]
  BY <1>2, NoLists DEF regs
<1>16. Apart(t)'
  BY <1>6, <1>8, <1>15 DEF Apart
<1>17. Whole(t)'
  <2> SUFFICES ASSUME NEW d \in Objects PROVE (d[1] \in Elements(head_active') <=> InUse(t, d)')
    BY DEF Whole
  <2>1. InUse(t, d)' <=> InUse(s, d) \/ d \in Elements(o)
    BY <1>2, <1>8, <1>15, NoLists DEF InUse
  <2> QED BY <1>4, <1>5, <2>1 DEF Whole
<1> QED BY <1>4, <1>8, <1>10, <1>12, <1>13, <1>14, <1>16, <1>17

\* slab_reserve_unsafe finds enough.
LEMMA ReservedKeeps ==
    ASSUME NEW s \in Seq(Objects), Right(s), NEW p \in Procs,
           NEW nr \in 1 .. MaxReserve, Reserved(p, nr)
    PROVE  Right(s)'
<1> USE DEF Right, Reserved
<1>1. Types' /\ BlocksRight'
  BY DEF Types, BlocksRight, slabVars, regs
<1>2. Threads' /\ KindRight'
  BY UnsafeThreads
<1>3. StackIs(s)'
  BY StackStays DEF slabVars
<1>4. Counted(s)'
  BY LenProperties DEF Counted, slabVars
<1>5. Apart(s)' /\ Whole(s)'
  BY PartsStay DEF slabVars, regs
<1> QED BY <1>1, <1>2, <1>3, <1>4, <1>5

\* The top is given.
LEMMA AllocUnsafeKeeps ==
    ASSUME SlabAssumption, NEW s \in Seq(Objects), Right(s), NEW p \in Procs, AllocUnsafe(p)
    PROVE  \E t \in Seq(Objects) : Right(t)'
<1> USE DEF Right
<1>1. ~Safe /\ promised' = Fewer(promised) /\ UNCHANGED <<regs, lock>>
  BY DEF AllocUnsafe
<1>2. nr_ready = Len(s) /\ promised <= Len(s) /\ Len(s) \in Nat /\ promised \in Nat
  BY <1>1, LenProperties DEF Counted, Types
<1>3. \A q \in Procs : Elements(list[q]) = {} /\ Elements(list'[q]) = {}
  BY <1>1, NoLists DEF regs
<1>4. Threads' /\ KindRight'
  BY <1>1, UnsafeThreads
<1>5. CASE magic.ptr # None
  <2>1. /\ magic' = astk_m1_unsafe(next[magic.ptr])
        /\ owner' = [owner EXCEPT ![p] = @ \cup {magic.ptr}]
        /\ nr_ready' = nr_ready - 1
        /\ UNCHANGED <<next, head_active, head_backup>>
    BY <1>5 DEF AllocUnsafe, Given
  <2>2. s # <<>> /\ magic.ptr = s[1] /\ s[1] \in Elements(s) /\ s[1] \in Objects
    BY <1>5, TopIn DEF Types, Word
  <2>3. PICK t : t = Tail(s)
    OBVIOUS
  <2>4. /\ t \in Seq(Objects) /\ Elements(t) = Elements(s) \ {s[1]} /\ Len(t) = Len(s) - 1
    BY <2>2, <2>3, WithoutTop DEF StackIs
  <2>5. StackIs(t)'
    <3>1. \A i \in DOMAIN s : next'[s[i]] = IF i < Len(s) THEN s[i + 1] ELSE None
      BY <2>1 DEF StackIs, Leads
    <3>2. magic'.ptr = next'[s[1]]
      BY <2>1, <2>2 DEF astk_m1_unsafe
    <3> QED BY <2>2, <2>3, <3>1, <3>2, PopRight DEF StackIs
  <2>6. magic' \in Word /\ magic'.seq = 0
    BY <2>1, <2>2 DEF astk_m1_unsafe, Types, Word
  <2>7. Len(t) \in Nat /\ nr_ready' = Len(t) /\ promised' \in Nat /\ promised' <= Len(t)
    BY <1>1, <1>2, <2>1, <2>4, LenProperties DEF Fewer
  <2>8. Types'
    BY <1>1, <2>1, <2>2, <2>6, <2>7 DEF Types, regs, SlabAssumption
  <2>9. Counted(t)' /\ BlocksRight'
    BY <1>1, <2>1, <2>7 DEF Counted, BlocksRight
  <2>10. /\ owner'[p] = owner[p] \cup {s[1]}
         /\ \A q \in Procs : q # p => owner'[q] = owner[q]
    BY <2>1, <2>2 DEF Types
  <2>11. Apart(t)'
    <3>1. \A q \in Procs : Elements(t) \cap owner'[q] = {}
      BY <2>4, <2>10 DEF Apart
    <3>2. \A q, r \in Procs : q # r => owner'[q] \cap owner'[r] = {}
      BY <2>2, <2>10 DEF Apart
    <3> QED BY <1>3, <3>1, <3>2, ApartThen
  <2>12. Whole(t)'
    <3> SUFFICES ASSUME NEW d \in Objects PROVE (d[1] \in Elements(head_active') <=> InUse(t, d)')
      BY DEF Whole
    <3>1. InUse(t, d)' <=> InUse(s, d)
      BY <1>3, <2>2, <2>4, <2>10 DEF InUse
    <3> QED BY <2>1, <3>1 DEF Whole
  <2> QED BY <1>4, <2>4, <2>5, <2>8, <2>9, <2>11, <2>12
<1>6. CASE magic.ptr = None
  <2>1. PICK blk \in Spare : /\ AddUnsafe(blk)
                             /\ magic' = astk_m1_unsafe(next'[<<blk, 1>>])
                             /\ owner' = [owner EXCEPT ![p] = @ \cup {<<blk, 1>>}]
                             /\ nr_ready' = nr_ready + PerSlab - 1
    BY <1>6 DEF AllocUnsafe, Given
  <2>2. PICK o : o = ObjectsOf(blk)
    OBVIOUS
  <2>3. /\ blk \in Blocks
        /\ head_active' \in Seq(Blocks) /\ head_backup' \in Seq(Blocks)
        /\ BlocksRight'
        /\ Elements(head_active') = Elements(head_active) \cup {blk}
        /\ next' \in [Objects -> Objects \cup {None}]
        /\ \A c \in Objects : c \in Elements(o) => ~InUse(s, c)
        /\ \A i \in DOMAIN o : next'[o[i]] = IF i < Len(o) THEN o[i + 1] ELSE None
    BY <1>1, <1>6, <2>1, <2>2, AddUnsafeRight
  <2>4. /\ o \in Seq(Objects) /\ o # <<>> /\ Distinct(o)
        /\ \A c \in Objects : c \in Elements(o) <=> c[1] = blk
        /\ Elements(o) \subseteq Objects
        /\ o[1] = <<blk, 1>> /\ Len(o) = PerSlab
    BY <2>2, <2>3, BlockObjects
  <2>5. PICK t : t = Tail(o)
    OBVIOUS
  <2>6. /\ t \in Seq(Objects) /\ Elements(t) = Elements(o) \ {o[1]} /\ Len(t) = PerSlab - 1
        /\ o[1] \in Elements(o) /\ o[1] \in Objects
    BY <2>4, <2>5, WithoutTop
  <2>7. StackIs(t)'
    <3>1. magic'.ptr = next'[o[1]]
      BY <2>1, <2>4 DEF astk_m1_unsafe
    <3> QED BY <2>3, <2>4, <2>5, <3>1, PopRight
  <2>8. magic' \in Word /\ magic'.seq = 0
    BY <2>1, <2>3, <2>4, <2>6 DEF astk_m1_unsafe, Word
  <2>9. s = <<>> /\ Len(s) = 0 /\ Elements(s) = {}
    BY <1>6, TopIn, EmptySeq DEF Elements
  <2>10. Len(t) \in Nat /\ nr_ready' = Len(t) /\ promised' \in Nat /\ promised' <= Len(t)
    BY <1>1, <1>2, <2>1, <2>6, <2>9, LenProperties DEF Fewer, SlabAssumption
  <2>11. Types'
    <3>1. owner' \in [Procs -> SUBSET Objects]
      BY <2>1, <2>4, <2>6 DEF Types
    <3> QED BY <1>1, <2>3, <2>8, <2>10, <3>1 DEF Types, regs, SlabAssumption
  <2>12. Counted(t)'
    BY <1>1, <2>10 DEF Counted
  <2>13. /\ owner'[p] = owner[p] \cup {o[1]}
         /\ \A q \in Procs : q # p => owner'[q] = owner[q]
    BY <2>1, <2>4 DEF Types
  <2>14. \A q \in Procs : Elements(o) \cap owner[q] = {}
    BY <2>3, <2>4 DEF InUse
  <2>15. Apart(t)'
    <3>1. \A q \in Procs : Elements(s) \cap owner[q] = {}
      BY DEF Apart
    <3>2. \A q \in Procs : Elements(t) \cap owner'[q] = {}
      BY <2>6, <2>13, <2>14
    <3>3. \A q, r \in Procs : q # r => owner'[q] \cap owner'[r] = {}
      BY <2>6, <2>13, <2>14 DEF Apart
    <3> QED BY <1>3, <3>2, <3>3, ApartThen
  <2>16. Whole(t)'
    <3> SUFFICES ASSUME NEW d \in Objects PROVE (d[1] \in Elements(head_active') <=> InUse(t, d)')
      BY DEF Whole
    <3>1. InUse(t, d)' <=> InUse(s, d) \/ d \in Elements(o)
      BY <1>3, <2>6, <2>9, <2>13 DEF InUse
    <3> QED BY <2>3, <2>4, <3>1 DEF Whole
  <2> QED BY <1>4, <2>3, <2>6, <2>7, <2>11, <2>12, <2>15, <2>16
<1> QED BY <1>5, <1>6

\* slab_free_unsafe puts one object on top.
LEMMA FreeUnsafeKeeps ==
    ASSUME SlabAssumption, NEW s \in Seq(Objects), Right(s), NEW p \in Procs, FreeUnsafe(p)
    PROVE  \E t \in Seq(Objects) : Right(t)'
<1> USE DEF Right
<1>1. PICK c \in owner[p] : /\ next' = [next EXCEPT ![c] = magic.ptr]
                            /\ magic' = astk_m1_unsafe(c)
                            /\ owner' = [owner EXCEPT ![p] = @ \ {c}]
  BY DEF FreeUnsafe
<1>2. /\ ~Safe /\ nr_ready' = nr_ready + 1
      /\ UNCHANGED <<head_active, head_backup, regs, lock, promised>>
  BY DEF FreeUnsafe
<1>3. \A q \in Procs : Elements(list[q]) = {} /\ Elements(list'[q]) = {}
  BY <1>2, NoLists DEF regs
<1>4. Threads' /\ KindRight'
  BY <1>2, UnsafeThreads
<1>5. PICK o : o = <<c>>
  OBVIOUS
<1>6. /\ c \in Objects /\ o[1] = c /\ Len(o) = 1 /\ DOMAIN o = {1}
      /\ o \in Seq(Objects) /\ o # <<>> /\ Distinct(o) /\ Elements(o) = {c}
  BY <1>5 DEF Types, Distinct, Elements
<1>7. c \notin Elements(s) /\ \A q \in Procs : q # p => c \notin owner[q]
  BY DEF Apart
<1>8. Elements(s) \subseteq Objects /\ Elements(o) \cap Elements(s) = {}
  BY <1>6, <1>7, ElementOfSeq, LenProperties DEF Elements
<1>9. PICK t : t = o \o s
  OBVIOUS
<1>10. t \in Seq(Objects) /\ Len(t) = 1 + Len(s) /\ Elements(t) = {c} \cup Elements(s)
  <2>1. Distinct(s)
    BY DEF StackIs
  <2>2. /\ t \in Seq(Objects) /\ Len(t) = Len(o) + Len(s)
        /\ Elements(t) = Elements(o) \cup Elements(s)
    BY <1>6, <1>8, <1>9, <2>1, OnTop
  <2> QED BY <1>6, <2>2
<1>11. magic'.ptr = o[1] /\ magic' \in Word /\ magic'.seq = 0 /\ magic.ptr \in Objects \cup {None}
  BY <1>1, <1>6 DEF astk_m1_unsafe, Word, Types
<1>12. next'[c] = magic.ptr /\ \A d \in Objects : d # c => next'[d] = next[d]
  BY <1>1, <1>6 DEF Types
<1>13. StackIs(t)'
  <2>1. \A i \in DOMAIN o : next'[o[i]] = IF i < Len(o) THEN o[i + 1] ELSE magic.ptr
    BY <1>6, <1>12
  <2>2. \A d \in Elements(s) : next'[d] = next[d]
    BY <1>7, <1>8, <1>12
  <2> QED BY <1>6, <1>8, <1>9, <1>11, <2>1, <2>2, PushRight
<1>14. nr_ready' = Len(t) /\ nr_ready' \in Nat /\ promised' \in Nat /\ promised' <= Len(t)
  BY <1>2, <1>10, LenProperties DEF Counted, Types
<1>15. Types' /\ BlocksRight'
  BY <1>1, <1>2, <1>6, <1>11, <1>14 DEF Types, BlocksRight, regs, SlabAssumption
<1>16. Counted(t)'
  BY <1>2, <1>14 DEF Counted
<1>17. /\ owner'[p] = owner[p] \ {c}
       /\ \A q \in Procs : q # p => owner'[q] = owner[q]
  BY <1>1 DEF Types
<1>18. Apart(t)'
  <2>1. \A q \in Procs : Elements(t) \cap owner'[q] = {}
    BY <1>7, <1>10, <1>17 DEF Apart
  <2>2. \A q, r \in Procs : q # r => owner'[q] \cap owner'[r] = {}
    BY <1>17 DEF Apart
  <2> QED BY <1>3, <2>1, <2>2, ApartThen
<1>19. Whole(t)'
  <2> SUFFICES ASSUME NEW d \in Objects PROVE (d[1] \in Elements(head_active') <=> InUse(t, d)')
    BY DEF Whole
  <2>1. InUse(t, d)' <=> InUse(s, d)
    BY <1>3, <1>10, <1>17 DEF InUse
  <2> QED BY <1>2, <2>1 DEF Whole
<1> QED BY <1>4, <1>10, <1>13, <1>15, <1>16, <1>18, <1>19

\* All is given back at once: every block is in reserve, the stack is empty.
LEMMA FreeAllKeeps ==
    ASSUME SlabAssumption, NEW s \in Seq(Objects), Right(s), FreeAll
    PROVE  Right(<<>>)'
<1> USE DEF Right
<1>1. /\ \A p \in Procs : pc[p] = "idle"
      /\ magic' = [ptr |-> None, seq |-> 0]
      /\ nr_ready' = 0 /\ promised' = 0
      /\ head_backup' = head_active \o head_backup /\ head_active' = <<>>
      /\ owner' = [p \in Procs |-> {}]
      /\ UNCHANGED <<next, regs, lock>>
  BY DEF FreeAll
<1>2. PICK a, b : a = head_active /\ b = head_backup
  OBVIOUS
<1>3. /\ a \in Seq(Blocks) /\ b \in Seq(Blocks) /\ Distinct(a) /\ Distinct(b)
      /\ Elements(a) \cap Elements(b) = {}
  BY <1>2 DEF Types, BlocksRight
<1>4. a \o b \in Seq(Blocks) /\ Distinct(a \o b)
  BY <1>3, OnTop
<1>5. <<>> \in Seq(Blocks) /\ Distinct(<<>>) /\ Elements(<<>>) = {} /\ Len(<<>>) = 0
  BY DEF Distinct, Elements
<1>6. BlocksRight'
  BY <1>1, <1>2, <1>4, <1>5 DEF BlocksRight
<1>7. Types'
  BY <1>1, <1>2, <1>4, <1>5 DEF Types, Word, regs, SlabAssumption
<1>8. \A p \in Procs : pc'[p] = "idle" /\ list'[p] = <<>> /\ Elements(list'[p]) = {} /\ owner'[p] = {}
  BY <1>1, <1>5 DEF Threads, ListRight, regs
<1>9. Threads' /\ KindRight'
  BY <1>5, <1>8 DEF Threads, KindRight, ListRight, WordRight
<1>10. StackIs(<<>>)'
  BY <1>1, <1>5 DEF StackIs, First, Leads
<1>11. Apart(<<>>)' /\ Whole(<<>>)'
  BY <1>1, <1>5, <1>8 DEF Apart, Whole, InUse
<1>12. Counted(<<>>)'
  BY <1>1, <1>5 DEF Counted
<1> QED BY <1>6, <1>7, <1>9, <1>10, <1>11, <1>12

-----------------------------------------------------------------------------
(* The theorems                                                              *)

\* At the start nothing is known, free or given.
LEMMA InitRight ==
    ASSUME SlabAssumption, Init
    PROVE  Right(<<>>)
<1> USE DEF Init
<1>1. <<>> \in Seq(Blocks) /\ Distinct(<<>>) /\ Elements(<<>>) = {} /\ Len(<<>>) = 0
  BY DEF Distinct, Elements
<1>2. Types
  <2>1. \A p \in Procs : m0[p] \in Word
    BY DEF Word
  <2>2. m0 \in [Procs -> Word]
    BY <2>1
  <2> QED BY <2>2 DEF Types, Word, Places, SlabAssumption
<1>3. BlocksRight
  BY <1>1 DEF BlocksRight
<1>4. Threads /\ KindRight
  BY <1>1 DEF Threads, ListRight, WordRight, KindRight
<1>5. StackIs(<<>>)
  BY <1>1 DEF StackIs, First, Leads
<1>6. Apart(<<>>) /\ Whole(<<>>)
  BY <1>1 DEF Apart, Whole, InUse
<1>7. Counted(<<>>)
  BY <1>1 DEF Counted
<1> QED BY <1>2, <1>3, <1>4, <1>5, <1>6, <1>7 DEF Right

\* Nothing changes.
LEMMA Stutters ==
    ASSUME NEW s \in Seq(Objects), Right(s), UNCHANGED vars
    PROVE  Right(s)'
<1> USE DEF vars, regs, slabVars
<1>1. Types'
  BY DEF Right, Types
<1>2. ASSUME NEW q \in Procs PROVE ListRight(q)' /\ WordRight(q)'
  BY DEF Right, Threads, ListRight, WordRight, Leads, Distinct
<1>3. Threads' /\ KindRight'
  BY <1>2 DEF Right, Threads, KindRight
<1> QED BY <1>1, <1>3, OwnStep

\* Every step leaves the stack in some order.
LEMMA NextRight ==
    ASSUME SlabAssumption, NEW s \in Seq(Objects), Right(s), [Next]_vars
    PROVE  IInv'
<1> USE DEF IInv
<1>1. \E t \in Seq(Objects) : Right(t)'
  <2>1. CASE UNCHANGED vars
    BY <2>1, Stutters
  <2>2. CASE FreeAll
    <3>1. <<>> \in Seq(Objects)
      OBVIOUS
    <3> QED BY <2>2, <3>1, FreeAllKeeps
  <2>3. ASSUME NEW p \in Procs,
               \/ AllocSafe(p) \/ PopLoad(p) \/ PopLink(p) \/ PopCas(p) \/ PopAgain(p)
               \/ Lock(p) \/ Expand(p) \/ NoCore(p)
               \/ FreeSafe(p) \/ PushLoad(p) \/ PushCas(p) \/ PushAgain(p) \/ Scribble(p)
        PROVE  \E t \in Seq(Objects) : Right(t)'
    <3>1. CASE AllocSafe(p)
      BY <3>1, AllocSafeKeeps
    <3>2. CASE PopLoad(p)
      BY <3>2, PopLoadKeeps
    <3>3. CASE PopLink(p)
      BY <3>3, PopLinkKeeps
    <3>4. CASE PopCas(p)
      <4>1. Right(Tail(s))' /\ s # <<>>
        BY <3>4, PopCasKeeps
      <4>2. Tail(s) \in Seq(Objects)
        BY <4>1, HeadTailProperties
      <4> QED BY <4>1, <4>2
    <3>5. CASE PopAgain(p)
      BY <3>5, PopAgainKeeps
    <3>6. CASE Lock(p)
      BY <3>6, LockKeeps
    <3>7. CASE Expand(p)
      BY <3>7, ExpandKeeps
    <3>8. CASE NoCore(p)
      BY <3>8, NoCoreKeeps
    <3>9. CASE FreeSafe(p)
      BY <3>9, FreeSafeKeeps
    <3>10. CASE PushLoad(p)
      BY <3>10, PushLoadKeeps
    <3>11. CASE PushCas(p)
      BY <3>11, PushCasKeeps
    <3>12. CASE PushAgain(p)
      BY <3>12, PushAgainKeeps
    <3>13. CASE Scribble(p)
      BY <3>13, ScribbleKeeps
    <3> QED BY <2>3, <3>1, <3>2, <3>3, <3>4, <3>5, <3>6, <3>7, <3>8, <3>9, <3>10, <3>11, <3>12, <3>13
  <2>4. ASSUME NEW p \in Procs,
               \/ \E nr \in 1..MaxReserve : ReserveMore(p, nr) \/ Reserved(p, nr)
               \/ AllocUnsafe(p) \/ FreeUnsafe(p)
        PROVE  \E t \in Seq(Objects) : Right(t)'
    <3>1. CASE \E nr \in 1..MaxReserve : ReserveMore(p, nr)
      BY <3>1, ReserveMoreKeeps
    <3>2. CASE \E nr \in 1..MaxReserve : Reserved(p, nr)
      BY <3>2, ReservedKeeps
    <3>3. CASE AllocUnsafe(p)
      BY <3>3, AllocUnsafeKeeps
    <3>4. CASE FreeUnsafe(p)
      BY <3>4, FreeUnsafeKeeps
    <3> QED BY <2>4, <3>1, <3>2, <3>3, <3>4
  <2> QED BY <2>1, <2>2, <2>3, <2>4 DEF Next, SafeCalls, UnsafeCalls
<1> QED BY <1>1

\* The stack is always a chain of distinct free objects, and the other objects of the
\* blocks in use are each on the way to it or with one thread.
THEOREM Invariance ==
    ASSUME SlabAssumption
    PROVE  Spec => []IInv
<1>1. Init => IInv
  <2>1. <<>> \in Seq(Objects)
    OBVIOUS
  <2> QED BY <2>1, InitRight DEF IInv
<1>2. IInv /\ [Next]_vars => IInv'
  <2> SUFFICES ASSUME IInv, [Next]_vars PROVE IInv'
    OBVIOUS
  <2>1. PICK s \in Seq(Objects) : Right(s)
    BY DEF IInv
  <2> QED BY <2>1, NextRight
<1> QED BY <1>1, <1>2, PTL DEF Spec

\* As many as there are places in the sequence.
LEMMA CountElements ==
    ASSUME SlabAssumption, NEW s \in Seq(Objects), Distinct(s)
    PROVE  /\ Cardinality(Elements(s)) = Len(s)
           /\ Len(s) <= Cardinality(Objects) /\ Cardinality(Objects) \in Nat
<1>1. Len(s) \in Nat /\ DOMAIN s = 1 .. Len(s) /\ \A i \in DOMAIN s : s[i] \in Objects
  BY ElementOfSeq, LenProperties
<1>2. s \in [1 .. Len(s) -> Elements(s)]
  BY <1>1 DEF Elements
<1>3. s \in Injection(1 .. Len(s), Elements(s))
  BY <1>1, <1>2 DEF Injection, IsInjective, Distinct
<1>4. s \in Surjection(1 .. Len(s), Elements(s))
  BY <1>1, <1>2 DEF Surjection, Elements
<1>5. ExistsBijection(1 .. Len(s), Elements(s))
  BY <1>3, <1>4 DEF ExistsBijection, Bijection
<1>6. Cardinality(Elements(s)) = Len(s)
  BY <1>1, <1>5, FS_CountingElements
<1>7. IsFiniteSet(Objects)
  <2>1. IsFiniteSet(1..PerSlab) /\ IsFiniteSet(Blocks)
    BY FS_Interval DEF SlabAssumption
  <2> QED BY <2>1, FS_Product DEF Objects
<1>8. Elements(s) \in SUBSET Objects
  BY <1>1 DEF Elements
<1> QED BY <1>6, <1>7, <1>8, FS_Subset, FS_CardinalityType

\* A state of the invariant keeps the objects.
LEMMA RightKeeps ==
    ASSUME SlabAssumption, NEW s \in Seq(Objects), Right(s)
    PROVE  ObjectsKept
<1> USE DEF Right
<1>1. Stack = Elements(s)
  BY StackElements
<1>2. Distinct(s)
  BY DEF StackIs
<1>3. /\ Cardinality(Stack) = Len(s) /\ Len(s) \in Nat
      /\ Len(s) <= Cardinality(Objects) /\ Cardinality(Objects) \in Nat
  BY <1>1, <1>2, CountElements, LenProperties
<1>4. TypeOK
  <2>1. nr_ready \in 0 .. Cardinality(Objects)
    BY <1>3 DEF Counted
  <2>2. magic.seq \in 0 .. (SeqMod - 1)
    BY DEF Types, Word, SlabAssumption
  <2> QED BY <2>1, <2>2 DEF TypeOK, Types, Word
<1>5. \A c : c \in Moving <=> \E p \in Procs : c \in Elements(list[p])
  BY DEF Moving, Elements
<1>6. GivenOnce
  BY <1>1, <1>5 DEF GivenOnce, Apart
<1>7. NoneLost
  <2>1. \A c \in Objects : c \in Active <=> c[1] \in Elements(head_active)
    BY DEF Active, Elements
  <2>2. \A c : InUse(s, c) <=> c \in Stack \cup Moving \cup UNION {owner[p] : p \in Procs}
    BY <1>1, <1>5 DEF InUse
  <2>3. \A c : InUse(s, c) => c \in Objects
    <3>1. ASSUME NEW l \in Seq(Objects) PROVE Elements(l) \subseteq Objects
      BY <3>1, ElementOfSeq, LenProperties DEF Elements
    <3> QED BY <3>1 DEF InUse, Types
  <2>4. Active \subseteq Objects
    BY DEF Active
  <2>5. \A c \in Objects : c \in Active <=> InUse(s, c)
    BY <2>1 DEF Whole
  <2> QED BY <2>2, <2>3, <2>4, <2>5 DEF NoneLost
<1>8. ReadyExact /\ PromiseKept
  BY <1>3 DEF ReadyExact, PromiseKept, Counted
<1> QED BY <1>4, <1>6, <1>7, <1>8 DEF ObjectsKept

\* Whatever the threads interleave, no object is given to two of them or while it is
\* free, none is lost, and as many are free as the count and the reservations say: for
\* astk_pop_safe, astk_push_safe, slab_alloc_safe, slab_free_safe, slab_expand and the
\* unsafe calls.
THEOREM Kept ==
    ASSUME SlabAssumption
    PROVE  Spec => []ObjectsKept
<1>1. IInv => ObjectsKept
  BY RightKeeps DEF IInv
<1> QED BY <1>1, Invariance, PTL

-----------------------------------------------------------------------------
(* The safe calls implement Pool                                             *)

\* What the links lead through, in any state.
StackRight == \A s \in Seq(Objects) : Right(s) => Stack = Elements(s)

\* A step that moves no object is none of Pool's: only what threads know, or links
\* outside of the stack, change.
LEMMA Unmoved ==
    ASSUME NEW s \in Seq(Objects), Right(s), Right(s)', StackRight, StackRight',
           UNCHANGED <<list, owner>>
    PROVE  UNCHANGED <<Stack, Moving, owner>>
<1>1. Stack = Elements(s) /\ Stack' = Elements(s)
  BY DEF StackRight
<1>2. Moving' = Moving
  BY DEF Moving
<1> QED BY <1>1, <1>2

\* What moves is what the threads have in their lists.
LEMMA MovingIs ==
    /\ \A c : c \in Moving <=> \E q \in Procs : c \in Elements(list[q])
    /\ \A c : c \in Moving' <=> \E q \in Procs : c \in Elements(list'[q])
BY DEF Moving, Elements

\* The swap of a pop takes the top.
LEMMA PopCasTakes ==
    ASSUME SlabAssumption, NEW s \in Seq(Objects), Right(s), StackRight, StackRight',
           NEW p \in Procs, PopCas(p)
    PROVE  P!Take(p)
<1>1. /\ Right(Tail(s))' /\ s # <<>>
      /\ owner' = [owner EXCEPT ![p] = @ \cup {s[1]}] /\ UNCHANGED list
  BY PopCasKeeps
<1>2. Distinct(s)
  BY DEF Right, StackIs
<1>3. /\ Tail(s) \in Seq(Objects) /\ Elements(Tail(s)) = Elements(s) \ {s[1]}
      /\ s[1] \in Elements(s)
  BY <1>1, <1>2, WithoutTop
<1>4. Stack = Elements(s) /\ Stack' = Elements(Tail(s))
  BY <1>1, <1>3 DEF StackRight
<1>5. Moving' = Moving
  BY <1>1 DEF Moving
<1>6. s[1] \in Stack /\ Stack' = Stack \ {s[1]}
  BY <1>3, <1>4
<1> QED BY <1>1, <1>5, <1>6 DEF P!Take

\* The objects of a new block were unknown.
LEMMA ExpandBrings ==
    ASSUME SlabAssumption, NEW s \in Seq(Objects), Right(s), StackRight, StackRight',
           NEW p \in Procs, Expand(p)
    PROVE  P!Bring
<1>1. Stack = Elements(s) /\ Stack' = Elements(s)
  BY ExpandKeeps DEF StackRight
<1>2. PICK blk \in Spare : TakeBlock(blk) /\ list' = [list EXCEPT ![p] = ObjectsOf(blk)]
  BY DEF Expand, ChainOf
<1>3. PICK o : o = ObjectsOf(blk)
  OBVIOUS
<1>4. blk \in Blocks /\ blk \notin Elements(head_active)
  BY <1>2, TakeBlockRight DEF Right
<1>5. o \in Seq(Objects) /\ \A c \in Objects : c \in Elements(o) <=> c[1] = blk
  BY <1>3, <1>4, BlockObjects
<1>6. Elements(o) \subseteq Objects
  BY <1>5, ElementOfSeq, LenProperties DEF Elements
<1>7. \A c \in Elements(o) : ~InUse(s, c)
  BY <1>4, <1>5, <1>6 DEF Right, Whole
<1>8. Elements(list[p]) = {}
  BY DEF Expand, Right, Threads, ListRight, Elements
<1>9. \A q \in Procs : list'[q] = IF q = p THEN o ELSE list[q]
  BY <1>2, <1>3 DEF Right, Types
<1>10. Moving' = Moving \cup Elements(o)
  BY <1>8, <1>9, MovingIs
<1>11. Elements(o) \in SUBSET (Objects \ P!Known)
  <2>1. \A c : c \in P!Known => InUse(s, c)
    BY <1>1, MovingIs DEF P!Known, InUse
  <2> QED BY <1>6, <1>7, <2>1
<1>12. UNCHANGED <<Stack, owner>>
  BY <1>1 DEF Expand
<1> QED BY <1>10, <1>11, <1>12 DEF P!Bring

\* An object that is given back is on its way.
LEMMA FreeSafeGives ==
    ASSUME NEW s \in Seq(Objects), Right(s), StackRight, StackRight',
           NEW p \in Procs, FreeSafe(p)
    PROVE  P!GiveBack(p)
<1>1. Stack = Elements(s) /\ Stack' = Elements(s)
  BY FreeSafeKeeps DEF StackRight
<1>2. PICK c \in owner[p] : /\ owner' = [owner EXCEPT ![p] = @ \ {c}]
                            /\ list' = [list EXCEPT ![p] = <<c>>]
  BY DEF FreeSafe
<1>3. PICK o : o = <<c>>
  OBVIOUS
<1>4. Elements(o) = {c}
  BY <1>3 DEF Elements
<1>5. Elements(list[p]) = {}
  BY DEF FreeSafe, Right, Threads, ListRight, Elements
<1>6. \A q \in Procs : list'[q] = IF q = p THEN o ELSE list[q]
  BY <1>2, <1>3 DEF Right, Types
<1>7. Moving' = Moving \cup {c}
  BY <1>4, <1>5, <1>6, MovingIs
<1>8. UNCHANGED Stack
  BY <1>1
<1> QED BY <1>2, <1>7, <1>8 DEF P!GiveBack

\* The swap of a push puts the thread's objects on the stack.
LEMMA PushCasPuts ==
    ASSUME SlabAssumption, NEW s \in Seq(Objects), Right(s), StackRight, StackRight',
           NEW p \in Procs, PushCas(p)
    PROVE  P!Put
<1>1. PICK t \in Seq(Objects) : Right(t)' /\ Elements(t) = Elements(list[p]) \cup Elements(s)
  BY PushCasKeeps
<1>2. list' = [list EXCEPT ![p] = <<>>] /\ UNCHANGED owner
  BY PushCasKeeps
<1>3. Stack = Elements(s) /\ Stack' = Elements(t)
  BY <1>1 DEF StackRight
<1>4. PICK in : in = Elements(list[p])
  OBVIOUS
<1>5. \A q \in Procs : q # p => in \cap Elements(list[q]) = {}
  BY <1>4 DEF Right, Apart
<1>6. Elements(<<>>) = {}
  BY DEF Elements
<1>7. \A q \in Procs : Elements(list'[q]) = IF q = p THEN {} ELSE Elements(list[q])
  BY <1>2, <1>6 DEF Right, Types
<1>8. in \in SUBSET Moving /\ Moving' = Moving \ in
  BY <1>4, <1>5, <1>7, MovingIs
<1>9. Stack' = Stack \cup in
  BY <1>1, <1>3, <1>4
<1> QED BY <1>2, <1>8, <1>9 DEF P!Put

\* slab_free_all leaves nothing.
LEMMA FreeAllClears ==
    ASSUME SlabAssumption, NEW s \in Seq(Objects), Right(s), StackRight', FreeAll
    PROVE  P!Clear
<1>1. <<>> \in Seq(Objects) /\ Elements(<<>>) = {}
  BY DEF Elements
<1>2. Stack' = {}
  BY <1>1, FreeAllKeeps DEF StackRight
<1>3. \A q \in Procs : Elements(list'[q]) = {}
  BY <1>1 DEF FreeAll, regs, Right, Threads, ListRight
<1>4. Moving' = {}
  BY <1>3, MovingIs
<1>5. owner' = [q \in Procs |-> {}]
  BY DEF FreeAll
<1> QED BY <1>2, <1>4, <1>5 DEF P!Clear

\* Every step is one of Pool's, or moves nothing.
LEMMA PoolStep ==
    ASSUME SlabAssumption, Safe, NEW s \in Seq(Objects), Right(s), StackRight, StackRight',
           [Next]_vars
    PROVE  [P!Next]_<<Stack, Moving, owner>>
<1>1. CASE UNCHANGED vars
  <2>1. Right(s)' /\ UNCHANGED <<list, owner>>
    BY <1>1, Stutters DEF vars, regs
  <2> QED BY <2>1, Unmoved
<1>2. CASE FreeAll
  BY <1>2, FreeAllClears DEF P!Next
<1>3. CASE UnsafeCalls
  BY <1>3 DEF UnsafeCalls, ReserveMore, Reserved, AllocUnsafe, FreeUnsafe
<1>4. ASSUME NEW p \in Procs, PopCas(p) \/ Expand(p) \/ FreeSafe(p) \/ PushCas(p)
      PROVE  P!Next
  <2>1. CASE PopCas(p)
    BY <2>1, PopCasTakes DEF P!Next
  <2>2. CASE Expand(p)
    BY <2>2, ExpandBrings DEF P!Next
  <2>3. CASE FreeSafe(p)
    BY <2>3, FreeSafeGives DEF P!Next
  <2>4. CASE PushCas(p)
    BY <2>4, PushCasPuts DEF P!Next
  <2> QED BY <1>4, <2>1, <2>2, <2>3, <2>4
<1>5. ASSUME NEW p \in Procs,
             \/ AllocSafe(p) \/ PopLoad(p) \/ PopLink(p) \/ PopAgain(p) \/ Lock(p) \/ NoCore(p)
             \/ PushLoad(p) \/ PushAgain(p) \/ Scribble(p)
      PROVE  UNCHANGED <<Stack, Moving, owner>>
  <2>1. UNCHANGED <<list, owner>>
    BY <1>5 DEF AllocSafe, PopLoad, PopLink, PopAgain, Lock, NoCore, PushLoad, PushAgain,
                Scribble, regs
  <2>2. Right(s)'
    BY <1>5, AllocSafeKeeps, PopLoadKeeps, PopLinkKeeps, PopAgainKeeps, LockKeeps, NoCoreKeeps,
       PushLoadKeeps, PushAgainKeeps, ScribbleKeeps
  <2> QED BY <2>1, <2>2, Unmoved
<1> QED BY <1>1, <1>2, <1>3, <1>4, <1>5 DEF Next, SafeCalls

\* Seen from outside, the safe calls are a pool: a free object is taken in the one step
\* that swaps the word, an object that is given back or new is free from the swap of
\* its push on, and no other step of any thread moves an object.
THEOREM Implements ==
    ASSUME SlabAssumption, Safe
    PROVE  Spec => IsPool
<1>1. StackRight
  BY StackElements DEF StackRight, Right
<1>2. Init => P!Init
  <2> SUFFICES ASSUME Init PROVE P!Init
    OBVIOUS
  <2>1. <<>> \in Seq(Objects) /\ Elements(<<>>) = {}
    BY DEF Elements
  <2>2. Stack = {}
    BY <1>1, <2>1, InitRight DEF StackRight
  <2>3. \A q \in Procs : Elements(list[q]) = {}
    BY <2>1 DEF Init
  <2>4. Moving = {}
    BY <2>3, MovingIs
  <2> QED BY <2>2, <2>4 DEF Init, P!Init
<1>3. IInv /\ StackRight /\ StackRight' /\ [Next]_vars => [P!Next]_<<Stack, Moving, owner>>
  <2> SUFFICES ASSUME IInv, StackRight, StackRight', [Next]_vars
               PROVE  [P!Next]_<<Stack, Moving, owner>>
    OBVIOUS
  <2>1. PICK s \in Seq(Objects) : Right(s)
    BY DEF IInv
  <2> QED BY <2>1, PoolStep
<1> QED BY <1>1, <1>2, <1>3, Invariance, PTL DEF Spec, IsPool, P!Spec, P!poolVars
=============================================================================
