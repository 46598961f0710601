------------------------------ MODULE WormTable ------------------------------
(* The hash table of the trie, wormhmap in wh.c: buckets of WH_BKT_NR           *)
(* slots, filled from the left; a node is in the bucket of its hash or in that  *)
(* of the hash with its bytes swapped, and makes room by pushing others to      *)
(* their second bucket. One thread: the writer has the meta lock and a copy of  *)
(* the table that nobody reads (Wormhole).                                      *)
EXTENDS Integers, Sequences, FiniteSets, SequencesExt

CONSTANTS Nodes,   \* the prefixes that can have a node
          Hashes,  \* the pairs of hash and swapped hash to choose from
          Bkt,     \* WH_BKT_NR
          Size0,   \* WH_HMAPINIT_SIZE
          MaxSize  \* bound: no expansion beyond it

VARIABLES hash,   \* hash32 of every node, and wormhole_bswap of it
          table,  \* the buckets: sequences of entries, a node and its version
          nodes   \* the versions of the nodes that were set and not deleted

vars == <<hash, table, nodes>>

Init == /\ hash \in Hashes
        /\ table = [b \in 0 .. Size0 - 1 |-> <<>>]
        /\ nodes = {}

Buckets(t)   == Cardinality(DOMAIN t)
Home(t, e)   == hash[e[1]][1] % Buckets(t)
Second(t, e) == hash[e[1]][2] % Buckets(t)

\* wormhmap_slot_count: a bucket is filled from the left.
Room(t, b) == Len(t[b]) < Bkt

-----------------------------------------------------------------------------
(* Reading                                                                   *)

\* wormhmap_get, wormhmap_get_slot: the entries of a node in its two buckets.
Get(t, k) == {e \in ToSet(t[hash[k][1] % Buckets(t)]) \cup ToSet(t[hash[k][2] % Buckets(t)]) : e[1] = k}

-----------------------------------------------------------------------------
(* Making room                                                               *)

Stuck == [done |-> FALSE, loops |-> FALSE]

\* The other bucket of an entry, from the one it is in.
Other(t, b, e) == IF Home(t, e) # b THEN Home(t, e) ELSE Second(t, e)

\* wormhmap_cuckoo: puts e into bucket b, if need be in the place of an entry that
\* finds room in its other bucket; a push back to the first bucket costs no
\* depth. Nothing is written before a call has succeeded, so a call that comes
\* again to a bucket at the depth of a call that waits for it never returns.
RECURSIVE Cuckoo(_, _, _, _, _), Push(_, _, _, _, _, _)

Cuckoo(t, b, e, depth, waiting) ==
    IF Room(t, b) THEN [done |-> TRUE, loops |-> FALSE, table |-> [t EXCEPT ![b] = Append(@, e)]]
    ELSE IF depth = 0 THEN Stuck
    ELSE IF <<b, depth>> \in waiting THEN [done |-> FALSE, loops |-> TRUE]
    ELSE Push(t, b, e, depth, waiting \cup {<<b, depth>>}, 1)

\* The loop over the entries of the bucket, from the i-th.
Push(t, b, e, depth, waiting, i) ==
    IF i > Bkt THEN Stuck
    ELSE LET x    == t[b][i]
             o    == Other(t, b, x)
             cost == IF o = Home(t, x) THEN 0 ELSE 1
             c    == Cuckoo(t, o, x, depth - cost, waiting)
         IN  IF o = b THEN Push(t, b, e, depth, waiting, i + 1)
             ELSE IF c.loops THEN c
             ELSE IF c.done THEN [c EXCEPT !.table[b][i] = e]
             ELSE Push(t, b, e, depth, waiting, i + 1)

\* The three tries of wormhmap_set.
Try(t, e) ==
    LET one   == Cuckoo(t, Home(t, e), e, 1, {})
        two   == Cuckoo(t, Second(t, e), e, 1, {})
        three == Cuckoo(t, Home(t, e), e, 2, {})
    IN  IF one.done \/ one.loops THEN one ELSE IF two.done \/ two.loops THEN two ELSE three

\* An entry of bucket b moves to its first bucket, the last one to its place.
GoHome(t, b, i) ==
    LET last == Len(t[b])
    IN  [c \in DOMAIN t |->
            IF c = b THEN [j \in 1 .. last - 1 |-> t[b][IF j = i THEN last ELSE j]]
            ELSE IF c = Home(t, t[b][i]) THEN Append(t[c], t[b][i]) ELSE t[c]]

\* wormhmap_squeeze: the buckets from the first, their entries from the last.
Squeeze(t) ==
    LET one(u, i, b) == IF i <= Len(u[b]) /\ Home(u, u[b][i]) # b /\ Room(u, Home(u, u[b][i]))
                        THEN GoHome(u, b, i) ELSE u
        bucket(u, b) == FoldLeft(LAMBDA v, i : one(v, i, b), u, [j \in 1 .. Len(u[b]) |-> Len(u[b]) + 1 - j])
    IN  FoldLeft(bucket, t, [j \in 1 .. Buckets(t) |-> j - 1])

\* wormhmap_expand: twice the buckets; an entry stays with the hash by which it
\* is in its bucket.
Expand(t) ==
    LET m == 2 * Buckets(t)
        To(e, b) == hash[e[1]][IF Home(t, e) = b THEN 1 ELSE 2] % m
    IN  Squeeze([b \in 0 .. m - 1 |->
                    SelectSeq(t[b % Buckets(t)], LAMBDA e : To(e, b % Buckets(t)) = b)])

-----------------------------------------------------------------------------
(* Calls                                                                     *)

\* wormhmap_set: expands until a try succeeds.
RECURSIVE Placed(_, _)
Placed(t, e) ==
    IF Try(t, e).done \/ Try(t, e).loops \/ 2 * Buckets(t) > MaxSize THEN Try(t, e)
    ELSE Placed(Expand(t), e)

Set(k) == /\ ~ \E e \in nodes : e[1] = k
          /\ Placed(table, <<k, 0>>).done
          /\ table' = Placed(table, <<k, 0>>).table
          /\ nodes' = nodes \cup {<<k, 0>>}
          /\ UNCHANGED hash

\* The slot of an entry.
SlotOf(t, b, e) == SelectInSeq(t[b], LAMBDA x : x = e)

\* Mutated: leaves the place empty and what is behind it unseen.
DelFrom_Cut(t, b, e) == [t EXCEPT ![b] = SubSeq(@, 1, SlotOf(t, b, e) - 1)]

\* wormhmap_del_slot: the last entry of the bucket takes the place.
DelFrom(t, b, e) ==
    LET i    == SlotOf(t, b, e)
        last == Len(t[b])
    IN  [t EXCEPT ![b] = [j \in 1 .. last - 1 |-> t[b][IF j = i THEN last ELSE j]]]

\* The bucket in which wormhmap_del and wormhmap_replace find an entry.
PlaceOf(t, e) == IF e \in ToSet(t[Home(t, e)]) THEN Home(t, e) ELSE Second(t, e)

\* wormhmap_del.
Del(e) == /\ table' = DelFrom(table, PlaceOf(table, e), e)
          /\ nodes' = nodes \ {e}
          /\ UNCHANGED hash

\* wormhmap_replace: the node was allocated anew (wormmeta_expand, wormmeta_shrink).
Replace(e) ==
    LET b   == PlaceOf(table, e)
        new == <<e[1], 1 - e[2]>>
    IN  /\ table' = [table EXCEPT ![b][SlotOf(table, b, e)] = new]
        /\ nodes' = (nodes \ {e}) \cup {new}
        /\ UNCHANGED hash

Next == \/ \E k \in Nodes : Set(k)
        \/ \E e \in nodes : Del(e)
        \/ \E e \in nodes : Replace(e)

Spec == Init /\ [][Next]_vars

-----------------------------------------------------------------------------
\* No bucket holds more than WH_BKT_NR entries, within the sizes of the table.
TypeOK == /\ hash \in Hashes
          /\ Buckets(table) \in Size0 .. MaxSize
          /\ \A b \in DOMAIN table : Len(table[b]) <= Bkt

\* Whatever was pushed, moved back or spread over more buckets: a lookup of a
\* node finds its last version and nothing else, one of another node nothing.
LookupExact == \A k \in Nodes : Get(table, k) = {e \in nodes : e[1] = k}

\* No entry is in the table twice or left behind.
EntriesOnce ==
    LET slots == {p \in (DOMAIN table) \X (1 .. Bkt) : p[2] <= Len(table[p[1]])}
    IN  Cardinality(slots) = Cardinality(nodes)

\* A set comes to an end: it places the node, or it has tried and expands.
SetEnds == \A k \in Nodes : (\E e \in nodes : e[1] = k) \/ ~ Try(table, <<k, 0>>).loops
=============================================================================
