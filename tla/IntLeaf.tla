------------------------------- MODULE IntLeaf -------------------------------
(* The index of the integer variant (wh_int.c), as one thread sees it: leaves   *)
(* that keep keys of at most eight bytes in the order they came, of which a     *)
(* prefix (nr_sorted) is sorted, and an iterator over them. A leaf is found by  *)
(* its anchor, through the trie of WormTrie, and locked as in Wormhole.         *)
EXTENDS Integers, Sequences, FiniteSets, SequencesExt

CONSTANTS Keys,    \* keys: sequences of 1 .. Width bytes
          Width,   \* the bytes of the word that holds a key: 8
          KPN,     \* WH_KPN, the keys of a leaf
          None,    \* an iterator without a leaf
          Sought,  \* a put or a delete comes after a seek to its key
          Merges   \* a deletion may count sorted keys twice when it merges two leaves

ASSUME IntAssumption == /\ KPN \in Nat \ {0, 1} /\ Width \in Nat \ {0}
                        /\ \A k \in Keys : k \in Seq(0 .. 255) /\ Len(k) \in 1 .. Width
                        /\ Sought \in BOOLEAN /\ Merges \in BOOLEAN

VARIABLES list,     \* the leaves from left to right
          present,  \* the keys that were put and not deleted
          it        \* the iterator: a leaf and a place in it

vars == <<list, present, it>>

Mid == KPN \div 2          \* WH_MID
Mrg == (KPN + Mid) \div 2  \* WH_KPN_MRG

NewLeaf(a, ks) == [anchor |-> a, kvs |-> ks, sorted |-> Len(ks)]
Nr(l)          == Len(l.kvs)
KeysOf(l)      == {l.kvs[n] : n \in 1 .. Nr(l)}

-----------------------------------------------------------------------------
(* Keys                                                                      *)

\* A byte of the word, in memory order; bytes behind the key are zero.
Byte(k, n) == IF n <= Len(k) THEN k[n] ELSE 0

\* compare_int_isp, compare_isp_isp: the words, and the shorter key first.
Before(a, b) ==
    \/ \E n \in 1 .. Width : /\ Byte(a, n) < Byte(b, n)
                             /\ \A m \in 1 .. n - 1 : Byte(a, m) = Byte(b, m)
    \/ /\ \A n \in 1 .. Width : Byte(a, n) = Byte(b, n)
       /\ Len(a) < Len(b)

InKeyOrder(S) == SetToSortSeq(S, Before)

\* isp_key_lcp.
Lcp(a, b) == Len(LongestCommonPrefix({a, b}))

-----------------------------------------------------------------------------
(* A leaf                                                                    *)

\* wormleaf_int_search: the place of the first sorted key that is not smaller,
\* by halves; one more than nr_sorted if there is none.
Search(l, k) ==
    LET search[lo \in 0 .. l.sorted, hi \in 1 .. l.sorted + 1] ==
            LET i == (lo + hi) \div 2
            IN  IF hi - lo <= 1 THEN hi
                ELSE IF Before(l.kvs[i], k) THEN search[i, hi] ELSE search[lo, i]
    IN  search[0, l.sorted + 1]

\* wormleaf_int_search_eq: looks at one key more than the sorted ones.
Found(l, k) == Search(l, k) <= Nr(l) /\ l.kvs[Search(l, k)] = k

\* wormleaf_int_seek_end.
SeekEnd(l, k) == IF l.sorted = 0 THEN 1
                 ELSE IF Before(l.kvs[l.sorted], k) THEN l.sorted + 1
                 ELSE IF l.kvs[l.sorted] = k THEN l.sorted ELSE Search(l, k)

\* wormleaf_int_sync_sorted: sorts what is not sorted and merges the two parts.
SyncSorted(l) == IF l.sorted = Nr(l) THEN l
                 ELSE [l EXCEPT !.kvs = SortSeq(l.kvs, Before), !.sorted = Nr(l)]

\* wormleaf_int_insert, wormleaf_int_insert_isp: a key that comes in order keeps
\* the leaf sorted.
Insert(l, k) ==
    [l EXCEPT !.kvs = Append(@, k),
              !.sorted = IF @ = Nr(l) /\ (Nr(l) = 0 \/ ~ Before(k, l.kvs[Nr(l)])) THEN @ + 1 ELSE @]

\* Mutated: the sorted part is as long as before.
Remove_Sorted(l, n) ==
    [l EXCEPT !.kvs = [m \in 1 .. Nr(l) - 1 |-> l.kvs[IF m = n THEN Nr(l) ELSE m]],
              !.sorted = IF @ = Nr(l) THEN @ - 1 ELSE @]

\* wormleaf_int_remove: the last key takes the place of the removed one.
RemoveKey(l, n) ==
    [l EXCEPT !.kvs = [m \in 1 .. Nr(l) - 1 |-> l.kvs[IF m = n THEN Nr(l) ELSE m]],
              !.sorted = IF @ >= n THEN n - 1 ELSE @]

\* wormleaf_int_delete_range: from the last place to the first.
DeleteRange(l, from, end) ==
    FoldLeft(RemoveKey, l, [n \in 1 .. end - from |-> end - n])

\* wormleaf_merge: the keys of the right leaf one by one, and its count of
\* sorted ones on top of what the insertions counted.
MergeLeaf(l, r) ==
    LET m == FoldLeft(Insert, l, r.kvs)
    IN  IF l.sorted = Nr(l) THEN [m EXCEPT !.sorted = @ + r.sorted] ELSE m

\* Two leaves of which a merge counts sorted keys twice.
Miscounts(l, r) == l.sorted = Nr(l) /\ r.sorted > 0

-----------------------------------------------------------------------------
(* Splitting a leaf                                                          *)

\* wormhole_isp_split_cut_alen_check: by the byte that a shift of the word finds.
AlenCheck(alen, a, b) ==
    Len(a) < alen \/ Byte(a, Width - alen + 1) # Byte(b, Width - alen + 1)

\* wormhole_split_cut_search1: the keys (the new one among them) that stay.
Cut(all, last) ==
    LET alen   == Lcp(all[1], all[Len(all)]) + 1
        target == IF last THEN Mrg ELSE Mid
        search[lo \in 0 .. KPN, hi \in 0 .. KPN] ==
            LET m == (lo + hi + 1) \div 2
            IN  IF lo + 1 >= hi THEN hi
                ELSE IF m <= target
                     THEN IF AlenCheck(alen, all[m + 1], all[hi + 1]) THEN search[m, hi] ELSE search[lo, m]
                     ELSE IF AlenCheck(alen, all[lo + 1], all[m + 1]) THEN search[lo, m] ELSE search[m, hi]
    IN  search[0, Len(all) - 1]

\* wormhole_isp_split_alloc_anchor.
Anchor(a, b) == SubSeq(b, 1, Lcp(a, b) + 1)

\* wormhole_split_leaf, wormhole_split_leaf_move1.
SplitLeaf(l, k, last) ==
    LET s   == SyncSorted(l)
        all == InsertAt(s.kvs, Search(s, k), k)
        cut == Cut(all, last)
    IN  << NewLeaf(l.anchor, SubSeq(all, 1, cut)),
           NewLeaf(Anchor(all[cut], all[cut + 1]), SubSeq(all, cut + 1, Len(all))) >>

-----------------------------------------------------------------------------
(* The list of leaves                                                        *)

\* wormhole_jump_leaf: the leaf with the greatest anchor that is not greater.
At(ls, k) == CHOOSE x \in DOMAIN ls : /\ ~ Before(k, ls[x].anchor)
                                      /\ x < Len(ls) => Before(k, ls[x + 1].anchor)

\* wormhole_int_put: an update changes no key.
PutIn(ls, k) ==
    LET x == At(ls, k)
        l == ls[x]
    IN  IF Found(l, k) THEN ls
        ELSE IF Nr(l) < KPN THEN [ls EXCEPT ![x] = Insert(l, k)]
        ELSE SubSeq(ls, 1, x - 1) \o SplitLeaf(l, k, x = Len(ls)) \o SubSeq(ls, x + 1, Len(ls))

Merged(ls, x) == SubSeq(ls, 1, x - 1) \o <<MergeLeaf(ls[x], ls[x + 1])>> \o SubSeq(ls, x + 2, Len(ls))

\* wormhole_del_try_merge.
Small(ls, x) == x < Len(ls) /\ (Nr(ls[x]) = 0 \/ Nr(ls[x]) + Nr(ls[x + 1]) < Mrg)

TryMerge(ls, x) == IF Small(ls, x) THEN Merged(ls, x) ELSE ls

\* wormhole_int_del.
Without(ls, k) == [ls EXCEPT ![At(ls, k)] = RemoveKey(@, Search(@, k))]

DelFrom(ls, k) ==
    LET x == At(ls, k)
    IN  IF Found(ls[x], k) THEN TryMerge(Without(ls, k), x) ELSE ls

\* Clear of the deletions that miscount a merge, unless Merges is TRUE.
DelClear(ls, k) ==
    LET x == At(ls, k)
        w == Without(ls, k)
    IN  ~ Merges /\ Found(ls[x], k) /\ Small(w, x) => ~ Miscounts(w[x], w[x + 1])

\* wormhole_int_iter_fix: on to the first leaf with a key, sorting on the way.
Fix(ls, x, n) ==
    LET ahead == {y \in x + 1 .. Len(ls) : Nr(ls[y]) > 0}
        y     == CHOOSE z \in ahead : \A w \in ahead : z <= w
        synced(to) == SubSeq(ls, 1, x) \o [d \in 1 .. to - x |-> SyncSorted(ls[x + d])]
                      \o SubSeq(ls, to + 1, Len(ls))
    IN  IF n <= ls[x].sorted THEN [list |-> ls, it |-> <<x, n>>]
        ELSE IF ahead = {} THEN [list |-> ls, it |-> None]
        ELSE [list |-> synced(y), it |-> <<y, 1>>]

\* wormhole_int_iter_fix_rev: back to the last key before.
FixRev(ls, x, n) ==
    LET behind == {y \in 1 .. x - 1 : Nr(ls[y]) > 0}
        y      == CHOOSE z \in behind : \A w \in behind : w <= z
    IN  IF n >= 1 THEN [list |-> ls, it |-> <<x, n>>]
        ELSE IF behind = {} THEN [list |-> ls, it |-> None]
        ELSE [list |-> [ls EXCEPT ![y] = SyncSorted(@)], it |-> <<y, Nr(ls[y])>>]

\* wormhole_int_iter_seek.
SeekTo(ls, k) == LET x == At(ls, k)
                     s == [ls EXCEPT ![x] = SyncSorted(@)]
                 IN  Fix(s, x, Search(s[x], k))

\* wormhole_int_iter_skip1, wormhole_int_iter_skip1_rev: none without a leaf.
StepOn(c)   == IF c.it = None THEN c ELSE Fix(c.list, c.it[1], c.it[2] + 1)
StepBack(c) == IF c.it = None THEN c ELSE FixRev(c.list, c.it[1], c.it[2] - 1)

\* wormhole_int_iter_current.
Current(c) == c.list[c.it[1]].kvs[c.it[2]]

-----------------------------------------------------------------------------
(* Calls                                                                     *)

Init == list = <<NewLeaf(<<>>, <<>>)>> /\ present = {} /\ it = None

Moves(c) == list' = c.list /\ it' = c.it /\ UNCHANGED present

\* Whoever has a leaf locked through the iterator calls nothing that writes.
Put(k) == /\ it = None
          /\ Sought => list[At(list, k)].sorted = Nr(list[At(list, k)])
          /\ list' = PutIn(list, k)
          /\ present' = present \cup {k}
          /\ UNCHANGED it

Del(k) == /\ it = None
          /\ Sought => list[At(list, k)].sorted = Nr(list[At(list, k)])
          /\ DelClear(list, k)
          /\ list' = DelFrom(list, k)
          /\ present' = present \ {k}
          /\ UNCHANGED it

\* Mutated: the end goes with the rest.
Delr_End(start, end) ==
    LET x  == At(list, start)
        s  == SyncSorted(list[x])
        ia == Search(s, start)
        iz == SeekEnd(s, end)
        l  == DeleteRange(s, ia, IF iz <= Nr(s) THEN iz + 1 ELSE iz)
    IN  /\ it = None /\ ia <= iz
        /\ list' = [list EXCEPT ![x] = l]
        /\ present' = {k \in present : Before(k, start) \/ ~ Before(k, end)}
        /\ UNCHANGED it

\* wormhole_int_delr: the keys from start to before end; the leaves that are
\* emptied on the way are merged away.
Delr(start, end) ==
    LET x   == At(list, start)
        s   == SyncSorted(list[x])
        ia  == Search(s, start)
        iz  == SeekEnd(s, end)
        l   == DeleteRange(s, ia, iz)
        Trim(r) == LET t == SyncSorted(r) IN DeleteRange(t, 1, SeekEnd(t, end))
        left == {y \in x + 1 .. Len(list) : Nr(Trim(list[y])) > 0}
        y    == CHOOSE z \in left : \A w \in left : z <= w
        rest == IF Nr(l) >= ia THEN SubSeq(list, x + 1, Len(list))
                ELSE IF left = {} THEN <<>>
                ELSE <<Trim(list[y])>> \o SubSeq(list, y + 1, Len(list))
        ls   == SubSeq(list, 1, x - 1) \o <<l>> \o rest
        joins == IF Nr(l) >= ia THEN Small(ls, x)
                 ELSE rest # <<>> /\ Nr(l) + Nr(ls[x + 1]) <= KPN
    IN  /\ it = None
        /\ \/ iz < ia /\ list' = [list EXCEPT ![x] = s]
           \/ /\ ia <= iz
              /\ ~ Merges /\ joins => ~ Miscounts(l, ls[x + 1])
              /\ list' = IF joins THEN Merged(ls, x) ELSE ls
        /\ present' = {k \in present : Before(k, start) \/ ~ Before(k, end)}
        /\ UNCHANGED it

Seek(k)  == Moves(SeekTo(list, k))
Skip1    == it # None /\ Moves(StepOn([list |-> list, it |-> it]))
Skip1Rev == it # None /\ Moves(StepBack([list |-> list, it |-> it]))
Park     == it # None /\ it' = None /\ UNCHANGED <<list, present>>

Next == \/ \E k \in Keys : Put(k) \/ Del(k) \/ Seek(k)
        \/ \E a, b \in Keys : Delr(a, b)
        \/ Skip1 \/ Skip1Rev \/ Park

Spec == Init /\ [][Next]_vars

-----------------------------------------------------------------------------
\* The shape of the leaves, none over WH_KPN keys; an iterator is inside its leaf.
TypeOK == /\ present \subseteq Keys
          /\ it = None \/ (it[1] \in DOMAIN list /\ it[2] \in 1 .. Nr(list[it[1]]))
          /\ \A x \in DOMAIN list : list[x].kvs \in Seq(Keys) /\ Nr(list[x]) <= KPN

\* Every key that was put and not deleted is in one place of one leaf, the leaf
\* that its anchor leads to, and no other key is.
KeysOnce ==
    LET places == {<<x, n>> \in (DOMAIN list) \X (1 .. KPN) : n <= Nr(list[x])}
    IN  /\ {list[p[1]].kvs[p[2]] : p \in places} = present
        /\ Cardinality(places) = Cardinality(present)
        /\ \A p \in places : At(list, list[p[1]].kvs[p[2]]) = p[1]

\* The sorted part of a leaf is a part of it, and sorted.
SortedPrefix ==
    \A x \in DOMAIN list : LET l == list[x] IN
        /\ l.sorted <= Nr(l)
        /\ \A n \in 1 .. l.sorted - 1 : Before(l.kvs[n], l.kvs[n + 1])

\* An iterator comes from a key to the one that follows it among all keys, and
\* back to the one before, over the borders of the leaves.
NeighboursMet ==
    it # None =>
        LET here == [list |-> list, it |-> it]
            on   == StepOn(here)
            back == StepBack(here)
            k    == Current(here)
            after  == {y \in present : Before(k, y)}
            before == {y \in present : Before(y, k)}
        IN  /\ IF after = {} THEN on.it = None
               ELSE on.it # None /\ Current(on) = InKeyOrder(after)[1]
            /\ IF before = {} THEN back.it = None
               ELSE back.it # None /\ Current(back) = Last(InKeyOrder(before))

\* A seek comes to the least key that is not smaller, whatever is unsorted.
SeekRight ==
    \A k \in Keys :
        LET c == SeekTo(list, k)
            from == {y \in present : ~ Before(y, k)}
        IN  IF from = {} THEN c.it = None ELSE c.it # None /\ Current(c) = InKeyOrder(from)[1]

\* A full leaf is cut where the anchor can be short: one byte more than all its
\* keys and the new one share.
AnchorShort ==
    \A x \in DOMAIN list : \A k \in Keys \ present :
        x = At(list, k) /\ Nr(list[x]) = KPN =>
            LET all == InKeyOrder(KeysOf(list[x]) \cup {k})
                h   == SplitLeaf(list[x], k, x = Len(list))
            IN  Len(h[2].anchor) = Lcp(all[1], Last(all)) + 1
=============================================================================
