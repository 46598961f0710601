------------------------------- MODULE WormLeaf -------------------------------
(* The leaves of the index (wh.c). A leaf keeps its keys in an array of slots   *)
(* (hs) in the order of their 16-bit hashes, each as near as can be to the slot *)
(* its hash names, so that a point lookup needs no comparison of keys; a second *)
(* array (ss) lists the slots in the order the keys came, of which a prefix     *)
(* (nr_sorted) is in the order of the keys and the rest is sorted when somebody *)
(* iterates. One thread: whoever changes a leaf has it locked (Wormhole), and   *)
(* the leaf of a key is found by its anchor (WormTrie).                         *)
EXTENDS Integers, Sequences, FiniteSets, SequencesExt

CONSTANTS K,       \* the keys are 1 .. K
          KPN,     \* WH_KPN, the slots of a leaf
          HDIV,    \* WH_HDIV, the hashes that name one slot
          Hashes,  \* the hash functions to choose from
          None     \* an empty slot

VARIABLES pkey,    \* wormhole_pkey of every key: never 0
          list,    \* the leaves from left to right
          present  \* the keys that were put and not deleted

vars == <<pkey, list, present>>

Keys  == 1 .. K
Slots == 0 .. KPN - 1
Mrg   == (KPN + KPN \div 2) \div 2  \* WH_KPN_MRG

NoKeys(a) == [anchor |-> a, hs |-> [i \in Slots |-> None], ss |-> <<>>, sorted |-> 0]

Init == /\ pkey \in Hashes
        /\ list = <<NoKeys(0)>>
        /\ present = {}

-----------------------------------------------------------------------------
(* Reading a leaf                                                            *)

Nr(l)       == Len(l.ss)
Hash(l, i)  == IF l.hs[i] = None THEN 0 ELSE pkey[l.hs[i]]
KeyAt(l, n) == l.hs[l.ss[n]]
KeysOf(l)   == {l.hs[i] : i \in Slots} \ {None}
Home(p)     == p \div HDIV

\* Least and greatest of a set of slots, or what stands for none.
First(S, none) == IF S = {} THEN none ELSE CHOOSE x \in S : \A y \in S : x <= y
Final(S, none) == IF S = {} THEN none ELSE CHOOSE x \in S : \A y \in S : y <= x

\* wormleaf_match_hs, wormleaf_search_ih: from the slot of the hash to the left
\* over greater hashes and to the right over smaller ones; KPN if it is not there.
MatchHs(l, k) ==
    LET p     == pkey[k]
        i0    == Home(p)
        left  == {i \in 0 .. i0 - 1 : \A j \in i .. i0 - 1 : Hash(l, j) >= p}
        right == {i \in i0 + 1 .. KPN - 1 : \A j \in i0 + 1 .. i : Hash(l, j) \in 1 .. p}
    IN  IF l.hs[i0] = None THEN KPN
        ELSE First({i \in {i0} \cup left \cup right : l.hs[i] = k}, KPN)

\* wormleaf_search_ss: binary search among the sorted keys.
SearchSs(l, k) ==
    LET search[lo \in 0 .. l.sorted, hi \in 0 .. l.sorted] ==
            LET i == (lo + hi) \div 2
            IN  IF lo >= hi THEN lo
                ELSE IF k < KeyAt(l, i + 1) THEN search[lo, i] ELSE search[i + 1, hi]
    IN  search[0, l.sorted]

\* wormleaf_search_is: where ss lists a slot.
SearchIs(l, i) == First({n \in 1 .. Nr(l) : l.ss[n] = i}, None)

\* wormleaf_seek: the number of keys before the first that is not smaller.
Seek(l, k) == LET i == MatchHs(l, k)
              IN  IF i < KPN THEN SearchIs(l, i) - 1 ELSE SearchSs(l, k)

\* wormleaf_seek_end; K + 1 stands for no end.
SeekEnd(l, end) == IF l.sorted = 0 \/ end > K THEN Nr(l)
                   ELSE IF end > KeyAt(l, l.sorted) THEN l.sorted
                   ELSE IF end = KeyAt(l, l.sorted) THEN l.sorted - 1
                   ELSE Seek(l, end)

-----------------------------------------------------------------------------
(* Changing a leaf                                                           *)

\* wormleaf_shift_inc, wormleaf_shift_dec: nr slots move by one, and ss follows;
\* the slot at the end that they leave gets an entry.
Shift(l, from, nr, by, entry) ==
    LET moved == from .. from + nr - 1
        free  == IF by = 1 THEN from ELSE from + nr - 1
    IN  [l EXCEPT !.hs = [i \in Slots |-> IF i = free THEN entry
                                         ELSE IF i - by \in moved THEN l.hs[i - by] ELSE l.hs[i]],
                  !.ss = [n \in 1 .. Nr(l) |-> IF l.ss[n] \in moved THEN l.ss[n] + by
                                               ELSE l.ss[n]]]

\* wormleaf_insert_hs, wormleaf_insert_e13: to its own slot if that is empty,
\* else among its equals, with the entries between it and the nearest empty slot
\* on either side pushed along.
InsertE13(l, k) ==
    LET p  == pkey[k]
        i0 == Home(p)
        empty == {i \in Slots : l.hs[i] = None}
        down  == First({i \in 0 .. i0 : \A j \in i .. i0 - 1 : Hash(l, j) >= p}, i0)
        il    == First({i \in down .. KPN - 1 : i \in empty \/ Hash(l, i) >= p}, KPN) - 1
        el    == Final({i \in empty : i <= il /\ i < i0}, None)
        ir    == First({i \in il + 1 .. KPN - 1 : Hash(l, i) # p}, KPN)
        er    == First({i \in empty : i >= ir /\ i > i0}, None)
        dl    == IF el = None THEN KPN ELSE il - el
        dr    == IF er = None THEN KPN ELSE er - ir
        Place(i, nr, by) == LET m == Shift(l, i, nr, by, k)
                            IN  [m EXCEPT !.ss = Append(@, IF by = 1 THEN i ELSE i + nr - 1)]
    IN  IF i0 \in empty THEN Place(i0, 0, 1)
        ELSE IF dl <= dr THEN Place(el + 1, dl, -1)
        ELSE Place(ir, dr, 1)

\* wormleaf_insert: a key that comes in order keeps the leaf sorted.
Insert(l, k) ==
    LET m == InsertE13(l, k)
    IN  IF l.sorted = Nr(l) /\ (Nr(l) = 0 \/ k > KeyAt(l, Nr(l)))
        THEN [m EXCEPT !.sorted = @ + 1] ELSE m

\* Mutated: leaves the hole where it is.
PullIh_Not(l, ih) == Shift(l, ih, 0, 1, None)

\* wormleaf_pull_ih: the hole moves to the far end of the entries that are not
\* at home beyond it.
PullIh(l, ih) ==
    LET out(i, left) == l.hs[i] # None /\ (IF left THEN Home(Hash(l, i)) > i
                                                   ELSE Home(Hash(l, i)) < i)
        i == First({j \in 0 .. ih : \A m \in j .. ih - 1 : out(m, TRUE)}, ih)
        r == Final({j \in ih .. KPN - 1 : \A m \in ih + 1 .. j : out(m, FALSE)}, ih)
    IN  IF i < ih THEN Shift(l, i, ih - i, 1, None) ELSE Shift(l, ih + 1, r - ih, -1, None)

\* wormleaf_remove: the last slot of ss takes the place of the removed one, and
\* what follows is no longer sorted.
RemoveIs(l, n) ==
    PullIh([l EXCEPT !.ss = [m \in 1 .. Nr(l) - 1 |-> l.ss[IF m = n THEN Nr(l) ELSE m]],
                     !.sorted = IF @ > n - 1 THEN n - 1 ELSE @], l.ss[n])

\* wormleaf_delete_range: ss from i0 to end, from the last to the first.
DeleteRange(l, i0, end) ==
    FoldLeft(RemoveIs, l, [n \in 1 .. end - i0 |-> end - n + 1])

\* wormleaf_sync_sorted: sorts what is not sorted and merges the two parts.
SyncSorted(l) ==
    LET ByKey(i, j) == l.hs[i] < l.hs[j]
    IN  IF l.sorted = Nr(l) THEN l
        ELSE [l EXCEPT !.ss = SetToSortSeq(Range(l.ss), ByKey), !.sorted = Nr(l)]

\* A leaf with these keys put in one after the other, the last n unsorted.
Filled(l, ks) == FoldLeft(InsertE13, l, ks)

InOrder(l) == [n \in 1 .. Nr(l) |-> KeyAt(l, n)]

\* wormleaf_merge: the keys of the right leaf in its order.
MergeLeaf(l, r) ==
    [Filled(l, InOrder(r)) EXCEPT !.sorted = IF l.sorted = Nr(l) THEN @ + r.sorted ELSE @]

\* wormhole_split_leaf, wormhole_split_leaf_move1: the sorted keys with the new
\* one among them; cut of them stay. Which cut depends on the bytes of the keys.
SplitLeaf(l, k, cut, a) ==
    LET s   == SyncSorted(l)
        is1 == SearchSs(s, k)
        all == InsertAt(InOrder(s), is1 + 1, k)
    IN  << [Filled(NoKeys(l.anchor), SubSeq(all, 1, cut)) EXCEPT !.sorted = cut],
           [Filled(NoKeys(a), SubSeq(all, cut + 1, Len(all))) EXCEPT !.sorted = Len(all) - cut] >>

-----------------------------------------------------------------------------
(* Operations of the index                                                   *)

\* The place of the leaf a key belongs to.
At(k) == Final({x \in DOMAIN list : list[x].anchor <= k}, 1)

\* wormhole_put, into a leaf with room; an update changes nothing here.
Put(k) == LET x == At(k)
          IN  /\ IF MatchHs(list[x], k) < KPN THEN UNCHANGED list
                 ELSE /\ Nr(list[x]) < KPN
                      /\ list' = [list EXCEPT ![x] = Insert(@, k)]
              /\ present' = present \cup {k}
              /\ UNCHANGED pkey

\* The leaf is full: the parts of the split, at any cut that the keys may ask for.
Halves(k) ==
    LET l   == list[At(k)]
        all == SetToSortSeq(KeysOf(l) \cup {k}, <)
    IN  UNION {{SplitLeaf(l, k, cut, a) : a \in all[cut] + 1 .. all[cut + 1]} : cut \in 1 .. Nr(l)}

Full(k) == MatchHs(list[At(k)], k) = KPN /\ Nr(list[At(k)]) = KPN

PutSplits(k) == /\ Full(k)
                /\ \E h \in Halves(k) :
                      list' = SubSeq(list, 1, At(k) - 1) \o h \o SubSeq(list, At(k) + 1, Len(list))
                /\ present' = present \cup {k}
                /\ UNCHANGED pkey

\* No memory for the trie's nodes: wormleaf_split_undo takes the new key out of
\* its half and merges the halves.
PutFails(k) ==
    LET Without(l) == LET i == MatchHs(l, k) IN IF i < KPN THEN RemoveIs(l, SearchIs(l, i)) ELSE l
    IN  /\ Full(k)
        /\ \E h \in Halves(k) :
              list' = [list EXCEPT ![At(k)] = MergeLeaf(Without(h[1]), Without(h[2]))]
        /\ UNCHANGED <<pkey, present>>

\* The list with leaf x after a deletion: merged with the next one if that is
\* worthwhile (wormhole_del_try_merge, wormhole_meta_leaf_merge).
Merged(ls, x) == SubSeq(ls, 1, x - 1) \o <<MergeLeaf(ls[x], ls[x + 1])>> \o SubSeq(ls, x + 2, Len(ls))

TryMerge(ls, x) ==
    IF x < Len(ls) /\ (Nr(ls[x]) = 0 \/ Nr(ls[x]) + Nr(ls[x + 1]) < Mrg) THEN Merged(ls, x) ELSE ls

\* wormhole_del.
Del(k) == LET x == At(k)
              i == MatchHs(list[x], k)
          IN  /\ i < KPN
              /\ list' = TryMerge([list EXCEPT ![x] = RemoveIs(@, SearchIs(@, i))], x)
              /\ present' = present \ {k}
              /\ UNCHANGED pkey

\* What is left of a leaf without its keys below end.
Trim(l, end) == LET s == SyncSorted(l) IN DeleteRange(s, 0, SeekEnd(s, end))

\* wormhole_delr: from the first leaf to the one that keeps a key, with the
\* emptied leaves between them taken out.
Delr(start, end) ==
    LET x   == At(start)
        s   == SyncSorted(list[x])
        ia  == Seek(s, start)
        iaz == SeekEnd(s, end)
        l   == DeleteRange(s, ia, iaz)
        y   == First({z \in x + 1 .. Len(list) : Nr(Trim(list[z], end)) > 0}, None)
        head == SubSeq(list, 1, x - 1) \o <<l>>
    IN  /\ IF iaz < ia THEN list' = [list EXCEPT ![x] = s]
           ELSE IF Nr(l) > ia THEN list' = TryMerge([list EXCEPT ![x] = l], x)
           ELSE IF y = None THEN list' = head
           ELSE LET ls == head \o <<Trim(list[y], end)>> \o SubSeq(list, y + 1, Len(list))
                IN  list' = IF Nr(ls[x]) + Nr(ls[x + 1]) <= KPN THEN Merged(ls, x) ELSE ls
        /\ present' = present \ (start .. end - 1)
        /\ UNCHANGED pkey

\* wormhole_iter_leaf_sync_sorted: an iterator has come to the leaf.
IterSync(x) == /\ x \in DOMAIN list
               /\ list' = [list EXCEPT ![x] = SyncSorted(@)]
               /\ UNCHANGED <<pkey, present>>

Next == \/ \E k \in Keys : Put(k) \/ PutSplits(k) \/ PutFails(k) \/ Del(k)
        \/ \E start \in Keys, end \in 1 .. K + 1 : Delr(start, end)
        \/ \E x \in 1 .. K : IterSync(x)

Spec == Init /\ [][Next]_vars

-----------------------------------------------------------------------------
\* The shape of the leaves: both arrays, and a sorted part within the second.
TypeOK == /\ pkey \in Hashes /\ present \subseteq Keys
          /\ \A x \in DOMAIN list :
                /\ list[x].hs \in [Slots -> Keys \cup {None}]
                /\ list[x].ss \in Seq(Slots)
                /\ list[x].sorted \in 0 .. Nr(list[x])

\* A lookup by hash finds a key exactly if it was put and not deleted, however
\* the entries were pushed and pulled around.
LookupExact == \A k \in Keys : (MatchHs(list[At(k)], k) < KPN) <=> (k \in present)

\* Entries are in the order of their hashes, and between an entry and the slot
\* its hash names there is no empty slot: what a lookup relies on.
HashOrder ==
    \A x \in DOMAIN list : LET l == list[x] IN
        /\ \A i, j \in Slots : i < j /\ l.hs[i] # None /\ l.hs[j] # None => Hash(l, i) <= Hash(l, j)
        /\ \A i \in Slots : l.hs[i] # None =>
              LET h == Home(Hash(l, i))
              IN  \A j \in (i .. h) \cup (h .. i) : l.hs[j] # None

\* ss lists every slot in use once, and its sorted part is sorted.
SlotsListed ==
    \A x \in DOMAIN list : LET l == list[x] IN
        /\ {l.ss[n] : n \in 1 .. Nr(l)} = {i \in Slots : l.hs[i] # None}
        /\ Cardinality(KeysOf(l)) = Nr(l)
        /\ \A n \in 1 .. l.sorted - 1 : KeyAt(l, n) < KeyAt(l, n + 1)

\* A seek in a sorted leaf comes to the first key that is not smaller.
SeekExact ==
    \A x \in DOMAIN list : LET s == SyncSorted(list[x]) IN
        \A k \in Keys : /\ Seek(s, k) = Cardinality({y \in KeysOf(s) : y < k})
                        /\ SeekEnd(s, k) = Seek(s, k)
=============================================================================
