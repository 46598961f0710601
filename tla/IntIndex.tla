------------------------------- MODULE IntIndex -------------------------------
(* The index of the integer variant as a whole (wh_int.c), as one thread sees   *)
(* it: the leaves of IntLeaf, found through a trie like that of WormTrie, over  *)
(* the anchors that splits really make. Besides the calls that take locks there *)
(* are the ones for a single thread (whunsafe), which merge to both sides, and  *)
(* a put for which memory runs out.                                             *)
EXTENDS IntLeaf

CONSTANT Bytes  \* the values of a key's byte

ASSUME BytesAssumption == Bytes \subseteq 0 .. 255 /\ \A k \in Keys : k \in Seq(Bytes)

VARIABLES node,    \* the nodes of the hash table by their prefixes
          maxplen  \* no node has a longer prefix

trieVars  == <<node, maxplen>>
indexVars == <<vars, trieVars>>

AnchorsOf(ls) == {ls[x].anchor : x \in DOMAIN ls}

T == INSTANCE WormTrie WITH Tokens <- Bytes, Pool <- Keys, MaxLeaves <- Cardinality(Keys),
                            anchors <- AnchorsOf(list)

-----------------------------------------------------------------------------
(* Lookups                                                                   *)

\* wormhole_meta_lcp and wormhole_meta_down.
MetaLcp(k)     == T!LongestPrefix(k, {})
MetaDown(k, n) == T!MetaDown(k, n)

\* wormhole_jump_leaf: the place of the leaf in the list.
JumpLeaf(k) == CHOOSE x \in DOMAIN list : list[x].anchor = MetaDown(k, MetaLcp(k))

\* wormhole_int_get, wormhole_int_probe.
Get(k) == Found(list[JumpLeaf(k)], k)

\* An iterator's seek sorts the leaf it comes to.
Look(k) == /\ list' = [list EXCEPT ![JumpLeaf(k)] = SyncSorted(@)]
           /\ UNCHANGED <<present, it, trieVars>>

-----------------------------------------------------------------------------
(* Puts                                                                      *)

\* wormmeta_split and what it calls, for the new leaf a of the list ls.
SplitNodes(ls, a) == T!SplitNodes(AnchorsOf(ls), node, a)

\* Clear of the merges that count the sorted keys of the right leaf twice.
Clean == Merges \/ SortedPrefix'

Replaced(ls, x, new) == SubSeq(ls, 1, x - 1) \o new \o SubSeq(ls, x + 1, Len(ls))

Halves(x, k) == SplitLeaf(list[x], k, x = Len(list))

\* Mutated: the trie keeps its depth.
SplitInsert_Flat(x, k) ==
    LET ls == Replaced(list, x, Halves(x, k))
    IN  /\ list' = ls
        /\ node' = SplitNodes(ls, ls[x + 1].anchor)
        /\ UNCHANGED maxplen

\* wormhole_split_insert, wormhole_split_meta: the leaves, then the trie.
SplitInsert(x, k) ==
    LET ls == Replaced(list, x, Halves(x, k))
        a  == ls[x + 1].anchor
    IN  /\ list' = ls
        /\ node' = SplitNodes(ls, a)
        /\ maxplen' = IF Len(a) > maxplen THEN Len(a) ELSE maxplen

Careful(x) == Sought => list[x].sorted = Nr(list[x])

\* wormhole_int_put.
IndexPut(k) ==
    LET x == JumpLeaf(k)
    IN  /\ Careful(x)
        /\ \/ Found(list[x], k) /\ UNCHANGED <<list, trieVars>>
           \/ /\ ~ Found(list[x], k) /\ Nr(list[x]) < KPN
              /\ list' = [list EXCEPT ![x] = Insert(@, k)]
              /\ UNCHANGED trieVars
           \/ ~ Found(list[x], k) /\ Nr(list[x]) = KPN /\ SplitInsert(x, k)
        /\ present' = present \cup {k}
        /\ UNCHANGED it

\* wormleaf_split_undo: the new key is taken out of its half, and the halves are
\* made one again.
Undone(h, k) ==
    LET d(l) == IF Found(l, k) THEN RemoveKey(l, Search(l, k)) ELSE l
    IN  MergeLeaf(d(h[1]), d(h[2]))

\* No memory for the nodes: the put fails.
PutFails(k) ==
    LET x == JumpLeaf(k)
    IN  /\ Careful(x)
        /\ ~ Found(list[x], k) /\ Nr(list[x]) = KPN
        /\ list' = [list EXCEPT ![x] = Undone(Halves(x, k), k)]
        /\ Clean
        /\ UNCHANGED <<present, it, trieVars>>

-----------------------------------------------------------------------------
(* Deletions: an index is a list of leaves and the nodes over it             *)

Index(ls, nodes) == [list |-> ls, node |-> nodes]

\* wormhole_meta_merge, whunsafe_int_meta_leaf_merge: a leaf and the next.
MergeAt(s, x) ==
    Index(Merged(s.list, x), T!MergeNodes(AnchorsOf(s.list), s.node, s.list[x + 1].anchor))

\* wormhole_del_try_merge.
TryNext(s, x) == IF Small(s.list, x) THEN MergeAt(s, x) ELSE s

\* whunsafe_int_del_try_merge: with the leaf before, else with the next.
TryBoth(s, x) ==
    LET n(y)  == IF y \in DOMAIN s.list THEN Nr(s.list[y]) ELSE KPN
        small(y) == n(y) + n(x) < Mrg \/ (y \in DOMAIN s.list /\ n(x) = 0)
    IN  IF small(x - 1) THEN MergeAt(s, x - 1) ELSE IF small(x + 1) THEN MergeAt(s, x) ELSE s

Becomes(s) == list' = s.list /\ node' = s.node /\ Clean /\ UNCHANGED <<maxplen, it>>

Removed(x, k) == Index([list EXCEPT ![x] = RemoveKey(@, Search(@, k))], node)

\* wormhole_int_del and whunsafe_int_del.
IndexDel(k) ==
    LET x == JumpLeaf(k)
    IN  /\ Careful(x)
        /\ IF Found(list[x], k) THEN Becomes(TryNext(Removed(x, k), x))
                                ELSE UNCHANGED <<list, it, trieVars>>
        /\ present' = present \ {k}

UnsafeDel(k) ==
    LET x == JumpLeaf(k)
    IN  /\ Careful(x)
        /\ Found(list[x], k)
        /\ Becomes(TryBoth(Removed(x, k), x))
        /\ present' = present \ {k}

\* The leaves between x and z lose their keys and are merged into x, one by one.
Emptied(s, x, z) ==
    FoldLeft(LAMBDA t, y : MergeAt(Index([t.list EXCEPT ![x + 1] = NewLeaf(@.anchor, <<>>)],
                                         t.node), x),
             s, [y \in 1 .. z - x - 1 |-> y])

\* The rest of a deletion that goes beyond its first leaf x, up to the leaf z
\* of the end; there is none (z is behind the last leaf) if all keys go.
DeletedTo(s, x, z, end) ==
    LET e == Emptied(s, x, z)
        l == SyncSorted(e.list[x + 1])
    IN  IF x + 1 \notin DOMAIN e.list THEN e
        ELSE TryBoth(Index([e.list EXCEPT ![x + 1] = DeleteRange(l, 1, SeekEnd(l, end))],
                           e.node), x)

\* whunsafe_int_delr: the keys from start to before end, both leaves looked up
\* before anything is deleted. The loop goes right and ends at the leaf of the
\* end; if that is to the left, only behind the last leaf (and then reads through
\* the null pointer: the state is the one it leaves).
UnsafeDelr(start, end) ==
    LET x  == JumpLeaf(start)
        z  == IF end = None \/ JumpLeaf(end) < x THEN Len(list) + 1 ELSE JumpLeaf(end)
        l  == SyncSorted(list[x])
        ia == Search(l, start)
        iz == IF end = None THEN Nr(l) + 1 ELSE SeekEnd(l, end)
        s  == Index([list EXCEPT ![x] = DeleteRange(l, ia, iz)], node)
    IN  /\ Becomes(IF iz < ia THEN Index([list EXCEPT ![x] = l], node)
                   ELSE IF x = z THEN TryBoth(s, x) ELSE DeletedTo(s, x, z, end))
        /\ present' = {k \in present : Before(k, start) \/ (end # None /\ ~ Before(k, end))}

\* Clear of the deletions that run off the list: the end before start and in an
\* earlier leaf, and start at the first place of its own, where the two places
\* that 2603 compares are both the first.
EndAhead(start, end) ==
    LET x == JumpLeaf(start)
    IN  end # None /\ JumpLeaf(end) < x => Search(SyncSorted(list[x]), start) > 1

TrieInit == /\ node = [p \in {<<>>} |-> T!NewNode({<<>>}, p, <<>>, T!FO)]
            /\ maxplen = 0

IndexInit == Init /\ TrieInit

IndexNext == \/ \E k \in Keys : \/ IndexPut(k) \/ PutFails(k) \/ Look(k)
                                \/ IndexDel(k) \/ UnsafeDel(k)
             \/ \E start \in Keys, end \in Keys \cup {None} :
                    EndAhead(start, end) /\ UnsafeDelr(start, end)

IndexSpec == IndexInit /\ [][IndexNext]_indexVars

-----------------------------------------------------------------------------
\* The nodes of the trie are prefixes of anchors, no longer than maxplen.
IndexTypeOK == /\ DOMAIN node \subseteq T!Prefixes(Keys) /\ maxplen \in 0 .. Width
               /\ \A p \in DOMAIN node : Len(p) <= maxplen

\* The trie leads every key to the leaf between whose anchors it lies, over the
\* anchors that splits cut out of keys and after merges to either side.
LeadsRight == T!JumpRight

\* Splits, merges and puts that fail half-way leave the trie of the anchors.
TrieFits == T!TrieOfAnchors

\* A lookup in a sorted leaf says what was put and not deleted.
GetExact == \A k \in Keys : Careful(JumpLeaf(k)) => (Get(k) <=> k \in present)

\* A put that fails keeps every key, and leaves its leaf in order.
UndoClean == \A k \in Keys :
                 LET x == JumpLeaf(k)
                     l == Undone(Halves(x, k), k)
                 IN  Careful(x) /\ ~ Found(list[x], k) /\ Nr(list[x]) = KPN =>
                         /\ KeysOf(l) = KeysOf(list[x])
                         /\ l.sorted <= Nr(l)
=============================================================================
