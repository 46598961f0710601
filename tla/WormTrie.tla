------------------------------- MODULE WormTrie -------------------------------
(* The trie over the anchors of the leaves (wh.c): one node (wormmeta) for     *)
(* every prefix of an anchor, kept in a hash table, with which a lookup finds  *)
(* the leaf of a key by a binary search for the longest prefix. A leaf is      *)
(* named by its anchor; the list of leaves is the set of anchors in order.     *)
(* Splits and merges of leaves change the trie under the metalock, one at a    *)
(* time (Wormhole), so this module is sequential.                              *)
EXTENDS Integers, Sequences, FiniteSets

CONSTANTS Tokens,    \* the values of a key's byte, as numbers
          Pool,      \* the anchors splits may choose
          MaxLeaves, \* bound: leaves of the list
          None       \* a null pointer

\* WH_FO: more than any byte; stands for no child.
FO == 1 + CHOOSE x \in Tokens : \A y \in Tokens : y <= x

VARIABLES anchors,  \* the leaves
          node,     \* the nodes of the table by their prefixes
          maxplen   \* no node has a longer prefix

vars == <<anchors, node, maxplen>>

-----------------------------------------------------------------------------
(* Keys and neighbours                                                       *)

Prefix(k, n) == SubSeq(k, 1, n)

\* kv_key_lcp: the length of the longest common prefix.
Lcp(a, b) == LET same == {n \in 0 .. Len(a) : n <= Len(b) /\ Prefix(a, n) = Prefix(b, n)}
             IN  CHOOSE n \in same : \A m \in same : m <= n

\* kv_compare: bytes in order, the shorter key first.
Less(a, b) == LET n == Lcp(a, b)
              IN  n < Len(b) /\ (n = Len(a) \/ a[n + 1] < b[n + 1])

\* leaf->prev and leaf->next, in a list of leaves.
Before(as, a) == LET low == {x \in as : Less(x, a)}
                 IN  IF low = {} THEN None
                     ELSE CHOOSE x \in low : \A y \in low : x = y \/ Less(y, x)
After(as, a)  == LET high == {x \in as : Less(a, x)}
                 IN  IF high = {} THEN None
                     ELSE CHOOSE x \in high : \A y \in high : x = y \/ Less(x, y)

-----------------------------------------------------------------------------
(* Nodes: a half node has one child or none (FO), a full one a bitmap         *)

\* wormmeta_bm_test.
HasChild(m, id) == IF m.min = m.max THEN m.min = id ELSE id \in m.bits

\* wormmeta_bm_lt, wormmeta_bm_gt; the latter is called for a bit just cleared.
ChildBelow(bits, id) == LET low == {b \in bits : b < id}
                        IN  IF low = {} THEN FO ELSE CHOOSE b \in low : \A c \in low : c <= b
ChildAbove(bits, id) == LET high == {b \in bits : b >= id}
                        IN  IF high = {} THEN FO ELSE CHOOSE b \in high : \A c \in high : b <= c

\* wormmeta_bm_set.
BitSet(m, id) ==
    IF id \in m.bits THEN m
    ELSE [m EXCEPT !.bits = @ \cup {id},
                   !.min = IF id < @ THEN id ELSE @,
                   !.max = IF @ = FO \/ id > @ THEN id ELSE @]

\* wormmeta_bm_set_helper: a half node that gets a second child is replaced by
\* a full one (wormmeta_expand).
AddChild(m, id) ==
    IF m.min < m.max THEN BitSet(m, id)
    ELSE IF id = m.min THEN m
    ELSE IF m.min = FO THEN [m EXCEPT !.min = id, !.max = id]
    ELSE BitSet([m EXCEPT !.bits = {m.min}], id)

\* wormmeta_bm_clear_helper: the last child leaves a half node; a full node
\* that keeps one becomes half (wormmeta_shrink).
DropChild(m, id) ==
    IF m.min = m.max THEN [m EXCEPT !.min = FO, !.max = FO]
    ELSE LET rest == m.bits \ {id}
             low  == IF id = m.min THEN ChildAbove(rest, id) ELSE m.min
             high == IF id = m.max THEN ChildBelow(rest, id) ELSE m.max
         IN  [m EXCEPT !.min = low, !.max = high, !.bits = IF low = high THEN {} ELSE rest]

\* wormmeta_lmost_store: the left path leads to the leaf itself if its anchor
\* ends here, else to the leaf before it.
SetLmost(as, m, p, a) ==
    [m EXCEPT !.lmost = a, !.lpath = IF Len(a) = Len(p) THEN a ELSE Before(as, a)]

\* wormmeta_init.
NewNode(as, p, a, bit) ==
    [min |-> bit, max |-> bit, bits |-> {}, lmost |-> a, rmost |-> a,
     lpath |-> IF Len(a) = Len(p) THEN a ELSE Before(as, a)]

-----------------------------------------------------------------------------
(* Splits and merges                                                         *)

\* wormmeta_split_touch: the node of a prefix p of the new anchor a.
Touch(as, nodes, p, a) ==
    LET bit == IF Len(p) < Len(a) THEN a[Len(p) + 1] ELSE FO
    IN  IF p \notin DOMAIN nodes
        THEN [q \in DOMAIN nodes \cup {p} |-> IF q = p THEN NewNode(as, p, a, bit) ELSE nodes[q]]
        ELSE LET m == IF Len(p) < Len(a) THEN AddChild(nodes[p], bit) ELSE nodes[p]
             IN  [nodes EXCEPT ![p] =
                    IF m.lmost = After(as, a) THEN SetLmost(as, m, p, a)
                    ELSE IF m.rmost = Before(as, a) THEN [m EXCEPT !.rmost = a]
                    ELSE m]

\* wormmeta_lpath_update: below the fork of two neighbouring anchors, the nodes
\* of the second one get a new left path.
LpathUpdate(nodes, a1, a2, l) ==
    [p \in DOMAIN nodes |->
       IF \E n \in Lcp(a1, a2) + 1 .. Len(a2) - 1 : p = Prefix(a2, n)
       THEN [nodes[p] EXCEPT !.lpath = l]
       ELSE nodes[p]]

\* The prefixes a split or a merge starts with: those the neighbours share need
\* no change.
ForkLen(b, c) == IF b = None \/ c = None THEN 0 ELSE Lcp(b, c)

\* wormmeta_split, for the new leaf a of the list as.
SplitNodes(as, nodes, a) ==
    LET b    == Before(as, a)
        c    == After(as, a)
        from == IF c = None THEN 0 ELSE Lcp(b, c)
        upto[i \in from - 1 .. Len(a)] ==
            IF i < from THEN nodes ELSE Touch(as, upto[i - 1], Prefix(a, i), a)
    IN  IF c = None THEN upto[Len(a)] ELSE LpathUpdate(upto[Len(a)], a, c, a)

\* wormhole_slab_reserve: how many nodes of each kind memory is reserved for.
Reserved(a) == Len(a)

\* The nodes of a prefix whose one leaf is merged away go, and their parent
\* forgets the branch; the others are moved to a neighbour.
MergeNodes(as, nodes, a) ==
    LET b    == Before(as, a)
        c    == After(as, a)
        rest == as \ {a}
        from == ForkLen(b, c)
        \* The walk: the nodes so far, the last node kept, and whether it is over.
        walk[i \in from - 1 .. Len(a)] ==
            IF i < from THEN [nodes |-> nodes, parent |-> None, over |-> FALSE]
            ELSE IF walk[i - 1].over THEN walk[i - 1]
            ELSE LET w == walk[i - 1]
                     p == Prefix(a, i)
                     m == w.nodes[p]
                     without == [q \in DOMAIN w.nodes \ {p} |-> w.nodes[q]]
                 IN  IF m.lmost = m.rmost
                     THEN [nodes  |-> IF w.parent = None THEN without
                                      ELSE [without EXCEPT ![w.parent] = DropChild(@, a[i])],
                           parent |-> None,
                           over   |-> m.min = FO]
                     ELSE [nodes  |-> [w.nodes EXCEPT ![p] =
                                         IF m.lmost = a THEN SetLmost(rest, m, p, c)
                                         ELSE IF m.rmost = a THEN [m EXCEPT !.rmost = b]
                                         ELSE m],
                           parent |-> p, over |-> FALSE]
    IN  IF c = None THEN walk[Len(a)].nodes ELSE LpathUpdate(walk[Len(a)].nodes, a, c, b)

\* wormhole_create_leaf0: one leaf with the empty anchor, and its node.
Init == /\ anchors = {<<>>}
        /\ node = [p \in {<<>>} |-> NewNode({<<>>}, p, <<>>, FO)]
        /\ maxplen = 0

\* wormhole_split_meta: the new leaf is linked, then hooked into the trie. Any
\* anchor between two others may separate two keys of the leaf on its left.
Split(a) == /\ a \notin anchors /\ Cardinality(anchors) < MaxLeaves
            /\ anchors' = anchors \cup {a}
            /\ node' = SplitNodes(anchors', node, a)
            /\ maxplen' = IF Len(a) > maxplen THEN Len(a) ELSE maxplen

\* wormhole_meta_merge: the leaf is merged into the one on its left, unlinked,
\* and taken out of the trie.
Merge(a) == /\ a \in anchors \ {<<>>}
            /\ anchors' = anchors \ {a}
            /\ node' = MergeNodes(anchors, node, a)
            /\ UNCHANGED maxplen

Next == \E a \in Pool : Split(a) \/ Merge(a)

Spec == Init /\ [][Next]_vars

-----------------------------------------------------------------------------
(* Lookups                                                                   *)

\* wormhole_meta_lcp, first search: peeks at 16-bit tags only, so that prefixes
\* of lookalikes seem to be there.
PeekSearch(k, lookalikes) ==
    LET peek(n) == Prefix(k, n) \in DOMAIN node \/ n \in lookalikes
        search[lo \in 0 .. Len(k), gd \in 1 .. Len(k) + 1] ==
            IF gd = 1 THEN lo
            ELSE LET inc == IF gd > 7 THEN 4 * (gd \div 8) ELSE gd \div 2
                 IN  IF peek(lo + inc) THEN search[lo + inc, gd - inc] ELSE search[lo, inc]
    IN  search[0, (IF maxplen < Len(k) THEN maxplen ELSE Len(k)) + 1]

\* Second search, among prefixes shorter than n: compares whole prefixes, and
\* takes a step further down when the node has the key's next byte.
ExactSearch(k, n) ==
    LET search[lo \in 0 .. n, gd \in 0 .. n] ==
            IF gd <= 1 THEN lo
            ELSE LET inc == (gd * 3) \div 4
                     far == lo + inc
                 IN  IF Prefix(k, far) \notin DOMAIN node THEN search[lo, inc]
                     ELSE IF HasChild(node[Prefix(k, far)], k[far + 1])
                     THEN search[far + 1, gd - inc - 1]
                     ELSE far
    IN  search[0, n]

LongestPrefix(k, lookalikes) ==
    LET n == PeekSearch(k, lookalikes)
    IN  IF Prefix(k, n) \in DOMAIN node THEN n ELSE ExactSearch(k, n)

\* wormhmap_get_kref1 and the node's rmost; None is a null node's.
Rmost(p) == IF p \in DOMAIN node THEN node[p].rmost ELSE None

\* Mutated: a key on the right of all branches of a node goes to the left path.
MetaDown_Left(k, n) ==
    LET m  == node[Prefix(k, n)]
    IN  IF n = Len(k) \/ m.min > k[n + 1] \/ m.max < k[n + 1] THEN m.lpath
        ELSE Rmost(Append(Prefix(k, n), ChildBelow(m.bits, k[n + 1])))

\* wormhole_meta_down: from the node of the longest prefix to the leaf.
MetaDown(k, n) ==
    LET m  == node[Prefix(k, n)]
    IN  IF n = Len(k) \/ m.min > k[n + 1] THEN m.lpath
        ELSE IF m.max < k[n + 1] THEN m.rmost
        ELSE Rmost(Append(Prefix(k, n), ChildBelow(m.bits, k[n + 1])))

\* wormhole_jump_leaf.
JumpLeaf(k, lookalikes) == MetaDown(k, LongestPrefix(k, lookalikes))

-----------------------------------------------------------------------------
\* The shape of the nodes; every pointer of one is null or to a leaf of the list.
TypeOK ==
    /\ anchors \subseteq Pool \cup {<<>>} /\ maxplen \in Nat
    /\ \A p \in DOMAIN node :
          /\ p \in Seq(Tokens)
          /\ {node[p].min, node[p].max} \subseteq Tokens \cup {FO}
          /\ node[p].bits \subseteq Tokens
          /\ {node[p].lmost, node[p].rmost, node[p].lpath} \subseteq anchors \cup {None}

\* The keys that matter: anchors, their prefixes, and neighbours of both.
Prefixes(as) == UNION {{Prefix(a, n) : n \in 0 .. Len(a)} : a \in as}
Probes == Prefixes(Pool) \cup {Append(s, x) : s \in Prefixes(Pool), x \in Tokens}

\* A lookup ends at the one leaf that may hold the key, the last one whose
\* anchor is not greater, whatever prefixes are mistaken for present ones on
\* the way.
JumpRight ==
    \A k \in Probes :
        \A lookalikes \in SUBSET {n \in 1 .. Len(k) : Prefix(k, n) \notin DOMAIN node} :
            LET a == JumpLeaf(k, lookalikes)
            IN  /\ a \in anchors /\ ~Less(k, a)
                /\ \A b \in anchors : ~Less(k, b) => b = a \/ Less(b, a)

\* The trie is that of its anchors: nothing is left behind by a merge or
\* forgotten by a split.
TrieOfAnchors ==
    /\ DOMAIN node = Prefixes(anchors)
    /\ \A p \in DOMAIN node :
          LET m     == node[p]
              under == {a \in anchors : Lcp(a, p) = Len(p)}
              kids  == {a[Len(p) + 1] : a \in under \ {p}}
          IN  /\ {x \in Tokens : HasChild(m, x)} = kids
              /\ m.lmost \in under /\ \A a \in under : ~Less(a, m.lmost)
              /\ m.rmost \in under /\ \A a \in under : ~Less(m.rmost, a)
              /\ m.lpath = IF m.lmost = p THEN p ELSE Before(anchors, m.lmost)

\* A split needs no more nodes of either kind than were reserved for it, so
\* that it cannot fail half-way.
ReserveEnough ==
    [][\A a \in anchors' \ anchors :
          LET full(nodes) == {p \in DOMAIN nodes : nodes[p].min < nodes[p].max}
          IN  /\ Cardinality(DOMAIN node' \ DOMAIN node) <= Reserved(a)
              /\ Cardinality(full(node') \ full(node)) <= Reserved(a)]_vars
=============================================================================
