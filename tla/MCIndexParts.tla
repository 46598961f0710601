----------------------------- MODULE MCIndexParts -----------------------------
(* The parts of the index that Wormhole and IntIndex take for granted, on small *)
(* instances for TLC: the trie over the leaves, the slots of a leaf, the hash   *)
(* table of the trie's nodes, the allocator of leaves, nodes and records, and   *)
(* the records themselves. They share no state; the initial state says which    *)
(* part a behaviour is about, and the others stand still.                       *)
EXTENDS Slab

CONSTANTS Null, p1, b1, b2

VARIABLES
    part,                                    \* the part that moves
    anchors, node, maxplen,                  \* WormTrie
    pkey, leaves, present,                   \* WormLeaf
    hash, table, nodes,                      \* WormTable
    node_magic, node_next, node_active, node_backup, node_ready,
    node_lock, node_owner, node_promised,    \* Slab, of the nodes; its own are for the leaves
    kvs, sorted, given, stream, packed       \* Records

trieVars   == <<anchors, node, maxplen>>
leafVars   == <<pkey, leaves, present>>
tableVars  == <<hash, table, nodes>>
leafSlabVars == vars
nodeSlabVars == <<node_magic, node_next, node_active, node_backup, node_ready, node_lock,
                  node_owner, node_promised>>
recordVars == <<kvs, sorted, given, stream, packed>>
partVars   == <<part, trieVars, leafVars, tableVars, leafSlabVars, nodeSlabVars, recordVars>>

\* Anchors with up to three branches at a node, and some along one path that is long enough
\* for the large steps of the prefix search.
Zeros(n) == [i \in 1 .. n |-> 0]
Anchors  == {<<0>>, <<2>>, <<0, 1>>, <<1, 0>>, <<1, 1>>, <<1, 2>>,
             Zeros(5), Append(Zeros(5), 1), Zeros(8)}

Trie == INSTANCE WormTrie WITH Tokens <- 0 .. 2, Pool <- Anchors, MaxLeaves <- 10, None <- Null

\* Leaves of four slots, with hashes that are shared, that name few slots, and that come in
\* the opposite order of the keys.
LeafHashes == {<<5, 4, 5, 2, 4>>}

Leaf == INSTANCE WormLeaf WITH K <- 5, KPN <- 4, HDIV <- 2, Hashes <- LeafHashes, None <- Null,
                               list <- leaves

\* Buckets of two slots, with hashes that spread the nodes or heap them up.
NodeHashes == {[k \in 1 .. 6 |-> <<(3 * k) % 8, (k * k + 1) % 8>>],
               [k \in 1 .. 6 |-> <<k % 3, (k + 5) % 8>>]}

Table == INSTANCE WormTable WITH Nodes <- 1 .. 6, Hashes <- NodeHashes, Bkt <- 2, Size0 <- 2,
                                 MaxSize <- 8

\* Leaves come from a slab of two threads, whose constants the configuration has. Nodes come
\* from one whose calls exclude each other: no thread is ever inside of one of them.
NodeProcs == {p1}
NodeSlab == INSTANCE Slab WITH
    Procs <- NodeProcs, Blocks <- {b1, b2}, PerSlab <- 2, SeqMod <- 6, Safe <- FALSE,
    MaxReserve <- 3, None <- Null,
    magic <- node_magic, next <- node_next, head_active <- node_active,
    head_backup <- node_backup, nr_ready <- node_ready, owner <- node_owner,
    promised <- node_promised,
    lock <- node_lock,
    pc   <- [p \in NodeProcs |-> "idle"],
    m0   <- [p \in NodeProcs |-> [ptr |-> Null, seq |-> 0]],
    link <- [p \in NodeProcs |-> Null],
    list <- [p \in NodeProcs |-> <<>>]

ASSUME SlabsAssumption == SlabAssumption /\ NodeSlab!SlabAssumption

SomeKeys   == {<<0>>, <<1>>, <<0, 1>>, <<1, 0>>, <<1, 3>>, <<1, 3, 0, 2, 1>>, <<1, 3, 0, 2>>}
SomeValues == {<<>>, <<0>>, <<2, 1, 3, 0, 1>>}

Record == INSTANCE Records WITH GroupBits <- 1, Narrow <- 3, Wide <- 5, Word <- 2,
                                Keys <- SomeKeys, Values <- SomeValues, MaxArray <- 4,
                                MaxStream <- 2, None <- Null

PartsInit ==
    /\ part \in {"trie", "leaf", "table", "slab", "node_slab", "records"}
    /\ Trie!Init /\ Leaf!Init /\ Table!Init /\ Record!Init /\ Init /\ NodeSlab!Init
    /\ part # "table" => hash = CHOOSE h \in NodeHashes : TRUE

PartsNext ==
    \/ /\ part = "trie" /\ Trie!Next
       /\ UNCHANGED <<part, leafVars, tableVars, leafSlabVars, nodeSlabVars, recordVars>>
    \/ /\ part = "leaf" /\ Leaf!Next
       /\ UNCHANGED <<part, trieVars, tableVars, leafSlabVars, nodeSlabVars, recordVars>>
    \/ /\ part = "table" /\ Table!Next
       /\ UNCHANGED <<part, trieVars, leafVars, leafSlabVars, nodeSlabVars, recordVars>>
    \/ /\ part = "slab" /\ Next
       /\ UNCHANGED <<part, trieVars, leafVars, tableVars, nodeSlabVars, recordVars>>
    \/ /\ part = "node_slab" /\ NodeSlab!Next
       /\ UNCHANGED <<part, trieVars, leafVars, tableVars, leafSlabVars, recordVars>>
    \/ /\ part = "records" /\ Record!Next
       /\ UNCHANGED <<part, trieVars, leafVars, tableVars, leafSlabVars, nodeSlabVars>>

PartsSpec == PartsInit /\ [][PartsNext]_partVars

-----------------------------------------------------------------------------
\* wormhole_jump_leaf: however the trie came about, every key is led to the one leaf that may
\* hold it, and nothing of merged leaves is left in the trie. wormhole_slab_reserve and
\* slab_reserve_unsafe: no split makes more nodes than it has reserved, and what was promised
\* is there until it was taken, so that none fails half-way.
TrieRight == /\ [](part = "trie" => Trie!TypeOK /\ Trie!JumpRight /\ Trie!TrieOfAnchors)
             /\ Trie!ReserveEnough
             /\ [](NodeSlab!ObjectsKept)

\* wormleaf_match_hs and wormleaf_seek: both orders of a leaf, by hash and by key, lead to the
\* keys that were put and not deleted.
LeafRight == part = "leaf" => /\ Leaf!TypeOK /\ Leaf!LookupExact /\ Leaf!HashOrder
                              /\ Leaf!SlotsListed /\ Leaf!SeekExact

\* wormhmap_get, wormhmap_set and wormhmap_del: the table holds the last version of every
\* node, once, however often entries were moved.
TableRight == part = "table" => Table!TypeOK /\ Table!LookupExact /\ Table!EntriesOnce

\* kv_psort, kv_compare, kv128_encode and kref_kv128_compare: one order of all keys, which
\* sorting by parts keeps, and packed records that are met again as they were.
RecordsRight == part = "records" => /\ Record!PlacesSorted /\ Record!KeysKept /\ Record!OneOrder
                                    /\ Record!StreamExact /\ Record!NumbersBack
=============================================================================
