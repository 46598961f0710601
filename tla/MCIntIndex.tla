------------------------------- MODULE MCIntIndex -------------------------------
(* The integer index for TLC, as its three kinds of callers use it: the calls   *)
(* that take locks, with an iterator, on the leaves alone; the filter with its  *)
(* boundary keys; and the calls of the whole index, trie included. The initial  *)
(* state says which; the keys have one to three bytes, with shared first bytes. *)
EXTENDS IntIndex, IntBoundaries, TLC

VARIABLE caller  \* "iterator", "filter" or "index"

SomeKeys  == {<<0>>, <<1>>, <<1, 1>>, <<1, 1, 1>>, <<1, 2>>, <<2, 1>>}
SomeBytes == 0 .. 2
Least     == <<0>>
Greatest  == <<2, 1>>

MCInit == /\ caller \in {"iterator", "filter", "index"}
          /\ IF caller = "filter" THEN BInit ELSE Init
          /\ TrieInit

MCNext == \/ caller = "iterator" /\ Next /\ UNCHANGED <<trieVars, caller>>
          \/ caller = "filter" /\ BNext /\ UNCHANGED <<trieVars, caller>>
          \/ caller = "index" /\ IndexNext /\ UNCHANGED caller

MCSpec == MCInit /\ [][MCNext]_<<indexVars, caller>>

-----------------------------------------------------------------------------
\* wormhole_int_put, wormhole_int_del and wormhole_int_delr: every key that was put and not
\* deleted is in one place of one leaf, and what counts as sorted is.
KeysInPlace == TypeOK /\ KeysOnce /\ SortedPrefix

\* wormhole_int_iter_seek, skip1 and skip1_rev: iterators meet the neighbours of their keys,
\* whatever was not sorted when they came.
IteratorRight == caller = "iterator" => NeighboursMet /\ SeekRight

\* InsertSplit, DeleteMerge and the queries of the filter: the boundaries next to a key are
\* found, and the slots they are read from stay through the calls that follow.
FilterRight == caller = "filter" => BracketRight /\ SlotStays

\* wormhole_jump_leaf, wormhole_int_get and wormhole_int_probe: over anchors that splits cut
\* out of keys every key is led to its leaf, and found there if it was put and not deleted.
IndexRight == caller = "index" => IndexTypeOK /\ LeadsRight /\ TrieFits /\ GetExact
=============================================================================
