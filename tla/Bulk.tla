--------------------------------- MODULE Bulk ---------------------------------
(* How a filter comes to its first keys (src/include/diva.hpp): the two         *)
(* constructors that load a sorted array, and the stream of sorted keys that    *)
(* BulkLoadStreamingFinish ends.  Every target size-th key becomes a boundary,  *)
(* the ones between two boundaries the store behind the first.  Once loaded the *)
(* filter takes the insertions and deletions of Diva.                           *)
EXTENDS Diva

CONSTANTS
    LoadKeys,              \* bound: the keys that are loaded
    MaxLoad,               \* bound: how many of them at once
    None

ASSUME TargetAssumption == TargetSize > 1 /\ LoadKeys \subseteq 0..MaxKey

VARIABLES
    phase,                 \* "new", "loading" between two calls of the stream, "ready"
    left_key,              \* bulk_load_left_key_, None for the null pointer
    key_list               \* bulk_load_key_list_ up to bulk_load_streaming_ind_

loadVars == <<phase, left_key, key_list>>
bulkVars == <<vars, loadVars>>

NoBoundary == [b \in {} |-> EmptyStore]

\* Arrays that callers pass: sorted, each key once.
Arrays == {SetToSortSeq(ks, LAMBDA a, b : a < b) :
              ks \in {s \in SUBSET LoadKeys : Cardinality(s) \in 1..MaxLoad}}

BulkInit == /\ tree = NoBoundary
            /\ infix_size = InfixSize
            /\ held = EmptyBag
            /\ stuck = FALSE
            /\ phase = "new" /\ left_key = None /\ key_list = <<>>

-----------------------------------------------------------------------------
AddTreeKey(t, key) == (key :> EmptyStore) @@ t

Ends(t) == AddTreeKey(AddTreeKey(t, 0), MaxKey)

\* Mutated: the parts of the gap are numbered from one.
Loaded_FromOne(left, right, ks, grade) ==
    left :> Store([j \in DOMAIN ks |-> FullInfix(ks[j], left, Gap(left, right), infix_size)
                                           + 2^infix_size],
                  grade, KeyLen, FALSE, 0)

\* One store: the keys between two boundaries, put behind the left one.
Loaded(left, right, ks, grade) ==
    left :> Store([j \in DOMAIN ks |-> FullInfix(ks[j], left, Gap(left, right), infix_size)],
                  grade, KeyLen, FALSE, 0)

\* The store of the last batch is as small as its list allows.
LoadedLast(left, right, ks) == Loaded(left, right, ks, LastBatchGrade(Len(ks)))

\* The positions in the array of the boundaries that the loop makes.
Boundaries(ks) == {TargetSize * j + 1 : j \in 0..((Len(ks) - 1) \div TargetSize)}

LastBoundary(ks) == Max(Boundaries(ks))

\* Mutated: the last key of a batch is left out.
Batch_Short(ks, at) ==
    Loaded(ks[at], ks[at + TargetSize], SubSeq(ks, at + 1, at + TargetSize - 2), GrowGrade)

Batch(ks, at) ==
    Loaded(ks[at], ks[at + TargetSize], SubSeq(ks, at + 1, at + TargetSize - 1), GrowGrade)

\* What was left from the loop.
Rest(ks) == LoadedLast(ks[LastBoundary(ks)], Last(ks),
                       SubSeq(ks, LastBoundary(ks) + 1, Len(ks) - 1))

Stores(ks) == FoldSet(LAMBDA at, t : Batch(ks, at) @@ t, Rest(ks),
                      Boundaries(ks) \ {LastBoundary(ks)})

\* The last key is a boundary already: GetSharedIgnoreImplicitLengths gets it
\* twice, and its loop does not end.
Twice(ks) == LastBoundary(ks) = Len(ks)

\* BulkLoadFixedLength behind the constructor that puts both ends first, and
\* BulkLoad, which puts the upper one itself, as long as the longest key.
FixedTree(ks) == AddTreeKey(Stores(ks) @@ Ends(NoBoundary), Last(ks))

GenericTree(ks) ==
    AddTreeKey(AddTreeKey(Stores(ks) @@ AddTreeKey(NoBoundary, 0), Last(ks)), MaxKey)

Construct(ks, t) ==
    /\ phase = "new" /\ ~stuck
    /\ IF Twice(ks) THEN stuck' = TRUE /\ UNCHANGED <<tree, held, phase>>
       ELSE tree' = t /\ held' = SetToBag(Range(ks)) /\ phase' = "ready" /\ UNCHANGED stuck
    /\ UNCHANGED <<infix_size, left_key, key_list>>

\* The constructor without keys, and both ends put with AddTreeKey by the caller
\* (tests/diva_tests.cpp:489-496).
NoLoad == /\ phase = "new" /\ phase' = "ready"
          /\ tree' = Ends(NoBoundary)
          /\ UNCHANGED <<infix_size, held, stuck, left_key, key_list>>

BulkLoadFixedLength(ks) == Construct(ks, FixedTree(ks))
BulkLoad(ks) == Construct(ks, GenericTree(ks))

-----------------------------------------------------------------------------
InOrder(key) == \A k \in BagToSet(held) : k < key

\* BulkLoadStreaming: the first key; one for the list; one that finds it full.
StreamFirst(key) ==
    /\ phase = "new" /\ left_key = None
    /\ phase' = "loading" /\ left_key' = key
    /\ UNCHANGED <<tree, key_list>>

StreamKeep(key) ==
    /\ left_key # None /\ Len(key_list) < TargetSize - 1
    /\ key_list' = Append(key_list, key)
    /\ UNCHANGED <<tree, phase, left_key>>

StreamBatch(key) ==
    /\ left_key # None /\ Len(key_list) = TargetSize - 1
    /\ tree' = Loaded(left_key, key, key_list, GrowGrade) @@ tree
    /\ left_key' = key /\ key_list' = <<>>
    /\ UNCHANGED phase

BulkLoadStreaming(key) ==
    /\ phase # "ready" /\ ~stuck /\ InOrder(key) /\ BagCardinality(held) < MaxLoad
    /\ StreamFirst(key) \/ StreamKeep(key) \/ StreamBatch(key)
    /\ held' = held (+) SetToBag({key})
    /\ UNCHANGED <<infix_size, stuck>>

\* Mutated: the last key becomes an infix and no boundary.
Finished_NoKey(t) ==
    IF key_list = <<>> THEN Ends(t) ELSE LoadedLast(left_key, MaxKey, key_list) @@ Ends(t)

\* Both ends first, then the keys that wait, the last of them as a boundary.
Finished(t) ==
    IF key_list = <<>> THEN Ends(t)
    ELSE AddTreeKey(LoadedLast(left_key, Last(key_list), Front(key_list)) @@ Ends(t), Last(key_list))

BulkLoadStreamingFinish ==
    /\ phase = "loading"
    /\ tree' = Finished(tree)
    /\ phase' = "ready" /\ left_key' = None /\ key_list' = <<>>
    /\ UNCHANGED <<infix_size, held, stuck>>

-----------------------------------------------------------------------------
\* The filter at work, as in Diva, clear of the defects found there.
Work == phase = "ready" /\ SettledNext /\ UNCHANGED loadVars

BulkNext == \/ NoLoad
            \/ \E ks \in Arrays : BulkLoadFixedLength(ks) \/ BulkLoad(ks)
            \/ \E key \in LoadKeys : BulkLoadStreaming(key)
            \/ BulkLoadStreamingFinish
            \/ Work

\* Clear of the three defects of loading: an array whose last key is a boundary,
\* a stream that ends on one, and a stream that begins with the all-zero key.
SettledLoad ==
    \/ NoLoad
    \/ \E ks \in Arrays : ~Twice(ks) /\ (BulkLoadFixedLength(ks) \/ BulkLoad(ks))
    \/ \E key \in LoadKeys \ {0} : BulkLoadStreaming(key)
    \/ key_list # <<>> /\ BulkLoadStreamingFinish
    \/ Work

LoadSpec == BulkInit /\ [][SettledLoad]_bulkVars

\* Each defect with nothing else.
ArraySpec == BulkInit /\ [][\E ks \in Arrays : BulkLoad(ks)]_bulkVars

StreamNext == (\E key \in LoadKeys : BulkLoadStreaming(key)) \/ BulkLoadStreamingFinish
StreamSpec == BulkInit /\ [][StreamNext]_bulkVars

ZeroNext == (\E key \in LoadKeys : BulkLoadStreaming(key))
                \/ (key_list # <<>> /\ BulkLoadStreamingFinish)
ZeroSpec == BulkInit /\ [][ZeroNext]_bulkVars

-----------------------------------------------------------------------------
\* The shape of the state; what waits is behind the boundary, in order.
LoadTypeOK ==
    /\ phase \in {"new", "loading", "ready"}
    /\ phase = "loading" <=> left_key # None
    /\ Len(key_list) < TargetSize
    /\ \A j \in DOMAIN key_list :
          key_list[j] > (IF j = 1 THEN left_key ELSE key_list[j - 1])
    /\ phase = "ready" => {0, MaxKey} \subseteq DOMAIN tree

\* Whatever way a filter was loaded and whatever was done to it since, every key
\* that was loaded or inserted and not deleted is found.
LoadedPoint     == phase = "ready" => PointComplete
\* The same for every range that holds such a key.
LoadedRange     == phase = "ready" => RangeComplete
\* Every such key has an item of its own that its deletion can take.
LoadedAccounted == phase = "ready" => Accounted
\* The lists that a load makes fit their gaps and are sorted, as the stores assume.
LoadedFits      == phase = "ready" => InfixesFit /\ ListsSorted

\* A stream builds, batch by batch, the filter that the array of its keys makes.
StreamsAlike ==
    [][phase = "loading" /\ phase' = "ready" =>
           tree' = FixedTree(SetToSortSeq(BagToSet(held), LAMBDA a, b : a < b))]_bulkVars

\* A load comes back.
LoadReturns == ~stuck
=============================================================================
