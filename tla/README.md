# Diva in TLA+

Diva is a range filter: a compact summary of a set of keys that answers "may the set hold a key in
[l, r]?" without false negatives.  This directory holds TLA+ modules for the parts of it that keep
state, TLC configurations that check them on small instances, and TLAPS proofs of properties that
hold for every size.  Line numbers refer to `src/include/diva.hpp` unless another file is named;
`wh.c`, `wh_int.c`, `lib.c` and `kv.c` are in `src/include/wormhole/`.

## 1. The system

| part | state | operations | interacts with |
|---|---|---|---|
| infix store (2012-2881) | `status` (element count, size grade, partial-key bits) and one array: two cached popcounts, the `occupieds` and `runends` bitmaps, the slots | load a list, insert, delete, expand, shrink, shorten the infixes; point, range and longest-match queries | owned by one boundary key of the filter |
| filter (430-1096, 1449-1724) | an ordered map from boundary keys to infix stores, `infix_size_`, the random generator | insert (simple or splitting), delete (simple or merging), point and range query, `ShrinkInfixSize` | every operation looks up a boundary key and its neighbour in the index, turns keys into infixes relative to the pair, and calls the store between them |
| bulk loading (1728-2007) | for streams: the left boundary key, up to 1023 buffered keys, the longest key length | load a sorted range; take one key of a sorted stream; finish the stream | writes boundary keys and freshly loaded stores into the index |
| serialisation (1100-1435) | none of its own | announce a size, write all stores to a buffer, build a filter whose stores point into a buffer | hands the stores memory that they later free |
| index for strings (`wh.c`) and for integers (`wh_int.c`) | linked leaves of keys, two hash tables of the nodes of a trie, per-leaf locks and versions, the meta lock | get, put, delete, delete a range, iterate in both directions; split and merge leaves | locks, reclamation and allocator of `lib.c`, records of `kv.c` |
| reader-writer lock (`lib.c`) | one word: a write bit above a count of readers | ten ways to ask for it, two to give it back, writer to reader | one per leaf, one for the tables |
| quiescent states (`lib.c`) | shards of slots with a bitmap, a version per reader | register, announce, park, resume, unregister; wait for all readers | the writer of the index waits before it changes the table that readers have left |
| slab allocator (`lib.c`) | blocks, a stack of free objects in one word with a sequence number, a count of ready ones | allocate, free, reserve, free all | gives the index leaves and nodes |
| records (`kv.c`) | none | compare, common prefix, sort in part, pack and unpack | keys of the leaves and of the trie |

A gap between two neighbouring boundary keys is cut into `total_implicit` equal parts.  The bits of a
key that follow the common prefix of the boundaries are its *infix*: the upper bits (implicit part)
name the part of the gap, the next `infix_size_` bits (explicit part) are stored in a slot, and the
lowest set bit of the slot marks where the stored prefix ends.  A store is a quotient filter: the
explicit parts of one implicit part form a run of consecutive slots, `runends` marks the last slot of
each run and `occupieds` the implicit parts that have one.

What is hard in this code:

* the store is edited in place by shifts to either side, and two popcounts are maintained by hand;
  deletion decides by several scans which way a cluster moves; sizes change in 500 grades by
  thresholds that must leave a slot free for every insertion;
* a split turns short prefixes into several infixes and a boundary key into a *partial* one; a merge
  must put back the bits that the boundary key made redundant;
* batches of a load share their boundary keys, and the stores are copied by value, so that nothing but
  the discipline of the operations says who frees an array;
* a reader of the index finds a leaf without a lock, and only versions tell that it has split, merged or
  is about to be freed; a writer changes two tables one after the other and waits for readers in between;
* a lock's readers count themselves before they look, and its priority writers overtake;
* the leaves of the integer index are sorted only in part, by whoever comes by with an iterator, while
  the filter keeps pointers into them.

What makes each part correct: the store holds exactly the infixes inserted and not deleted and its
queries answer what they imply; the filter has no false negatives; a load leaves every key in a
boundary or a store; a written filter is read back as it was and every array has one owner; the index
is an ordered map on which each call acts at one moment, whose iterators skip nothing, whose freed
leaves nobody touches and whose calls end; the lock excludes and its word is exact; a wait for readers
outlasts every use of an older version, and ends; the allocator gives nothing out twice and keeps what
it promised; all comparisons of keys are one order.

## 2. Modules

| module | what it is |
|---|---|
| `Infix` | the arithmetic of infixes: end marks, the interval a prefix stands for, the answers a set of prefixes owes |
| `InfixBag` | abstract: a bag of infixes under insertion, longest-prefix deletion and shortening |
| `SizeGrades` | the table of the sizes of stores, and the grades they are made at, grow to and shrink to; `InfixStore` and `Diva` go by it |
| `InfixStore`, `MCInfixStore` | the store, one operator per member function of the same name; implements `InfixBag` |
| `InfixShapes` | TLAPS lemmas about the sets behind a store (used slots, occupied parts, run ends): counting, shifts, and how each kind of edit keeps their shape |
| `InfixStore_proofs` | TLAPS proofs about `InfixStore`: room for insertions, the shape of the store, its cached counts |
| `InfixBag_proofs` | TLAPS proofs about `InfixStore`: the refinement of `InfixBag`, which infix a deletion takes, what the queries answer |
| `Diva`, `MCDiva` | the filter above the stores |
| `Bulk`, `MCBulk` | loading, extending `Diva` |
| `StoreMemory`, `MCStoreMemory` | bytes and owners of the stores' arrays |
| `StoreMemory_proofs` | TLAPS proofs about `StoreMemory`: who owns the arrays |
| `RwLock`, `MCRwLock`, `RwLock_proofs` | the reader-writer lock, and TLAPS proofs about it |
| `Grace`; `Qsbr`, `MCQsbr` | abstract: a grace period; the protocol of quiescent states, which implements it |
| `Qsbr_proofs` | TLAPS proofs about `Qsbr`: the wait is a grace period |
| `OrderedMap`; `Wormhole`, `MCWormhole` | abstract: a set of keys with calls that act at one moment; the concurrent index, which implements it |
| `Wormhole_proofs` | TLAPS proofs about `Wormhole`: the inductive invariant, that every step keeps it, what it implies, and the refinement of `OrderedMap` |
| `WormTrie`, `WormLeaf`, `WormTable` | parts of the index that `Wormhole` takes for granted: the lookup by prefixes, the two orders of a leaf, the cuckoo hash table of the nodes |
| `Pool`; `Slab` | abstract: objects handed out and given back; the slab allocator, whose calls of many threads implement it |
| `Slab_proofs` | TLAPS proofs about `Slab`, and the refinement of `Pool` |
| `Records` | order, common prefixes, partial sort and packed form of records |
| `MCIndexParts` | instantiates the last five for TLC, one at a time; `Slab` twice, for leaves and for nodes |
| `IntLeaf`, `IntBoundaries`, `IntIndex`, `MCIntIndex` | the index of the integer variant: leaves and iterators; the filter's use of them; leaves and trie together |

Definitions keep the names of the functions they model where they model one whole function.  A definition
whose name has a part behind an underscore is a mutated form of the one that follows it; with it
in place of the definition a run has to fail, which shows that a property notices.

### Store and filter

`InfixStore.store` is a record of what `InfixStore::status` and `InfixStore::ptr` hold: the bitmaps are
sets of positions, the slots a function, an empty slot is 0.  The word-level work of `util.hpp` (rank,
select, bit scans, shifting unaligned bit ranges) is modelled by its result.  The actions are `Insert`
and `Delete` of any full-length infix, with the resize that may come first (a deletion finds a prefix:
the filter deletes only keys that were inserted), and `Shrink`, which writes each slot where the code does:
by the grade of the copy, so that a store of another grade reads back other bits.  Queries change nothing; the invariants
evaluate them for every argument.  A store starts from any list the filter may load it with, at any of
the grades the callers choose (`LoadGrades`).  Two details are kept because they are easy to overlook:
`FindEmptySlotAfter` and `FindEmptySlotBefore` look at one slot after each run end only, so what they
return is not always empty; and `LastMatch` compares the slot with the whole key, implicit part included.

`Diva.tree` is the ordered map `better_tree_`, a function from the values of the boundary keys to their
stores.  A store is here the sorted list of its infixes with the size grade and the partial-key fields of its status word;
that an `InfixStore` is such a list is what the runs of the store show.  Keys have one length and are
numbers of `KeyBits` bits in bytes of `ByteBits` bits; a boundary key that a split cuts keeps its length
in bytes and the number of bits of its last byte that mean nothing.  `Insert` takes either branch of the
code's random choice.  `held` is a history variable, the bag of keys inserted and not deleted; `stuck`
says that a call went into the loop of `GetSharedIgnoreImplicitLengths` that two equal keys never leave.

`Bulk` adds the constructors over sorted arrays and the stream of keys with its end, followed by the
filter's own operations.  The constructor without keys is followed by the two end marks, as in the tests.

`StoreMemory.heap` has the arrays that `new[]` made, `filters` the filters with their boundary keys,
each with its copy of a store.  `Serialize` and the constructor that reads compute positions in the buffer
as the code does, padding included; a deletion of an array that is not the filter's own is a fault that
the model records.  A pointer is a record that says whether `new` returned it or it leads into the buffer.

### Lock, quiescent states, index

`RwLock`: one step is one atomic access of the word; a loop that only loads is a step that waits.
`Qsbr`: the same for bitmaps, slots and versions; `Publish` and the load of the table version are those
of the index.  Stores can be delayed in a buffer (`StoreBuffers`), as x86 does to those without a fence.

`Wormhole` is the protocol of `wh.c`: leaves with keys, anchor, neighbours, lock and version, two tables
and the meta lock.  A step is an access of memory that other threads can see; what a thread does to a leaf
it has locked is one step.  A table leads a key to the leaf with the greatest anchor that is not greater;
that the trie does so is `WormTrie.JumpRight`, shown by `TrieRight`.  The locks are those of `RwLock` and the
wait is that of `Qsbr`: the modules meet in what those are shown to promise.  The refinement to
`OrderedMap` maps a call to what has been called and answered so far; the linearisation points are the
locked accesses of a leaf, where the model sets `answer`.

`IntLeaf` is one thread's view of `wh_int.c`: keys in the order they came with a sorted prefix, and one
iterator.  `Sought` says that a put or a deletion comes after a seek to its key, as all of the filter's
do; `Merges` lets a merge count keys twice, as 1868 does where the left leaf is sorted throughout and
the right one is not unsorted from its start; all other merges are taken.  `IntIndex` adds the trie, over the anchors
that splits cut out of keys, the calls without locks, and puts that run out of memory.

## 3. Runs

| run | instance |
|---|---|
| `store_wide` | 4 implicit parts, 2 explicit bits, shortened to 1 at the fresh grade, sizes 3, 5, 6, 7; all starting lists of up to two prefixes; up to 4 elements |
| `store_tight` | 8 implicit parts, 1 explicit bit, sizes 3, 4, 5, 6, 7, 9; up to 5 elements |
| `diva_grow` | keys of 12 bits in 4 bytes of 3, two implicit bits, infixes of 2 bits shortened to 1; sizes 4, 5, 6, 7, 9 and on; 6 clustered keys, 5 at once; no deletions |
| `bulk_loads` | keys of 6 bits in 3 bytes of 2; loads of up to 5 of 5 keys in batches of 3; sizes 3, 4, 6, 8, 12; then 4 neighbouring keys, 3 at once, duplicates, deletions and merges included |
| `memory_bytes` | boundary keys of 8 and 9 bytes, three grades, two infix sizes, six arrays |
| `rwlock_all` | two threads that call everything, or three that call what waits |
| `qsbr` | two readers in one of two shards, one of which registers twice; two versions |
| `worm_map` | two threads, two calls and one, of get, put, delete and forward iteration; three keys in leaves of two; starts with one full leaf or two small ones; reservations may fail |
| `worm_three` | three threads with one call each of put, delete, get |
| `index_parts` | nine anchors over three byte values, up to eight bytes long; five keys in leaves of four slots; six nodes in two to eight buckets of two; two threads and one block of two objects, and one thread with two blocks and reservations of up to three; arrays of up to four records |
| `int_index` | six keys of one to three bytes in leaves of three |
| `diva_misdirected` | (violated) keys of 8 bits, 5 of them, deletions unrestricted in the way the first known defect needs |

The properties, with what each is for:

* `WellFormed`: run ends pair with occupied bits, the element count with the slots in use;
  `PopcntsAccurate`: the cached counts are those of the bitmaps, through every shift across the middle;
  `ImplementsBag`: every step is a step of `InfixBag`, so expansions, shifts, resizes and shortenings
  lose and invent nothing; `DeleteExact`: its deletion part, for every key in every state of the wide
  store, whose runs hold prefixes of one and of two bits, so that there is a longest one to choose; `QueriesExact`,
  `LongestMatchExact`: what is read off the bitmaps is what the stored prefixes
  imply, for every key and pair of bounds; `RoomInvariant`: an insertion finds an empty slot.
* `PointComplete`, `RangeComplete`, `LoadedPoint`, `LoadedRange`: no false negative for a held key, by any
  range around it; `AnswersKept`: an insertion or a shortening (of a filter whose stores have the fresh
  grade) takes no positive answer back, for keys never inserted too; `GapsRight`: lists are in order, within the parts of their gap, and the interval of
  a partial boundary holds no other boundary (checked for keys that are not neighbours: between
  neighbours an uncut boundary with invalid bits, 843 and 922, does reach over the next one, which makes
  no false negative because queries do not look behind a boundary); `LoadedRight`: held keys can be
  matched with stored items, one for each (Hall's condition over all sets of keys), which is what makes
  deletion safe and fails earlier than a query does; `StreamsAlike`: a stream builds what an array builds.
* `SizeExact`, `RoundTrip`, `ArraysOwned`: as many bytes as announced; the same filter back, and accepted;
  one owner for every array, freed once.
* `Exclusion`, `WordCounts`, `NoOvertaking`, `WaitersDrain`: writers are alone; the word is the write bit of
  its owner and the count of readers that have not taken themselves back; nobody reads past a writer that
  waits for readers to leave; that writer gets in.
* `ReadersSafe`: slots stay apart and the writer follows no pointer to a reader that is gone; `GraceOver`:
  every step is a step of `Grace`; `WaitEnds`.
* `ImplementsMap`, `ScanComplete`, `LeavesSafe`, `OpsEnd`: the index as an ordered set; iterators pass no key
  that was there all the while; a locked leaf is the right one and nobody touches a freed one, nor
  does a lookup go through the table that is being changed; every call ends.
* `TrieRight`, `LeafRight`, `TableRight`, `ObjectsKept`, `IsPool`, `RecordsRight`: lookups end at the right
  leaf whatever prefixes hash alike, nothing of merged leaves is left in the trie, a split makes no more
  nodes than it reserved, and the slab they come from keeps what it promised; both orders of a leaf find what
  was put and not deleted; every node is in the table once, whatever was moved; no leaf is given
  twice or lost, and the calls of two threads implement `Pool`; one order in every comparison, and what is
  packed comes back.
* `KeysInPlace`, `IteratorRight`, `FilterRight`, `IndexRight`: every key in one place and the sorted prefix
  sorted; iterators meet the neighbours of their key; the filter finds both boundaries, and the place of the left
  store that it still reads after a deletion stays (1640; the key of the right boundary, which 1633 reads
  from the place after the removed one, is not covered: the bytes of a removed entry are not modelled); every key is led to its leaf and found there.

### Bounds

A target of 3, 4 or 8 slots instead of 1024 keeps both halves of the bitmaps, several grades on both sides
of the target and a crowded end of the store within reach; in the filter and the loads the size tables follow load factors of 0.8 and 0.7 and
`ExceptionSize` is 0, so that single insertions and deletions change grades, and a split store comes to the fresh grade (and
is shortened) with one more insertion; 4 or 5 elements make two clusters with
several runs each.  Two implicit bits give gaps of two to four parts; infixes of one or two bits make
prefixes that need expansion after one split; keys share prefixes with each other and with the boundaries
they become, so that three to five of them reach partial boundaries, nested splits, runs of ignored bits and
merges of each pair of kinds.  Batches of three have a first, an inner and a last key, and five keys
make one batch with every rest.  Leaves of two or three keys split and merge with every other call; two
threads with two calls and one are the fewest with which a split and a merge overlap an iterator, and
three threads add a reader that waits for a leaf while two writers change its neighbourhood.  Counters are
bounded in the guards: `MaxElems`, `MaxInfixes`, `MaxKeys`, `MaxLoad`, `MaxCalls`, `MaxRegs`, `MaxVersion`,
`MaxLeaves`, `MaxSize`, `MaxArray`, `MaxStream`, `MaxReserve`, the blocks and the 16-bit number in the word of
the slab (`SeqMod`; the bound ends before it comes round).  Deadlock is checked for the lock; elsewhere a
system at its bounds whose callers do nothing is a legal end, and `OpsEnd` and `WaitEnds` say that calls under
way are never among those that stop.

### Fairness

`rwlock_all` and `worm_map` assume weak fairness of every thread's steps inside a call: threads are
scheduled pre-emptively and a loop that spins or pauses is a step that waits for its condition.  No thread
has to make a call.  That is not enough for a given thread to get the lock (others may pass it for ever),
and no property says so.  `qsbr` assumes weak fairness of the writer inside a wait and of readers inside a
registration, an announcement or an unregistration, and strong fairness of a reader's load of the version:
a reader that is resumed does what it was resumed for, a call of the index, which loads the table before
it parks again.  Without that, a reader that did nothing but park and resume would keep a wait going
(2987 of `lib.c`).  Stores, filter and loading act only when they are called, and have no fairness.

### The one finding that runs, and the known defects

`diva_misdirected` is in the runs because it needs nothing but two ordinary calls: before a partial boundary
`Delete` compares the bit length of the boundary with that of the longest matching infix (1542-1549) and
removes the boundary even if it is no prefix of the key; a key that relied on it is no longer found.

One defect of the table narrows what the runs and proofs of store and filter say: `ShrinkInfixStoreInfixSize`
makes the copy of a store with the default grade (2690).  `SetSlot` goes by the grade of the copy (2146-2147), while the store keeps its own and `GetSlot` reads by that (2117-2118): unless the two have
the same size, slots land on the run ends or on other slots, and infixes are lost.  Stores that were expanded, shrunk, split,
merged or loaded last have other grades.  The model writes and reads the bits as the code does, and the runs shorten
stores of the fresh grade only (`ShrinkFresh`, `AllFresh`); there `ShortensEach` holds.  The tests shorten stores of the default
grade only and expect every infix shortened (`tests/infix_store_tests.cpp` 744-746); the example shortens a filter of any grades.

The passing runs stay clear of these and of the other defects below, each by one named restriction, so that the
rest is checked beyond them.  The table says which property fails when the restriction is lifted; the
configuration is otherwise that of the run of the same module with the constants named.

| where | what the code does | to see it |
|---|---|---|
| 853, 1034 | a split whose (cut) boundary equals the one before it never returns: `GetSharedIgnoreImplicitLengths` loops on two equal keys, which the assertion at 799 allows | `MCDiva`, `Spec`, `Returns`; keys `Dense`, KeyBits 6, ByteBits 2 |
| 1611 | a merge concatenates two lists without sorting them, against the assertion at 1621; where the first places are equal, the next deletion removes the wrong prefix and a held key is lost | `MCDiva`, `MergeSpec`; `ListsStartSorted` with `UnsortedKeys`, `PointComplete` with `LostKeys` (KeyBits 8, MaxInfixes 10) |
| 2690 | shortening a store whose grade is not that of a fresh one writes its slots to other bits than they are read from | `MCInfixStore`, `AnyGradeSpec` for `SettledSpec`, `ShortensEach`; the constants of `store_wide` |
| 2696 | shortening clears the last eight run ends when the bitmaps end on a byte boundary; those of a fresh store of the default load factor do not (64 + 1024 + 1077 bits), those of other grades and load factors may | `MCInfixStore`, `RunsPaired`; `ByteScalars`, target 8, sizes 6, 8, 10 |
| 2459-2463 | a deletion at the end of the store moves the first run off its mapped slot, and a later insertion loses an infix | `MCInfixStore`, `Spec` for `SettledSpec`, `RunsPaired`; `WideScalars` |
| 1989 | a stream's last batch gets a store with no slot to spare if a size fits it exactly; its runs then start left of their mapped slots, and when deletions have made room behind them, a new run in an empty slot gets the places of an old one | `MCInfixStore`, `ImplementsBag`; `TightScalars`, target 8, `InfixSize = 2`, `Filled5` |
| 1791 | a load of 1024 k + 1 keys never ends: the last boundary is also the last key | `MCBulk`, `ArraySpec`, `LoadReturns`; batches of 2 |
| 1974 | a stream that ends exactly on a batch loses its last key | `MCBulk`, `StreamSpec`, `LoadedPoint`; batches of 2 |
| 1970 | a stream that begins with the all-zero key loses the keys of its first store | `MCBulk`, `ZeroSpec`, `LoadedPoint`; keys `Zeros`, batches of 2 |
| 1427 | a filter read from a buffer frees pointers into that buffer | `MCStoreMemory`, `DeletesOwned`; `Careful = FALSE`, `AfterWriting = TRUE` |
| 1395 | a filter with a load factor other than 0.95 writes bytes that the reader refuses | `MCStoreMemory`, `Accepted`; `TwoFactors` |
| 1121 | the integer variant announces too few bytes once a boundary key was cut below eight bytes | `MCStoreMemory`, `SizeExact`; `IntOptimized = TRUE`, `Lens = {7}` |
| `wh.c` 3090-3094 | an iterator that goes back waits for the leaf before its own while it holds its own: it deadlocks with a merge, touches a freed leaf, or passes keys that a split has moved; the comment at 2104 says that leaves are not probed backwards | `MCWormhole`, `Spec`; `NoLockCycle` (`DelBack`), `NoFreedLeaf` (`DelBack`, `Three`), `ScanComplete` (`PutBack`, `FullLeft`, keys 1 to 4) |
| `wh.c` 964 | the cuckoo search never ends on two full buckets whose entries are at home in each other | `WormTable`, `SetEnds`; hashes `<<0, 1>>` and `<<1, 0>>` for two nodes each, `<<0, 1>>` for a fifth, two buckets of two, `MaxSize = 2` |
| `wh_int.c` 1431 | a put that does not follow a seek does not find a key in the unsorted part and adds it twice; the filter always seeks first | `MCIntIndex`, `KeysOnce`; `Sought = FALSE` |
| `wh_int.c` 1868 | a merge of two leaves counts the keys of the right one twice into the sorted prefix; the filter's own deletions of boundaries reach it | `MCIntIndex`, `SortedPrefix`; `Merges = TRUE` |
| `wh_int.c` 1893 | undoing a split after a failed put goes through the same merge | `MCIntIndex`, `UndoClean` |
| `wh_int.c` 2603, 2615 | a range deletion without locks whose end lies in an earlier leaf than its start, with the start at the first place of its own leaf, takes the two places that it compares for an empty range of that leaf, merges away every leaf to the right and then follows the null pointer behind the last one; the function with locks stops at the first leaf that keeps a key | `MCIntIndex`, `KeysInPlace`, without `EndAhead` in `IndexNext` |
| `wh_int.c` 1683 | the test for a short anchor compares the wrong bytes, so that anchors are longer than need be | `MCIntIndex`, `AnchorShort`; leaves of four |
| 471 | inserting the all-ones key steps past the last boundary, and the right neighbour stays what it was, against the assertion at 510 | `MCIntIndex`, `NextThere` |
| `lib.c` 2900 | registration sets its bit before it stores the pointer, and a wait in between follows a null pointer | `MCQsbr`, `Spec`, `DerefsState`; `Fresh = TRUE` |
| `lib.c` 2965 | a resumed reader's store may be delayed past its load of the table, and the wait ends too early | `MCQsbr`, `DelayedSpec`, `GracePeriod`; `StoreBuffers = TRUE` |

The restrictions: `SettledInsert`, `Directed` and `ListsSorted'` in `Diva`; `DeleteUnlessSettled`, `ShrinkFresh` (only stores of the
fresh grade are shortened), starting lists that leave a slot (`SpareSlot`) and a fresh size that does not end on a byte (`KeepsRunends`) in
`MCInfixStore`; `AllFresh` in `Diva`, which is `ShrinkFresh` for all stores of a filter; `SettledLoad` in `Bulk`; `Careful`, `AfterWriting` and the constants in
`StoreMemory`; `Forward` in `MCWormhole`; hashes in `MCIndexParts` of which no two full
buckets are each other's second choice; `DelClear` and its like in `IntLeaf` and `Clean` in `IntIndex`, which leave out
the steps that would break `SortedPrefix`, unless `Merges`; `EndAhead` in `IntIndex`; `Fresh` and `StoreBuffers` in `Qsbr`.

## 4. Proofs

`InfixStore_proofs` and `InfixBag_proofs` prove seven theorems, for every target size, infix size, table of grades and set of starting
lists that the assumptions of `InfixStore` allow: `SizesAssumption` (sizes grow strictly with the grade, the
grade of a fresh store has at least the slack of the load factor, `exception_scaled_size_` is below the smallest
size), `PartsAssumption` (the parts of a gap fit the bitmap of the target size and an infix fits a word; it also
spells out that powers of two double, which the provers do not know), `BoundAssumption` (insertions stop before the last
grade is full; the code has 500 and no check) and `ListsAssumption` (a list is in the order of its parts, as the code
asserts at 2732, the infixes of one part in the order of a run, short prefixes before the longer ones they
start with, and some grade is large enough for it).  Bulk loads and splits hand over such lists; a merge may not (1611 above),
and what it breaks is the choice of the longest prefix, so `Diva` has the same restriction as `ListsSorted'`.

*`RoomTheorem`*: `Spec => []RoomInvariant`.  `RoomInvariant` is not inductive: its second part speaks of the
store after an expansion.  The inductive invariant is `Sized`: the grade exists and its size bounds the
element count.  `RoomForSize` shows that below the bound a `Sized` store has a free slot after the expansion
that comes first; `FitForSized` does the same for the shrinking resize, `LoadGradesFit` for fresh stores, and
`PlacingKeepsSize` and `ClosingKeepsSize` say that no shift touches count or grade.  The theorem is about
`Spec`, the deletions that move a settled run included.

*`WellFormedTheorem`* and *`PopcntsTheorem`*: `SettledSpec => []WellFormed` and `SettledSpec => []PopcntsAccurate`, when
`SpareSlot` (no load fills a store to its last slot) and `KeepsRunends` (shortening a store of the fresh grade masks no run ends away).
`SettledSpec` leaves out the deletions that move a settled run and the shortenings of stores that have another grade than a fresh
one.  Each of the four restrictions is a line of the table above, with the property that fails without it (1989, 2696, 2459-2463 and 2690).  The
constants of both runs satisfy them.  With the 1024 slots of the code `SpareSlot` leaves out the last batch of a stream whose length
is the size of a grade; `KeepsRunends` holds for the default load factor of 0.95, where a fresh store has 1077 slots.  For the
shortenings that remain, `ReadWhereWritten` shows that each slot is read from the bits it was written to.

That as many runs end as parts are occupied says nothing of which run is whose, and no operation preserves it alone: an
insertion finds its run by rank and select, scans for an empty slot from there and trusts that the runs in between
belong where they are.  The inductive invariant is `InShape`: `Good` of the store at its infix size, which is the type, the
count, the two cached counts and `Shape` of the used slots U, the occupied parts O and the run ends R:

| part of `Shape` | what it says | needed for |
|---|---|---|
| `Within` | only used slots end a run, and nothing lies outside the store | every scan |
| `Paired` | as many runs end as parts are occupied | rank and select |
| `Closing` | a used slot with an empty one behind it ends a run | the scans, which look for an empty slot only behind run ends |
| `Levelled` | up to the last empty slot, more parts are mapped to slot p or before it than runs end before it if p is used, and exactly as many if it is empty | a mapped slot that is empty starts the new run in the right rank; a run lies between the last empty slot before it and its run end |

`Levelled` stops at the last empty slot on purpose: behind it the loading pass has pushed runs left of their mapped
slots, and it is why a store needs a slot to spare: with none, nothing is said of the pushed runs, and the first
deletion makes them count.  `InfixShapes` proves, for any monotone `Table` of mapped slots, how each edit keeps `Shape`: a new run
at an empty slot (`NewAtEmpty`) or shifted in to either side (`NewRunRight`, `NewRunLeft`), an infix into its run (`IntoRunRight`,
`IntoRunLeft`), a run shrunk (`RunShrunkLeft`, `RunShrunkRight`) or gone (`RunGoneLeft`, `RunGoneRight`), and a loaded list
(`LoadedShape`).  They rest on two counts, `Below` (members of a set below a position) and `MapsTo` (parts mapped to a slot or before
it), and on what a shift of a bitmap does to `Below` (`BelowShiftedRight`, `BelowShiftedLeft`).  `InfixStore_proofs` then shows that the
code makes just these edits: that rank, select and the scans return what they are meant to on a `Good` store (`RankIs`, `SelectIs`,
`PreviousRunendIs`, `StartOfIs`, ...), that `Placed` and `Closed` are one of the edits in each of their cases (`PlacedIsWell`,
`ClosedLeftWell`, `ClosedRightWell`), and that the list read off a store loads into the next grade (`ListedGood`, `ResizedGood`).  The cached counts go
along: `CountRight` and `CountLeft` say which bits a shift carries across the middle.

*`ImplementsBagTheorem`*, *`DeleteExactTheorem`*, *`LongestMatchTheorem`* and *`QueriesExactTheorem`*: `SettledSpec => ImplementsBag`,
`[]DeleteExact`, `[]LongestMatchExact` and `[]QueriesExact`, under the same two conditions.  They say what the shape is good for: the store is
a bag of infixes, and everything read off it is what the bag holds.  The invariant is `InOrder`, which is `InShape` and `Sorted`: the
infixes of a run are in the order of `ListBefore`.  `Sorted` is what two shortcuts of the code rest on.  A deletion
takes the last match of the run for the longest prefix of its key: `Nested` and `LastMatchIs` show that of two prefixes of one key
the longer is further right in a sorted run.  A range query looks at the first slot of the run of its right bound
only: `RunStartsFirst`.  The argument has four parts.

| part | lemmas |
|---|---|
| an infix more or less: two stores are compared by `Grows`, one has the slots of the other in the same order and one more; whatever moves on the way keeps its run | `PutsGrows` with `PlacedPuts` for the insertion, `DeletedShrinks` for the deletion, from `TakesLeft` and `TakesRight` |
| what that does to the bag: `BagIs` counts the slots that hold a value | `GrowsBag`, `ShrinksBag`, and for the list written out again `ResizedBag` |
| a prefix is an interval of keys, `MarksInterval`; the infix of a slot is a prefix of a key when the slot is in the run of the key's part and its value a prefix of the rest | `ItemIs`, `ItemCovers`, `ItemMeets` |
| which slots an operation looks at: a run is exactly the slots whose infixes are of its part, and a scan covers it exactly | `RunSlots`, `ScannedIs`, `NextOccupiedIs` |

`InsertedBag`, `DeletedKey` and `ShrunkBag` put them together for the three operations, and `InsertImplements`, `DeleteImplements` and
`ShrinkImplements` turn each into the step of `InfixBag`.  `LongestMatchExact` and `DeleteExact` are about every key, also one that no
`SettledSpec` step may delete: taking out the right infix does not need the restriction, keeping the shape does.

`RwLock_proofs` proves `TypeCorrect`, `Excludes`, `Exact` and `NeverOvertaken` (the four safety properties of
`rwlock_all`) for every finite set of threads, every bound on retries and every choice of functions they
call.  `LockAssumption` says that there are fewer threads than the write bit is worth, so that a count of
readers never reaches it.  Exclusion alone is not inductive, since the word decides who gets in and has
to be tied to where the threads are; the invariant is `IInv`: types, the exact word, exclusion.  The word is
a sum over threads, and the argument goes by cardinalities: `Moved` says how the set of threads with a
ticket changes when one of them takes a step, `CountsKept` turns that into arithmetic, `LockedIffOwned` and
`EmptyWord` read the word, and `StepKeeps` goes through the functions step by step.  `NoOvertaking` is an
action property and follows from `IInv` step by step.

`Qsbr_proofs` proves `Safe` (`ReadersSafe`: `SlotsApart` and `DerefsLive`), `NoOldVersion` (`GracePeriod`:
when a wait ends nobody may use an older version) and `Implements` (`GraceOver`: every step is a step of
`Grace` or leaves it alone), for every set of readers and every layout of shards and slots.  They are stated
for `StoreBuffers = FALSE`, where stores reach memory at once; with delayed stores `GracePeriod` is false
(see the line on `lib.c` 2965 above), so this is no convenience of the proof.  `IInv` has, besides the types, where
slots and bits agree (`SlotsTaken`), that a slot points to the reader that has it or to nobody who could be
harmed (`PointersRight`), that nobody has announced more than it may use (`AnnouncedRight`), and the two parts that
carry the argument: a reader whose pointer the writer holds cannot leave, because the writer has latched its
shard (`WriterRight`), and a reader with an older version is in the writer's copy of the bitmaps from the
snapshot on, so that the scan cannot miss it (`OldSeen`).  `SlotsApart` alone fails at the step that sets a bit from
a word read earlier, `GracePeriod` alone at every step of the scan.

`Slab_proofs` proves `Kept` (`Spec => []ObjectsKept`: no object is given twice or while it is free, none is
lost, and the count of free objects and the promise of a reservation are kept) for both kinds of calls, and
`Implements` (`Spec => IsPool`) for the calls of many threads, for any number of threads, any finite set of
blocks and any size of a block.  `SlabAssumption` says no more than that; `MCIndexParts` has TLC evaluate it for
the slab of the leaves (calls of many threads) and for that of the nodes (calls that exclude each other).  The stack exists only as what the word and the links lead to, so `IInv` says that some sequence
of distinct objects is it (`StackIs`), and `StackElements` that `Stack`, the least set closed under links,
is what the sequence holds.  With the sequence, `Apart` and `Whole` are `GivenOnce` and `NoneLost` in a form that a step
can be followed through; `ListRight` says that the objects a thread is about to push are linked to the top
it saw.  The part that carries the argument is `WordRight`: a word that a thread has loaded has a smaller
number than the one in memory or is the same, and if it is the same, the link that the thread read from the
top is still the top's, because nobody writes an object of the stack.  That is why the swap in
`astk_pop_safe` may trust a link read from an object that others could have taken, written and put back in
between, which `GivenOnce` alone cannot tell.  It rests on the bound `SeqMod`: the guard of
the swaps ends the behaviour before the number comes round.  The code's 16 bits do come round, after 65536
swaps during one pop, and neither the proofs nor the runs say anything of that case.

`StoreMemory_proofs` proves `Ownership`: `Spec => []ArraysOwned`, under `Careful`, for any last key and any finite
set of addresses, which is what `MemoryAssumption` asks for besides a last key that is not the first one.
`Careful` keeps callers from changing and destroying a filter that was read from a buffer; without it the
theorem is false (the line on 1427 above).  `ArraysOwned` counts the owners of each array over all filters;
the invariant says instead that the stores of the one filter that was made and the allocated arrays are
matched one to one (`Matched`), that both end marks stay (`Bounded`, which a split and a merge need to find the
boundary on their left), and that a filter that was read has pointers into the buffer only (`Borrowed`).  Each
operation that replaces arrays takes some keys away with theirs and brings others with new ones: `Replaces` says
so for the resize (one for one), the split (two for one), the merge (one for two) and the shortening (all for
all), and `Replaced` proves the invariant once for the four of them.  That a resize may get back the address that
it has just freed is covered.  What the arrays hold and the bytes (`SizeExact`, `RoundTrip`) are model-checked.

`Wormhole_proofs` proves, for any number of threads, keys and leaves and any leaf size:

* `Invariance`: `Spec => []IInv`;
* `Safe`: `Spec => []LeavesSafe`.  A leaf that was found without a lock and is locked with a version that is new
  enough is the leaf of the key; nobody touches a freed leaf; the table that is being changed is one that no
  lookup goes through any more;
* `Complete`: `Spec => []ScanComplete`.  An iterator that goes forward passes no key that was there all the while;
* `Implements`: `Spec => ImplementsMap`.  The index refines `OrderedMap` step by step.

All four assume `"back" \notin Ops`.  An iterator that goes back locks leaves against the order of the list and
the three properties are false with it (the line on `wh.c` 3090-3094 above gives the counterexamples); the same
restriction is `Forward` in the runs.  `IndexAssumption` says that threads, keys and leaves are apart from `None`,
that keys are numbers and that the index starts from a list in order whose first anchor is below every
key (`StartRight`): the code's first leaf has the empty anchor.

The invariant is what the code relies on without saying so.

| part of `IInv` | what it says | needed for |
|---|---|---|
| `LocksRight` | who holds which lock at which step; a writer excludes readers | everything done "to a locked leaf" |
| `ListRight` | the list is in the order of the anchors; every key is in the leaf of its range, or in the left one of two leaves that a merge has emptied but not yet unlinked | `Safe`, every answer |
| `StatesRight`, `LeafRight` | a leaf that nobody else knows belongs to a split, a leaf out of the list to a merge; a thread that seeks knows that a leaf whose version is not newer than its own (`lv <= v`) is linked and the right one | the check of the version after the lock, 1336 and 1364 of `wh.c` |
| `TablesRight` | outside a change both tables are the list; within one the old one lacks exactly the change, and its version is one less than that of the two leaves | routes of lookups, both patches |
| `Quiescence` | whoever goes by the old table has announced an older version, and the writer still waits for it; whoever looks for an unlinked leaf too | no table is changed, and no leaf freed, under a reader |
| `AnswersRight`, `ScansRight` | nobody has an answer before the moment it acts; the keys an iterator must still visit are ahead of it | `Implements`, `Complete` |

`LeavesSafe` is not inductive: that a version is new enough says nothing unless the tables, the leaves and the
announcements are tied together, which is what the last three safety parts do.  Most steps change one
thread's record, and for these `OwnStep` with the frame lemmas (`TablesStay`, `LeafStays`, `QuietStays`, `ScanStays`)
leaves to show only what that thread now knows.  Steps that change the keys of a leaf held by the thread
go through `KeysChange`, those that make or drop a leaf outside the list through `AsideChange`; taking a leaf
into the list (`LinkKeeps`) and out of it (`MergeKeeps`) are the long ones.  For the refinement every step is given
its place: `Call` calls; `GetLooks`, `PutInLeafPuts`, `PutFailsPuts`, `SplitFailsPuts`, `LinkPuts`, `DelKeyDels`,
`DelNothingDels` are the moments at which a call acts, `Repatch` or `IterPark` that at which it returns, and the rest
leave the map alone.  A put that splits acts when the new leaf is linked, not when the key is placed
(`PutSplitsHides`), and a deletion that merges acts before it moves a key (`MergeReturns`).

TLC evaluates the assumptions in every run.  The rest is model-checked only: liveness and fairness
(`WaitersDrain`, `WaitEnds`, `OpsEnd`, `Returns`) are out of the prover's reach, and what folds and recursive functions
compute for every input (the layouts of lists, tries and leaves, the bytes of an image) would need induction
over data.  Backward iterators and delayed stores are model-checked, and fail as the table says.

## 5. Plan

1. (done) `Infix`, `InfixBag`, `InfixStore`, `Diva`; the proof of the room invariant.
2. (done) `Bulk`, `StoreMemory`, `RwLock` with its proofs, `Qsbr`, `Wormhole`, `WormTrie`, `WormLeaf`, `WormTable`,
   `Slab`, `Records`, `IntLeaf`, `IntBoundaries`, `IntIndex`.
3. (done) Proofs about `Qsbr`: safety of its readers for any number of them, the grace period and the
   refinement of `Grace`.
4. (done) Proofs about `Wormhole`: no leaf is freed or changed under a reader, iterators miss nothing, and the
   refinement of `OrderedMap`.
5. (done) Proofs about `InfixStore`: pairing of occupied bits and run ends, the cached popcounts, that the queries and
   the deletion answer from the right run (`QueriesExact`, `DeleteExact`), and the refinement of `InfixBag`.
6. (done) Proofs about `Slab`: no object is given twice or lost, given that the sequence number does not come
   round, and the refinement of `Pool`.
7. Keys of mixed lengths in `Diva`.

## 6. Not modelled

* The benchmarks and the filters they compare with; the tests, which are read for what they assert.
* `lib.c` beyond lock, quiescent states and slab: time, files, memory mapping, strings, hashing, threads;
  the allocation and hashing of `kv.c` and its table of map interfaces.
* Creation, dumping and the merge callback of the index; the single-threaded calls of `wh.c`, whose
  counterparts in `wh_int.c` are in `IntIndex`; the locking of `wh_int.c`, which is the text of `wh.c` again.
* Word-level bit manipulation in `util.hpp`; stack sizes and field widths (the 20 bits of the element
  count, the 16 of the slab's number); the 16 bits of a hash are modelled by prefixes that hash alike.
* In `Diva`, keys of mixed lengths, and the shortcut of the integer variant's `RangeQuery` (607).
