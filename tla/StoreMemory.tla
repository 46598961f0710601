------------------------------ MODULE StoreMemory ------------------------------
(* Who owns the array behind the pointer of a store, and the bytes a filter is  *)
(* written to and read back from (src/include/diva.hpp).  A store is copied     *)
(* into and out of the index by value, so its array is owned by nothing but the *)
(* discipline of the operations that put, replace and delete it.  What an array *)
(* holds is one value here; the order and the lengths of the bytes are the      *)
(* code's.                                                                      *)
EXTENDS Integers, Sequences, FiniteSets, FiniteSetsExt, SequencesExt

CONSTANTS
    IntOptimized,          \* the template parameter
    Target,                \* infix_store_target_size
    Sep, Grades,           \* size_scalar_shrink_grow_sep, size_scalar_count
    ScaleShift,            \* scale_shift
    LoadFactors,           \* bound: the load factors that callers ask for, in percent
    InfixSizes,            \* bound: infix_size_
    LastKey,               \* the boundary key of FF bytes; 0 is the one of zero bytes
    Lens,                  \* bound: the lengths of the keys between them, in bytes
    Contents,              \* bound: what an array may hold
    Blocks,                \* bound: the addresses that new may return
    Careful,               \* a filter that was read back is only asked, and its buffer kept
    AfterWriting,          \* bound: filters change once one was written
    EndMark, None          \* the length UINT32_MAX; no value

ASSUME MemoryAssumption ==
    /\ IntOptimized \in BOOLEAN /\ Careful \in BOOLEAN /\ AfterWriting \in BOOLEAN
    /\ LastKey \in Nat \ {0} /\ Sep \in 1..(Grades - 1) /\ Lens \subseteq Nat
    /\ IsFiniteSet(Blocks)

VARIABLES
    filters,               \* the filters that live: "made" by a constructor, "read" from bytes
    heap,                  \* what the allocated arrays hold
    image,                 \* the caller's buffer: its fields by their offsets
    saved,                 \* history: what was written last
    faults                 \* history: "refused" and "wild", see Deserialize and Delete

vars == <<filters, heap, image, saved, faults>>

DefaultFactor == 95        \* load_factor_ and load_factor_alt_ in the class
Keys == 0..LastKey

\* A function that gets one more value, or another one.
With(f, x, y) == [z \in {x} \cup DOMAIN f |-> IF z = x THEN y ELSE f[z]]

NoBytes == [at \in {} |-> None]

-----------------------------------------------------------------------------
SizeScalar(grade, load_factor) ==
    IF grade < Sep
    THEN (2^ScaleShift * DefaultFactor^(Sep - 1 - grade)) \div 100^(Sep - 1 - grade)
    ELSE (2^ScaleShift * 100^(grade - Sep + 1)) \div load_factor^(grade - Sep + 1)

ScaledSize(grade, load_factor) == (Target * SizeScalar(grade, load_factor)) \div 2^ScaleShift

GetPtrWordCount(slot_count, slot_size) == 1 + (Target + slot_count * (slot_size + 1) + 63) \div 64

\* The bytes of the array of a store, as the filter computes them from its grade.
ArrayBytes(f, store) ==
    8 * GetPtrWordCount(ScaledSize(store.grade, f.load_factor), f.infix_size)

Store(len, grade, ptr) == [len |-> len, grade |-> grade, ptr |-> ptr]

\* A pointer leads to an array that new returned, or to a place in the buffer.
Array(b) == [of |-> "new", at |-> b]
Place(offset) == [of |-> "buffer", at |-> offset]

Addresses(ptrs) == {ptr.at : ptr \in {p \in ptrs : p.of = "new"}}

Held(ptr) == IF ptr.of = "new" THEN heap[ptr.at]
             ELSE IF ptr.at \in DOMAIN image THEN image[ptr.at].value ELSE None

View(f) == [infix_size |-> f.infix_size,
            tree |-> [k \in DOMAIN f.tree |->
                         <<f.tree[k].len, f.tree[k].grade, Held(f.tree[k].ptr)>>]]

Free == Blocks \ DOMAIN heap

\* Addresses that new returns; which of the free ones makes no difference.
New(count) == LET sets == kSubset(count, Free)
              IN  IF sets = {} THEN {} ELSE CHOOSE bs \in sets : TRUE

\* The arrays that are left once ptrs were deleted.  delete[] of what new did not
\* return is undefined.
Left(ptrs) == [b \in DOMAIN heap \ Addresses(ptrs) |-> heap[b]]

Delete(ptrs) == faults' = IF ptrs \subseteq {Array(b) : b \in DOMAIN heap} THEN faults
                          ELSE faults \cup {"wild"}

-----------------------------------------------------------------------------
(* Bytes.                                                                       *)
Field(width, value) == [width |-> width, value |-> value]

GlobalFields == <<Target, 10, ScaleShift, 15, Grades, Sep>>

Words32(values) == [j \in DOMAIN values |-> Field(4, values[j])]

SerializeMetadata(f) ==
    <<Field(1, IF IntOptimized THEN 1 ELSE 0)>> \o Words32(GlobalFields)
        \o Words32(<<f.load_factor, DefaultFactor, f.infix_size, 1, 8, 20>>)

Rounded(len) == ((len + 7) \div 8) * 8

SerializeInfixStore(f, store) == <<Field(4, store.grade), Field(ArrayBytes(f, store), Held(store.ptr))>>

SerializeKey(f, k) == <<Field(4, f.tree[k].len), Field(Rounded(f.tree[k].len), k)>>
                          \o SerializeInfixStore(f, f.tree[k])

InOrder(f) == SetToSortSeq(DOMAIN f.tree, LAMBDA a, b : a < b)

Serialized(f) ==
    SerializeMetadata(f)
        \o FlattenSeq([j \in DOMAIN InOrder(f) |-> SerializeKey(f, InOrder(f)[j])])
        \o <<Field(4, EndMark)>>

OffsetIn(fields, j) == FoldSeq(LAMBDA field, sum : field.width + sum, 0, SubSeq(fields, 1, j - 1))

Extent(fields) == OffsetIn(fields, Len(fields) + 1)

Laid(fields) == [at \in {OffsetIn(fields, j) : j \in DOMAIN fields} |->
                    fields[CHOOSE j \in DOMAIN fields : OffsetIn(fields, j) = at]]

\* Mutated: the keys are taken as they are in both variants.
Size_Unrounded(f) ==
    49 + MapThenSumSet(LAMBDA k : 8 + f.tree[k].len + ArrayBytes(f, f.tree[k]), DOMAIN f.tree) + 4

\* The integer variant adds the length of the key, the other one rounds it up.
Size(f) ==
    49 + MapThenSumSet(LAMBDA k : 8 + (IF IntOptimized THEN f.tree[k].len ELSE Rounded(f.tree[k].len))
                                    + ArrayBytes(f, f.tree[k]),
                       DOMAIN f.tree)
       + 4

\* What is read at a place of the buffer.
At(offset) == IF offset \in DOMAIN image THEN image[offset].value ELSE None

\* The asserts of DeserializeMetadata; the filter has the factors of the class.
MetadataMatches ==
    /\ At(0) = IF IntOptimized THEN 1 ELSE 0
    /\ \A j \in DOMAIN GlobalFields : At(4 * j - 3) = GlobalFields[j]
    /\ At(25) = DefaultFactor /\ At(29) = DefaultFactor
    /\ At(41) = 8 /\ At(45) = 20

ReadSize == At(33)

Skipped(len) == Rounded(len)

\* Mutated: the pointer stays at the status.
DeserializeInfixStore_Status(at, len) == Store(len, At(at), Place(at))

DeserializeInfixStore(at, len) == Store(len, At(at), Place(at + 4))

\* The store of the record that begins at a place of the buffer.
ReadStore(at) == DeserializeInfixStore(at + 4 + Skipped(At(at)), At(at))

\* The loop of the constructor: the places where a record begins, up to the end mark.
Records ==
    LET f == [load_factor |-> DefaultFactor, infix_size |-> ReadSize]
        from[at \in Nat] ==
            LET status == at + 4 + Skipped(At(at))
            IN  IF at \notin DOMAIN image \/ At(at) = EndMark \/ status \notin DOMAIN image THEN {}
                ELSE {at} \cup from[status + 4 + ArrayBytes(f, ReadStore(at))]
    IN  from[49]

\* The puts of the loop: of the records of one key the last one stays.
DeserializedKeys ==
    [k \in {At(at + 4) : at \in Records} |-> ReadStore(Max({at \in Records : At(at + 4) = k}))]

-----------------------------------------------------------------------------
Init == /\ filters = [n \in {} |-> None]
        /\ heap = [b \in {} |-> None]
        /\ image = NoBytes
        /\ saved = None
        /\ faults = {}

Change(n, tree) == filters' = [filters EXCEPT ![n].tree = tree]

\* The constructors; BulkLoad puts more stores, as splits do here.
Construct(load_factor) ==
    /\ "made" \notin DOMAIN filters
    /\ \E a, b \in New(2), size \in InfixSizes, v \in Contents :
          /\ a # b
          /\ heap' = With(With(heap, a, v), b, v)
          /\ filters' = With(filters, "made",
                              [load_factor |-> load_factor, infix_size |-> size,
                               tree |-> [k \in {0, LastKey} |->
                                            Store(8, Sep, Array(IF k = 0 THEN a ELSE b))]])
    /\ UNCHANGED <<image, saved, faults>>

\* The filters a caller may change.
Changed == {n \in DOMAIN filters : /\ Careful => n # "read"
                                   /\ image # NoBytes => AfterWriting}

\* An insertion or a deletion that finds room.
Write(n, k, v) ==
    LET ptr == filters[n].tree[k].ptr
    IN  /\ IF ptr.of = "new"
           THEN heap' = [heap EXCEPT ![ptr.at] = v] /\ UNCHANGED image
           ELSE image' = [image EXCEPT ![ptr.at].value = v] /\ UNCHANGED heap
        /\ UNCHANGED <<filters, saved, faults>>

\* The array is deleted before the next one is asked for.
ResizeInfixStore(n, k, grade, v) ==
    LET store == filters[n].tree[k]
    IN  \E b \in New(1) \cup Addresses({store.ptr}) :
           /\ Change(n, [filters[n].tree EXCEPT ![k] = Store(store.len, grade, Array(b))])
           /\ heap' = With(Left({store.ptr}), b, v)
           /\ Delete({store.ptr})
           /\ UNCHANGED <<image, saved>>

\* InsertSplit: two arrays, the two puts, then delete[] of the array that was read
\* before them.
InsertSplit(n, prev, key, len, grade, v) ==
    LET tree == filters[n].tree
    IN  \E a, b \in New(2) :
           /\ a # b
           /\ Change(n, With(With(tree, key, Store(len, grade, Array(b))),
                             prev, Store(tree[prev].len, grade, Array(a))))
           /\ heap' = With(With(Left({tree[prev].ptr}), a, v), b, v)
           /\ Delete({tree[prev].ptr})
           /\ UNCHANGED <<image, saved>>

\* Mutated: the array of the deleted boundary stays.
DeleteMerge_Kept(n, left, middle, grade, v) ==
    LET tree == filters[n].tree
    IN  \E b \in New(1) \cup Addresses({tree[left].ptr}) :
           /\ Change(n, With([k \in DOMAIN tree \ {middle} |-> tree[k]],
                             left, Store(tree[left].len, grade, Array(b))))
           /\ heap' = With(Left({tree[left].ptr}), b, v)
           /\ Delete({tree[left].ptr})
           /\ UNCHANGED <<image, saved>>

DeleteMerge(n, left, middle, grade, v) ==
    LET tree == filters[n].tree
        old  == {tree[left].ptr, tree[middle].ptr}
    IN  \E b \in New(1) \cup Addresses(old) :
           /\ Change(n, With([k \in DOMAIN tree \ {middle} |-> tree[k]],
                             left, Store(tree[left].len, grade, Array(b))))
           /\ heap' = With(Left(old), b, v)
           /\ Delete(old)
           /\ UNCHANGED <<image, saved>>

\* Every store in turn gets an array of its own for the shorter infixes.
ShrinkInfixSize(n, size) ==
    LET tree == filters[n].tree
        old  == {tree[k].ptr : k \in DOMAIN tree}
    IN  /\ size < filters[n].infix_size
        /\ \E bs \in {New(Cardinality(DOMAIN tree))} \ {{}} :
              LET block == CHOOSE f \in Bijection(DOMAIN tree, bs) : TRUE
              IN  /\ filters' = [filters EXCEPT
                                    ![n].tree = [k \in DOMAIN tree |-> [tree[k] EXCEPT !.ptr = Array(block[k])]],
                                    ![n].infix_size = size]
                  /\ heap' = [b \in bs \cup DOMAIN Left(old) |->
                                  IF b \in bs
                                  THEN Held(tree[CHOOSE k \in DOMAIN tree : block[k] = b].ptr)
                                  ELSE heap[b]]
        /\ Delete(old)
        /\ UNCHANGED <<image, saved>>

Destroy(n) ==
    LET old == {filters[n].tree[k].ptr : k \in DOMAIN filters[n].tree}
    IN  /\ filters' = [o \in DOMAIN filters \ {n} |-> filters[o]]
        /\ heap' = Left(old)
        /\ Delete(old)
        /\ UNCHANGED <<image, saved>>

\* A caller writes to a buffer that no filter reads from.
Serialize(n) ==
    /\ "read" \notin DOMAIN filters
    /\ image' = Laid(Serialized(filters[n]))
    /\ saved' = [view |-> View(filters[n]), size |-> Size(filters[n]),
                 written |-> Extent(Serialized(filters[n]))]
    /\ UNCHANGED <<filters, heap, faults>>

\* The constructor that reads a buffer; its stores keep pointers into it.
Deserialize ==
    /\ image # NoBytes /\ "read" \notin DOMAIN filters
    /\ IF MetadataMatches
       THEN /\ filters' = With(filters, "read", [load_factor |-> DefaultFactor, infix_size |-> ReadSize,
                                                 tree |-> DeserializedKeys])
            /\ UNCHANGED faults
       ELSE faults' = faults \cup {"refused"} /\ UNCHANGED filters
    /\ UNCHANGED <<heap, image, saved>>

Alter ==
    \/ \E load_factor \in LoadFactors : Construct(load_factor)
    \/ \E n \in Changed :
          \/ \E k \in DOMAIN filters[n].tree, v \in Contents : Write(n, k, v)
          \/ \E k \in DOMAIN filters[n].tree, v \in Contents, up \in {-1, 1} :
                LET grade == filters[n].tree[k].grade + up
                IN  grade \in 0..(Grades - 1) /\ ResizeInfixStore(n, k, grade, v)
          \/ \E k \in Keys \ DOMAIN filters[n].tree, len \in Lens, grade \in {0, Sep}, v \in Contents :
                InsertSplit(n, Max({b \in DOMAIN filters[n].tree : b < k}), k, len, grade, v)
          \/ \E k \in DOMAIN filters[n].tree \ {0, LastKey}, grade \in {0, Sep}, v \in Contents :
                DeleteMerge(n, Max({b \in DOMAIN filters[n].tree : b < k}), k, grade, v)
          \/ \E size \in InfixSizes : ShrinkInfixSize(n, size)
          \/ Destroy(n)

Next == \/ Alter
        \/ \E n \in DOMAIN filters : Serialize(n)
        \/ Deserialize

Spec == Init /\ [][Next]_vars

-----------------------------------------------------------------------------
\* The shape of the filters: both end marks, lengths and grades within their bounds.
TypeOK ==
    /\ DOMAIN filters \subseteq {"made", "read"}
    /\ \A n \in DOMAIN filters :
          /\ filters[n].infix_size \in InfixSizes
          /\ {0, LastKey} \subseteq DOMAIN filters[n].tree
          /\ \A k \in DOMAIN filters[n].tree :
                /\ filters[n].tree[k].len \in Lens \cup {8}
                /\ filters[n].tree[k].grade \in 0..(Grades - 1)
    /\ DOMAIN heap \subseteq Blocks
    /\ \A b \in DOMAIN heap : heap[b] \in Contents

Owners(b) == {o \in (DOMAIN filters) \X Keys :
                 o[2] \in DOMAIN filters[o[1]].tree /\ filters[o[1]].tree[o[2]].ptr = Array(b)}

\* Every allocated array belongs to exactly one store of one living filter, and no
\* store points to an array that was deleted: InsertSplit and DeleteMerge delete what
\* they replace, "No memory leaks!", and nothing else, whatever operations came before.
OwnedOnce ==
    /\ \A b \in DOMAIN heap : Cardinality(Owners(b)) = 1
    /\ \A b \in Blocks \ DOMAIN heap : Owners(b) = {}

\* Every delete[] of a resize, a split, a merge and the destructor gets an array that new
\* returned and that was not deleted before.
DeletesOwned == "wild" \notin faults

\* InsertSplit, DeleteMerge, ResizeInfixStore, ShrinkInfixSize and ~Diva: an array has one
\* owner, which frees it once, through any sequence of calls, and nothing else is freed.
ArraysOwned == OwnedOnce /\ DeletesOwned

\* The bytes that a filter writes are the bytes that Size announced: the caller's buffer
\* is neither too short nor partly left as it was.
SizeExact == saved # None => saved.size = saved.written

\* A filter read back has the boundaries, the arrays and the infix size of the one that was
\* written, whatever grades and key lengths that had.
ReadsBack == "read" \in DOMAIN filters => View(filters["read"]) = saved.view

\* What a filter of this variant wrote can be read by this variant.
Accepted == "refused" \notin faults
=============================================================================
