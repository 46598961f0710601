------------------------- MODULE StoreMemory_proofs -------------------------
(* The arrays of the stores are owned once and freed by their owner: what       *)
(* StoreMemory checks as ArraysOwned, for every number of blocks and of         *)
(* boundary keys.  The filters that callers change and destroy are the made     *)
(* ones: Careful, as the constructor from a buffer asks.                        *)
EXTENDS StoreMemory, FiniteSetTheorems, WellFoundedInduction, TLAPS

-----------------------------------------------------------------------------
(* The invariant.                                                               *)

\* The stores of the given keys point to the arrays of the given blocks, one each.
Matched(tree, keys, blocks) ==
    /\ \A k \in keys : \E b \in blocks : tree[k].ptr = Array(b)
    /\ \A b \in blocks : \E k \in keys : tree[k].ptr = Array(b)
    /\ \A j, k \in keys : tree[j].ptr = tree[k].ptr => j = k

MadeTree == IF "made" \in DOMAIN filters THEN filters["made"].tree ELSE << >>

\* What a boundary key leads to is a store, and a filter has a tree of them.
Shaped ==
    /\ DOMAIN filters \subseteq {"made", "read"}
    /\ \A n \in DOMAIN filters : {"tree", "infix_size"} \subseteq DOMAIN filters[n]
    /\ \A k \in DOMAIN MadeTree : "ptr" \in DOMAIN MadeTree[k]

\* Both end marks stay in a filter that was made.
Bounded == "made" \in DOMAIN filters => /\ {0, LastKey} \subseteq DOMAIN MadeTree
                                        /\ DOMAIN MadeTree \subseteq Keys

\* The stores of a filter that was read lie in the buffer of the caller.
Borrowed == "read" \in DOMAIN filters =>
    \A k \in DOMAIN filters["read"].tree : filters["read"].tree[k].ptr.of # "new"

\* Each array belongs to one key of the filter that was made.
Owned == Matched(MadeTree, DOMAIN MadeTree, DOMAIN heap)

IInv == Shaped /\ Bounded /\ Borrowed /\ Owned /\ DOMAIN heap \subseteq Blocks /\ DeletesOwned

-----------------------------------------------------------------------------
(* Sets of keys and of blocks.                                                  *)

\* Two arrays are the same only at the same address.
LEMMA Array_Injective == \A a, b : Array(a) = Array(b) => a = b
  BY DEF Array

\* The addresses of some arrays are their blocks.
LEMMA Addresses_Arrays ==
  ASSUME NEW bs PROVE Addresses({Array(b) : b \in bs}) = bs
<1>1. \A b \in bs : Array(b).of = "new" /\ Array(b).at = b
  BY DEF Array
<1>2. ASSUME NEW b \in bs PROVE b \in Addresses({Array(c) : c \in bs})
  BY <1>1 DEF Addresses
<1>3. ASSUME NEW x \in Addresses({Array(c) : c \in bs}) PROVE x \in bs
  BY <1>1 DEF Addresses
<1> QED BY <1>2, <1>3

\* A function that gets a value has it, and its others.
LEMMA With_Value ==
  ASSUME NEW f, NEW x, NEW y
  PROVE  /\ DOMAIN With(f, x, y) = {x} \cup DOMAIN f
         /\ With(f, x, y)[x] = y
         /\ \A z \in DOMAIN f \ {x} : With(f, x, y)[z] = f[z]
  BY DEF With

\* What new returns was free, and there are as many as were asked for.
LEMMA New_Free ==
  ASSUME NEW count
  PROVE  /\ New(count) \subseteq Free
         /\ New(count) # {} => Cardinality(New(count)) = count
<1> DEFINE sets == kSubset(count, Free)
<1>1. CASE sets = {}
  BY <1>1 DEF New
<1>2. CASE sets # {}
  <2>1. New(count) = CHOOSE bs \in sets : TRUE
    BY <1>2 DEF New
  <2>2. New(count) \in sets
    BY <1>2, <2>1
  <2> QED BY <2>2 DEF kSubset
<1> QED BY <1>1, <1>2

\* A set of boundary keys has a greatest member.
LEMMA Max_Key ==
  ASSUME NEW S \in SUBSET Keys, S # {}
  PROVE  Max(S) \in S
<1>1. PICK n \in {LastKey - s : s \in S} : \A m \in {LastKey - s : s \in S} : <<m, n>> \notin OpToRel(<, Nat)
  <2>1. {LastKey - s : s \in S} # {}
    OBVIOUS
  <2>2. ASSUME NEW s \in S
        PROVE  LastKey - s \in Nat
    <3>1. s \in 0..LastKey /\ LastKey \in Nat
      BY MemoryAssumption DEF Keys
    <3> QED BY <3>1
  <2>3. {LastKey - s : s \in S} \subseteq Nat
    BY <2>2
  <2> QED BY <2>1, <2>3, NatLessThanWellFounded, WFMin
<1>2. PICK x \in S : n = LastKey - x
  OBVIOUS
<1>3. \A y \in S : x >= y
  <2> TAKE y \in S
  <2>1. LastKey - y \in Nat /\ LastKey - x \in Nat /\ x \in Nat /\ y \in Nat
    BY MemoryAssumption DEF Keys
  <2>2. ~ (LastKey - y < LastKey - x)
    BY <1>1, <1>2, <2>1 DEF OpToRel
  <2> QED BY <2>1, <2>2, MemoryAssumption
<1> QED BY <1>3 DEF Max

\* The boundary below a key that is not the least one.
LEMMA Below ==
  ASSUME NEW S \in SUBSET Keys, 0 \in S, NEW key \in Keys, key # 0
  PROVE  /\ Max({b \in S : b < key}) \in S
         /\ Max({b \in S : b < key}) # key
<1> DEFINE L == {b \in S : b < key}
<1>1. L \in SUBSET Keys /\ L # {}
  <2>1. 0 < key
    BY MemoryAssumption DEF Keys
  <2> QED BY <2>1
<1>2. Max(L) \in L
  BY <1>1, Max_Key
<1>3. \A m \in L : m \in S /\ m < key /\ m \in Int
  BY <1>1 DEF Keys
<1> HIDE DEF L
<1>4. Max(L) \in S /\ Max(L) < key /\ Max(L) \in Int
  BY <1>2, <1>3
<1>5. Max(L) # key
  BY <1>4
<1> QED BY <1>4, <1>5 DEF L

-----------------------------------------------------------------------------
(* Matched, when keys and blocks go and come.                                   *)

\* The blocks of the keys that stay are those that are not freed.
LEMMA Matched_Without ==
  ASSUME NEW tree, NEW keys, NEW blocks, Matched(tree, keys, blocks), NEW gone \in SUBSET keys
  PROVE  Matched(tree, keys \ gone, blocks \ Addresses({tree[k].ptr : k \in gone}))
<1> DEFINE freed == Addresses({tree[k].ptr : k \in gone})
<1>1. \A b \in blocks : b \in freed <=> \E k \in gone : tree[k].ptr = Array(b)
  <2> TAKE b \in blocks
  <2>1. ASSUME b \in freed PROVE \E k \in gone : tree[k].ptr = Array(b)
    <3>1. PICK k \in gone : tree[k].ptr.at = b /\ tree[k].ptr.of = "new"
      BY <2>1 DEF Addresses
    <3>2. \E c \in blocks : tree[k].ptr = Array(c)
      BY DEF Matched
    <3> QED BY <3>1, <3>2 DEF Array
  <2>2. ASSUME NEW k \in gone, tree[k].ptr = Array(b) PROVE b \in freed
    <3>1. tree[k].ptr.at = b /\ tree[k].ptr.of = "new"
      BY <2>2 DEF Array
    <3> QED BY <3>1 DEF Addresses
  <2> QED BY <2>1, <2>2
<1>2. ASSUME NEW k \in keys \ gone PROVE \E b \in blocks \ freed : tree[k].ptr = Array(b)
  <2>1. PICK b \in blocks : tree[k].ptr = Array(b)
    BY DEF Matched
  <2>2. b \notin freed
    BY <1>1, <2>1 DEF Matched
  <2> QED BY <2>1, <2>2
<1>3. ASSUME NEW b \in blocks \ freed PROVE \E k \in keys \ gone : tree[k].ptr = Array(b)
  BY <1>1 DEF Matched
<1> HIDE DEF freed
<1>4. Matched(tree, keys \ gone, blocks \ freed)
  BY <1>2, <1>3 DEF Matched
<1> QED BY <1>4 DEF freed

\* Keys and blocks come that were not there.
LEMMA Matched_With ==
  ASSUME NEW tree, NEW old, NEW new, NEW left, NEW blocks,
         Matched(tree, old, left), Matched(tree, new, blocks), left \cap blocks = {}
  PROVE  Matched(tree, old \cup new, blocks \cup left)
<1>1. ASSUME NEW j \in old, NEW k \in new PROVE tree[j].ptr # tree[k].ptr
  BY Array_Injective DEF Matched
<1>2. \A k \in old \cup new : \E b \in blocks \cup left : tree[k].ptr = Array(b)
  BY DEF Matched
<1>3. \A b \in blocks \cup left : \E k \in old \cup new : tree[k].ptr = Array(b)
  BY DEF Matched
<1>4. \A j, k \in old \cup new : tree[j].ptr = tree[k].ptr => j = k
  BY <1>1 DEF Matched
<1> QED BY <1>2, <1>3, <1>4 DEF Matched

\* Only the pointers count.
LEMMA Matched_Same ==
  ASSUME NEW tree, NEW next, NEW keys, NEW blocks, Matched(tree, keys, blocks),
         \A k \in keys : next[k].ptr = tree[k].ptr
  PROVE  Matched(next, keys, blocks)
  BY DEF Matched

\* A caller changes filters that were made.
LEMMA Changed_Made ==
  ASSUME Careful, Shaped, NEW n \in Changed PROVE n = "made" /\ n \in DOMAIN filters
  BY DEF Changed, Shaped

-----------------------------------------------------------------------------
(* Steps.                                                                       *)

\* The stores of a filter that was made point to allocated blocks.
LEMMA Made_Blocks ==
  ASSUME IInv, "made" \in DOMAIN filters, NEW keys \in SUBSET DOMAIN filters["made"].tree
  PROVE  Addresses({filters["made"].tree[k].ptr : k \in keys}) \subseteq DOMAIN heap
<1>1. \A k \in keys : \E b \in DOMAIN heap : filters["made"].tree[k].ptr = Array(b)
  BY DEF IInv, Owned, Matched, MadeTree
<1>2. \A k \in keys : filters["made"].tree[k].ptr.at \in DOMAIN heap
  <2> TAKE k \in keys
  <2>1. PICK b \in DOMAIN heap : filters["made"].tree[k].ptr = Array(b)
    BY <1>1
  <2> QED BY <2>1 DEF Array
<1> QED BY <1>2 DEF Addresses

\* The stores of some keys of the filter that was made are replaced by those of
\* others, and the arrays of the first are deleted.
Replaces(gone, come, blocks) ==
    LET tree == filters["made"].tree
        next == filters'["made"].tree
        ptrs == {tree[k].ptr : k \in gone}
    IN  /\ DOMAIN filters' = DOMAIN filters
        /\ \A n \in DOMAIN filters : {"tree", "infix_size"} \subseteq DOMAIN filters'[n]
        /\ \A n \in DOMAIN filters \ {"made"} : filters'[n] = filters[n]
        /\ DOMAIN next = (DOMAIN tree \ gone) \cup come
        /\ {0, LastKey} \subseteq DOMAIN next
        /\ \A k \in DOMAIN tree \ gone : next[k] = tree[k]
        /\ \A k \in come : "ptr" \in DOMAIN next[k]
        /\ Matched(next, come, blocks)
        /\ DOMAIN heap' = blocks \cup (DOMAIN heap \ Addresses(ptrs))
        /\ Delete(ptrs)

\* Replacing keeps the invariant when the new arrays were free, or were freed just now.
LEMMA Replaced ==
  ASSUME IInv, "made" \in DOMAIN filters,
         NEW gone \in SUBSET DOMAIN filters["made"].tree, NEW come \in SUBSET Keys, NEW blocks,
         Replaces(gone, come, blocks),
         blocks \subseteq Free \cup Addresses({filters["made"].tree[k].ptr : k \in gone})
  PROVE  IInv'
<1> DEFINE tree == filters["made"].tree
<1> DEFINE next == filters'["made"].tree
<1> DEFINE ptrs == {tree[k].ptr : k \in gone}
<1> DEFINE left == DOMAIN heap \ Addresses(ptrs)
<1>a. MadeTree = tree
  BY DEF MadeTree
<1>b. MadeTree' = next
  BY DEF MadeTree, Replaces
<1>1. Matched(tree, DOMAIN tree, DOMAIN heap)
  BY <1>a DEF IInv, Owned
<1>2. Matched(tree, DOMAIN tree \ gone, left)
  BY <1>1, Matched_Without
<1>3. Matched(next, DOMAIN tree \ gone, left)
  <2>1. \A k \in DOMAIN tree \ gone : next[k].ptr = tree[k].ptr
    BY DEF Replaces
  <2> HIDE DEF tree, next, left
  <2> QED BY <1>2, <2>1, Matched_Same
<1>4. left \cap blocks = {} /\ blocks \subseteq Blocks
  <2>1. Addresses(ptrs) \subseteq DOMAIN heap
    BY Made_Blocks
  <2> QED BY <2>1 DEF Free, IInv
<1>5. Matched(next, DOMAIN next, DOMAIN heap')
  <2>1. Matched(next, come, blocks)
    BY DEF Replaces
  <2>2. DOMAIN next = (DOMAIN tree \ gone) \cup come /\ DOMAIN heap' = blocks \cup left
    BY DEF Replaces
  <2> HIDE DEF tree, next, left
  <2>3. Matched(next, (DOMAIN tree \ gone) \cup come, blocks \cup left)
    BY <1>3, <1>4, <2>1, Matched_With
  <2> QED BY <2>2, <2>3
<1>6. ptrs \subseteq {Array(b) : b \in DOMAIN heap}
  BY <1>1 DEF Matched
<1>7. Shaped'
  <2>1. (DOMAIN filters \subseteq {"made", "read"})'
    BY DEF IInv, Shaped, Replaces
  <2>2. \A n \in DOMAIN filters' : {"tree", "infix_size"} \subseteq DOMAIN filters'[n]
    BY DEF Replaces
  <2>3. \A k \in DOMAIN next : "ptr" \in DOMAIN next[k]
    BY <1>a DEF Replaces, IInv, Shaped
  <2> HIDE DEF next
  <2> QED BY <1>b, <2>1, <2>2, <2>3 DEF Shaped
<1>8. Bounded'
  <2>1. DOMAIN tree \subseteq Keys
    BY <1>a DEF IInv, Bounded
  <2> QED BY <1>b, <2>1 DEF Bounded, Replaces
<1>9. Borrowed'
  BY DEF IInv, Borrowed, Replaces
<1>10. Owned'
  BY <1>b, <1>5 DEF Owned
<1>11. (DOMAIN heap \subseteq Blocks)'
  BY <1>4 DEF IInv, Replaces
<1>12. DeletesOwned'
  BY <1>6 DEF IInv, DeletesOwned, Delete, Replaces
<1> QED BY <1>7, <1>8, <1>9, <1>10, <1>11, <1>12 DEF IInv

\* A filter is changed at its tree alone.
LEMMA Change_Tree ==
  ASSUME Shaped, NEW n \in DOMAIN filters, NEW tree, Change(n, tree)
  PROVE  /\ DOMAIN filters' = DOMAIN filters
         /\ filters'[n].tree = tree
         /\ \A m \in DOMAIN filters : {"tree", "infix_size"} \subseteq DOMAIN filters'[m]
         /\ \A m \in DOMAIN filters \ {n} : filters'[m] = filters[m]
<1>1. filters' = [filters EXCEPT ![n] = [filters[n] EXCEPT !.tree = tree]]
  BY DEF Change
<1>2. filters'[n] = [filters[n] EXCEPT !.tree = tree]
  BY <1>1
<1>3. "tree" \in DOMAIN filters[n]
  BY DEF Shaped
<1>4. filters'[n].tree = tree /\ DOMAIN filters'[n] = DOMAIN filters[n]
  BY <1>2, <1>3
<1> QED BY <1>1, <1>4 DEF Shaped

\* A store that was written has the pointer it was given.
LEMMA Store_Pointer ==
  \A len, grade, p : "ptr" \in DOMAIN Store(len, grade, p) /\ Store(len, grade, p).ptr = p
  BY DEF Store

\* A constructor: the two ends get two arrays.
LEMMA Construct_Keeps ==
  ASSUME IInv, NEW load_factor \in LoadFactors, Construct(load_factor) PROVE IInv'
<1>1. PICK a, b \in New(2), size \in InfixSizes, v \in Contents :
          /\ a # b
          /\ heap' = With(With(heap, a, v), b, v)
          /\ filters' = With(filters, "made",
                              [load_factor |-> load_factor, infix_size |-> size,
                               tree |-> [k \in {0, LastKey} |->
                                            Store(8, Sep, Array(IF k = 0 THEN a ELSE b))]])
  BY DEF Construct
<1>2. "made" \notin DOMAIN filters /\ UNCHANGED faults
  BY DEF Construct
<1> DEFINE T == [k \in {0, LastKey} |-> Store(8, Sep, Array(IF k = 0 THEN a ELSE b))]
<1> DEFINE F == [load_factor |-> load_factor, infix_size |-> size, tree |-> T]
<1>3. DOMAIN T = {0, LastKey} /\ T[0] = Store(8, Sep, Array(a)) /\ T[LastKey] = Store(8, Sep, Array(b))
  BY MemoryAssumption
<1>4. DOMAIN filters' = {"made"} \cup DOMAIN filters /\ filters'["made"] = F
      /\ \A n \in DOMAIN filters : filters'[n] = filters[n]
  <2>1. filters' = With(filters, "made", F)
    BY <1>1
  <2> HIDE DEF F
  <2>3. /\ DOMAIN With(filters, "made", F) = {"made"} \cup DOMAIN filters
        /\ With(filters, "made", F)["made"] = F
        /\ \A n \in DOMAIN filters \ {"made"} : With(filters, "made", F)[n] = filters[n]
    BY DEF With
  <2>2. DOMAIN filters \ {"made"} = DOMAIN filters
    BY <1>2
  <2> QED BY <2>1, <2>2, <2>3
<1>5. MadeTree' = T
  BY <1>4 DEF MadeTree
<1>6. DOMAIN heap = {}
  <2>1. MadeTree = << >>
    BY <1>2 DEF MadeTree
  <2> QED BY <2>1 DEF IInv, Owned, Matched
<1>7. DOMAIN heap' = {a, b}
  <2>1. DOMAIN With(heap, a, v) = {a} \cup DOMAIN heap
    BY With_Value
  <2>2. DOMAIN With(With(heap, a, v), b, v) = {b} \cup DOMAIN With(heap, a, v)
    BY With_Value
  <2> QED BY <1>1, <1>6, <2>1, <2>2
<1> HIDE DEF T
<1>8. Shaped'
  BY <1>3, <1>4, <1>5, Store_Pointer DEF IInv, Shaped
<1>9. Bounded'
  BY <1>3, <1>5, MemoryAssumption DEF Bounded, Keys
<1>10. Borrowed'
  BY <1>4 DEF IInv, Borrowed
<1>11. Owned'
  <2>1. T[0].ptr = Array(a) /\ T[LastKey].ptr = Array(b)
    BY <1>3, Store_Pointer
  <2>2. Array(a) # Array(b)
    BY <1>1, Array_Injective
  <2>3. Matched(T, {0, LastKey}, {a, b})
    BY <2>1, <2>2 DEF Matched
  <2> QED BY <1>3, <1>5, <1>7, <2>3 DEF Owned
<1>12. (DOMAIN heap \subseteq Blocks)'
  BY <1>1, <1>7, New_Free DEF Free
<1> QED BY <1>2, <1>8, <1>9, <1>10, <1>11, <1>12 DEF IInv, DeletesOwned

\* Writing to an array leaves it where it is.
LEMMA Write_Keeps ==
  ASSUME IInv, NEW n \in DOMAIN filters, NEW k, NEW v, Write(n, k, v) PROVE IInv'
<1>1. UNCHANGED <<filters, faults>> /\ DOMAIN heap' = DOMAIN heap
  BY DEF Write
<1> QED BY <1>1 DEF IInv, Shaped, Bounded, Borrowed, Owned, DeletesOwned, MadeTree

\* A resize: the array of a store gives way to another one.
LEMMA ResizeInfixStore_Keeps ==
  ASSUME IInv, "made" \in DOMAIN filters, NEW k \in DOMAIN filters["made"].tree, NEW grade, NEW v,
         ResizeInfixStore("made", k, grade, v)
  PROVE  IInv'
<1> DEFINE tree == filters["made"].tree
<1> DEFINE store == tree[k]
<1>1. PICK b \in New(1) \cup Addresses({store.ptr}) :
          /\ Change("made", [tree EXCEPT ![k] = Store(store.len, grade, Array(b))])
          /\ heap' = With(Left({store.ptr}), b, v)
          /\ Delete({store.ptr})
  BY DEF ResizeInfixStore
<1> DEFINE next == [tree EXCEPT ![k] = Store(store.len, grade, Array(b))]
<1>a. MadeTree = tree
  BY DEF MadeTree
<1>2. DOMAIN next = DOMAIN tree /\ next[k] = Store(store.len, grade, Array(b))
      /\ \A j \in DOMAIN tree \ {k} : next[j] = tree[j]
  OBVIOUS
<1>3. /\ DOMAIN filters' = DOMAIN filters
      /\ filters'["made"].tree = next
      /\ \A m \in DOMAIN filters : {"tree", "infix_size"} \subseteq DOMAIN filters'[m]
      /\ \A m \in DOMAIN filters \ {"made"} : filters'[m] = filters[m]
  BY <1>1, Change_Tree DEF IInv
<1>4. Matched(next, {k}, {b})
  BY <1>2, Store_Pointer DEF Matched
<1>5. DOMAIN heap' = {b} \cup (DOMAIN heap \ Addresses({store.ptr}))
  <2>1. DOMAIN Left({store.ptr}) = DOMAIN heap \ Addresses({store.ptr})
    BY DEF Left
  <2> QED BY <1>1, <2>1, With_Value
<1>6. {b} \subseteq Free \cup Addresses({store.ptr})
  BY <1>1, New_Free
<1>7. {store.ptr} = {tree[j].ptr : j \in {k}} /\ {k} \in SUBSET DOMAIN tree /\ {k} \in SUBSET Keys
  BY <1>a DEF IInv, Bounded
<1>8. {0, LastKey} \subseteq DOMAIN next
  BY <1>a, <1>2 DEF IInv, Bounded
<1>9. "ptr" \in DOMAIN next[k]
  BY <1>2, Store_Pointer
<1> HIDE DEF next
<1>10. Replaces({k}, {k}, {b})
  BY <1>1, <1>2, <1>3, <1>4, <1>5, <1>7, <1>8, <1>9 DEF Replaces
<1> QED BY <1>6, <1>7, <1>10, Replaced

\* A split: one store and its array give way to two.
LEMMA InsertSplit_Keeps ==
  ASSUME IInv, "made" \in DOMAIN filters, NEW prev \in DOMAIN filters["made"].tree,
         NEW key \in Keys, key \notin DOMAIN filters["made"].tree, NEW len, NEW grade, NEW v,
         InsertSplit("made", prev, key, len, grade, v)
  PROVE  IInv'
<1> DEFINE tree == filters["made"].tree
<1> DEFINE ptrs == {tree[prev].ptr}
<1>1. PICK a, b \in New(2) :
          /\ a # b
          /\ Change("made", With(With(tree, key, Store(len, grade, Array(b))),
                                 prev, Store(tree[prev].len, grade, Array(a))))
          /\ heap' = With(With(Left(ptrs), a, v), b, v)
          /\ Delete(ptrs)
  BY DEF InsertSplit
<1> DEFINE more == With(tree, key, Store(len, grade, Array(b)))
<1> DEFINE next == With(more, prev, Store(tree[prev].len, grade, Array(a)))
<1>a. MadeTree = tree
  BY DEF MadeTree
<1>2. /\ DOMAIN next = DOMAIN tree \cup {key}
      /\ next[prev] = Store(tree[prev].len, grade, Array(a))
      /\ next[key] = Store(len, grade, Array(b))
      /\ \A j \in DOMAIN tree \ {prev} : next[j] = tree[j]
  <2> HIDE DEF tree
  <2>1. /\ DOMAIN more = {key} \cup DOMAIN tree
        /\ more[key] = Store(len, grade, Array(b))
        /\ \A j \in DOMAIN tree \ {key} : more[j] = tree[j]
    BY DEF With
  <2> HIDE DEF more
  <2>2. /\ DOMAIN next = {prev} \cup DOMAIN more
        /\ next[prev] = Store(tree[prev].len, grade, Array(a))
        /\ \A j \in DOMAIN more \ {prev} : next[j] = more[j]
    BY DEF With
  <2> HIDE DEF next
  <2> QED BY <2>1, <2>2 DEF tree
<1>3. /\ DOMAIN filters' = DOMAIN filters
      /\ filters'["made"].tree = next
      /\ \A m \in DOMAIN filters : {"tree", "infix_size"} \subseteq DOMAIN filters'[m]
      /\ \A m \in DOMAIN filters \ {"made"} : filters'[m] = filters[m]
  BY <1>1, Change_Tree DEF IInv
<1> HIDE DEF next
<1>4. Matched(next, {prev, key}, {a, b})
  <2>1. next[prev].ptr = Array(a) /\ next[key].ptr = Array(b)
    BY <1>2, Store_Pointer
  <2>2. Array(a) # Array(b)
    BY <1>1, Array_Injective
  <2> QED BY <2>1, <2>2 DEF Matched
<1>5. DOMAIN heap' = {a, b} \cup (DOMAIN heap \ Addresses(ptrs))
  <2>1. DOMAIN Left(ptrs) = DOMAIN heap \ Addresses(ptrs)
    BY DEF Left
  <2>2. DOMAIN With(Left(ptrs), a, v) = {a} \cup DOMAIN Left(ptrs)
    BY With_Value
  <2>3. DOMAIN With(With(Left(ptrs), a, v), b, v) = {b} \cup DOMAIN With(Left(ptrs), a, v)
    BY With_Value
  <2> QED BY <1>1, <2>1, <2>2, <2>3
<1>6. {a, b} \subseteq Free
  BY <1>1, New_Free
<1>7. ptrs = {tree[j].ptr : j \in {prev}} /\ {prev} \in SUBSET DOMAIN tree /\ {prev, key} \in SUBSET Keys
  BY <1>a DEF IInv, Bounded
<1>8. {0, LastKey} \subseteq DOMAIN next
  BY <1>a, <1>2 DEF IInv, Bounded
<1>9. "ptr" \in DOMAIN next[prev] /\ "ptr" \in DOMAIN next[key]
  BY <1>2, Store_Pointer
<1>10. DOMAIN next = (DOMAIN tree \ {prev}) \cup {prev, key}
  BY <1>2
<1>11. Replaces({prev}, {prev, key}, {a, b})
  BY <1>1, <1>2, <1>3, <1>4, <1>5, <1>7, <1>8, <1>9, <1>10 DEF Replaces
<1> QED BY <1>6, <1>7, <1>11, Replaced

\* A deletion of a boundary: two stores and their arrays give way to one.
LEMMA DeleteMerge_Keeps ==
  ASSUME IInv, "made" \in DOMAIN filters, NEW left \in DOMAIN filters["made"].tree,
         NEW middle \in DOMAIN filters["made"].tree \ {0, LastKey}, left # middle, NEW grade, NEW v,
         DeleteMerge("made", left, middle, grade, v)
  PROVE  IInv'
<1> DEFINE tree == filters["made"].tree
<1> DEFINE ptrs == {tree[left].ptr, tree[middle].ptr}
<1>1. PICK b \in New(1) \cup Addresses(ptrs) :
          /\ Change("made", With([k \in DOMAIN tree \ {middle} |-> tree[k]],
                                 left, Store(tree[left].len, grade, Array(b))))
          /\ heap' = With(Left(ptrs), b, v)
          /\ Delete(ptrs)
  BY DEF DeleteMerge
<1> DEFINE less == [k \in DOMAIN tree \ {middle} |-> tree[k]]
<1> DEFINE next == With(less, left, Store(tree[left].len, grade, Array(b)))
<1>a. MadeTree = tree
  BY DEF MadeTree
<1>2. /\ DOMAIN next = DOMAIN tree \ {middle}
      /\ next[left] = Store(tree[left].len, grade, Array(b))
      /\ \A j \in DOMAIN tree \ {left, middle} : next[j] = tree[j]
  <2> HIDE DEF tree
  <2>1. DOMAIN less = DOMAIN tree \ {middle} /\ \A j \in DOMAIN tree \ {middle} : less[j] = tree[j]
    OBVIOUS
  <2> HIDE DEF less
  <2>2. /\ DOMAIN next = {left} \cup DOMAIN less
        /\ next[left] = Store(tree[left].len, grade, Array(b))
        /\ \A j \in DOMAIN less \ {left} : next[j] = less[j]
    BY DEF With
  <2> HIDE DEF next
  <2> QED BY <2>1, <2>2 DEF tree
<1>3. /\ DOMAIN filters' = DOMAIN filters
      /\ filters'["made"].tree = next
      /\ \A m \in DOMAIN filters : {"tree", "infix_size"} \subseteq DOMAIN filters'[m]
      /\ \A m \in DOMAIN filters \ {"made"} : filters'[m] = filters[m]
  BY <1>1, Change_Tree DEF IInv
<1> HIDE DEF next
<1>4. Matched(next, {left}, {b})
  BY <1>2, Store_Pointer DEF Matched
<1>5. DOMAIN heap' = {b} \cup (DOMAIN heap \ Addresses(ptrs))
  <2>1. DOMAIN Left(ptrs) = DOMAIN heap \ Addresses(ptrs)
    BY DEF Left
  <2> QED BY <1>1, <2>1, With_Value
<1>6. {b} \subseteq Free \cup Addresses(ptrs)
  BY <1>1, New_Free
<1>7. /\ ptrs = {tree[j].ptr : j \in {left, middle}}
      /\ {left, middle} \in SUBSET DOMAIN tree
      /\ {left} \in SUBSET Keys
  BY <1>a DEF IInv, Bounded
<1>8. {0, LastKey} \subseteq DOMAIN next
  BY <1>a, <1>2 DEF IInv, Bounded
<1>9. "ptr" \in DOMAIN next[left]
  BY <1>2, Store_Pointer
<1>10. DOMAIN next = (DOMAIN tree \ {left, middle}) \cup {left}
  BY <1>2
<1>11. Replaces({left, middle}, {left}, {b})
  BY <1>1, <1>2, <1>3, <1>4, <1>5, <1>7, <1>8, <1>9, <1>10 DEF Replaces
<1> QED BY <1>6, <1>7, <1>11, Replaced

\* The keys of a filter can be numbered by as many blocks.
LEMMA Blocks_ForKeys ==
  ASSUME NEW keys \in SUBSET Keys, NEW bs \in SUBSET Blocks, Cardinality(bs) = Cardinality(keys)
  PROVE  (CHOOSE f \in Bijection(keys, bs) : TRUE) \in Bijection(keys, bs)
<1>1. IsFiniteSet(keys)
  <2>1. LastKey \in Int /\ 0 \in Int
    BY MemoryAssumption
  <2>2. IsFiniteSet(0..LastKey)
    BY <2>1, FS_Interval
  <2> QED BY <2>2, FS_Subset DEF Keys
<1>2. IsFiniteSet(bs)
  BY FS_Subset, MemoryAssumption
<1>3. ExistsBijection(keys, bs)
  BY <1>1, <1>2, FS_SameCardinalityBij
<1> QED BY <1>3 DEF ExistsBijection

\* Shorter infixes: every store gets an array of its own.
LEMMA ShrinkInfixSize_Keeps ==
  ASSUME IInv, "made" \in DOMAIN filters, NEW size, ShrinkInfixSize("made", size)
  PROVE  IInv'
<1> DEFINE tree == filters["made"].tree
<1> DEFINE ptrs == {tree[k].ptr : k \in DOMAIN tree}
<1> DEFINE bs == New(Cardinality(DOMAIN tree))
<1> DEFINE block == CHOOSE f \in Bijection(DOMAIN tree, bs) : TRUE
<1> DEFINE next == [k \in DOMAIN tree |-> [tree[k] EXCEPT !.ptr = Array(block[k])]]
<1>a. MadeTree = tree
  BY DEF MadeTree
<1>1. /\ bs # {}
      /\ filters' = [filters EXCEPT !["made"].tree = next, !["made"].infix_size = size]
      /\ DOMAIN heap' = bs \cup DOMAIN Left(ptrs)
      /\ Delete(ptrs)
  BY DEF ShrinkInfixSize
<1>2. bs \subseteq Free /\ Cardinality(bs) = Cardinality(DOMAIN tree)
  BY <1>1, New_Free
<1>3. DOMAIN tree \subseteq Keys /\ {0, LastKey} \subseteq DOMAIN tree
  BY <1>a DEF IInv, Bounded
<1>4. block \in Bijection(DOMAIN tree, bs)
  BY <1>2, <1>3, Blocks_ForKeys DEF Free
<1>5. \A k \in DOMAIN tree : "ptr" \in DOMAIN next[k] /\ next[k].ptr = Array(block[k])
  BY <1>a DEF IInv, Shaped
<1> HIDE DEF next, block
<1>6. Matched(next, DOMAIN tree, bs)
  <2>1. \A k \in DOMAIN tree : block[k] \in bs
    BY <1>4 DEF Bijection, Injection
  <2>2. \A b \in bs : \E k \in DOMAIN tree : block[k] = b
    BY <1>4 DEF Bijection, Surjection
  <2>3. \A j, k \in DOMAIN tree : block[j] = block[k] => j = k
    BY <1>4 DEF Bijection, Injection, IsInjective
  <2> QED BY <1>5, <2>1, <2>2, <2>3, Array_Injective DEF Matched
<1>7. /\ DOMAIN filters' = DOMAIN filters
      /\ filters'["made"].tree = next
      /\ \A m \in DOMAIN filters : {"tree", "infix_size"} \subseteq DOMAIN filters'[m]
      /\ \A m \in DOMAIN filters \ {"made"} : filters'[m] = filters[m]
  <2>1. {"tree", "infix_size"} \subseteq DOMAIN filters["made"]
    BY DEF IInv, Shaped
  <2>2. filters'["made"] = [filters["made"] EXCEPT !.tree = next, !.infix_size = size]
    BY <1>1
  <2>3. DOMAIN filters'["made"] = DOMAIN filters["made"] /\ filters'["made"].tree = next
    BY <2>1, <2>2
  <2>4. \A m \in DOMAIN filters \ {"made"} : filters'[m] = filters[m]
    BY <1>1
  <2> QED BY <1>1, <2>1, <2>3, <2>4 DEF IInv, Shaped
<1>8. DOMAIN heap' = bs \cup (DOMAIN heap \ Addresses(ptrs))
  BY <1>1 DEF Left
<1>9. DOMAIN next = DOMAIN tree
  BY DEF next
<1>10. Replaces(DOMAIN tree, DOMAIN tree, bs)
  BY <1>1, <1>3, <1>5, <1>6, <1>7, <1>8, <1>9 DEF Replaces
<1> QED BY <1>2, <1>3, <1>10, Replaced

\* The destructor frees what the filter has, which is all there is.
LEMMA Destroy_Keeps ==
  ASSUME IInv, "made" \in DOMAIN filters, Destroy("made") PROVE IInv'
<1> DEFINE tree == filters["made"].tree
<1> DEFINE ptrs == {tree[k].ptr : k \in DOMAIN tree}
<1>1. /\ filters' = [o \in DOMAIN filters \ {"made"} |-> filters[o]]
      /\ heap' = Left(ptrs)
      /\ Delete(ptrs)
  BY DEF Destroy
<1>2. Matched(tree, DOMAIN tree, DOMAIN heap)
  BY DEF IInv, Owned, MadeTree
<1>3. DOMAIN heap' = {}
  <2>1. ASSUME NEW b \in DOMAIN heap PROVE b \in Addresses(ptrs)
    <3>1. PICK k \in DOMAIN tree : tree[k].ptr = Array(b)
      BY <1>2 DEF Matched
    <3>2. tree[k].ptr.of = "new" /\ tree[k].ptr.at = b
      BY <3>1 DEF Array
    <3> QED BY <3>2 DEF Addresses
  <2> QED BY <1>1, <2>1 DEF Left
<1>4. ptrs \subseteq {Array(b) : b \in DOMAIN heap}
  BY <1>2 DEF Matched
<1>5. MadeTree' = << >> /\ "made" \notin DOMAIN filters'
  BY <1>1 DEF MadeTree
<1>6. Shaped'
  BY <1>1, <1>5 DEF IInv, Shaped
<1>7. Borrowed'
  BY <1>1 DEF IInv, Borrowed
<1>8. Owned'
  BY <1>3, <1>5 DEF Owned, Matched
<1>9. DeletesOwned'
  BY <1>1, <1>4 DEF IInv, DeletesOwned, Delete
<1> QED BY <1>3, <1>5, <1>6, <1>7, <1>8, <1>9 DEF IInv, Bounded

\* A filter that is read has stores in the buffer and none on the heap.
LEMMA Deserialize_Keeps ==
  ASSUME IInv, Deserialize PROVE IInv'
<1>1. CASE UNCHANGED filters
  <2>1. DOMAIN heap' = DOMAIN heap /\ ("wild" \in faults' => "wild" \in faults)
    BY DEF Deserialize
  <2> QED BY <1>1, <2>1 DEF IInv, Shaped, Bounded, Borrowed, Owned, DeletesOwned, MadeTree
<1>2. CASE ~ UNCHANGED filters
  <2> DEFINE F == [load_factor |-> DefaultFactor, infix_size |-> ReadSize, tree |-> DeserializedKeys]
  <2>1. filters' = With(filters, "read", F) /\ UNCHANGED <<heap, faults>> /\ "read" \notin DOMAIN filters
    BY <1>2 DEF Deserialize
  <2>2. DOMAIN F = {"load_factor", "infix_size", "tree"} /\ F.tree = DeserializedKeys
    OBVIOUS
  <2> HIDE DEF F
  <2>3. /\ DOMAIN filters' = {"read"} \cup DOMAIN filters
        /\ filters'["read"] = F
        /\ \A n \in DOMAIN filters : filters'[n] = filters[n]
    BY <2>1 DEF With
  <2>4. MadeTree' = MadeTree
    BY <2>3 DEF MadeTree
  <2>5. \A k \in DOMAIN DeserializedKeys : DeserializedKeys[k].ptr.of # "new"
    BY DEF DeserializedKeys, ReadStore, DeserializeInfixStore, Store, Place
  <2>6. Shaped'
    BY <2>2, <2>3, <2>4 DEF IInv, Shaped
  <2>7. Bounded'
    BY <2>3, <2>4 DEF IInv, Bounded
  <2>8. Borrowed'
    BY <2>2, <2>3, <2>5 DEF Borrowed
  <2> QED BY <2>1, <2>4, <2>6, <2>7, <2>8 DEF IInv, Owned, DeletesOwned
<1> QED BY <1>1, <1>2

-----------------------------------------------------------------------------
(* The theorem.                                                                 *)

\* Every step keeps the invariant.
LEMMA Step ==
  ASSUME Careful, IInv, [Next]_vars PROVE IInv'
<1>1. ASSUME NEW load_factor \in LoadFactors, Construct(load_factor) PROVE IInv'
  BY <1>1, Construct_Keeps
<1>2. ASSUME NEW n \in Changed, NEW k \in DOMAIN filters[n].tree, NEW v \in Contents, Write(n, k, v)
      PROVE  IInv'
  BY <1>2, Changed_Made, Write_Keeps DEF IInv
<1>3. ASSUME NEW n \in Changed, NEW k \in DOMAIN filters[n].tree, NEW v \in Contents, NEW up \in {-1, 1},
             ResizeInfixStore(n, k, filters[n].tree[k].grade + up, v)
      PROVE  IInv'
  <2>1. n = "made" /\ n \in DOMAIN filters
    BY Changed_Made DEF IInv
  <2> QED BY <1>3, <2>1, ResizeInfixStore_Keeps
<1>4. ASSUME NEW n \in Changed, NEW k \in Keys \ DOMAIN filters[n].tree, NEW len \in Lens,
             NEW grade \in {0, Sep}, NEW v \in Contents,
             InsertSplit(n, Max({b \in DOMAIN filters[n].tree : b < k}), k, len, grade, v)
      PROVE  IInv'
  <2>1. n = "made" /\ n \in DOMAIN filters
    BY Changed_Made DEF IInv
  <2>2. 0 \in DOMAIN filters[n].tree /\ DOMAIN filters[n].tree \in SUBSET Keys
    BY <2>1 DEF IInv, Bounded, MadeTree
  <2>3. Max({b \in DOMAIN filters[n].tree : b < k}) \in DOMAIN filters[n].tree
    BY <2>2, Below
  <2> QED BY <1>4, <2>1, <2>3, InsertSplit_Keeps
<1>5. ASSUME NEW n \in Changed, NEW k \in DOMAIN filters[n].tree \ {0, LastKey},
             NEW grade \in {0, Sep}, NEW v \in Contents,
             DeleteMerge(n, Max({b \in DOMAIN filters[n].tree : b < k}), k, grade, v)
      PROVE  IInv'
  <2>1. n = "made" /\ n \in DOMAIN filters
    BY Changed_Made DEF IInv
  <2>2. 0 \in DOMAIN filters[n].tree /\ DOMAIN filters[n].tree \in SUBSET Keys
    BY <2>1 DEF IInv, Bounded, MadeTree
  <2>3. /\ Max({b \in DOMAIN filters[n].tree : b < k}) \in DOMAIN filters[n].tree
        /\ Max({b \in DOMAIN filters[n].tree : b < k}) # k
    BY <2>2, Below
  <2> QED BY <1>5, <2>1, <2>3, DeleteMerge_Keeps
<1>6. ASSUME NEW n \in Changed, NEW size \in InfixSizes, ShrinkInfixSize(n, size) PROVE IInv'
  <2>1. n = "made" /\ n \in DOMAIN filters
    BY Changed_Made DEF IInv
  <2> QED BY <1>6, <2>1, ShrinkInfixSize_Keeps
<1>7. ASSUME NEW n \in Changed, Destroy(n) PROVE IInv'
  <2>1. n = "made" /\ n \in DOMAIN filters
    BY Changed_Made DEF IInv
  <2> QED BY <1>7, <2>1, Destroy_Keeps
<1>8. ASSUME NEW n \in DOMAIN filters, Serialize(n) PROVE IInv'
  <2>1. UNCHANGED <<filters, heap, faults>>
    BY <1>8 DEF Serialize
  <2> QED BY <2>1 DEF IInv, Shaped, Bounded, Borrowed, Owned, DeletesOwned, MadeTree
<1>9. ASSUME Deserialize PROVE IInv'
  BY <1>9, Deserialize_Keeps
<1>10. ASSUME UNCHANGED vars PROVE IInv'
  BY <1>10 DEF vars, IInv, Shaped, Bounded, Borrowed, Owned, DeletesOwned, MadeTree
<1> QED BY <1>1, <1>2, <1>3, <1>4, <1>5, <1>6, <1>7, <1>8, <1>9, <1>10 DEF Next, Alter

\* The invariant says who owns an array: the one key of the filter that was made.
LEMMA Owned_Once ==
  ASSUME IInv PROVE ArraysOwned
<1>1. ASSUME NEW b, NEW o \in Owners(b)
      PROVE  o[1] = "made" /\ o[2] \in DOMAIN MadeTree /\ MadeTree[o[2]].ptr = Array(b)
             /\ o = <<o[1], o[2]>>
  <2>1. /\ o \in (DOMAIN filters) \X Keys
        /\ o[2] \in DOMAIN filters[o[1]].tree /\ filters[o[1]].tree[o[2]].ptr = Array(b)
    BY DEF Owners
  <2>2. o[1] # "read"
    <3>1. filters[o[1]].tree[o[2]].ptr.of = "new"
      BY <2>1 DEF Array
    <3> QED BY <2>1, <3>1 DEF IInv, Borrowed
  <2>3. o[1] = "made"
    BY <2>1, <2>2 DEF IInv, Shaped
  <2> QED BY <2>1, <2>3 DEF MadeTree
<1>2. ASSUME NEW b \in DOMAIN heap PROVE Cardinality(Owners(b)) = 1
  <2>1. PICK k \in DOMAIN MadeTree : MadeTree[k].ptr = Array(b)
    BY DEF IInv, Owned, Matched
  <2>2. "made" \in DOMAIN filters
    BY <2>1 DEF MadeTree
  <2>3. <<"made", k>> \in Owners(b)
    BY <2>1, <2>2 DEF Owners, MadeTree, IInv, Bounded
  <2>4. \A o \in Owners(b) : o = <<"made", k>>
    BY <1>1, <2>1 DEF IInv, Owned, Matched
  <2>5. Owners(b) = {<<"made", k>>}
    BY <2>3, <2>4
  <2> QED BY <2>5, FS_Singleton
<1>3. ASSUME NEW b \in Blocks \ DOMAIN heap PROVE Owners(b) = {}
  <2>1. ASSUME NEW o \in Owners(b) PROVE FALSE
    <3>1. o[2] \in DOMAIN MadeTree /\ MadeTree[o[2]].ptr = Array(b)
      BY <1>1
    <3>2. PICK c \in DOMAIN heap : MadeTree[o[2]].ptr = Array(c)
      BY <3>1 DEF IInv, Owned, Matched
    <3> QED BY <3>1, <3>2, Array_Injective
  <2> QED BY <2>1
<1> QED BY <1>2, <1>3 DEF ArraysOwned, OwnedOnce, IInv

\* Every allocated array has one owner, and delete[] gets only what new returned, once:
\* through any sequence of resizes, splits, merges, shorter infixes and destructors, of
\* filters with any number of boundary keys, InsertSplit and DeleteMerge leak nothing
\* ("No memory leaks!") and free nothing twice.
THEOREM Ownership == Careful => (Spec => []ArraysOwned)
<1> SUFFICES ASSUME Careful PROVE Spec => []ArraysOwned
  OBVIOUS
<1>1. Init => IInv
  BY DEF Init, IInv, Shaped, Bounded, Borrowed, Owned, Matched, DeletesOwned, MadeTree
<1>2. IInv /\ [Next]_vars => IInv'
  BY Step
<1>3. IInv => ArraysOwned
  BY Owned_Once
<1> QED BY <1>1, <1>2, <1>3, PTL DEF Spec
=============================================================================
