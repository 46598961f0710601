-------------------------- MODULE InfixStore_proofs --------------------------
(* Proofs about InfixStore for every target size, every table of grades and   *)
(* every set of starting lists that its assumptions allow: an insertion       *)
(* always finds an empty slot, and every operation keeps the shape of the     *)
(* store (Good, over the Shape of InfixShapes) and its cached counts.         *)
EXTENDS MCInfixStore, InfixShapes

\* The fields of a store.
Fields == {"elem_count", "size_grade", "popcnts", "occupieds", "runends", "slots"}

\* What the argument needs of a store: its grade exists, and the size of that
\* grade bounds its count.
Sized(s) == /\ Fields \subseteq DOMAIN s
            /\ s.size_grade \in Grades
            /\ s.elem_count \in Int
            /\ s.elem_count <= Size(s)

\* t has the count and the grade of s: only bitmaps and slots may differ.
SameSize(s, t) == /\ Fields \subseteq DOMAIN t
                  /\ t.elem_count = s.elem_count
                  /\ t.size_grade = s.size_grade

-----------------------------------------------------------------------------
(* Loading and resizing.                                                     *)

\* A loaded store has the count and the grade it is asked for.
LEMMA LoadSize ==
    ASSUME NEW list, NEW list_len, NEW grade, NEW total_implicit, NEW size
    PROVE  LET s == LoadListToInfixStore(list, list_len, grade, total_implicit, size)
           IN  /\ Fields \subseteq DOMAIN s
               /\ s.elem_count = list_len
               /\ s.size_grade = grade
BY DEF LoadListToInfixStore, Written, Fields

\* A resize moves the grade and keeps the count.
LEMMA ResizeSize ==
    ASSUME NEW s, NEW delta, NEW total_implicit, NEW size
    PROVE  LET t == ResizeInfixStore(s, delta, total_implicit, size)
           IN  /\ Fields \subseteq DOMAIN t
               /\ t.elem_count = s.elem_count
               /\ t.size_grade = s.size_grade + delta
BY LoadSize DEF ResizeInfixStore

\* A number that is scaled by at least one does not become smaller.
LEMMA ScaledUp ==
    ASSUME NEW n \in Nat, NEW scalar \in Nat, NEW one \in Nat, one > 0, one <= scalar
    PROVE  /\ (scalar * n) \div one \in Nat
           /\ n <= (scalar * n) \div one
<1>1. one * n <= scalar * n /\ scalar * n \in Nat
  OBVIOUS
<1>2. (one * n) \div one = n
  OBVIOUS
<1> QED BY <1>1, <1>2

\* A set of grades that is not empty has a least member.
LEMMA SmallestGrade ==
    ASSUME NEW S \in SUBSET Grades, NEW g \in S
    PROVE  Min(S) \in S
<1>1. SizeScalarCount - 1 \in Int /\ \A y \in S : y \in 0..(SizeScalarCount - 1)
  BY SizesAssumption DEF Grades
<1>2. S # {}
  OBVIOUS
<1> QED BY <1>1, <1>2, MinOf

\* The grade a list is allocated at is a grade, and has room for the list.
LEMMA LoadGradesFit ==
    ASSUME NEW list \in InitialLists, NEW grade \in LoadGrades(Len(list))
    PROVE  grade \in Grades /\ Len(list) <= ScaledSize(grade)
<1> DEFINE len == Len(list)
           scaled_len == (SizeScalars[GrowGrade] * len) \div 2^ScaleShift
           roomy == {g \in Grades : ScaledSize(g) >= scaled_len}
           fitting == {g \in Grades : ScaledSize(g) >= len}
<1>1. len \in Nat /\ scaled_len \in Nat /\ len <= scaled_len
  <2>1. len \in Nat
    <3>1. list \in Seq(InfixesOf(InfixSize))
      BY ListsAssumption
    <3> QED BY <3>1
  <2> HIDE DEF len
  <2> QED BY <2>1, ScaledUp, SizesAssumption
<1>2. PICK g \in Grades : ScaledSize(g) >= scaled_len
  BY ListsAssumption
<1>3. Min(roomy) \in roomy
  <2>1. g \in roomy /\ roomy \in SUBSET Grades
    BY <1>2
  <2> HIDE DEF roomy
  <2> QED BY <2>1, SmallestGrade
<1>4. Min(fitting) \in fitting
  <2>1. g \in fitting /\ fitting \in SUBSET Grades
    BY <1>1, <1>2, SizesAssumption
  <2> HIDE DEF fitting
  <2> QED BY <2>1, SmallestGrade
<1>5. CASE grade = AllocGrade(len)
  <2>1. grade = Min(roomy)
    BY <1>5 DEF AllocGrade
  <2>2. grade \in Grades /\ scaled_len <= ScaledSize(grade)
    BY <2>1, <1>3
  <2>3. ScaledSize(grade) \in Nat
    BY <2>2, SizesAssumption
  <2> HIDE DEF scaled_len
  <2> QED BY <1>1, <2>2, <2>3
<1>6. CASE grade = LastBatchGrade(len)
  <2>1. grade = Min(fitting)
    BY <1>6 DEF LastBatchGrade
  <2> QED BY <1>4, <2>1
<1>7. CASE grade = GrowGrade /\ len \in {0, TargetSize - 1}
  <2>1. TargetSize <= ScaledSize(GrowGrade)
    <3>1. TargetSize * SizeScalars[GrowGrade] = SizeScalars[GrowGrade] * TargetSize
      BY SizesAssumption
    <3> QED BY <3>1, ScaledUp, SizesAssumption DEF ScaledSize
  <2>2. ScaledSize(GrowGrade) \in Nat
    BY SizesAssumption
  <2> QED BY <1>1, <1>7, <2>1, <2>2, SizesAssumption
<1> QED BY <1>5, <1>6, <1>7 DEF LoadGrades

-----------------------------------------------------------------------------
(* Insertion.                                                                *)

\* The store an insertion works on has an empty slot: it grows before it is full.
LEMMA RoomForSize ==
    ASSUME NEW s, Sized(s), s.elem_count < MaxElems, NEW total_implicit, NEW size
    PROVE  LET t == RoomFor(s, total_implicit, size)
           IN  /\ Sized(t)
               /\ t.elem_count = s.elem_count
               /\ t.elem_count < Size(t)
<1> DEFINE t == ResizeInfixStore(s, 1, total_implicit, size)
<1>1. CASE s.elem_count >= ExpandAt(s.size_grade)
  <2>1. s.size_grade + 1 \in Grades
    BY <1>1, SizesAssumption, BoundAssumption DEF Sized, Grades, ExpandAt
  <2>2. ScaledSize(s.size_grade) < ScaledSize(s.size_grade + 1)
    BY <2>1, SizesAssumption DEF Sized, Grades
  <2>3. /\ Fields \subseteq DOMAIN t
        /\ t.elem_count = s.elem_count
        /\ t.size_grade = s.size_grade + 1
    BY ResizeSize
  <2>4. RoomFor(s, total_implicit, size) = t
    BY <1>1 DEF RoomFor
  <2> QED BY <2>1, <2>2, <2>3, <2>4, SizesAssumption DEF Sized, Size, Grades
<1>2. CASE ~(s.elem_count >= ExpandAt(s.size_grade))
  <2>1. RoomFor(s, total_implicit, size) = s
    BY <1>2 DEF RoomFor
  <2>2. s.elem_count < Size(s)
    <3>1. CASE s.size_grade = 0
      BY <3>1, <1>2, SizesAssumption DEF Sized, Size, ExpandAt, Grades
    <3>2. CASE s.size_grade > 0
      <4>1. s.elem_count < ScaledSize(s.size_grade - 1)
        BY <3>2, <1>2, SizesAssumption DEF Sized, ExpandAt, Grades
      <4>2. ScaledSize(s.size_grade - 1) < ScaledSize(s.size_grade)
        BY <3>2, SizesAssumption DEF Sized, Grades
      <4>3. /\ ScaledSize(s.size_grade - 1) \in Nat
            /\ ScaledSize(s.size_grade) \in Nat
        BY <3>2, SizesAssumption DEF Sized, Grades
      <4> QED BY <4>1, <4>2, <4>3 DEF Sized, Size
    <3> QED BY <3>1, <3>2, SizesAssumption DEF Sized, Grades
  <2> QED BY <2>1, <2>2
<1> QED BY <1>1, <1>2

\* None of the ways to place an infix touches the count or the grade.
LEMMA PlacingKeepsSize ==
    ASSUME NEW s, Fields \subseteq DOMAIN s,
           NEW implicit, NEW explicit, NEW mapped
    PROVE  SameSize(s, Placed(s, implicit, explicit, mapped))
<1>1. SameSize(s, InsertAtMappedPos(s, implicit, explicit, mapped))
  BY DEF SameSize, InsertAtMappedPos, Fields
<1>2. SameSize(s, InsertIntoRun(s, implicit, explicit, mapped))
  <2>1. ASSUME NEW runend, NEW next_empty, NEW prev_empty, NEW r
        PROVE  SameSize(s, ShiftIntoRun(s, explicit, runend, next_empty, prev_empty, r))
    BY DEF SameSize, ShiftIntoRun, Fields
  <2> QED BY <2>1 DEF InsertIntoRun
<1>3. SameSize(s, InsertNewRun(s, implicit, explicit, mapped))
  <2>1. ASSUME NEW runend, NEW next_empty, NEW prev_empty
        PROVE  SameSize(s, ShiftNewRunIn(s, explicit, mapped, runend, next_empty, prev_empty))
    BY DEF SameSize, ShiftNewRunIn, Fields
  <2>2. ASSUME NEW placed, SameSize(s, placed)
        PROVE  SameSize(s, [placed EXCEPT !.popcnts[0] = @ + Bit(implicit < Half)])
    BY <2>2 DEF SameSize, Fields
  <2> QED BY <2>1, <2>2 DEF InsertNewRun
<1> QED BY <1>1, <1>2, <1>3 DEF Placed

\* An insertion adds one to the count of a store that had a slot to spare.
LEMMA InsertSized ==
    ASSUME NEW s, Sized(s), s.elem_count < MaxElems,
           NEW key, NEW total_implicit, NEW size
    PROVE  Sized(InsertRawIntoInfixStore(s, key, total_implicit, size))
<1> DEFINE t == RoomFor(s, total_implicit, size)
           implicit == Implicit(key, size)
           placed == Placed(t, implicit, Explicit(key, size),
                            GetMappedPos(implicit, t.size_grade, total_implicit))
           after == [placed EXCEPT !.occupieds = @ \cup {implicit}, !.elem_count = @ + 1]
<1>1. Sized(t) /\ t.elem_count < Size(t)
  BY RoomForSize
<1>2. SameSize(t, placed)
  BY <1>1, PlacingKeepsSize DEF Sized
<1>3. /\ Fields \subseteq DOMAIN after
      /\ after.elem_count = placed.elem_count + 1
      /\ after.size_grade = placed.size_grade
  <2> HIDE DEF placed, implicit
  <2> QED BY <1>2 DEF SameSize, Fields
<1>4. Sized(after)
  <2> HIDE DEF after, placed, t
  <2>1. after.elem_count = t.elem_count + 1 /\ after.size_grade = t.size_grade
    BY <1>2, <1>3 DEF SameSize
  <2>2. ScaledSize(t.size_grade) \in Nat
    BY <1>1, SizesAssumption DEF Sized
  <2> QED BY <1>1, <1>3, <2>1, <2>2 DEF Sized, Size
<1>5. InsertRawIntoInfixStore(s, key, total_implicit, size) = after
  BY DEF InsertRawIntoInfixStore, InsertInto
<1> QED BY <1>4, <1>5

-----------------------------------------------------------------------------
(* Deletion and shrinking.                                                   *)

\* A store that shrinks to the grade below still has room for what it holds.
LEMMA FitForSized ==
    ASSUME NEW s, Sized(s), NEW total_implicit, NEW size
    PROVE  Sized(FitFor(s, total_implicit, size))
<1> DEFINE t == ResizeInfixStore(s, -1, total_implicit, size)
<1>1. CASE s.size_grade > 0 /\ s.elem_count <= ShrinkAt(s.size_grade)
  <2>1. s.size_grade - 1 \in Grades
    BY <1>1, SizesAssumption DEF Sized, Grades
  <2>2. s.elem_count <= ScaledSize(s.size_grade - 1)
    <3>1. CASE s.size_grade = 1
      BY <1>1, <3>1, SizesAssumption DEF Sized, ShrinkAt, Grades
    <3>2. CASE s.size_grade > 1
      <4>1. s.elem_count <= ScaledSize(s.size_grade - 2)
        BY <1>1, <3>2 DEF ShrinkAt
      <4>2. /\ ScaledSize(s.size_grade - 2) < ScaledSize(s.size_grade - 1)
            /\ ScaledSize(s.size_grade - 2) \in Nat
            /\ ScaledSize(s.size_grade - 1) \in Nat
        BY <3>2, <2>1, SizesAssumption DEF Sized, Grades
      <4> QED BY <4>1, <4>2 DEF Sized
    <3> QED BY <1>1, <3>1, <3>2, <2>1 DEF Sized, Grades
  <2>3. /\ Fields \subseteq DOMAIN t
        /\ t.elem_count = s.elem_count
        /\ t.size_grade = s.size_grade + (-1)
    BY ResizeSize
  <2>4. t.size_grade = s.size_grade - 1
    BY <2>3 DEF Sized, Grades
  <2>5. FitFor(s, total_implicit, size) = t
    BY <1>1 DEF FitFor
  <2> QED BY <2>1, <2>2, <2>3, <2>4, <2>5 DEF Sized, Size
<1>2. CASE ~(s.size_grade > 0 /\ s.elem_count <= ShrinkAt(s.size_grade))
  BY <1>2 DEF FitFor
<1> QED BY <1>1, <1>2

\* Closing the hole, to either side, touches neither the count nor the grade.
LEMMA ClosingKeepsSize ==
    ASSUME NEW s, Fields \subseteq DOMAIN s,
           NEW match, NEW bound, NEW runend, NEW destroyed
    PROVE  /\ SameSize(s, DeleteShiftingLeft(s, match, bound, runend, destroyed))
           /\ SameSize(s, DeleteShiftingRight(s, match, bound, runend, destroyed))
<1>1. SameSize(s, DeleteShiftingLeft(s, match, bound, runend, destroyed))
  BY DEF SameSize, DeleteShiftingLeft, Fields
<1>2. SameSize(s, DeleteShiftingRight(s, match, bound, runend, destroyed))
  BY DEF SameSize, DeleteShiftingRight, Fields
<1> QED BY <1>1, <1>2

\* A deletion takes one from the count, and may shrink the grade.
LEMMA DeleteSized ==
    ASSUME NEW s, Sized(s), NEW key, NEW total_implicit, NEW size
    PROVE  Sized(DeleteRawFromInfixStore(s, key, total_implicit, size))
<1> DEFINE t == FitFor(s, total_implicit, size)
           implicit == Implicit(key, size)
           runend == RunEndOf(t, implicit)
           runstart == RunStart(t, implicit, runend)
           destroyed == runstart = runend
           match == LastMatch(t, key, runstart, runend, size)
           right == RightOfRun(t, runend, total_implicit)
           closed == Closed(t, match, runend, destroyed, right,
                            ChosenStart(t, runend, right, total_implicit))
           after == [closed EXCEPT
                       !.occupieds = IF destroyed THEN @ \ {implicit} ELSE @,
                       !.popcnts[0] = @ - Bit(destroyed /\ implicit < Half),
                       !.elem_count = @ - 1]
<1>1. Sized(t)
  BY FitForSized
<1>2. SameSize(t, closed)
  BY <1>1, ClosingKeepsSize DEF Sized, Closed
<1>3. /\ Fields \subseteq DOMAIN after
      /\ after.elem_count = closed.elem_count - 1
      /\ after.size_grade = closed.size_grade
  <2> HIDE DEF closed, implicit, destroyed
  <2> QED BY <1>2 DEF SameSize, Fields
<1>4. Sized(after)
  <2> HIDE DEF after, closed, t
  <2>1. after.elem_count = t.elem_count - 1 /\ after.size_grade = t.size_grade
    BY <1>2, <1>3 DEF SameSize
  <2>2. ScaledSize(t.size_grade) \in Nat
    BY <1>1, SizesAssumption DEF Sized
  <2> QED BY <1>1, <1>3, <2>1, <2>2 DEF Sized, Size
<1>5. DeleteRawFromInfixStore(s, key, total_implicit, size) = after
  BY DEF DeleteRawFromInfixStore, DeleteKey, DeleteFrom
<1> QED BY <1>4, <1>5

\* Shrinking the infix size touches neither the count nor the grade.
LEMMA ShrinkSized ==
    ASSUME NEW s, Sized(s), NEW old_size, NEW new_size
    PROVE  Sized(ShrinkInfixStoreInfixSize(s, old_size, new_size))
<1>1. SameSize(s, ShrinkInfixStoreInfixSize(s, old_size, new_size))
  BY DEF ShrinkInfixStoreInfixSize, SameSize, Sized, Fields
<1> QED BY <1>1 DEF Sized, SameSize, Size

-----------------------------------------------------------------------------

\* The inductive invariant: the count never exceeds the size of the grade.  It
\* is the whole of what the thresholds have to keep; the room an insertion
\* finds follows from it by RoomForSize.
LEMMA SpecSized == Spec => []Sized(store)
<1>1. Init => Sized(store)
  <2> SUFFICES ASSUME Init PROVE Sized(store)
    OBVIOUS
  <2>0. PICK list \in InitialLists : \E grade \in LoadGrades(Len(list)) :
            store = LoadListToInfixStore(list, Len(list), grade, TotalImplicit, InfixSize)
    BY DEF Init
  <2>1. PICK grade \in LoadGrades(Len(list)) :
            store = LoadListToInfixStore(list, Len(list), grade, TotalImplicit, InfixSize)
    BY <2>0
  <2>2. grade \in Grades /\ Len(list) <= ScaledSize(grade)
    BY LoadGradesFit
  <2>3. /\ Fields \subseteq DOMAIN store
        /\ store.elem_count = Len(list)
        /\ store.size_grade = grade
    BY <2>1, LoadSize
  <2>4. Len(list) \in Nat
    <3>1. list \in Seq(InfixesOf(InfixSize))
      BY ListsAssumption
    <3> QED BY <3>1
  <2> QED BY <2>2, <2>3, <2>4 DEF Sized, Size
<1>2. Sized(store) /\ [Next]_vars => Sized(store)'
  <2> SUFFICES ASSUME Sized(store), [Next]_vars PROVE Sized(store')
    BY DEF Sized, Size, Grades
  <2>1. ASSUME NEW key \in InsertedInfixes(infix_size), Insert(key) PROVE Sized(store')
    BY <2>1, InsertSized DEF Insert
  <2>2. ASSUME NEW key \in InsertedInfixes(infix_size), Delete(key) PROVE Sized(store')
    BY <2>2, DeleteSized DEF Delete
  <2>3. ASSUME NEW new_size \in ShrinkSizes, Shrink(new_size) PROVE Sized(store')
    BY <2>3, ShrinkSized DEF Shrink
  <2>4. CASE UNCHANGED vars
    BY <2>4 DEF vars
  <2> QED BY <2>1, <2>2, <2>3, <2>4 DEF Next
<1> QED BY <1>1, <1>2, PTL DEF Spec

\* InsertRawIntoInfixStore (diva.hpp) searches for an empty slot without asking
\* whether there is one: in every reachable store, for every table of grades,
\* the thresholds of its expansion have left one.
THEOREM RoomTheorem == Spec => []RoomInvariant
<1>1. Sized(store) => RoomInvariant
  <2> SUFFICES ASSUME Sized(store) PROVE RoomInvariant
    OBVIOUS
  <2>1. store.elem_count <= Size(store)
    BY DEF Sized
  <2>2. store.elem_count < MaxElems =>
            LET s == RoomFor(store, TotalImplicit, infix_size)
            IN  s.elem_count < Size(s)
    BY RoomForSize
  <2> QED BY <2>1, <2>2 DEF RoomInvariant
<1> QED BY <1>1, SpecSized, PTL
-----------------------------------------------------------------------------
(* A table of mapped positions, and a store in shape.                        *)

\* Division with remainder, for divisors that are not literals.
LEMMA DivMod ==
    ASSUME NEW k \in Nat, NEW q \in Nat, q > 0
    PROVE  \E d \in Nat : \E r \in 0..(q - 1) :
               k \div q = d /\ k % q = r /\ k = q * d + r
<1>1. PICK d \in Nat : d = k \div q
  OBVIOUS
<1>2. PICK r \in 0..(q - 1) : r = k % q
  OBVIOUS
<1>3. k % q = k - q * (k \div q)
  BY SMTT(20)
<1>4. PICK p \in Int : p = q * d
  OBVIOUS
<1>5. r = k - p
  <2>1. r = k - q * d
    BY <1>1, <1>2, <1>3, Zenon
  <2> QED BY <1>4, <2>1, Zenon
<1>6. k = p + r
  BY <1>5
<1> QED BY <1>1, <1>2, <1>4, <1>6, Zenon

\* Where the implicit parts of a store of a grade are mapped.
Mapping(grade) == [i \in Parts |-> GetMappedPos(i, grade, TotalImplicit)]

\* GetMappedPos is a table as InfixShapes wants it: monotone in the part, for every
\* grade and every number of parts.
LEMMA MappingTable ==
    ASSUME NEW g \in Grades, ScaledSize(g) > 0
    PROVE  Table(ScaledSize(g), Mapping(g))
<1> DEFINE c == ImplicitScalar(TotalImplicit)
           w == 2^(2 * ScaleShift)
           z == ScaledSize(g)
           f(i) == (i * SizeScalars[g] * c) \div w
<1>1. /\ z \in Nat /\ z > 0 /\ SizeScalars[g] \in Nat /\ TargetSize \in Nat
      /\ w \in Nat /\ w > 0
  BY SizesAssumption, PartsAssumption
<1>2. c \in Nat
  <2>1. TargetSize * 2^ScaleShift \in Nat /\ TotalImplicit \in Nat /\ TotalImplicit > 0
    BY SizesAssumption, PartsAssumption
  <2>2. \A x \in Nat, y \in Nat : y > 0 => x \div y \in Nat
    OBVIOUS
  <2> QED BY <2>1, <2>2 DEF ImplicitScalar
<1>3. ASSUME NEW i \in Parts
      PROVE  f(i) \in Nat /\ Mapping(g)[i] = IF z - 1 <= f(i) THEN z - 1 ELSE f(i)
  <2>1. i \in Nat
    BY <1>1, <1>3 DEF Parts
  <2>2. i * SizeScalars[g] * c \in Nat
    <3> HIDE DEF c
    <3> QED BY <1>1, <1>2, <2>1
  <2>3. f(i) \in Nat
    <3>1. \A x \in Nat, y \in Nat : y > 0 => x \div y \in Nat
      OBVIOUS
    <3> HIDE DEF c, w
    <3> QED BY <1>1, <2>2, <3>1
  <2>4. Mapping(g)[i] = Min({z - 1, f(i)})
    BY DEF Mapping, GetMappedPos
  <2>5. z - 1 \in Int /\ f(i) \in Int
    BY <1>1, <2>3
  <2> HIDE DEF z, f
  <2> QED BY <2>3, <2>4, <2>5, MinTwo
<1>4. ASSUME NEW a \in Parts, NEW b \in Parts, a <= b PROVE f(a) <= f(b)
  <2>1. a \in Nat /\ b \in Nat
    BY <1>1 DEF Parts
  <2>2. a * SizeScalars[g] <= b * SizeScalars[g]
    BY <1>1, <1>4, <2>1
  <2>3. a * SizeScalars[g] \in Nat /\ b * SizeScalars[g] \in Nat
    BY <1>1, <2>1
  <2>4. a * SizeScalars[g] * c <= b * SizeScalars[g] * c
    <3>1. \A x, y, v \in Nat : x <= y => x * v <= y * v
      OBVIOUS
    <3> HIDE DEF c
    <3> QED BY <1>2, <2>2, <2>3, <3>1
  <2>5. a * SizeScalars[g] * c \in Nat /\ b * SizeScalars[g] * c \in Nat
    <3> HIDE DEF c
    <3> QED BY <1>2, <2>3
  <2>6. \A x, y, v \in Nat : x <= y /\ v > 0 => x \div v <= y \div v
    OBVIOUS
  <2> HIDE DEF c, w
  <2> QED BY <1>1, <2>4, <2>5, <2>6
<1> HIDE DEF f, z, c, w
<1>5. Mapping(g) \in [Parts -> 0..(z - 1)]
  <2>1. \A i \in Parts : Mapping(g)[i] \in 0..(z - 1)
    BY <1>1, <1>3
  <2> QED BY <2>1 DEF Mapping
<1>6. \A a, b \in Parts : a <= b => Mapping(g)[a] <= Mapping(g)[b]
  BY <1>1, <1>3, <1>4
<1> QED BY <1>1, <1>5, <1>6 DEF Table, z

-----------------------------------------------------------------------------
\* The shape of a store with room, and all else an operation needs of it.
Good(s, size) ==
    /\ Fields \subseteq DOMAIN s
    /\ s.size_grade \in Grades
    /\ s.elem_count = Cardinality(UsedSlots(s))
    /\ s.elem_count < Size(s)
    /\ 2^size \in Nat /\ 2^size > 0
    /\ s.slots \in [Positions(s) -> 0..(2^size - 1)]
    /\ s.popcnts \in [{0, 1} -> Nat]
    /\ s.popcnts[0] = Below(s.occupieds, Half)
    /\ s.popcnts[1] = Below(s.runends, Half)
    /\ Shape(Size(s), Mapping(s.size_grade), UsedSlots(s), s.occupieds, s.runends)

\* Half a store's positions are a natural number.
LEMMA HalfNat == Half \in Nat
BY SizesAssumption DEF Half

\* The used slots of a store are finitely many.
LEMMA UsedFinite ==
    ASSUME NEW s, Size(s) \in Nat
    PROVE  IsFiniteSet(UsedSlots(s)) /\ Cardinality(UsedSlots(s)) \in Nat
<1>1. IsFiniteSet(0..(Size(s) - 1))
  BY FS_Interval
<1>2. UsedSlots(s) \in SUBSET (0..(Size(s) - 1))
  BY DEF UsedSlots, Positions
<1> QED BY <1>1, <1>2, FS_Subset, FS_CardinalityType

\* What the proofs use of a store in shape.
LEMMA GoodFacts ==
    ASSUME NEW s, NEW size, Good(s, size)
    PROVE  /\ Size(s) \in Nat /\ Size(s) > 0
           /\ s.elem_count \in Nat
           /\ Table(Size(s), Mapping(s.size_grade))
           /\ Shape(Size(s), Mapping(s.size_grade), UsedSlots(s), s.occupieds, s.runends)
           /\ Within(Size(s), UsedSlots(s), s.occupieds, s.runends)
           /\ \A e \in s.runends : e \in Nat /\ e < Size(s) /\ e \in UsedSlots(s)
           /\ \A o \in s.occupieds : o \in Nat /\ o < TargetSize /\ o \in Parts
           /\ \A p \in UsedSlots(s) : p \in Nat /\ p < Size(s)
           /\ \A p \in Nat : p < Size(s) => (p \in UsedSlots(s) <=> s.slots[p] # 0)
<1>1. Size(s) \in Nat
  BY SizesAssumption DEF Good, Size
<1>2. s.elem_count \in Nat
  BY <1>1, UsedFinite DEF Good
<1>3. Size(s) > 0
  BY <1>1, <1>2 DEF Good
<1>4. Table(Size(s), Mapping(s.size_grade))
  BY <1>3, MappingTable DEF Good, Size
<1>5. Shape(Size(s), Mapping(s.size_grade), UsedSlots(s), s.occupieds, s.runends)
  BY DEF Good
<1>6. Within(Size(s), UsedSlots(s), s.occupieds, s.runends)
  BY <1>5 DEF Shape
<1>7. /\ \A e \in s.runends : e \in Nat /\ e < Size(s) /\ e \in UsedSlots(s)
      /\ \A o \in s.occupieds : o \in Nat /\ o < TargetSize /\ o \in Parts
      /\ \A p \in UsedSlots(s) : p \in Nat /\ p < Size(s)
  BY <1>4, <1>6, WithinNat DEF Within
<1>8. \A p \in Nat : p < Size(s) => (p \in UsedSlots(s) <=> s.slots[p] # 0)
  BY <1>1 DEF UsedSlots, Positions
<1> QED BY <1>1, <1>2, <1>3, <1>4, <1>5, <1>6, <1>7, <1>8

\* Some slot of a store with room is empty.
LEMMA SomeEmpty ==
    ASSUME NEW s, NEW size, Good(s, size)
    PROVE  \E a \in 0..(Size(s) - 1) : a \notin UsedSlots(s)
<1>1. Size(s) \in Nat /\ Size(s) > 0
  BY GoodFacts
<1>2. ASSUME \A a \in 0..(Size(s) - 1) : a \in UsedSlots(s) PROVE FALSE
  <2>1. UsedSlots(s) = 0..(Size(s) - 1)
    BY <1>2 DEF UsedSlots, Positions
  <2>2. Cardinality(0..(Size(s) - 1)) = Size(s)
    BY <1>1, FS_Interval
  <2> QED BY <1>1, <2>1, <2>2 DEF Good
<1> QED BY <1>2

-----------------------------------------------------------------------------
(* Rank, select and the scans.                                               *)

\* The count below b is the count below a and what lies between.
LEMMA BelowSplit ==
    ASSUME NEW S, \A y \in S : y \in Nat, NEW a \in Nat, NEW b \in Nat, a <= b
    PROVE  Below(S, b) = Below(S, a) + Cardinality({y \in S : a <= y /\ y < b})
<1> DEFINE A == {y \in S : y < a}
           B == {y \in S : a <= y /\ y < b}
           C == {y \in S : y < b}
<1>1. A \cup B = C /\ A \cap B = {}
  OBVIOUS
<1>2. IsFiniteSet(C) /\ A \in SUBSET C /\ B \in SUBSET C
  BY BelowFinite
<1>3. IsFiniteSet(A) /\ IsFiniteSet(B)
  BY <1>2, FS_Subset
<1>4. Cardinality(A) \in Nat /\ Cardinality(B) \in Nat
  BY <1>3, FS_CardinalityType
<1>5. Cardinality(A \cup B) = Cardinality(A) + Cardinality(B) - Cardinality(A \cap B)
  BY <1>3, FS_Union
<1>6. Cardinality(A \cap B) = 0
  BY <1>1, FS_EmptySet
<1>7. Cardinality(C) = Cardinality(A) + Cardinality(B)
  <2>1. Cardinality(C) = Cardinality(A) + Cardinality(B) - Cardinality(A \cap B)
    <3> HIDE DEF A, B, C
    <3> QED BY <1>1, <1>5
  <2>2. PICK a1 \in Nat : a1 = Cardinality(A)
    BY <1>4
  <2>3. PICK b1 \in Nat : b1 = Cardinality(B)
    BY <1>4
  <2> HIDE DEF A, B, C
  <2> QED BY <1>6, <2>1, <2>2, <2>3
<1> QED BY <1>7 DEF Below

\* RankOccupieds, which starts from popcnts[0] in the upper half, counts the occupied
\* parts below pos.
LEMMA RankIs ==
    ASSUME NEW s, NEW size, Good(s, size), NEW pos \in Nat
    PROVE  RankOccupieds(s, pos) = Below(s.occupieds, pos)
<1>1. \A o \in s.occupieds : o \in Nat
  BY GoodFacts
<1>2. CASE Half <= pos
  <2>1. Below(s.occupieds, pos)
          = Below(s.occupieds, Half) + Cardinality({o \in s.occupieds : Half <= o /\ o < pos})
    BY <1>1, <1>2, HalfNat, BelowSplit
  <2> QED BY <1>2, <2>1 DEF Good, RankOccupieds
<1>3. CASE ~(Half <= pos)
  BY <1>3 DEF RankOccupieds, Below
<1> QED BY <1>2, <1>3

\* SelectRunends, which starts from popcnts[1] in the upper half, finds the run end of
\* a rank that exists.
LEMMA SelectIs ==
    ASSUME NEW s, NEW size, Good(s, size), NEW rank \in Nat, rank < Below(s.runends, Size(s))
    PROVE  /\ SelectRunends(s, rank) \in s.runends
           /\ Below(s.runends, SelectRunends(s, rank)) = rank
<1> DEFINE R == s.runends
           z == Size(s)
           T == {e \in R : Half <= e}
<1>1. z \in Nat /\ (\A e \in R : e \in Nat) /\ (\A e \in R : e < z)
  BY GoodFacts
<1>2. Half \in Nat /\ s.popcnts[1] = Below(R, Half)
  BY HalfNat DEF Good
<1>c. \A x \in Nat : Below(R, x) \in Nat
  BY <1>1, BelowFinite
<1>3. CASE rank < s.popcnts[1]
  <2>1. SelectRunends(s, rank) = KthOf(R, rank, z)
    <3>1. ~(s.popcnts[1] <= rank)
      BY <1>2, <1>3, <1>c
    <3> QED BY <3>1 DEF SelectRunends
  <2> QED BY <1>1, <2>1, KthMember
<1>4. CASE ~(rank < s.popcnts[1])
  <2>0. Below(R, Half) <= rank /\ Below(R, Half) \in Nat /\ rank - Below(R, Half) \in Nat
    BY <1>2, <1>4, <1>c
  <2>1. SelectRunends(s, rank) = KthOf(T, rank - Below(R, Half), z)
    BY <1>2, <2>0 DEF SelectRunends
  <2>2. ASSUME NEW x \in Nat, Half <= x PROVE Below(T, x) = Below(R, x) - Below(R, Half)
    <3>1. Below(R, x) = Below(R, Half) + Cardinality({y \in R : Half <= y /\ y < x})
      BY <1>1, <1>2, <2>2, BelowSplit
    <3>2. {y \in R : Half <= y /\ y < x} = {y \in T : y < x}
      OBVIOUS
    <3>3. Below(T, x) \in Nat
      <4>1. \A y \in T : y \in Nat
        BY <1>1
      <4> QED BY <4>1, BelowFinite
    <3>4. Cardinality({y \in R : Half <= y /\ y < x}) = Below(T, x)
      BY <3>2 DEF Below
    <3> HIDE DEF T, R
    <3> QED BY <2>0, <3>1, <3>3, <3>4
  <2>3. Half <= z
    <3>1. CASE z < Half
      <4>1. Below(R, z) <= Below(R, Half)
        BY <1>1, <1>2, <3>1, BelowMonotone
      <4> QED BY <1>1, <1>c, <2>0, <4>1
    <3> QED BY <1>1, <1>2, <3>1
  <2>4. rank - Below(R, Half) < Below(T, z)
    BY <1>1, <1>c, <2>0, <2>2, <2>3
  <2>5. /\ KthOf(T, rank - Below(R, Half), z) \in T
        /\ Below(T, KthOf(T, rank - Below(R, Half), z)) = rank - Below(R, Half)
    <3>1. (\A y \in T : y \in Nat) /\ (\A y \in T : y < z)
      BY <1>1
    <3> HIDE DEF T, R, z
    <3> QED BY <1>1, <2>0, <2>4, <3>1, KthMember
  <2>6. PICK k \in T : k = SelectRunends(s, rank) /\ Below(T, k) = rank - Below(R, Half)
    BY <2>1, <2>5
  <2>7. k \in R /\ k \in Nat /\ Half <= k
    BY <1>1
  <2>8. Below(T, k) = Below(R, k) - Below(R, Half)
    BY <2>2, <2>7
  <2>9. Below(R, k) \in Nat
    BY <1>c, <2>7
  <2> QED BY <2>0, <2>6, <2>7, <2>8, <2>9
<1> QED BY <1>3, <1>4

\* The run end of an occupied part has the rank of the part.
LEMMA RunEndIs ==
    ASSUME NEW s, NEW size, Good(s, size), NEW i \in s.occupieds
    PROVE  /\ RunEndOf(s, i) \in s.runends
           /\ Below(s.runends, RunEndOf(s, i)) = Below(s.occupieds, i)
<1>1. /\ \A o \in s.occupieds : o \in Nat
      /\ i < TargetSize /\ i \in Nat
      /\ TargetSize \in Nat
  BY GoodFacts, SizesAssumption
<1>2. RankOccupieds(s, i) = Below(s.occupieds, i) /\ Below(s.occupieds, i) \in Nat
  BY <1>1, RankIs, BelowFinite
<1>3. Below(s.occupieds, i) + 1 <= Below(s.occupieds, TargetSize)
  BY <1>1, BelowLess
<1>4. Below(s.occupieds, TargetSize) = Below(s.runends, Size(s))
  BY DEF Good, Shape, Paired
<1>5. Below(s.occupieds, TargetSize) \in Nat
  BY <1>1, BelowFinite
<1>6. Below(s.occupieds, i) < Below(s.runends, Size(s))
  BY <1>2, <1>3, <1>4, <1>5
<1> QED BY <1>2, <1>6, SelectIs DEF RunEndOf

\* From a slot in use, the search to the right finds the first empty slot.
LEMMA EmptyAfterIs ==
    ASSUME NEW s, NEW size, Good(s, size), NEW pos \in UsedSlots(s), NEW b,
           b = FindEmptySlotAfter(s, pos)
    PROVE  /\ b \in Nat /\ pos < b /\ b <= Size(s)
           /\ \A p \in pos..(b - 1) : p \in UsedSlots(s)
           /\ b < Size(s) => b \notin UsedSlots(s)
<1> DEFINE R == s.runends
           U == UsedSlots(s)
           z == Size(s)
           stops == {e \in {pos} \cup {r \in R : pos < r} : e + 1 >= z \/ s.slots[e + 1] = 0}
           D == {x \in Nat : pos < x /\ x \notin U}
<1>1. /\ z \in Nat
      /\ \A e \in R : e \in Nat /\ e < z /\ e \in U
      /\ \A p \in U : p \in Nat /\ p < z
      /\ \A p \in Nat : p < z => (p \in U <=> s.slots[p] # 0)
      /\ Closing(U, R)
  BY GoodFacts DEF Shape
<1>2. pos \in Nat /\ pos < z /\ z \notin U
  BY <1>1
<1>3. b = IF stops = {} THEN z ELSE Min(stops) + 1
  BY DEF FindEmptySlotAfter
<1>4. PICK x \in Nat : pos < x /\ x \notin U /\ x <= z /\ \A y \in D : x <= y
  <2>1. z \in D /\ \A y \in D : y \in Nat
    BY <1>1, <1>2
  <2>2. PICK x \in D : \A y \in D : x <= y
    BY <2>1, LeastNat
  <2> QED BY <2>1, <2>2
<1> HIDE DEF U, z, R
<1>5. \A p \in pos..(x - 1) : p \in U
  <2> SUFFICES ASSUME NEW p \in pos..(x - 1) PROVE p \in U
    OBVIOUS
  <2>1. p \in Nat /\ ~(x <= p) /\ (p = pos \/ pos < p)
    BY <1>2, <1>4
  <2>2. CASE p = pos
    BY <2>2 DEF U
  <2>3. CASE pos < p
    BY <1>4, <2>1, <2>3
  <2> QED BY <2>1, <2>2, <2>3
<1>6. x - 1 \in stops
  <2>1. x - 1 \in Nat /\ pos <= x - 1 /\ (x - 1) + 1 = x
    BY <1>2, <1>4
  <2>2. x - 1 \in U
    BY <1>2, <1>5, <2>1
  <2>3. x - 1 = pos \/ (x - 1 \in R /\ pos < x - 1)
    BY <1>1, <1>2, <1>4, <2>1, <2>2 DEF Closing
  <2>4. x >= z \/ s.slots[x] = 0
    BY <1>1, <1>4
  <2> QED BY <2>1, <2>3, <2>4
<1>7. ASSUME NEW e \in stops PROVE e \in 0..z /\ x - 1 <= e
  <2>1. e \in Nat /\ pos <= e /\ e < z
    BY <1>1, <1>2
  <2>2. CASE e + 1 >= z
    BY <1>1, <1>4, <2>1, <2>2
  <2>3. CASE e + 1 < z
    <3>1. s.slots[e + 1] = 0
      BY <1>1, <2>1, <2>3
    <3>2. e + 1 \notin U /\ e + 1 \in Nat /\ pos < e + 1
      BY <1>1, <1>2, <2>1, <2>3, <3>1
    <3>3. x <= e + 1
      BY <1>4, <3>2
    <3> QED BY <1>1, <1>4, <2>1, <3>3
  <2> QED BY <1>1, <2>1, <2>2, <2>3
<1>8. Min(stops) = x - 1
  <2>1. (\A e \in stops : e \in 0..z) /\ stops # {} /\ 0 \in Int /\ z \in Int
    BY <1>1, <1>6, <1>7
  <2> HIDE DEF stops
  <2>2. Min(stops) \in stops /\ \A e \in stops : Min(stops) <= e
    BY <2>1, MinOf
  <2>3. Min(stops) <= x - 1 /\ x - 1 <= Min(stops) /\ Min(stops) \in Int
    BY <1>1, <1>6, <1>7, <2>2
  <2> QED BY <1>4, <2>3
<1>9. b = x
  <2>1. b = Min(stops) + 1
    BY <1>3, <1>6
  <2> QED BY <1>4, <1>8, <2>1
<1> QED BY <1>2, <1>4, <1>5, <1>9 DEF U, z

\* ... and the search to the left the last one before, -1 when there is none.
LEMMA EmptyBeforeIs ==
    ASSUME NEW s, NEW size, Good(s, size), NEW pos \in UsedSlots(s), NEW a,
           a = FindEmptySlotBefore(s, pos)
    PROVE  /\ a \in Int /\ -1 <= a /\ a < pos /\ a \notin UsedSlots(s)
           /\ \A p \in (a + 1)..pos : p \in UsedSlots(s)
<1> DEFINE R == s.runends
           U == UsedSlots(s)
           z == Size(s)
           before == {e \in R : e < pos}
           S1 == {e \in before : s.slots[e + 1] = 0} \cup {-1}
           stop == Max(S1)
           S2 == {e \in before : stop < e} \cup {pos}
           last == Min(S2)
           S3 == {p \in (stop + 1)..(last - 1) : s.slots[p] = 0} \cup {stop}
<1>0. Shape(z, Mapping(s.size_grade), U, s.occupieds, R) /\ Table(z, Mapping(s.size_grade))
  BY GoodFacts
<1>1. /\ z \in Nat
      /\ \A e \in R : e \in Nat /\ e < z /\ e \in U
      /\ \A p \in U : p \in Nat /\ p < z
      /\ \A p \in Nat : p < z => (p \in U <=> s.slots[p] # 0)
  BY GoodFacts
<1>2. pos \in Nat /\ pos < z /\ -1 \notin U /\ pos \in U
  BY <1>1
<1>3. a = Max(S3)
  BY DEF FindEmptySlotBefore
<1> HIDE DEF U, z, R
<1>4. stop \in S1 /\ \A e \in S1 : e <= stop
  <2>1. (\A e \in S1 : e \in (-1)..z) /\ S1 # {} /\ -1 \in Int /\ z \in Int
    BY <1>1
  <2> HIDE DEF S1
  <2> QED BY <2>1, MaxOf
<1>5. stop \in Int /\ -1 <= stop /\ stop < pos
  BY <1>1, <1>2, <1>4
<1> HIDE DEF stop
<1>6. last \in S2 /\ \A e \in S2 : last <= e
  <2>1. (\A e \in S2 : e \in 0..z) /\ S2 # {} /\ 0 \in Int /\ z \in Int
    BY <1>1, <1>2
  <2> HIDE DEF S2
  <2> QED BY <2>1, MinOf
<1>7. last \in Nat /\ last <= pos /\ stop < last /\ last \in U
  <2>1. pos \in S2
    OBVIOUS
  <2> QED BY <1>1, <1>2, <1>5, <1>6, <2>1
<1> HIDE DEF last
<1>8. a \in S3 /\ \A p \in S3 : p <= a
  <2>1. (\A p \in S3 : p \in (-1)..z) /\ S3 # {} /\ -1 \in Int /\ z \in Int
    BY <1>1, <1>2, <1>5, <1>7
  <2> HIDE DEF S3
  <2> QED BY <1>3, <2>1, MaxOf
<1>9. a \in Int /\ -1 <= a /\ a < pos /\ stop <= a
  BY <1>2, <1>5, <1>7, <1>8
<1>10. stop # -1 => stop + 1 \notin U /\ stop + 1 \in S3 /\ stop < a
  <2> SUFFICES ASSUME stop # -1 PROVE stop + 1 \notin U /\ stop + 1 \in S3 /\ stop < a
    OBVIOUS
  <2>1. s.slots[stop + 1] = 0 /\ stop + 1 \in Nat /\ stop + 1 < z
    BY <1>1, <1>2, <1>4, <1>5
  <2>2. stop + 1 \notin U
    BY <1>1, <2>1
  <2>3. stop + 1 # last
    BY <1>7, <2>2
  <2>4. stop + 1 <= last - 1
    BY <1>5, <1>7, <2>3
  <2>5. stop + 1 \in S3
    BY <1>5, <1>7, <2>1, <2>4
  <2>6. stop < a
    BY <1>5, <1>8, <1>9, <2>5
  <2> QED BY <2>2, <2>5, <2>6
<1>11. a \notin U
  <2>1. CASE a = stop
    <3>1. stop = -1
      BY <1>5, <1>9, <1>10, <2>1
    <3> QED BY <1>2, <2>1, <3>1
  <2>2. CASE a # stop
    <3>1. a \in (stop + 1)..(last - 1) /\ s.slots[a] = 0
      BY <1>8, <2>2
    <3>2. a \in Nat /\ a < z
      BY <1>1, <1>2, <1>5, <1>9, <3>1
    <3> QED BY <1>1, <3>1, <3>2
  <2> QED BY <2>1, <2>2
<1>12. ASSUME NEW u \in Nat, u < pos, a < u, u \notin U PROVE FALSE
  <2>1. u < z /\ s.slots[u] = 0 /\ stop < u
    BY <1>1, <1>2, <1>5, <1>9, <1>12
  <2>2. ~(u <= last - 1)
    <3>1. ASSUME u <= last - 1 PROVE u \in S3
      BY <1>5, <1>7, <2>1, <3>1
    <3>2. u \notin S3
      BY <1>8, <1>9, <1>12
    <3> QED BY <3>1, <3>2
  <2>3. last < u
    <3>1. u # last
      BY <1>7, <1>12
    <3> QED BY <1>7, <2>2, <3>1
  <2>4. PICK f \in R : last <= f /\ f < u /\ f + 1 \notin U
    BY <1>0, <1>7, <1>12, <2>3, EndBetween
  <2>5. f \in Nat /\ f < pos /\ f + 1 \in Nat /\ f + 1 < z
    BY <1>1, <1>2, <1>12, <2>1, <2>4
  <2>6. s.slots[f + 1] = 0
    BY <1>1, <2>4, <2>5
  <2>7. f \in S1
    BY <2>5, <2>6
  <2>8. f <= stop
    BY <1>4, <2>7
  <2> QED BY <1>5, <1>7, <2>4, <2>5, <2>8
<1>13. ASSUME NEW p \in (a + 1)..pos PROVE p \in U
  <2>1. p \in Nat /\ a < p /\ p <= pos
    BY <1>2, <1>9
  <2> QED BY <1>2, <1>12, <2>1
<1> QED BY <1>9, <1>11, <1>13 DEF U

-----------------------------------------------------------------------------
(* What the shifts do to the used slots and to the count of the lower half.  *)

\* The slots from l to before b are in use; t is slots with b in use too.
Filled(slots, l, b) == \A p \in l..(b - 1) : slots[p] # 0

Filling(z, V, slots, t, b) ==
    /\ t \in [0..(z - 1) -> V]
    /\ \A p \in 0..(z - 1) : t[p] # 0 <=> (slots[p] # 0 \/ p = b)

\* Shifting the slots of l..b right and writing v at l fills b and empties none.
LEMMA SlotsRight ==
    ASSUME NEW z \in Nat, NEW V, NEW slots \in [0..(z - 1) -> V], 0 \in V,
           NEW v \in V, v # 0, NEW l \in 0..(z - 1), NEW b \in 0..(z - 1), l <= b,
           Filled(slots, l, b)
    PROVE  Filling(z, V, slots, [ShiftSlotsRight(slots, l, b) EXCEPT ![l] = v], b)
<1>0. PICK t : t = [ShiftSlotsRight(slots, l, b) EXCEPT ![l] = v]
  OBVIOUS
<1>f. \A p \in l..(b - 1) : slots[p] # 0
  BY DEF Filled
<1>1. DOMAIN slots = 0..(z - 1)
  OBVIOUS
<1>2. ASSUME NEW p \in 0..(z - 1)
      PROVE  t[p] = IF p = l THEN v ELSE IF l < p /\ p <= b THEN slots[p - 1] ELSE slots[p]
  BY <1>0, <1>1 DEF ShiftSlotsRight
<1>3. ASSUME NEW p \in 0..(z - 1) PROVE t[p] \in V
  <2>1. l < p => p - 1 \in 0..(z - 1)
    OBVIOUS
  <2> QED BY <1>2, <2>1
<1>4. t = [p \in 0..(z - 1) |-> t[p]]
  BY <1>0, <1>1 DEF ShiftSlotsRight
<1>5. t \in [0..(z - 1) -> V]
  BY <1>3, <1>4
<1>6. ASSUME NEW p \in 0..(z - 1) PROVE t[p] # 0 <=> (slots[p] # 0 \/ p = b)
  <2>1. CASE p = l
    <3>1. slots[l] # 0 \/ l = b
      BY <1>f
    <3> QED BY <1>2, <2>1, <3>1
  <2>2. CASE l < p /\ p <= b
    <3>1. slots[p - 1] # 0 /\ (slots[p] # 0 \/ p = b)
      BY <1>f, <2>2
    <3> QED BY <1>2, <2>2, <3>1
  <2>3. CASE ~(l <= p /\ p <= b)
    BY <1>2, <2>3
  <2> QED BY <2>1, <2>2, <2>3
<1>7. Filling(z, V, slots, t, b)
  BY <1>5, <1>6 DEF Filling
<1> QED BY <1>0, <1>7

\* Shifting the slots above a left and writing v at the end fills a and empties
\* none.
LEMMA SlotsLeft ==
    ASSUME NEW z \in Nat, NEW V, NEW slots \in [0..(z - 1) -> V], 0 \in V,
           NEW v \in V, v # 0, NEW a \in 0..(z - 1), NEW r \in (a + 1)..z,
           Filled(slots, a + 1, r)
    PROVE  Filling(z, V, slots, [ShiftSlotsLeft(slots, a + 1, r) EXCEPT ![r - 1] = v], a)
<1>0. PICK t : t = [ShiftSlotsLeft(slots, a + 1, r) EXCEPT ![r - 1] = v]
  OBVIOUS
<1>f. \A p \in (a + 1)..(r - 1) : slots[p] # 0
  BY DEF Filled
<1>1. DOMAIN slots = 0..(z - 1) /\ r - 1 \in 0..(z - 1)
  OBVIOUS
<1>2. ASSUME NEW p \in 0..(z - 1)
      PROVE  t[p] = IF p = r - 1 THEN v ELSE IF a <= p /\ p < r - 1 THEN slots[p + 1] ELSE slots[p]
  BY <1>0, <1>1 DEF ShiftSlotsLeft
<1>3. ASSUME NEW p \in 0..(z - 1) PROVE t[p] \in V
  <2>1. p < r - 1 => p + 1 \in 0..(z - 1)
    OBVIOUS
  <2> QED BY <1>2, <2>1
<1>4. t = [p \in 0..(z - 1) |-> t[p]]
  BY <1>0, <1>1 DEF ShiftSlotsLeft
<1>5. t \in [0..(z - 1) -> V]
  BY <1>3, <1>4
<1>6. ASSUME NEW p \in 0..(z - 1) PROVE t[p] # 0 <=> (slots[p] # 0 \/ p = a)
  <2>1. CASE p = r - 1
    <3>1. slots[r - 1] # 0 \/ r - 1 = a
      BY <1>f
    <3> QED BY <1>2, <2>1, <3>1
  <2>2. CASE a <= p /\ p < r - 1
    <3>1. slots[p + 1] # 0 /\ (slots[p] # 0 \/ p = a)
      BY <1>f, <2>2
    <3> QED BY <1>2, <2>2, <3>1
  <2>3. CASE ~(a <= p /\ p <= r - 1)
    BY <1>2, <2>3
  <2> QED BY <2>1, <2>2, <2>3
<1>7. Filling(z, V, slots, t, a)
  BY <1>5, <1>6 DEF Filling
<1> QED BY <1>0, <1>7

\* The count below h after ShiftRunendsRight, as InsertIntoRun and the deletion keep
\* popcnts[1]: by the run ends that cross the half.
LEMMA CountRight ==
    ASSUME NEW R, \A e \in R : e \in Nat, NEW l \in Nat, NEW r \in Nat, l <= r, NEW h \in Nat
    PROVE  Below(ShiftRunendsRight(R, l, r), h)
             = Below(R, h) - Bit(l < h /\ h <= r /\ h \in ShiftRunendsRight(R, l, r))
                           - Bit(r < h /\ r \in R)
<1> DEFINE S == ShiftRunendsRight(R, l, r)
<1>1. Below(S, h) = IF h <= l THEN Below(R, h)
                    ELSE IF h <= r + 1 THEN Below(R, h - 1)
                    ELSE Below(R, h) - Bit(r \in R)
  BY BelowShiftedRight
<1>2. l < h /\ h <= r => (h \in S <=> h - 1 \in R)
  BY ShiftedRight
<1>3. Below(R, h) \in Nat
  BY BelowFinite
<1> HIDE DEF S
<1>4. CASE h <= l
  <2>1. Bit(l < h /\ h <= r /\ h \in S) = 0 /\ Bit(r < h /\ r \in R) = 0
    BY <1>4 DEF Bit
  <2> QED BY <1>1, <1>3, <1>4, <2>1 DEF S
<1>5. CASE l < h /\ h <= r
  <2>1. h - 1 \in Nat /\ (h - 1) + 1 = h
    BY <1>5
  <2>2. Below(R, h) = Below(R, h - 1) + Bit(h - 1 \in R) /\ Below(R, h - 1) \in Nat
    <3>1. Below(R, (h - 1) + 1) = Below(R, h - 1) + Bit(h - 1 \in R)
      BY <2>1, BelowStep
    <3>2. Below(R, h - 1) \in Nat
      BY <2>1, BelowFinite
    <3> QED BY <2>1, <3>1, <3>2
  <2>3. Bit(l < h /\ h <= r /\ h \in S) = Bit(h - 1 \in R) /\ Bit(r < h /\ r \in R) = 0
    BY <1>2, <1>5 DEF Bit
  <2>4. Bit(h - 1 \in R) \in Nat
    BY DEF Bit
  <2>5. Below(S, h) = Below(R, h - 1)
    BY <1>1, <1>5
  <2> QED BY <2>2, <2>3, <2>4, <2>5 DEF S
<1>6. CASE h = r + 1
  <2>1. Below(R, h) = Below(R, r) + Bit(r \in R) /\ Below(R, r) \in Nat
    BY <1>6, BelowStep, BelowFinite
  <2>2. Bit(l < h /\ h <= r /\ h \in S) = 0 /\ Bit(r < h /\ r \in R) = Bit(r \in R)
    BY <1>6 DEF Bit
  <2>3. Bit(r \in R) \in Nat
    BY DEF Bit
  <2>4. Below(S, h) = Below(R, r)
    <3>1. ~(h <= l) /\ h <= r + 1 /\ h - 1 = r
      BY <1>6
    <3> QED BY <1>1, <3>1
  <2> QED BY <2>1, <2>2, <2>3, <2>4 DEF S
<1>7. CASE r + 1 < h
  <2>1. Bit(l < h /\ h <= r /\ h \in S) = 0 /\ Bit(r < h /\ r \in R) = Bit(r \in R)
    BY <1>7 DEF Bit
  <2>2. Bit(r \in R) \in Nat
    BY DEF Bit
  <2>3. Below(S, h) = Below(R, h) - Bit(r \in R)
    BY <1>1, <1>7
  <2> QED BY <1>3, <2>1, <2>2, <2>3 DEF S
<1> QED BY <1>4, <1>5, <1>6, <1>7

\* The same for ShiftRunendsLeft.
LEMMA CountLeft ==
    ASSUME NEW R, \A e \in R : e \in Nat, NEW l \in Nat, NEW r \in Nat, 1 <= l, l <= r,
           l - 1 \notin R, NEW h \in Nat
    PROVE  Below(ShiftRunendsLeft(R, l, r), h) = Below(R, h) + Bit(l <= h /\ h < r /\ h \in R)
<1> DEFINE S == ShiftRunendsLeft(R, l, r)
<1>1. Below(S, h) = IF l <= h /\ h < r THEN Below(R, h + 1) ELSE Below(R, h)
  BY BelowShiftedLeft
<1>2. Below(R, h + 1) = Below(R, h) + Bit(h \in R) /\ Below(R, h) \in Nat
  BY BelowStep, BelowFinite
<1> HIDE DEF S
<1>3. CASE l <= h /\ h < r
  BY <1>1, <1>2, <1>3 DEF Bit, S
<1>4. CASE ~(l <= h /\ h < r)
  BY <1>1, <1>2, <1>4 DEF Bit, S
<1> QED BY <1>3, <1>4

-----------------------------------------------------------------------------
(* Placing an infix.                                                         *)

\* t is the store s with one more slot in use and a run for the part i.
PlacedWell(s, size, i, t) ==
    /\ Fields \subseteq DOMAIN t
    /\ t.size_grade = s.size_grade /\ t.elem_count = s.elem_count
    /\ t.occupieds = s.occupieds
    /\ t.slots \in [Positions(s) -> 0..(2^size - 1)]
    /\ t.popcnts \in [{0, 1} -> Int]
    /\ t.popcnts[0] = Below(s.occupieds \cup {i}, Half)
    /\ t.popcnts[1] = Below(t.runends, Half)
    /\ \E b \in Positions(s) :
          /\ b \notin UsedSlots(s)
          /\ \A p \in Positions(s) : t.slots[p] # 0 <=> (s.slots[p] # 0 \/ p = b)
          /\ Shape(Size(s), Mapping(s.size_grade), UsedSlots(s) \cup {b},
                   s.occupieds \cup {i}, t.runends)

\* InsertAtMappedPos, into an empty mapped slot, is well placed.
LEMMA PlacedAtEmpty ==
    ASSUME NEW s, NEW size, Good(s, size), NEW i \in Parts, i \notin s.occupieds,
           NEW x \in 0..(2^size - 1), x # 0,
           NEW m, m = Mapping(s.size_grade)[i], s.slots[m] = 0
    PROVE  PlacedWell(s, size, i, InsertAtMappedPos(s, i, x, m))
<1> DEFINE t == InsertAtMappedPos(s, i, x, m)
           M == Mapping(s.size_grade)
           R == s.runends
           O == s.occupieds
<1>1. /\ Size(s) \in Nat /\ Size(s) > 0
      /\ Table(Size(s), M) /\ Shape(Size(s), M, UsedSlots(s), O, R)
      /\ \A e \in R : e \in Nat /\ e < Size(s) /\ e \in UsedSlots(s)
      /\ \A o \in O : o \in Nat /\ o < TargetSize
      /\ \A p \in Nat : p < Size(s) => (p \in UsedSlots(s) <=> s.slots[p] # 0)
  BY GoodFacts
<1>2. m \in Positions(s) /\ m \in Nat /\ m < Size(s) /\ i \in Nat
  BY <1>1 DEF Table, Positions, Parts
<1>3. m \notin UsedSlots(s) /\ m \notin R
  BY <1>1, <1>2
<1>4. /\ Fields \subseteq DOMAIN s
      /\ s.slots \in [Positions(s) -> 0..(2^size - 1)]
      /\ s.popcnts \in [{0, 1} -> Nat]
      /\ s.popcnts[0] = Below(O, Half) /\ s.popcnts[1] = Below(R, Half)
  BY DEF Good
<1>5. /\ Fields \subseteq DOMAIN t
      /\ t.size_grade = s.size_grade /\ t.elem_count = s.elem_count
      /\ t.occupieds = O
      /\ t.runends = R \cup {m}
      /\ t.slots = [s.slots EXCEPT ![m] = x]
      /\ t.popcnts = [h \in {0, 1} |-> s.popcnts[h] + Bit(IF h = 0 THEN i < Half ELSE m < Half)]
  BY <1>4 DEF InsertAtMappedPos, Fields
<1> HIDE DEF t
<1>6. t.slots \in [Positions(s) -> 0..(2^size - 1)]
  BY <1>2, <1>4, <1>5
<1>7. \A p \in Positions(s) : t.slots[p] # 0 <=> (s.slots[p] # 0 \/ p = m)
  BY <1>2, <1>4, <1>5
<1>8. t.popcnts \in [{0, 1} -> Int]
  BY <1>4, <1>5 DEF Bit
<1>9. t.popcnts[0] = Below(O \cup {i}, Half)
  <2>1. Below(O \cup {i}, Half) = Below(O, Half) + Bit(i < Half)
    BY <1>1, <1>2, HalfNat, BelowAdded
  <2> QED BY <1>4, <1>5, <2>1
<1>10. t.popcnts[1] = Below(t.runends, Half)
  <2>1. Below(R \cup {m}, Half) = Below(R, Half) + Bit(m < Half)
    BY <1>1, <1>2, <1>3, HalfNat, BelowAdded
  <2> QED BY <1>4, <1>5, <2>1
<1>11. Shape(Size(s), M, UsedSlots(s) \cup {m}, O \cup {i}, t.runends)
  <2>1. M[i] = m
    OBVIOUS
  <2>2. M[i] \notin UsedSlots(s)
    BY <1>3, <2>1
  <2>3. Shape(Size(s), M, UsedSlots(s) \cup {M[i]}, O \cup {i}, R \cup {M[i]})
    BY <1>1, <2>2, NewAtEmpty
  <2> QED BY <1>5, <2>1, <2>3
<1>12. \E b \in Positions(s) :
          /\ b \notin UsedSlots(s)
          /\ \A p \in Positions(s) : t.slots[p] # 0 <=> (s.slots[p] # 0 \/ p = b)
          /\ Shape(Size(s), M, UsedSlots(s) \cup {b}, O \cup {i}, t.runends)
  BY <1>2, <1>3, <1>7, <1>11
<1> QED BY <1>5, <1>6, <1>8, <1>9, <1>10, <1>12 DEF PlacedWell, t

\* What an occupied part says of its run: its mapped slot is in use, the slots
\* from there to the next empty one too, and its run ends among them, or behind
\* the last empty slot when everything after it is in use.
LEMMA RunNearMapped ==
    ASSUME NEW s, NEW size, Good(s, size), NEW i \in s.occupieds,
           NEW m, m = Mapping(s.size_grade)[i],
           NEW e \in s.runends, Below(s.runends, e) = Below(s.occupieds, i)
    PROVE  /\ m \in UsedSlots(s)
           /\ \A b \in Nat : b < Size(s) /\ b \notin UsedSlots(s) /\ m < b => m <= e /\ e < b
           /\ \A a \in Nat : a \notin UsedSlots(s) /\ a < m => a < e
<1> DEFINE M == Mapping(s.size_grade)
           R == s.runends
           O == s.occupieds
           U == UsedSlots(s)
           z == Size(s)
<1>1. /\ z \in Nat /\ z > 0
      /\ Table(z, M) /\ Shape(z, M, U, O, R) /\ Within(z, U, O, R)
      /\ \A x \in R : x \in Nat /\ x < z /\ x \in U
      /\ \A o \in O : o \in Nat /\ o < TargetSize /\ o \in Parts
      /\ \A p \in U : p \in Nat /\ p < z
  BY GoodFacts
<1>2. /\ e \in Nat /\ e < z /\ e \in U /\ i \in Parts /\ i \in Nat
      /\ m \in Nat /\ m < z /\ m \in Int
  BY <1>1 DEF Table
<1>c. /\ \A x : MapsTo(M, O, x) \in Nat
      /\ \A x \in Nat : Below(R, x) \in Nat
      /\ \A x, y \in Nat : x <= y => Below(R, x) <= Below(R, y)
  BY <1>1, Counts
<1>o. \A o \in O : o \in Parts
  BY <1>1
<1> HIDE DEF M, R, O, U, z
<1>3. ASSUME NEW q \in Nat, q < z, q \notin U, NEW p \in Nat, p <= q
      PROVE  Level(M, U, O, R, p)
  <2>1. p \in 0..(z - 1) /\ q \in 0..(z - 1)
    BY <1>1, <1>3
  <2> QED BY <1>1, <1>3, <2>1 DEF Shape, Levelled
<1>4. ASSUME NEW x \in Nat, m <= x PROVE Below(R, e) + 1 <= MapsTo(M, O, x)
  <2>1. M[i] <= x /\ x \in Int /\ i \in O
    BY <1>4 DEF M, O
  <2>2. Below(O, i) + 1 <= MapsTo(M, O, x)
    BY <1>1, <1>2, <1>o, <2>1, MapsAtLeast
  <2> QED BY <2>2 DEF R, O
<1>5. ASSUME NEW x \in Nat, x < m PROVE MapsTo(M, O, x) <= Below(R, e)
  <2>1. x < M[i] /\ x \in Int /\ i \in O
    BY <1>5 DEF M, O
  <2>2. MapsTo(M, O, x) <= Below(O, i)
    BY <1>1, <1>2, <1>o, <2>1, MapsAtMost
  <2> QED BY <2>2 DEF R, O
<1>6. ASSUME NEW q \in Nat, q < z, q \notin U, e < q PROVE m <= e
  <2>1. Level(M, U, O, R, e)
    BY <1>2, <1>3, <1>6
  <2>2. MapsTo(M, O, e) > Below(R, e)
    BY <1>2, <2>1 DEF Level
  <2>3. MapsTo(M, O, e) \in Nat /\ Below(R, e) \in Nat
    BY <1>2, <1>c
  <2> QED BY <1>2, <1>5, <2>2, <2>3
<1>7. ASSUME NEW q \in Nat, q < z, q \notin U, q < e PROVE q < m
  <2>1. Level(M, U, O, R, q)
    BY <1>3, <1>7
  <2>2. MapsTo(M, O, q) = Below(R, q)
    BY <1>7, <2>1 DEF Level
  <2>3. Below(R, q) <= Below(R, e) /\ Below(R, e) \in Nat /\ Below(R, q) \in Nat
    BY <1>2, <1>7, <1>c
  <2>4. ASSUME m <= q PROVE FALSE
    BY <1>4, <1>7, <2>2, <2>3, <2>4
  <2> QED BY <1>2, <2>4
<1>8. m \in U
  <2> SUFFICES ASSUME m \notin U PROVE FALSE
    OBVIOUS
  <2>1. e # m
    BY <1>2
  <2>2. CASE e < m
    <3>1. m <= e
      BY <1>2, <1>6, <2>2
    <3> QED BY <1>2, <2>2, <3>1
  <2>3. CASE m < e
    <3>1. m < m
      BY <1>2, <1>7, <2>3
    <3> QED BY <1>2, <3>1
  <2> QED BY <1>2, <2>1, <2>2, <2>3
<1>9. ASSUME NEW b \in Nat, b < z, b \notin U, m < b PROVE m <= e /\ e < b
  <2>1. e < b
    <3>1. ~(b < e)
      <4>1. b < e => b < m
        BY <1>7, <1>9
      <4> QED BY <1>2, <1>9, <4>1
    <3>2. e # b
      BY <1>2, <1>9
    <3> QED BY <1>2, <1>9, <3>1, <3>2
  <2>2. m <= e
    BY <1>6, <1>9, <2>1
  <2> QED BY <2>1, <2>2
<1>10. ASSUME NEW a \in Nat, a \notin U, a < m PROVE a < e
  <2>1. e # a /\ a < z
    BY <1>1, <1>2, <1>10
  <2>2. ~(e < a)
    <3>1. e < a => m <= e
      BY <1>6, <1>10, <2>1
    <3> QED BY <1>2, <1>10, <3>1
  <2> QED BY <1>2, <1>10, <2>1, <2>2
<1> QED BY <1>8, <1>9, <1>10 DEF U, z

\* The place in a run: no further left than its start, no further right than
\* the slot after its end.
LEMMA PlaceInRunIs ==
    ASSUME NEW s, NEW x, NEW l \in Int, NEW e \in Int, l < e, NEW r, r = PlaceInRun(s, l, e, x)
    PROVE  r \in (l + 1)..(e + 1)
<1> DEFINE S == {p \in (l + 1)..e : Start(s.slots[p]) < x} \cup {l}
<1>1. (\A p \in S : p \in l..e) /\ S # {}
  OBVIOUS
<1>2. r = 1 + Max(S)
  BY DEF PlaceInRun
<1>3. Max(S) \in S
  <2> HIDE DEF S
  <2> QED BY <1>1, MaxOf
<1>4. Max(S) \in l..e
  <2> HIDE DEF S
  <2> QED BY <1>1, <1>3
<1> HIDE DEF S
<1> QED BY <1>2, <1>4

\* PreviousRunend is the last run end before pos, or -1.
LEMMA PreviousRunendIs ==
    ASSUME NEW s, NEW size, Good(s, size), NEW pos \in Nat, pos < Size(s),
           NEW g, g = PreviousRunend(s, pos)
    PROVE  /\ g \in Int /\ -1 <= g /\ g < pos
           /\ g = -1 \/ g \in s.runends
           /\ \A e \in s.runends : e < pos => e <= g
<1> DEFINE S == {e \in s.runends : e < pos} \cup {-1}
<1>1. /\ Size(s) \in Nat
      /\ \A e \in s.runends : e \in Nat /\ e < Size(s)
  BY GoodFacts
<1>2. (\A e \in S : e \in (-1)..pos) /\ S # {} /\ -1 \in Int
  BY <1>1
<1>3. g = Max(S)
  BY DEF PreviousRunend
<1>4. g \in S /\ \A e \in S : e <= g
  <2> HIDE DEF S
  <2> QED BY <1>2, <1>3, MaxOf
<1>5. g \in Int /\ -1 <= g /\ g < pos
  BY <1>1, <1>4
<1> QED BY <1>4, <1>5

\* An infix into the run of its part.
LEMMA PlacedInRun ==
    ASSUME NEW s, NEW size, Good(s, size), NEW i \in s.occupieds,
           NEW x \in 0..(2^size - 1), x # 0,
           NEW m, m = Mapping(s.size_grade)[i]
    PROVE  PlacedWell(s, size, i, InsertIntoRun(s, i, x, m))
<1> DEFINE M == Mapping(s.size_grade)
           R == s.runends
           O == s.occupieds
           U == UsedSlots(s)
           z == Size(s)
           V == 0..(2^size - 1)
           e == RunEndOf(s, i)
           a == FindEmptySlotBefore(s, m)
           b == FindEmptySlotAfter(s, m)
           l == Max({PreviousRunend(s, e), a})
           r == PlaceInRun(s, l, e, x)
           t == InsertIntoRun(s, i, x, m)
<1>1. /\ z \in Nat /\ z > 0
      /\ Table(z, M) /\ Shape(z, M, U, O, R)
      /\ \A y \in R : y \in Nat /\ y < z /\ y \in U
      /\ \A p \in U : p \in Nat /\ p < z
      /\ \A p \in Nat : p < z => (p \in U <=> s.slots[p] # 0)
  BY GoodFacts
<1>2. /\ Fields \subseteq DOMAIN s
      /\ s.slots \in [0..(z - 1) -> V]
      /\ s.popcnts \in [{0, 1} -> Nat]
      /\ s.popcnts[0] = Below(O, Half) /\ s.popcnts[1] = Below(R, Half)
      /\ Positions(s) = 0..(z - 1)
  BY DEF Good, Positions
<1>3. t = ShiftIntoRun(s, x, e, b, a, r)
  BY DEF InsertIntoRun
<1>4. e \in R /\ Below(R, e) = Below(O, i)
  BY RunEndIs
<1> HIDE DEF e
<1>5. /\ m \in U
      /\ \A y \in Nat : y < z /\ y \notin U /\ m < y => m <= e /\ e < y
      /\ \A y \in Nat : y \notin U /\ y < m => y < e
  BY <1>4, RunNearMapped
<1>6. m \in Nat /\ m < z /\ e \in Nat /\ e < z /\ e \in U
  BY <1>1, <1>4, <1>5
<1>7. /\ b \in Nat /\ m < b /\ b <= z
      /\ \A p \in m..(b - 1) : p \in U
      /\ b < z => b \notin U
  BY <1>5, EmptyAfterIs
<1>8. /\ a \in Int /\ -1 <= a /\ a < m /\ a \notin U
      /\ \A p \in (a + 1)..m : p \in U
  BY <1>5, EmptyBeforeIs
<1> HIDE DEF a, b
<1>9. a < e
  BY <1>5, <1>6, <1>8
<1>10. l \in Int /\ a <= l /\ l < e
  <2>1. PreviousRunend(s, e) \in Int /\ PreviousRunend(s, e) < e
    BY <1>6, PreviousRunendIs
  <2> DEFINE S == {PreviousRunend(s, e), a}
  <2>2. (\A p \in S : p \in (-1)..e) /\ S # {} /\ -1 \in Int /\ e \in Int
    BY <1>6, <1>8, <1>9, <2>1, PreviousRunendIs
  <2>3. Max(S) \in S /\ \A p \in S : p <= Max(S)
    <3> HIDE DEF S
    <3> QED BY <2>2, MaxOf
  <2>4. l = Max(S)
    OBVIOUS
  <2> HIDE DEF l
  <2> QED BY <1>8, <1>9, <2>1, <2>3, <2>4
<1> HIDE DEF l
<1>11. r \in (l + 1)..(e + 1)
  BY <1>6, <1>10, PlaceInRunIs
<1>12. r \in Nat /\ a + 1 <= r /\ r <= e + 1
  BY <1>6, <1>8, <1>10, <1>11
<1> HIDE DEF r
<1>13. 0 \in V /\ x \in V /\ i \in O /\ O \cup {i} = O
  <2>1. \A k \in Nat : 0 \in 0..(k - 1) <=> k > 0
    OBVIOUS
  <2>2. x \in V /\ 0 \in V
    BY <2>1 DEF Good
  <2> QED BY <2>2
<1>14. \A p \in (a + 1)..(b - 1) : p \in U
  <2> SUFFICES ASSUME NEW p \in (a + 1)..(b - 1) PROVE p \in U
    OBVIOUS
  <2>1. p \in Int /\ (p <= m \/ m <= p)
    BY <1>6, <1>7, <1>8
  <2> QED BY <1>6, <1>7, <1>8, <2>1
<1> HIDE DEF V, t
<1>15. CASE b < z
  <2> DEFINE S == ShiftRunendsRight(R, e, b)
  <2>0. m <= e /\ e < b /\ b \notin U /\ b \in 0..(z - 1)
    BY <1>1, <1>5, <1>6, <1>7, <1>15
  <2>1. /\ Fields \subseteq DOMAIN t
        /\ t.size_grade = s.size_grade /\ t.elem_count = s.elem_count
        /\ t.occupieds = O
        /\ t.runends = S
        /\ t.slots = [ShiftSlotsRight(s.slots, r, b) EXCEPT ![r] = x]
        /\ t.popcnts = [s.popcnts EXCEPT ![1] = s.popcnts[1] - Bit(e < Half /\ Half <= b /\ Half \in S)]
    BY <1>2, <1>3, <1>15 DEF ShiftIntoRun, Fields
  <2> HIDE DEF S
  <2>2. /\ t.slots \in [0..(z - 1) -> V]
        /\ \A p \in 0..(z - 1) : t.slots[p] # 0 <=> (s.slots[p] # 0 \/ p = b)
    <3>1. r \in 0..(z - 1) /\ r <= b
      BY <1>1, <1>6, <1>12, <2>0
    <3>2. \A p \in r..(b - 1) : s.slots[p] # 0
      <4> SUFFICES ASSUME NEW p \in r..(b - 1) PROVE s.slots[p] # 0
        OBVIOUS
      <4>1. p \in (a + 1)..(b - 1) /\ p \in Nat /\ p < z
        BY <1>1, <1>7, <1>8, <1>12
      <4> QED BY <1>1, <1>14, <4>1
    <3>3. t.slots \in [0..(z - 1) -> V]
          /\ \A p \in 0..(z - 1) : t.slots[p] # 0 <=> (s.slots[p] # 0 \/ p = b)
      <4>1. s.slots \in [0..(z - 1) -> V] /\ 0 \in V /\ x \in V /\ z \in Nat /\ x # 0
        BY <1>1, <1>2, <1>13
      <4>2. t.slots = [ShiftSlotsRight(s.slots, r, b) EXCEPT ![r] = x]
        BY <2>1
      <4> HIDE DEF z, M, R, O, U
      <4>3. r \in 0..(z - 1) /\ b \in 0..(z - 1) /\ r <= b
        BY <2>0, <3>1
      <4>4. Filled(s.slots, r, b)
        BY <3>2 DEF Filled
      <4>5. Filling(z, V, s.slots, [ShiftSlotsRight(s.slots, r, b) EXCEPT ![r] = x], b)
        BY <4>1, <4>3, <4>4, SlotsRight
      <4> QED BY <4>2, <4>5 DEF Filling
    <3> QED BY <3>3
  <2>3. Shape(z, M, U \cup {b}, O, S)
    <3>1. \A p \in e..(b - 1) : p \in U
      BY <1>6, <1>7, <2>0
    <3> QED BY <1>1, <1>4, <2>0, <3>1, IntoRunRight DEF S
  <2>4. Below(S, Half) = Below(R, Half) - Bit(e < Half /\ Half <= b /\ Half \in S)
    <3>1. Below(S, Half) = Below(R, Half) - Bit(e < Half /\ Half <= b /\ Half \in S)
                                          - Bit(b < Half /\ b \in R)
      <4>1. e <= b /\ (\A y \in R : y \in Nat)
        BY <1>1, <1>6, <1>7, <2>0
      <4> QED BY <1>6, <1>7, <4>1, HalfNat, CountRight DEF S
    <3>2. Bit(b < Half /\ b \in R) = 0
      BY <1>1, <2>0 DEF Bit
    <3>3. Below(R, Half) \in Nat /\ Bit(e < Half /\ Half <= b /\ Half \in S) \in Nat
      BY <1>1, HalfNat, BelowFinite DEF Bit
    <3> QED BY <3>1, <3>2, <3>3
  <2>5. /\ t.popcnts \in [{0, 1} -> Int]
        /\ t.popcnts[0] = Below(O, Half) /\ t.popcnts[1] = Below(S, Half)
    <3>1. s.popcnts[1] - Bit(e < Half /\ Half <= b /\ Half \in S) \in Int
      BY <1>2 DEF Bit
    <3> QED BY <1>2, <2>1, <2>4, <3>1
  <2>6. \E q \in Positions(s) :
          /\ q \notin U
          /\ \A p \in Positions(s) : t.slots[p] # 0 <=> (s.slots[p] # 0 \/ p = q)
          /\ Shape(z, M, U \cup {q}, O \cup {i}, t.runends)
    <3>1. Shape(z, M, U \cup {b}, O \cup {i}, t.runends)
      BY <1>13, <2>1, <2>3
    <3>2. b \in Positions(s) /\ \A p \in Positions(s) : t.slots[p] # 0 <=> (s.slots[p] # 0 \/ p = b)
      BY <1>2, <2>0, <2>2
    <3> HIDE DEF z, M, R, O, U
    <3> QED BY <2>0, <3>1, <3>2
  <2> QED BY <1>2, <1>13, <2>1, <2>2, <2>5, <2>6 DEF PlacedWell, V, t
<1>16. CASE ~(b < z)
  <2> DEFINE d == Min({e, r})
             S == ShiftRunendsLeft(R, a + 1, d)
  <2>0. b = z /\ a # -1
    <3>1. b = z
      BY <1>1, <1>7, <1>16
    <3>2. ASSUME a = -1 PROVE FALSE
      <4>1. PICK q \in 0..(z - 1) : q \notin U
        BY SomeEmpty
      <4>2. q \in (a + 1)..(b - 1)
        BY <1>1, <3>1, <3>2, <4>1
      <4> QED BY <1>14, <4>1, <4>2
    <3> QED BY <3>1, <3>2
  <2>1. /\ Fields \subseteq DOMAIN t
        /\ t.size_grade = s.size_grade /\ t.elem_count = s.elem_count
        /\ t.occupieds = O
        /\ t.runends = S
        /\ t.slots = [ShiftSlotsLeft(s.slots, a + 1, r) EXCEPT ![r - 1] = x]
        /\ t.popcnts = [s.popcnts EXCEPT ![1] = s.popcnts[1] + Bit(a + 1 <= Half /\ Half < d /\ Half \in R)]
    BY <1>2, <1>3, <1>16 DEF ShiftIntoRun, Fields
  <2>d. d = IF e <= r THEN e ELSE r
    BY <1>6, <1>12, MinTwo
  <2> HIDE DEF S, d
  <2>a. a \in Nat /\ a < z /\ a \in 0..(z - 1) /\ r \in (a + 1)..z /\ d \in (a + 1)..(z - 1)
    BY <1>1, <1>6, <1>8, <1>9, <1>12, <2>0, <2>d
  <2>u. \A p \in (a + 1)..(z - 1) : p \in U
    BY <1>14, <2>0
  <2>2. /\ t.slots \in [0..(z - 1) -> V]
        /\ \A p \in 0..(z - 1) : t.slots[p] # 0 <=> (s.slots[p] # 0 \/ p = a)
    <3>2. \A p \in (a + 1)..(r - 1) : s.slots[p] # 0
      <4> SUFFICES ASSUME NEW p \in (a + 1)..(r - 1) PROVE s.slots[p] # 0
        OBVIOUS
      <4>1. p \in (a + 1)..(z - 1) /\ p \in Nat /\ p < z
        BY <1>1, <2>a
      <4> QED BY <1>1, <2>u, <4>1
    <3>3. s.slots \in [0..(z - 1) -> V] /\ 0 \in V /\ x \in V /\ z \in Nat /\ x # 0
      BY <1>1, <1>2, <1>13
    <3>4. t.slots = [ShiftSlotsLeft(s.slots, a + 1, r) EXCEPT ![r - 1] = x]
      BY <2>1
    <3> HIDE DEF z, M, R, O, U
    <3>5. a \in 0..(z - 1) /\ r \in (a + 1)..z
      BY <2>a
    <3>6. Filled(s.slots, a + 1, r)
      BY <3>2 DEF Filled
    <3>7. Filling(z, V, s.slots, [ShiftSlotsLeft(s.slots, a + 1, r) EXCEPT ![r - 1] = x], a)
      BY <3>3, <3>5, <3>6, SlotsLeft
    <3> QED BY <3>4, <3>7 DEF Filling
  <2>3. Shape(z, M, U \cup {a}, O, S)
    BY <1>1, <1>8, <2>a, <2>u, IntoRunLeft DEF S
  <2>4. Below(S, Half) = Below(R, Half) + Bit(a + 1 <= Half /\ Half < d /\ Half \in R)
    <3>1. a + 1 \in Nat /\ d \in Nat /\ 1 <= a + 1 /\ a + 1 <= d /\ (a + 1) - 1 \notin R
      BY <1>1, <1>8, <2>a
    <3>2. \A y \in R : y \in Nat
      BY <1>1
    <3> QED BY <3>1, <3>2, HalfNat, CountLeft DEF S
  <2>5. /\ t.popcnts \in [{0, 1} -> Int]
        /\ t.popcnts[0] = Below(O, Half) /\ t.popcnts[1] = Below(S, Half)
    <3>1. s.popcnts[1] + Bit(a + 1 <= Half /\ Half < d /\ Half \in R) \in Int
      BY <1>2 DEF Bit
    <3> QED BY <1>2, <2>1, <2>4, <3>1
  <2>6. \E q \in Positions(s) :
          /\ q \notin U
          /\ \A p \in Positions(s) : t.slots[p] # 0 <=> (s.slots[p] # 0 \/ p = q)
          /\ Shape(z, M, U \cup {q}, O \cup {i}, t.runends)
    <3>1. Shape(z, M, U \cup {a}, O \cup {i}, t.runends)
      BY <1>13, <2>1, <2>3
    <3>2. a \in Positions(s) /\ \A p \in Positions(s) : t.slots[p] # 0 <=> (s.slots[p] # 0 \/ p = a)
      BY <1>2, <2>a, <2>2
    <3> HIDE DEF z, M, R, O, U
    <3> QED BY <1>8, <3>1, <3>2
  <2> QED BY <1>2, <1>13, <2>1, <2>2, <2>5, <2>6 DEF PlacedWell, V, t
<1> QED BY <1>15, <1>16

\* The run end of the part before a part that is new, -1 when there is none.
LEMMA RunBeforeIs ==
    ASSUME NEW s, NEW size, Good(s, size), NEW i \in Parts, i \notin s.occupieds,
           NEW g, g = (LET rank == RankOccupieds(s, i)
                       IN  IF rank = 0 THEN -1 ELSE SelectRunends(s, rank - 1))
    PROVE  /\ g \in Int /\ -1 <= g /\ g < Size(s)
           /\ \A q \in Nat : q < Size(s) /\ q \notin UsedSlots(s)
                                 /\ Mapping(s.size_grade)[i] <= q => g < q
<1> DEFINE M == Mapping(s.size_grade)
           R == s.runends
           O == s.occupieds
           U == UsedSlots(s)
           z == Size(s)
           k == Below(O, i)
<1>1. /\ z \in Nat /\ z > 0
      /\ Table(z, M) /\ Shape(z, M, U, O, R) /\ Within(z, U, O, R)
      /\ \A x \in R : x \in Nat /\ x < z /\ x \in U
      /\ \A o \in O : o \in Nat /\ o < TargetSize /\ o \in Parts
  BY GoodFacts
<1>2. i \in Nat /\ i < TargetSize /\ TargetSize \in Nat /\ M[i] \in Nat
  BY <1>1 DEF Table, Parts
<1>3. k \in Nat /\ RankOccupieds(s, i) = k
  BY <1>1, <1>2, RankIs, BelowFinite
<1>o. \A o \in O : o \in Parts
  BY <1>1
<1>c. /\ \A x : MapsTo(M, O, x) \in Nat
      /\ \A x \in Nat : Below(R, x) \in Nat
      /\ \A x, y \in Nat : x <= y => Below(R, x) <= Below(R, y)
  BY <1>1, Counts
<1>4. CASE k = 0
  <2>1. g = -1
    BY <1>3, <1>4
  <2> QED BY <1>1, <2>1
<1>5. CASE k # 0
  <2>1. g = SelectRunends(s, k - 1) /\ k - 1 \in Nat
    BY <1>3, <1>5
  <2>2. k - 1 < Below(R, z)
    <3>1. k <= Below(O, TargetSize) /\ Below(O, TargetSize) \in Nat
      BY <1>1, <1>2, BelowMonotone, BelowFinite
    <3>2. Below(O, TargetSize) = Below(R, z)
      BY <1>1 DEF Shape, Paired
    <3> QED BY <1>3, <3>1, <3>2
  <2>3. g \in R /\ Below(R, g) = k - 1
    BY <2>1, <2>2, SelectIs
  <2>4. g \in Nat /\ g < z /\ g \in U
    BY <1>1, <2>3
  <2> HIDE DEF k, M, R, O, U, z
  <2>5. ASSUME NEW q \in Nat, q < z, q \notin U, M[i] <= q PROVE g < q
    <3>1. Level(M, U, O, R, q)
      <4>1. q \in 0..(z - 1)
        BY <1>1, <2>5
      <4> QED BY <1>1, <2>5, <4>1 DEF Shape, Levelled
    <3>2. MapsTo(M, O, q) = Below(R, q)
      BY <2>5, <3>1 DEF Level
    <3>3. k <= MapsTo(M, O, q)
      <4>1. q \in Int
        BY <2>5
      <4>2. Below(O, i) <= MapsTo(M, O, q)
        BY <1>1, <1>o, <2>5, <4>1, MapsAtLeast
      <4> QED BY <4>2 DEF k
    <3>4. g # q
      BY <2>4, <2>5
    <3>5. ASSUME q < g PROVE FALSE
      <4>1. Below(R, q) <= Below(R, g) /\ Below(R, q) \in Nat
        BY <1>c, <2>4, <2>5, <3>5
      <4> QED BY <1>3, <2>3, <3>2, <3>3, <4>1
    <3> QED BY <2>4, <2>5, <3>4, <3>5
  <2>6. g \in Int /\ -1 <= g /\ g < z
    BY <2>4
  <2> QED BY <2>5, <2>6 DEF M, U, z
<1> QED BY <1>4, <1>5

\* An infix of a new part whose own slot is taken.
LEMMA PlacedNewRun ==
    ASSUME NEW s, NEW size, Good(s, size), NEW i \in Parts, i \notin s.occupieds,
           NEW x \in 0..(2^size - 1), x # 0,
           NEW m, m = Mapping(s.size_grade)[i], s.slots[m] # 0
    PROVE  PlacedWell(s, size, i, InsertNewRun(s, i, x, m))
<1> DEFINE M == Mapping(s.size_grade)
           R == s.runends
           O == s.occupieds
           U == UsedSlots(s)
           z == Size(s)
           V == 0..(2^size - 1)
           g == IF RankOccupieds(s, i) = 0 THEN -1 ELSE SelectRunends(s, RankOccupieds(s, i) - 1)
           a == FindEmptySlotBefore(s, m)
           b == FindEmptySlotAfter(s, m)
           u == ShiftNewRunIn(s, x, m, g, b, a)
           t == InsertNewRun(s, i, x, m)
<1>1. /\ z \in Nat /\ z > 0
      /\ Table(z, M) /\ Shape(z, M, U, O, R)
      /\ \A y \in R : y \in Nat /\ y < z /\ y \in U
      /\ \A p \in U : p \in Nat /\ p < z
      /\ \A p \in Nat : p < z => (p \in U <=> s.slots[p] # 0)
      /\ \A o \in O : o \in Nat
  BY GoodFacts
<1>2. /\ Fields \subseteq DOMAIN s
      /\ s.slots \in [0..(z - 1) -> V]
      /\ s.popcnts \in [{0, 1} -> Nat]
      /\ s.popcnts[0] = Below(O, Half) /\ s.popcnts[1] = Below(R, Half)
      /\ Positions(s) = 0..(z - 1)
  BY DEF Good, Positions
<1>3. t = [u EXCEPT !.popcnts[0] = @ + Bit(i < Half)]
  BY DEF InsertNewRun
<1>4. /\ g \in Int /\ -1 <= g /\ g < z
      /\ \A q \in Nat : q < z /\ q \notin U /\ M[i] <= q => g < q
  BY RunBeforeIs
<1> HIDE DEF g
<1>5. i \in Nat /\ m \in Nat /\ m < z /\ m \in U /\ m = M[i]
  <2>1. m \in Nat /\ m < z /\ i \in Nat
    BY <1>1 DEF Table, Parts
  <2> QED BY <1>1, <2>1
<1>7. /\ b \in Nat /\ m < b /\ b <= z
      /\ \A p \in m..(b - 1) : p \in U
      /\ b < z => b \notin U
  BY <1>5, EmptyAfterIs
<1>8. /\ a \in Int /\ -1 <= a /\ a < m /\ a \notin U
      /\ \A p \in (a + 1)..m : p \in U
  BY <1>5, EmptyBeforeIs
<1> HIDE DEF a, b
<1>13. 0 \in V /\ x \in V
  <2>1. \A k \in Nat : 0 \in 0..(k - 1) <=> k > 0
    OBVIOUS
  <2> QED BY <2>1 DEF Good
<1>9. Below(O \cup {i}, Half) = Below(O, Half) + Bit(i < Half)
  BY <1>1, <1>5, HalfNat, BelowAdded
<1>10. Below(R, Half) \in Nat
  BY <1>1, HalfNat, BelowFinite
<1> HIDE DEF V, t, u
<1>15. CASE b < z
  <2> DEFINE l == Max({g + 1, m})
             S == ShiftRunendsRight(R, l, b)
  <2>0. b \notin U /\ b \in 0..(z - 1) /\ g < b
    BY <1>1, <1>4, <1>5, <1>7, <1>15
  <2>l. l \in m..b
    <3> DEFINE W == {g + 1, m}
    <3>1. (\A y \in W : y \in 0..b) /\ W # {} /\ 0 \in Int /\ b \in Int
      BY <1>4, <1>5, <1>7, <2>0
    <3>2. Max(W) \in W /\ \A y \in W : y <= Max(W)
      <4> HIDE DEF W
      <4> QED BY <3>1, MaxOf
    <3>3. m <= Max(W) /\ Max(W) \in 0..b
      BY <3>1, <3>2
    <3> HIDE DEF l
    <3>4. l = Max(W)
      BY DEF l
    <3> HIDE DEF W
    <3> QED BY <1>5, <3>3, <3>4
  <2>1. /\ Fields \subseteq DOMAIN u
        /\ u.size_grade = s.size_grade /\ u.elem_count = s.elem_count
        /\ u.occupieds = O
        /\ u.runends = S \cup {l}
        /\ u.slots = [ShiftSlotsRight(s.slots, l, b) EXCEPT ![l] = x]
        /\ u.popcnts = [s.popcnts EXCEPT ![1] = s.popcnts[1] + Bit(l < Half)
                           - Bit(l < Half /\ Half <= b /\ Half \in S)]
    BY <1>2, <1>15 DEF ShiftNewRunIn, Fields, u
  <2> HIDE DEF S, l
  <2>2. Filling(z, V, s.slots, u.slots, b)
    <3>1. l \in 0..(z - 1) /\ l <= b
      BY <1>1, <1>5, <2>l, <2>0
    <3>2. Filled(s.slots, l, b)
      <4> SUFFICES ASSUME NEW p \in l..(b - 1) PROVE s.slots[p] # 0
        BY DEF Filled
      <4>1. p \in m..(b - 1) /\ p \in Nat /\ p < z
        BY <1>1, <1>5, <1>7, <2>l
      <4> QED BY <1>1, <1>7, <4>1
    <3>3. s.slots \in [0..(z - 1) -> V] /\ 0 \in V /\ x \in V /\ z \in Nat /\ x # 0
      BY <1>1, <1>2, <1>13
    <3>4. Filling(z, V, s.slots, [ShiftSlotsRight(s.slots, l, b) EXCEPT ![l] = x], b)
      BY <2>0, <3>1, <3>2, <3>3, SlotsRight
    <3> QED BY <2>1, <3>4
  <2>3. Shape(z, M, U \cup {b}, O \cup {i}, S \cup {l})
    <3>1. \A p \in M[i]..(b - 1) : p \in U
      BY <1>5, <1>7
    <3>2. l \in M[i]..b /\ M[i] \in U
      BY <1>5, <2>l
    <3> QED BY <1>1, <2>0, <3>1, <3>2, NewRunRight DEF S
  <2>s. \A y \in R : y \in Nat
    BY <1>1
  <2>b. l \in Nat /\ l <= b
    BY <1>5, <1>7, <2>l
  <2>4. Below(S \cup {l}, Half)
          = Below(R, Half) + Bit(l < Half) - Bit(l < Half /\ Half <= b /\ Half \in S)
    <3>1. Below(S, Half) = Below(R, Half) - Bit(l < Half /\ Half <= b /\ Half \in S)
                                          - Bit(b < Half /\ b \in R)
      BY <1>7, <2>b, <2>s, HalfNat, CountRight DEF S
    <3>2. Bit(b < Half /\ b \in R) = 0
      BY <1>1, <2>0 DEF Bit
    <3>3. l \notin S /\ \A y \in S : y \in Nat
      BY <1>7, <2>b, <2>s, ShiftedRight DEF S
    <3>4. Below(S \cup {l}, Half) = Below(S, Half) + Bit(l < Half)
      BY <2>b, <3>3, HalfNat, BelowAdded
    <3>5. Bit(l < Half) \in Nat /\ Bit(l < Half /\ Half <= b /\ Half \in S) \in Nat
      BY DEF Bit
    <3> QED BY <1>10, <3>1, <3>2, <3>4, <3>5
  <2>5. /\ Fields \subseteq DOMAIN t
        /\ t.size_grade = s.size_grade /\ t.elem_count = s.elem_count
        /\ t.occupieds = O /\ t.runends = S \cup {l} /\ t.slots = u.slots
        /\ t.popcnts = [u.popcnts EXCEPT ![0] = u.popcnts[0] + Bit(i < Half)]
    BY <1>3, <2>1 DEF Fields
  <2>6. /\ t.popcnts \in [{0, 1} -> Int]
        /\ t.popcnts[0] = Below(O \cup {i}, Half) /\ t.popcnts[1] = Below(S \cup {l}, Half)
    <3>1. /\ s.popcnts[1] + Bit(l < Half) - Bit(l < Half /\ Half <= b /\ Half \in S) \in Int
          /\ s.popcnts[0] + Bit(i < Half) \in Int
      BY <1>2 DEF Bit
    <3> QED BY <1>2, <1>9, <2>1, <2>4, <2>5, <3>1
  <2>7. \E q \in Positions(s) :
          /\ q \notin U
          /\ \A p \in Positions(s) : t.slots[p] # 0 <=> (s.slots[p] # 0 \/ p = q)
          /\ Shape(z, M, U \cup {q}, O \cup {i}, t.runends)
    <3>1. Shape(z, M, U \cup {b}, O \cup {i}, t.runends)
      BY <2>3, <2>5
    <3>2. b \in Positions(s) /\ \A p \in Positions(s) : t.slots[p] # 0 <=> (s.slots[p] # 0 \/ p = b)
      BY <1>2, <2>0, <2>2, <2>5 DEF Filling
    <3> HIDE DEF z, M, R, O, U
    <3> QED BY <2>0, <3>1, <3>2
  <2>8. t.slots \in [Positions(s) -> V]
    BY <1>2, <2>2, <2>5 DEF Filling
  <2> QED BY <2>5, <2>6, <2>7, <2>8 DEF PlacedWell, V, t
<1>16. CASE ~(b < z)
  <2> DEFINE l == Max({g, a})
             S == ShiftRunendsLeft(R, a + 1, l + 1)
  <2>0. b = z /\ a # -1
    <3>1. b = z
      BY <1>1, <1>7, <1>16
    <3>2. ASSUME a = -1 PROVE FALSE
      <4>1. PICK q \in 0..(z - 1) : q \notin U
        BY SomeEmpty
      <4>2. q \in (a + 1)..m \/ q \in m..(b - 1)
        BY <1>1, <1>5, <3>1, <3>2, <4>1
      <4> QED BY <1>7, <1>8, <4>1, <4>2
    <3> QED BY <3>1, <3>2
  <2>a. a \in Nat /\ a < z /\ a \in 0..(z - 1) /\ a < M[i]
    BY <1>1, <1>5, <1>8, <2>0
  <2>l. l \in a..(z - 1)
    <3> DEFINE W == {g, a}
    <3>1. (\A y \in W : y \in (-1)..(z - 1)) /\ W # {} /\ -1 \in Int /\ z - 1 \in Int
      BY <1>1, <1>4, <2>a
    <3>2. Max(W) \in W /\ \A y \in W : y <= Max(W)
      <4> HIDE DEF W
      <4> QED BY <3>1, MaxOf
    <3>3. a <= Max(W) /\ Max(W) \in (-1)..(z - 1)
      BY <3>1, <3>2
    <3> HIDE DEF l
    <3>4. l = Max(W)
      BY DEF l
    <3> HIDE DEF W
    <3> QED BY <1>1, <2>a, <3>3, <3>4
  <2>1. /\ Fields \subseteq DOMAIN u
        /\ u.size_grade = s.size_grade /\ u.elem_count = s.elem_count
        /\ u.occupieds = O
        /\ u.runends = S \cup {l}
        /\ u.slots = [ShiftSlotsLeft(s.slots, a + 1, l + 1) EXCEPT ![l] = x]
        /\ u.popcnts = [s.popcnts EXCEPT ![1] = s.popcnts[1] + Bit(l < Half)
                           + Bit(a + 1 <= Half /\ Half < l + 1 /\ Half \in R)]
    BY <1>2, <1>16 DEF ShiftNewRunIn, Fields, u
  <2> HIDE DEF S, l
  <2>b. l \in Nat /\ l + 1 \in (a + 1)..z /\ l + 1 \in Nat /\ (l + 1) - 1 = l
    BY <1>1, <2>a, <2>l
  <2>u. \A p \in (a + 1)..(z - 1) : p \in U
    <3> SUFFICES ASSUME NEW p \in (a + 1)..(z - 1) PROVE p \in U
      OBVIOUS
    <3>1. p \in (a + 1)..m \/ p \in m..(b - 1)
      BY <1>1, <1>5, <2>0, <2>a
    <3> QED BY <1>7, <1>8, <3>1
  <2>2. Filling(z, V, s.slots, u.slots, a)
    <3>2. Filled(s.slots, a + 1, l + 1)
      <4> SUFFICES ASSUME NEW p \in (a + 1)..((l + 1) - 1) PROVE s.slots[p] # 0
        BY DEF Filled
      <4>1. p \in (a + 1)..(z - 1) /\ p \in Nat /\ p < z
        BY <1>1, <2>a, <2>l
      <4> QED BY <1>1, <2>u, <4>1
    <3>3. s.slots \in [0..(z - 1) -> V] /\ 0 \in V /\ x \in V /\ z \in Nat /\ x # 0
      BY <1>1, <1>2, <1>13
    <3>4. Filling(z, V, s.slots, [ShiftSlotsLeft(s.slots, a + 1, l + 1) EXCEPT ![(l + 1) - 1] = x], a)
      BY <2>a, <2>b, <3>2, <3>3, SlotsLeft
    <3> QED BY <2>1, <2>b, <3>4
  <2>3. Shape(z, M, U \cup {a}, O \cup {i}, S \cup {l})
    BY <1>1, <1>8, <2>a, <2>l, <2>u, NewRunLeft DEF S
  <2>s. \A y \in R : y \in Nat
    BY <1>1
  <2>c. a + 1 \in Nat /\ 1 <= a + 1 /\ a + 1 <= l + 1 /\ (a + 1) - 1 \notin R
    BY <1>1, <1>8, <2>a, <2>l
  <2>4. Below(S \cup {l}, Half)
          = Below(R, Half) + Bit(l < Half) + Bit(a + 1 <= Half /\ Half < l + 1 /\ Half \in R)
    <3>1. Below(S, Half) = Below(R, Half) + Bit(a + 1 <= Half /\ Half < l + 1 /\ Half \in R)
      BY <2>b, <2>c, <2>s, HalfNat, CountLeft DEF S
    <3>3. l \notin S /\ \A y \in S : y \in Nat
      <4>1. (l + 1) - 1 \notin S /\ \A y \in S : y \in Nat
        BY <2>b, <2>c, <2>s, ShiftedLeft DEF S
      <4> QED BY <2>b, <4>1
    <3>4. Below(S \cup {l}, Half) = Below(S, Half) + Bit(l < Half)
      BY <2>b, <3>3, HalfNat, BelowAdded
    <3>5. Bit(l < Half) \in Nat /\ Bit(a + 1 <= Half /\ Half < l + 1 /\ Half \in R) \in Nat
      BY DEF Bit
    <3> QED BY <1>10, <3>1, <3>4, <3>5
  <2>5. /\ Fields \subseteq DOMAIN t
        /\ t.size_grade = s.size_grade /\ t.elem_count = s.elem_count
        /\ t.occupieds = O /\ t.runends = S \cup {l} /\ t.slots = u.slots
        /\ t.popcnts = [u.popcnts EXCEPT ![0] = u.popcnts[0] + Bit(i < Half)]
    BY <1>3, <2>1 DEF Fields
  <2>6. /\ t.popcnts \in [{0, 1} -> Int]
        /\ t.popcnts[0] = Below(O \cup {i}, Half) /\ t.popcnts[1] = Below(S \cup {l}, Half)
    <3>1. /\ s.popcnts[1] + Bit(l < Half) + Bit(a + 1 <= Half /\ Half < l + 1 /\ Half \in R) \in Int
          /\ s.popcnts[0] + Bit(i < Half) \in Int
      BY <1>2 DEF Bit
    <3> QED BY <1>2, <1>9, <2>1, <2>4, <2>5, <3>1
  <2>7. \E q \in Positions(s) :
          /\ q \notin U
          /\ \A p \in Positions(s) : t.slots[p] # 0 <=> (s.slots[p] # 0 \/ p = q)
          /\ Shape(z, M, U \cup {q}, O \cup {i}, t.runends)
    <3>1. Shape(z, M, U \cup {a}, O \cup {i}, t.runends)
      BY <2>3, <2>5
    <3>2. a \in Positions(s) /\ \A p \in Positions(s) : t.slots[p] # 0 <=> (s.slots[p] # 0 \/ p = a)
      BY <1>2, <2>a, <2>2, <2>5 DEF Filling
    <3> HIDE DEF z, M, R, O, U
    <3> QED BY <1>8, <3>1, <3>2
  <2>8. t.slots \in [Positions(s) -> V]
    BY <1>2, <2>2, <2>5 DEF Filling
  <2> QED BY <2>5, <2>6, <2>7, <2>8 DEF PlacedWell, V, t
<1> QED BY <1>15, <1>16

\* A slot value a store of a given infix size can hold in use.
Slotted(x, size) == x \in 0..(2^size - 1) /\ x # 0

\* However an infix is placed, the store keeps its shape.
LEMMA PlacedIsWell ==
    ASSUME NEW s, NEW size, Good(s, size), NEW i \in Parts, NEW x, Slotted(x, size),
           NEW m, m = Mapping(s.size_grade)[i]
    PROVE  PlacedWell(s, size, i, Placed(s, i, x, m))
<1>1. x \in 0..(2^size - 1) /\ x # 0
  BY DEF Slotted
<1>2. CASE i \in s.occupieds
  BY <1>1, <1>2, PlacedInRun DEF Placed
<1>3. CASE i \notin s.occupieds /\ s.slots[m] = 0
  BY <1>1, <1>3, PlacedAtEmpty DEF Placed
<1>4. CASE i \notin s.occupieds /\ s.slots[m] # 0
  BY <1>1, <1>4, PlacedNewRun DEF Placed
<1> QED BY <1>2, <1>3, <1>4

\* An insertion into a store with two empty slots leaves it in shape.
LEMMA InsertedGood ==
    ASSUME NEW s, NEW size, Good(s, size), s.elem_count + 1 < Size(s),
           NEW i \in Parts, NEW x, Slotted(x, size)
    PROVE  /\ Good(InsertInto(s, i, x, TotalImplicit), size)
           /\ InsertInto(s, i, x, TotalImplicit).elem_count = s.elem_count + 1
<1> DEFINE m == Mapping(s.size_grade)[i]
           u == Placed(s, i, x, m)
           t == InsertInto(s, i, x, TotalImplicit)
           U == UsedSlots(s)
           z == Size(s)
<1>1. PlacedWell(s, size, i, u)
  BY PlacedIsWell
<1>2. t = [u EXCEPT !.occupieds = @ \cup {i}, !.elem_count = @ + 1]
  <2>1. GetMappedPos(i, s.size_grade, TotalImplicit) = m
    BY DEF Mapping
  <2> QED BY <2>1 DEF InsertInto
<1> HIDE DEF u, t
<1>3. /\ z \in Nat /\ s.elem_count \in Nat
      /\ \A o \in s.occupieds : o \in Nat
      /\ i \in Nat
  BY GoodFacts DEF Parts
<1>4. /\ Fields \subseteq DOMAIN t
      /\ t.size_grade = s.size_grade
      /\ t.elem_count = s.elem_count + 1
      /\ t.occupieds = s.occupieds \cup {i}
      /\ t.runends = u.runends /\ t.slots = u.slots /\ t.popcnts = u.popcnts
  BY <1>1, <1>2 DEF PlacedWell, Fields
<1>5. Size(t) = z /\ Positions(t) = Positions(s)
  BY <1>4 DEF Size, Positions
<1>6. PICK b \in Positions(s) :
          /\ b \notin U
          /\ \A p \in Positions(s) : u.slots[p] # 0 <=> (s.slots[p] # 0 \/ p = b)
          /\ Shape(z, Mapping(s.size_grade), U \cup {b}, s.occupieds \cup {i}, u.runends)
  BY <1>1 DEF PlacedWell
<1>7. UsedSlots(t) = U \cup {b}
  <2>1. \A p \in Positions(s) : t.slots[p] # 0 <=> (s.slots[p] # 0 \/ p = b)
    BY <1>4, <1>6
  <2> QED BY <1>5, <1>6, <2>1 DEF UsedSlots
<1>8. Cardinality(UsedSlots(t)) = t.elem_count
  <2>1. IsFiniteSet(U) /\ Cardinality(U) = s.elem_count
    BY <1>3, UsedFinite DEF Good
  <2>2. Cardinality(U \cup {b}) = Cardinality(U) + 1
    BY <1>6, <2>1, FS_AddElement
  <2> QED BY <1>4, <1>7, <2>1, <2>2
<1>9. Shape(Size(t), Mapping(t.size_grade), UsedSlots(t), t.occupieds, t.runends)
  BY <1>4, <1>5, <1>6, <1>7
<1>10. /\ t.slots \in [Positions(t) -> 0..(2^size - 1)]
       /\ t.popcnts \in [{0, 1} -> Int]
       /\ t.popcnts[0] = Below(t.occupieds, Half)
       /\ t.popcnts[1] = Below(t.runends, Half)
  BY <1>1, <1>4, <1>5 DEF PlacedWell
<1>11. t.popcnts[0] \in Nat /\ t.popcnts[1] \in Nat
  <2>1. Table(z, Mapping(s.size_grade))
    BY GoodFacts
  <2>2. Table(Size(t), Mapping(t.size_grade))
    BY <1>4, <1>5, <2>1
  <2>3. Within(Size(t), UsedSlots(t), t.occupieds, t.runends)
    BY <1>9 DEF Shape
  <2>4. (\A o \in t.occupieds : o \in Nat) /\ (\A e \in t.runends : e \in Nat)
    BY <2>2, <2>3, WithinNat
  <2> QED BY <1>10, <2>4, HalfNat, BelowFinite
<1>12. t.popcnts \in [{0, 1} -> Nat]
  BY <1>10, <1>11
<1>13. t.elem_count < Size(t) /\ t.size_grade \in Grades
  BY <1>4, <1>5 DEF Good
<1>14. 2^size \in Nat /\ 2^size > 0
  BY DEF Good
<1>15. Good(t, size)
  BY <1>4, <1>8, <1>9, <1>10, <1>12, <1>13, <1>14 DEF Good
<1> QED BY <1>4, <1>15 DEF t

-----------------------------------------------------------------------------
(* Runs.                                                                     *)

\* The facts about a store in shape that the lemmas below start from.
LEMMA GoodCounts ==
    ASSUME NEW s, NEW size, Good(s, size)
    PROVE  /\ \A x : MapsTo(Mapping(s.size_grade), s.occupieds, x) \in Nat
           /\ \A x \in Nat : Below(s.runends, x) \in Nat
           /\ \A x \in Nat : Below(s.occupieds, x) \in Nat
           /\ \A x, y \in Nat : x <= y => Below(s.runends, x) <= Below(s.runends, y)
           /\ \A e \in s.runends : \A y \in Nat : e < y => Below(s.runends, e) + 1 <= Below(s.runends, y)
           /\ \A x, y \in Nat : /\ x <= y
                                /\ \A e \in s.runends : ~(x <= e /\ e < y)
                                => Below(s.runends, x) = Below(s.runends, y)
           /\ Below(s.occupieds, TargetSize) = Below(s.runends, Size(s))
<1>1. /\ Table(Size(s), Mapping(s.size_grade))
      /\ Within(Size(s), UsedSlots(s), s.occupieds, s.runends)
      /\ Shape(Size(s), Mapping(s.size_grade), UsedSlots(s), s.occupieds, s.runends)
  BY GoodFacts
<1>2. /\ \A e \in s.runends : e \in Nat
      /\ \A o \in s.occupieds : o \in Nat
  BY GoodFacts
<1>3. /\ \A x : MapsTo(Mapping(s.size_grade), s.occupieds, x) \in Nat
      /\ \A x \in Nat : Below(s.runends, x) \in Nat
      /\ \A x, y \in Nat : x <= y => Below(s.runends, x) <= Below(s.runends, y)
  BY <1>1, Counts
<1>4. \A x \in Nat : Below(s.occupieds, x) \in Nat
  BY <1>2, BelowFinite
<1>5. \A e \in s.runends : \A y \in Nat : e < y => Below(s.runends, e) + 1 <= Below(s.runends, y)
  BY <1>2, BelowLess
<1>6. \A x, y \in Nat : /\ x <= y
                        /\ \A e \in s.runends : ~(x <= e /\ e < y)
                        => Below(s.runends, x) = Below(s.runends, y)
  BY <1>2, BelowGap
<1>7. Below(s.occupieds, TargetSize) = Below(s.runends, Size(s))
  BY <1>1 DEF Shape, Paired
<1> QED BY <1>3, <1>4, <1>5, <1>6, <1>7

\* From a used slot on some run ends.
LEMMA EndFrom ==
    ASSUME NEW s, NEW size, Good(s, size), NEW p \in UsedSlots(s)
    PROVE  \E f \in s.runends : /\ p <= f
                                /\ \A e \in s.runends : ~(p <= e /\ e < f)
                                /\ Below(s.runends, f) = Below(s.runends, p)
<1>1. /\ Size(s) \in Nat
      /\ \A u \in UsedSlots(s) : u \in Nat /\ u < Size(s)
      /\ \A e \in s.runends : e \in Nat
      /\ Table(Size(s), Mapping(s.size_grade))
      /\ Shape(Size(s), Mapping(s.size_grade), UsedSlots(s), s.occupieds, s.runends)
  BY GoodFacts
<1>2. Size(s) \notin UsedSlots(s) /\ p < Size(s) /\ p \in Nat
  BY <1>1
<1> DEFINE D == {f \in s.runends : p <= f}
<1>3. D # {} /\ \A y \in D : y \in Nat
  <2>1. \E f \in s.runends : p <= f /\ f < Size(s) /\ f + 1 \notin UsedSlots(s)
    BY <1>1, <1>2, EndBetween
  <2> QED BY <1>1, <2>1
<1>4. PICK f \in D : \A y \in D : f <= y
  <2> HIDE DEF D
  <2> QED BY <1>3, LeastNat
<1>5. f \in s.runends /\ p <= f /\ f \in Nat
  BY <1>1
<1>6. \A e \in s.runends : ~(p <= e /\ e < f)
  BY <1>1, <1>4
<1>7. Below(s.runends, f) = Below(s.runends, p)
  BY <1>2, <1>5, <1>6, GoodCounts
<1> QED BY <1>5, <1>6, <1>7

\* The part of the run a used slot lies in.
LEMMA OccupiedOfIs ==
    ASSUME NEW s, NEW size, Good(s, size), NEW p \in UsedSlots(s)
    PROVE  /\ OccupiedOf(s, p) \in s.occupieds
           /\ Below(s.occupieds, OccupiedOf(s, p)) = Below(s.runends, p)
<1>1. /\ Size(s) \in Nat
      /\ \A u \in UsedSlots(s) : u \in Nat /\ u < Size(s)
      /\ \A e \in s.runends : e \in Nat /\ e < Size(s)
      /\ \A o \in s.occupieds : o \in Nat /\ o < TargetSize
      /\ TargetSize \in Nat
  BY GoodFacts, SizesAssumption
<1>2. PICK f \in s.runends : p <= f /\ Below(s.runends, f) = Below(s.runends, p)
  BY EndFrom
<1>3. Below(s.runends, p) \in Nat /\ Below(s.runends, p) < Below(s.occupieds, TargetSize)
  <2>1. Below(s.runends, f) + 1 <= Below(s.runends, Size(s))
    BY <1>1, GoodCounts
  <2>2. Below(s.runends, f) \in Nat /\ Below(s.runends, Size(s)) \in Nat
    BY <1>1, GoodCounts
  <2>3. Below(s.occupieds, TargetSize) = Below(s.runends, Size(s))
    BY GoodCounts
  <2> QED BY <1>2, <2>1, <2>2, <2>3
<1>4. OccupiedOf(s, p) = KthOf(s.occupieds, Below(s.runends, p), TargetSize)
  BY DEF OccupiedOf, Below
<1>5. \A o \in s.occupieds : o \in Nat
  BY <1>1
<1>6. \A o \in s.occupieds : o < TargetSize
  BY <1>1
<1> QED BY <1>1, <1>3, <1>4, <1>5, <1>6, KthMember

\* How its mapped slot relates to the counts.
LEMMA OccupiedMaps ==
    ASSUME NEW s, NEW size, Good(s, size), NEW p \in UsedSlots(s), NEW x \in Nat,
           NEW m, m = GetMappedPos(OccupiedOf(s, p), s.size_grade, TotalImplicit)
    PROVE  /\ m \in Nat
           /\ m <= x => Below(s.runends, p) + 1 <= MapsTo(Mapping(s.size_grade), s.occupieds, x)
           /\ x < m => MapsTo(Mapping(s.size_grade), s.occupieds, x) <= Below(s.runends, p)
<1> DEFINE o == OccupiedOf(s, p)
           M == Mapping(s.size_grade)
<1>1. o \in s.occupieds /\ Below(s.occupieds, o) = Below(s.runends, p)
  BY OccupiedOfIs
<1>2. /\ Table(Size(s), M)
      /\ \A y \in s.occupieds : y \in Parts
  BY GoodFacts
<1>3. o \in Parts /\ x \in Int
  BY <1>1, <1>2
<1>4. M[o] = m
  BY <1>3 DEF Mapping
<1>5. m \in Nat
  BY <1>2, <1>3, <1>4 DEF Table
<1> HIDE DEF o, M
<1>6. m <= x => Below(s.occupieds, o) + 1 <= MapsTo(M, s.occupieds, x)
  BY <1>1, <1>2, <1>3, <1>4, MapsAtLeast
<1>7. x < m => MapsTo(M, s.occupieds, x) <= Below(s.occupieds, o)
  BY <1>2, <1>3, <1>4, MapsAtMost
<1> QED BY <1>1, <1>5, <1>6, <1>7 DEF M

\* The run of an occupied part, and the slots whose rank is that of the part.
LEMMA RunIs ==
    ASSUME NEW s, NEW size, Good(s, size), NEW i \in s.occupieds,
           NEW e, e = RunEndOf(s, i), NEW rs, rs = RunStart(s, i, e)
    PROVE  /\ Run(UsedSlots(s), s.occupieds, s.runends, i, rs, e)
           /\ \A p \in UsedSlots(s) : Below(s.runends, p) = Below(s.occupieds, i) => p \in rs..e
<1> DEFINE R == s.runends
           O == s.occupieds
           U == UsedSlots(s)
           z == Size(s)
           k == Below(O, i)
           g == IF RankOccupieds(s, i) > 0 THEN SelectRunends(s, RankOccupieds(s, i) - 1) ELSE -1
           a == FindEmptySlotBefore(s, e)
<1>1. /\ z \in Nat /\ z > 0 /\ TargetSize \in Nat
      /\ Table(z, Mapping(s.size_grade)) /\ Shape(z, Mapping(s.size_grade), U, O, R)
      /\ \A x \in R : x \in Nat /\ x < z /\ x \in U
      /\ \A o \in O : o \in Nat /\ o < TargetSize
      /\ \A p \in U : p \in Nat /\ p < z
  BY GoodFacts, SizesAssumption
<1>2. e \in R /\ Below(R, e) = k
  BY RunEndIs
<1>3. e \in Nat /\ e < z /\ e \in U /\ i \in Nat
  BY <1>1, <1>2
<1>4. k \in Nat /\ RankOccupieds(s, i) = k
  BY <1>1, <1>3, RankIs, BelowFinite
<1>5. /\ a \in Int /\ -1 <= a /\ a < e /\ a \notin U
      /\ \A p \in (a + 1)..e : p \in U
  BY <1>3, EmptyBeforeIs
<1>c. /\ \A x \in Nat : Below(R, x) \in Nat
      /\ \A x, y \in Nat : x <= y => Below(R, x) <= Below(R, y)
      /\ \A x \in R : \A y \in Nat : x < y => Below(R, x) + 1 <= Below(R, y)
  BY GoodCounts
<1> HIDE DEF a, k
<1>6. /\ g \in Int /\ -1 <= g /\ g < e
      /\ g = -1 \/ g \in R
      /\ \A x \in R : x < e => x <= g
  <2>1. CASE k = 0
    <3>1. g = -1
      BY <1>4, <2>1
    <3>2. ASSUME NEW x \in R, x < e PROVE FALSE
      <4>1. Below(R, x) + 1 <= Below(R, e) /\ Below(R, x) \in Nat
        BY <1>1, <1>3, <1>c, <3>2
      <4> QED BY <1>2, <2>1, <4>1
    <3> QED BY <1>3, <3>1, <3>2
  <2>2. CASE k # 0
    <3>1. g = SelectRunends(s, k - 1) /\ k - 1 \in Nat
      BY <1>4, <2>2
    <3>2. k - 1 < Below(R, z)
      <4>1. Below(R, e) <= Below(R, z) /\ Below(R, z) \in Nat
        BY <1>1, <1>3, <1>c
      <4> QED BY <1>2, <1>4, <4>1
    <3>3. g \in R /\ Below(R, g) = k - 1
      BY <3>1, <3>2, SelectIs
    <3> HIDE DEF g
    <3>4. g \in Nat
      BY <1>1, <3>3
    <3>5. ~(e <= g)
      <4>1. e <= g => Below(R, e) <= Below(R, g)
        BY <1>3, <1>c, <3>4
      <4> QED BY <1>2, <1>4, <3>3, <4>1
    <3>6. ASSUME NEW x \in R, x < e, ~(x <= g) PROVE FALSE
      <4>1. x \in Nat /\ g < x
        BY <1>1, <3>4, <3>6
      <4>2. Below(R, g) + 1 <= Below(R, x) /\ Below(R, x) + 1 <= Below(R, e)
        BY <1>3, <1>c, <3>3, <3>6, <4>1
      <4>3. Below(R, x) \in Nat
        BY <1>c, <4>1
      <4> QED BY <1>2, <1>4, <3>3, <4>2, <4>3
    <3> QED BY <1>3, <3>3, <3>4, <3>5, <3>6
  <2> QED BY <2>1, <2>2
<1>7. rs = 1 + Max({g, a})
  BY DEF RunStart, a
<1> HIDE DEF g
<1>8. rs = 1 + (IF g <= a THEN a ELSE g)
  <2> DEFINE W == {g, a}
  <2>1. (\A y \in W : y \in (-1)..e) /\ W # {} /\ -1 \in Int /\ e \in Int
    BY <1>3, <1>5, <1>6
  <2>2. Max(W) \in W /\ \A y \in W : y <= Max(W)
    <3> HIDE DEF W
    <3> QED BY <2>1, MaxOf
  <2>3. Max(W) = IF g <= a THEN a ELSE g
    <3>1. PICK x \in W : x = Max(W)
      BY <2>2
    <3>2. (x = g \/ x = a) /\ g <= x /\ a <= x
      BY <2>2, <3>1
    <3> HIDE DEF W
    <3> QED BY <1>5, <1>6, <3>1, <3>2
  <2> QED BY <1>7, <2>3
<1>9. rs \in 0..e /\ a + 1 <= rs /\ g + 1 <= rs /\ (rs = a + 1 \/ rs = g + 1)
  BY <1>3, <1>5, <1>6, <1>8
<1>10. \A p \in rs..e : p \in U
  BY <1>3, <1>5, <1>9
<1>11. \A p \in rs..(e - 1) : p \notin R
  <2> SUFFICES ASSUME NEW p \in rs..(e - 1), p \in R PROVE FALSE
    OBVIOUS
  <2>1. p < e /\ g < p
    BY <1>3, <1>6, <1>9
  <2>2. p <= g
    BY <1>6, <2>1
  <2> QED BY <1>1, <1>6, <2>1, <2>2
<1>12. rs - 1 \in U => rs - 1 \in R
  <2> SUFFICES ASSUME rs - 1 \in U PROVE rs - 1 \in R
    OBVIOUS
  <2>1. rs - 1 # a /\ rs - 1 # -1
    BY <1>1, <1>5
  <2> QED BY <1>5, <1>6, <1>9, <2>1
<1>13. Run(U, O, R, i, rs, e)
  BY <1>2, <1>9, <1>10, <1>11, <1>12 DEF Run, k
<1>14. ASSUME NEW p \in U, Below(R, p) = k PROVE p \in rs..e
  <2>1. p \in Nat
    BY <1>1
  <2>2. ASSUME e < p PROVE FALSE
    <3>1. Below(R, e) + 1 <= Below(R, p)
      BY <1>2, <1>c, <2>1, <2>2
    <3> QED BY <1>2, <1>4, <1>14, <3>1
  <2>3. ASSUME p < rs PROVE FALSE
    <3>1. PICK f \in R : p <= f /\ f < rs
      <4>1. CASE rs - 1 \in U
        <5>1. p <= rs - 1 /\ rs - 1 < rs
          BY <1>9, <2>1, <2>3
        <5> QED BY <1>12, <4>1, <5>1
      <4>2. CASE rs - 1 \notin U
        <5>1. p # rs - 1 /\ rs - 1 \in Nat /\ p < rs - 1
          BY <1>9, <2>1, <2>3, <4>2
        <5>2. \E f \in R : p <= f /\ f < rs - 1 /\ f + 1 \notin U
          BY <1>1, <4>2, <5>1, EndBetween
        <5>3. PICK f \in R : p <= f /\ f < rs - 1
          BY <5>2
        <5>4. f < rs
          BY <1>1, <1>9, <5>3
        <5> QED BY <5>3, <5>4
      <4> QED BY <4>1, <4>2
    <3>2. f \in Nat /\ f < e
      BY <1>1, <1>3, <1>9, <3>1
    <3>3. Below(R, p) <= Below(R, f) /\ Below(R, f) + 1 <= Below(R, e)
      BY <1>3, <1>c, <2>1, <3>1, <3>2
    <3>4. Below(R, f) \in Nat /\ Below(R, p) \in Nat
      BY <1>c, <2>1, <3>2
    <3> QED BY <1>2, <1>14, <3>3, <3>4
  <2> QED BY <1>3, <1>9, <2>1, <2>2, <2>3
<1> QED BY <1>13, <1>14 DEF k

-----------------------------------------------------------------------------
(* Where a deletion shifts.                                                  *)

\* NextRunend is the run end of the next rank.
LEMMA NextRunendIs ==
    ASSUME NEW s, NEW size, Good(s, size), NEW f \in s.runends,
           NEW f2 \in s.runends, f < f2, NEW n, n = NextRunend(s, f)
    PROVE  /\ n \in s.runends /\ f < n
           /\ Below(s.runends, n) = Below(s.runends, f) + 1
<1> DEFINE R == s.runends
           z == Size(s)
           W == {e \in R : f < e} \cup {z}
<1>1. /\ z \in Nat
      /\ \A e \in R : e \in Nat /\ e < z
  BY GoodFacts
<1>2. n = Min(W)
  BY DEF NextRunend
<1>3. n \in W /\ \A y \in W : n <= y
  <2>1. (\A y \in W : y \in 0..z) /\ W # {} /\ 0 \in Int /\ z \in Int
    BY <1>1
  <2> HIDE DEF W
  <2> QED BY <1>2, <2>1, MinOf
<1>4. n \in R /\ f < n
  <2>1. f2 \in W /\ f2 < z
    BY <1>1
  <2>2. n # z
    BY <1>1, <1>3, <2>1
  <2> QED BY <1>3, <2>2
<1>5. \A e \in R : ~(f + 1 <= e /\ e < n)
  <2> SUFFICES ASSUME NEW e \in R, f + 1 <= e, e < n PROVE FALSE
    OBVIOUS
  <2>1. e \in Nat /\ f \in Nat /\ n \in Nat
    BY <1>1, <1>4
  <2>2. e \in W
    BY <2>1
  <2>3. n <= e
    BY <1>3, <2>2
  <2> QED BY <2>1, <2>3
<1>6. f \in Nat /\ n \in Nat /\ f + 1 <= n
  BY <1>1, <1>4
<1>7. Below(R, n) = Below(R, f + 1)
  BY <1>5, <1>6, GoodCounts
<1>8. Below(R, f + 1) = Below(R, f) + Bit(f \in R)
  BY <1>1, <1>6, BelowStep
<1>9. Bit(f \in R) = 1
  BY DEF Bit
<1> QED BY <1>4, <1>7, <1>8, <1>9

\* The left shift stops before a run that sits at or before its mapped slot,
\* before an empty slot or at the end of the store.
LEMMA RightOfRunIs ==
    ASSUME NEW s, NEW size, Good(s, size), NEW e \in s.runends,
           NEW right, right = RightOfRun(s, e, TotalImplicit)
    PROVE  /\ Leftward(Mapping(s.size_grade), UsedSlots(s), s.occupieds, s.runends, e,
                       right.shift_end)
           /\ right.found =>
                LevelledTo(Mapping(s.size_grade), UsedSlots(s), s.occupieds, s.runends, e)
           /\ ~right.found => \A p \in e..(Size(s) - 1) : p \in UsedSlots(s)
<1> DEFINE M == Mapping(s.size_grade)
           R == s.runends
           O == s.occupieds
           U == UsedSlots(s)
           z == Size(s)
           ends == {f \in R : e <= f}
           gaps == {f \in ends : f + 1 < z /\ s.slots[f + 1] = 0}
           last == IF gaps # {} THEN Min(gaps) ELSE Max(ends)
           stops == {f \in ends : /\ f < last
                                  /\ GetMappedPos(OccupiedOf(s, NextRunend(s, f)),
                                                  s.size_grade, TotalImplicit) >= f + 1}
           h == Min(stops \cup {last})
<1>1. /\ z \in Nat /\ z > 0 /\ TargetSize \in Nat
      /\ Table(z, M) /\ Shape(z, M, U, O, R)
      /\ \A x \in R : x \in Nat /\ x < z /\ x \in U
      /\ \A p \in U : p \in Nat /\ p < z
      /\ \A p \in Nat : p < z => (p \in U <=> s.slots[p] # 0)
      /\ \A o \in O : o \in Nat /\ o < TargetSize /\ o \in Parts
  BY GoodFacts, SizesAssumption
<1>2. right.found = (gaps # {}) /\ right.shift_end = h
  BY DEF RightOfRun
<1>c. /\ \A x : MapsTo(M, O, x) \in Nat
      /\ \A x \in Nat : Below(R, x) \in Nat
      /\ \A x, y \in Nat : x <= y => Below(R, x) <= Below(R, y)
      /\ Below(O, TargetSize) = Below(R, z)
  BY GoodCounts
<1>3. e \in Nat /\ e < z /\ e \in U /\ e \in ends
  BY <1>1
<1>4. \A f \in ends : f \in R /\ f \in e..(z - 1)
  BY <1>1, <1>3
<1>5. gaps # {} => last \in gaps /\ \A f \in gaps : last <= f
  <2> SUFFICES ASSUME gaps # {} PROVE last \in gaps /\ \A f \in gaps : last <= f
    OBVIOUS
  <2>1. (\A f \in gaps : f \in e..(z - 1)) /\ e \in Int /\ z - 1 \in Int
    BY <1>1, <1>3, <1>4
  <2>2. Min(gaps) \in gaps /\ \A f \in gaps : Min(gaps) <= f
    <3> HIDE DEF gaps
    <3> QED BY <2>1, MinOf
  <2> QED BY <2>2
<1>6. gaps = {} => last \in ends /\ \A f \in ends : f <= last
  <2> SUFFICES ASSUME gaps = {} PROVE last \in ends /\ \A f \in ends : f <= last
    OBVIOUS
  <2>1. (\A f \in ends : f \in e..(z - 1)) /\ e \in Int /\ z - 1 \in Int /\ ends # {}
    BY <1>1, <1>3, <1>4
  <2>2. Max(ends) \in ends /\ \A f \in ends : f <= Max(ends)
    <3> HIDE DEF ends
    <3> QED BY <2>1, MaxOf
  <2> QED BY <2>2
<1>7. last \in R /\ last \in Nat /\ e <= last /\ last < z /\ last \in U
  <2>1. last \in ends
    BY <1>5, <1>6
  <2> QED BY <1>1, <2>1
<1> HIDE DEF last
<1>8. h \in stops \cup {last} /\ \A f \in stops \cup {last} : h <= f
  <2> DEFINE W == stops \cup {last}
  <2>1. (\A f \in W : f \in e..(z - 1)) /\ e \in Int /\ z - 1 \in Int /\ W # {}
    BY <1>1, <1>3, <1>4, <1>7
  <2>2. Min(W) \in W /\ \A f \in W : Min(W) <= f
    <3> HIDE DEF W
    <3> QED BY <2>1, MinOf
  <2> QED BY <2>2
<1>9. h \in R /\ h \in Nat /\ e <= h /\ h < z /\ h <= last /\ h \in U
  <2> HIDE DEF h
  <2>1. h \in ends \/ h = last
    BY <1>8
  <2>2. h \in R /\ e <= h
    BY <1>7, <2>1
  <2>3. h <= last
    BY <1>8
  <2> QED BY <1>1, <2>2, <2>3
<1>10. ASSUME NEW f \in R, e <= f, f + 1 < z, f + 1 \notin U PROVE f \in gaps
  <2>1. f \in Nat /\ f + 1 \in Nat
    BY <1>1
  <2> QED BY <1>1, <1>10, <2>1
<1>11. ASSUME NEW u \in Nat, u < z, u \notin U, e <= u
       PROVE  gaps # {} /\ last < u
  <2>1. e < u
    <3>1. e # u
      BY <1>3, <1>11
    <3> QED BY <1>3, <1>11, <3>1
  <2>2. PICK f \in R : e <= f /\ f < u /\ f + 1 \notin U
    BY <1>1, <1>3, <1>11, <2>1, EndBetween
  <2>3. f \in Nat /\ f + 1 < z
    BY <1>1, <1>11, <2>2
  <2>4. f \in gaps
    BY <1>10, <2>2, <2>3
  <2>5. last <= f
    BY <1>5, <2>4
  <2> QED BY <1>7, <1>11, <2>2, <2>3, <2>4, <2>5
<1>12. \A p \in e..h : p \in U
  <2> SUFFICES ASSUME NEW p \in e..h, p \notin U PROVE FALSE
    OBVIOUS
  <2>1. p \in Nat /\ p < z /\ e <= p /\ p <= last
    BY <1>1, <1>3, <1>7, <1>9
  <2>2. last < p
    BY <1>11, <2>1
  <2> QED BY <1>7, <2>1, <2>2
<1> HIDE DEF M, U, O, R, z
<1>13. ASSUME NEW f \in R, f < last
       PROVE  /\ NextRunend(s, f) \in U
              /\ Below(R, NextRunend(s, f)) = Below(R, f) + 1
  <2>1. NextRunend(s, f) \in R /\ Below(R, NextRunend(s, f)) = Below(R, f) + 1
    BY <1>7, <1>13, NextRunendIs DEF R
  <2> QED BY <1>1, <2>1
<1>14. ASSUME NEW f \in R, e <= f, f < h PROVE MapsTo(M, O, f) >= Below(R, f) + 2
  <2> DEFINE n == NextRunend(s, f)
             m == GetMappedPos(OccupiedOf(s, n), s.size_grade, TotalImplicit)
  <2>1. f \in Nat /\ f < last
    BY <1>1, <1>7, <1>9, <1>14
  <2>2. n \in U /\ Below(R, n) = Below(R, f) + 1
    BY <1>13, <2>1
  <2>3. f \notin stops
    <3>1. f \in stops => h <= f
      BY <1>8
    <3> QED BY <1>9, <1>14, <2>1, <3>1
  <2>4. ~(m >= f + 1)
    BY <1>14, <2>1, <2>3
  <2> HIDE DEF n
  <2>5. m \in Nat /\ (m <= f => Below(R, n) + 1 <= MapsTo(M, O, f))
    BY <2>1, <2>2, OccupiedMaps DEF U, R, M, O
  <2> HIDE DEF m
  <2>6. m <= f
    BY <2>1, <2>4, <2>5
  <2>7. Below(R, f) + 1 + 1 <= MapsTo(M, O, f)
    BY <2>2, <2>5, <2>6
  <2>8. Below(R, f) \in Nat /\ MapsTo(M, O, f) \in Nat
    BY <1>c, <2>1
  <2> QED BY <2>7, <2>8
<1>15. MapsTo(M, O, h) <= Below(R, h) + 1
  <2>1. CASE h \in stops
    <3> DEFINE n == NextRunend(s, h)
               m == GetMappedPos(OccupiedOf(s, n), s.size_grade, TotalImplicit)
    <3>1. h < last /\ m >= h + 1
      <4> HIDE DEF h
      <4> QED BY <2>1
    <3>2. n \in U /\ Below(R, n) = Below(R, h) + 1
      BY <1>9, <1>13, <3>1
    <3> HIDE DEF n, h
    <3>3. m \in Nat /\ (h < m => MapsTo(M, O, h) <= Below(R, n))
      BY <1>9, <3>2, OccupiedMaps DEF U, R, M, O
    <3> HIDE DEF m
    <3>4. h < m
      BY <1>9, <3>1, <3>3
    <3> QED BY <3>2, <3>3, <3>4
  <2>2. CASE h \notin stops /\ gaps # {}
    <3>1. h = last
      BY <1>8, <2>2
    <3>2. h \in gaps
      BY <1>5, <2>2, <3>1
    <3>3. h + 1 < z /\ s.slots[h + 1] = 0
      BY <3>2
    <3> HIDE DEF h, gaps
    <3>4. h + 1 \in 0..(z - 1) /\ h + 1 \notin U /\ h + 1 \in Nat
      BY <1>1, <1>9, <3>3
    <3>5. Level(M, U, O, R, h + 1)
      BY <1>1, <3>4 DEF Shape, Levelled
    <3>6. MapsTo(M, O, h + 1) = Below(R, h + 1)
      BY <3>4, <3>5 DEF Level
    <3>7. Below(R, h + 1) = Below(R, h) + Bit(h \in R)
      BY <1>1, <1>9, BelowStep
    <3>8. Bit(h \in R) = 1
      BY <1>9 DEF Bit
    <3>9. MapsTo(M, O, h) <= MapsTo(M, O, h + 1)
      <4>1. h \in Int /\ h + 1 \in Int /\ h <= h + 1
        BY <1>9
      <4>2. \A o \in O : o \in Parts
        BY <1>1
      <4> QED BY <1>1, <4>1, <4>2, MapsMonotone
    <3> QED BY <3>6, <3>7, <3>8, <3>9
  <2>3. CASE h \notin stops /\ gaps = {}
    <3>1. h = last
      BY <1>8, <2>3
    <3>2. \A f \in ends : f <= h
      BY <1>6, <2>3, <3>1
    <3>3. \A f \in R : ~(h + 1 <= f /\ f < z)
      <4> SUFFICES ASSUME NEW f \in R, h + 1 <= f PROVE FALSE
        OBVIOUS
      <4>1. f \in Nat /\ f \in ends
        BY <1>1, <1>3, <1>9
      <4>2. f <= h
        BY <3>2, <4>1
      <4> HIDE DEF h
      <4> QED BY <1>9, <4>1, <4>2
    <3> HIDE DEF h
    <3>4. Below(R, h + 1) = Below(R, z)
      <4>1. h + 1 \in Nat /\ h + 1 <= z
        BY <1>1, <1>9
      <4> QED BY <1>1, <3>3, <4>1, GoodCounts DEF R
    <3>5. Below(R, h + 1) = Below(R, h) + Bit(h \in R)
      BY <1>1, <1>9, BelowStep
    <3>6. Bit(h \in R) = 1
      BY <1>9 DEF Bit
    <3>7. MapsTo(M, O, h) <= Below(O, TargetSize)
      <4>2. \A o \in O : o \in Parts
        BY <1>1
      <4> QED BY <1>1, <4>2, MapsAll
    <3> QED BY <1>c, <3>4, <3>5, <3>6, <3>7
  <2> QED BY <2>1, <2>2, <2>3
<1>16. Leftward(M, U, O, R, e, h)
  BY <1>9, <1>12, <1>14, <1>15 DEF Leftward
<1>17. ASSUME gaps # {} PROVE LevelledTo(M, U, O, R, e)
  <2>1. last + 1 < z /\ s.slots[last + 1] = 0
    BY <1>5, <1>17
  <2>2. last + 1 \in 0..(z - 1) /\ last + 1 \notin U
    BY <1>1, <1>7, <2>1
  <2> SUFFICES ASSUME NEW x \in U, x <= e PROVE MapsTo(M, O, x) > Below(R, x)
    BY DEF LevelledTo
  <2>3. x \in 0..(z - 1) /\ x <= last + 1
    BY <1>1, <1>3, <1>7
  <2>4. Level(M, U, O, R, x)
    BY <1>1, <2>2, <2>3 DEF Shape, Levelled
  <2> QED BY <2>4 DEF Level
<1>18. ASSUME gaps = {}, NEW p \in e..(z - 1) PROVE p \in U
  <2>1. p \in Nat /\ p < z /\ e <= p
    BY <1>1, <1>3
  <2> QED BY <1>11, <1>18, <2>1
<1>19. right.found => LevelledTo(M, U, O, R, e)
  BY <1>2, <1>17
<1>20. ~right.found => \A p \in e..(z - 1) : p \in U
  BY <1>2, <1>18
<1>21. Leftward(M, U, O, R, e, right.shift_end)
  BY <1>2, <1>16
<1> QED BY <1>19, <1>20, <1>21 DEF M, U, O, R, z

\* The end of the first run behind the last empty slot, as ShiftStart looks for it.
FirstEnd(s, e) ==
    Max({f \in s.runends : /\ f <= e
                           /\ LET prev == PreviousRunend(s, f)
                              IN  prev < 0 \/ s.slots[prev + 1] = 0})

\* Everything from e on is in use, and e + 1 is behind the last empty slot a.
LEMMA FirstEndIs ==
    ASSUME NEW s, NEW size, Good(s, size), NEW e \in s.runends,
           \A p \in e..(Size(s) - 1) : p \in UsedSlots(s),
           NEW a, a = FindEmptySlotBefore(s, e), NEW first, first = FirstEnd(s, e)
    PROVE  /\ a \in Nat /\ a < e /\ a \notin UsedSlots(s)
           /\ \A p \in (a + 1)..(Size(s) - 1) : p \in UsedSlots(s)
           /\ first \in s.runends /\ a < first /\ first <= e
           /\ \A f \in s.runends : a < f => first <= f
           /\ FindEmptySlotBefore(s, first) = a
<1> DEFINE R == s.runends
           U == UsedSlots(s)
           z == Size(s)
           prev(f) == PreviousRunend(s, f)
           W == {f \in R : f <= e /\ (prev(f) < 0 \/ s.slots[prev(f) + 1] = 0)}
           D == {f \in R : a < f}
<1>1. /\ z \in Nat /\ z > 0
      /\ Table(z, Mapping(s.size_grade)) /\ Shape(z, Mapping(s.size_grade), U, s.occupieds, R)
      /\ \A x \in R : x \in Nat /\ x < z /\ x \in U
      /\ \A p \in U : p \in Nat /\ p < z
      /\ \A p \in Nat : p < z => (p \in U <=> s.slots[p] # 0)
  BY GoodFacts
<1>2. e \in Nat /\ e < z /\ e \in U
  BY <1>1
<1>3. /\ a \in Int /\ -1 <= a /\ a < e /\ a \notin U
      /\ \A p \in (a + 1)..e : p \in U
  BY <1>2, EmptyBeforeIs
<1>4. \A p \in (a + 1)..(z - 1) : p \in U
  <2> SUFFICES ASSUME NEW p \in (a + 1)..(z - 1) PROVE p \in U
    OBVIOUS
  <2>1. p \in (a + 1)..e \/ p \in e..(z - 1)
    BY <1>1, <1>2, <1>3
  <2> QED BY <1>3, <2>1
<1>5. a \in Nat
  <2>1. PICK q \in 0..(z - 1) : q \notin U
    BY SomeEmpty
  <2>2. q \notin (a + 1)..(z - 1)
    BY <1>4, <2>1
  <2> QED BY <1>1, <1>3, <2>1, <2>2
<1>6. PICK f0 \in D : \A y \in D : f0 <= y
  <2>1. (\A y \in D : y \in Nat) /\ e \in D
    BY <1>1, <1>3
  <2> HIDE DEF D
  <2> QED BY <2>1, LeastNat
<1>7. f0 \in R /\ f0 \in Nat /\ a < f0 /\ f0 <= e /\ f0 < z /\ f0 \in U
  BY <1>1, <1>3, <1>6
<1>8. \A f \in R : a < f => f0 <= f
  BY <1>6
<1>9. ASSUME NEW f \in R
      PROVE  /\ prev(f) \in Int /\ -1 <= prev(f) /\ prev(f) < f
             /\ prev(f) = -1 \/ prev(f) \in R
             /\ \A x \in R : x < f => x <= prev(f)
  <2>1. f \in Nat /\ f < z
    BY <1>1
  <2> QED BY <2>1, PreviousRunendIs
<1> HIDE DEF prev, D, R, U, z
<1>10. f0 \in W
  <2>1. ASSUME ~(prev(f0) < 0) PROVE s.slots[prev(f0) + 1] = 0
    <3>1. prev(f0) \in Nat /\ prev(f0) < f0 /\ prev(f0) \in R
      BY <1>7, <1>9, <2>1
    <3>2. prev(f0) < a
      <4>1. ~(a < prev(f0))
        <5>1. a < prev(f0) => f0 <= prev(f0)
          BY <1>8, <3>1
        <5> QED BY <1>7, <3>1, <5>1
      <4>2. prev(f0) # a
        BY <1>1, <1>3, <3>1
      <4> QED BY <1>5, <3>1, <4>1, <4>2
    <3>3. prev(f0) + 1 \notin U
      <4> SUFFICES ASSUME prev(f0) + 1 \in U PROVE FALSE
        OBVIOUS
      <4>1. prev(f0) + 1 # a
        BY <1>3
      <4>2. prev(f0) + 1 < a
        BY <1>5, <3>1, <3>2, <4>1
      <4>3. PICK f \in R : prev(f0) + 1 <= f /\ f < a /\ f + 1 \notin U
        BY <1>1, <1>3, <1>5, <4>2, EndBetween
      <4>4. f \in Nat /\ f < f0
        <5>1. f \in Nat
          BY <1>1
        <5> QED BY <1>5, <1>7, <4>3, <5>1
      <4>5. f <= prev(f0)
        BY <1>7, <1>9, <4>4
      <4> QED BY <3>1, <4>3, <4>4, <4>5
    <3>4. prev(f0) + 1 \in Nat /\ prev(f0) + 1 < z
      BY <1>7, <1>1, <3>1
    <3> QED BY <1>1, <3>3, <3>4
  <2> QED BY <1>7, <2>1
<1>11. ASSUME NEW f \in W PROVE f <= f0
  <2> SUFFICES ASSUME ~(f <= f0) PROVE FALSE
    OBVIOUS
  <2>1. f \in R /\ f \in Nat /\ f <= e /\ f0 < f /\ f < z
    BY <1>1, <1>7
  <2>2. f0 <= prev(f) /\ prev(f) \in Int /\ prev(f) < f
    BY <1>7, <1>9, <2>1
  <2>3. s.slots[prev(f) + 1] = 0
    BY <1>7, <2>2
  <2>4. prev(f) + 1 \in (a + 1)..(z - 1) /\ prev(f) + 1 \in Nat /\ prev(f) + 1 < z
    BY <1>1, <1>5, <1>7, <2>1, <2>2
  <2>5. prev(f) + 1 \in U
    BY <1>4, <2>4
  <2> QED BY <1>1, <2>3, <2>4, <2>5
<1>12. first = f0
  <2>1. (\A f \in W : f \in 0..e) /\ 0 \in Int /\ e \in Int /\ W # {}
    BY <1>1, <1>2, <1>10
  <2>2. first = Max(W)
    BY DEF FirstEnd, R, prev
  <2>3. Max(W) \in W /\ \A f \in W : f <= Max(W)
    <3> HIDE DEF W
    <3> QED BY <2>1, MaxOf
  <2>4. f0 <= first /\ first <= f0 /\ first \in 0..e
    <3> HIDE DEF W
    <3> QED BY <1>10, <1>11, <2>1, <2>2, <2>3
  <2> QED BY <1>7, <2>4
<1>13. FindEmptySlotBefore(s, f0) = a
  <2>1. PICK a1 : a1 = FindEmptySlotBefore(s, f0)
    OBVIOUS
  <2>2. /\ a1 \in Int /\ -1 <= a1 /\ a1 < f0 /\ a1 \notin U
        /\ \A p \in (a1 + 1)..f0 : p \in U
    BY <1>7, <2>1, EmptyBeforeIs DEF U
  <2>3. ~(a1 < a)
    <3>1. a1 < a => a \in (a1 + 1)..f0
      BY <1>5, <1>7, <2>2
    <3> QED BY <1>3, <2>2, <3>1
  <2>4. ~(a < a1)
    <3>1. a < a1 => a1 \in (a + 1)..(z - 1)
      BY <1>1, <1>5, <1>7, <2>2
    <3> QED BY <1>4, <2>2, <3>1
  <2> QED BY <1>5, <2>1, <2>2, <2>3, <2>4
<1> QED BY <1>3, <1>4, <1>5, <1>7, <1>8, <1>12, <1>13 DEF R, U, z

\* Where the run that ends at f starts, f being behind the last empty slot a.
StartOf(s, first, a, f) == IF f = first THEN a + 1 ELSE PreviousRunend(s, f) + 1
MappedOf(s, f) == GetMappedPos(OccupiedOf(s, f), s.size_grade, TotalImplicit)

\* The slots of the run that ends at f, behind the last empty slot: they end at f,
\* no other run ends among them, and the counts tell on which side of its mapped
\* slot each lies.
LEMMA StartOfIs ==
    ASSUME NEW s, NEW size, Good(s, size), NEW a \in Nat, a \notin UsedSlots(s),
           NEW first \in s.runends, a < first, \A f \in s.runends : a < f => first <= f,
           NEW f \in s.runends, first <= f, NEW st, st = StartOf(s, first, a, f)
    PROVE  /\ st \in Nat /\ a + 1 <= st /\ st <= f
           /\ st - 1 \in UsedSlots(s) => st - 1 \in s.runends
           /\ \A x \in s.runends : ~(st <= x /\ x < f)
           /\ \A x \in st..f :
                 /\ Below(s.runends, x) = Below(s.runends, f)
                 /\ MappedOf(s, f) <= x =>
                       MapsTo(Mapping(s.size_grade), s.occupieds, x) > Below(s.runends, x)
                 /\ x < MappedOf(s, f) =>
                       MapsTo(Mapping(s.size_grade), s.occupieds, x) <= Below(s.runends, x)
<1> DEFINE R == s.runends
           U == UsedSlots(s)
           M == Mapping(s.size_grade)
           O == s.occupieds
           m == MappedOf(s, f)
           g == PreviousRunend(s, f)
<1>1. \A x \in R : x \in Nat /\ x < Size(s) /\ x \in U
  BY GoodFacts
<1>2. f \in Nat /\ f < Size(s) /\ f \in U /\ first \in Nat
  BY <1>1
<1>3. /\ g \in Int /\ -1 <= g /\ g < f
      /\ g = -1 \/ g \in R
      /\ \A x \in R : x < f => x <= g
  BY <1>2, PreviousRunendIs
<1> HIDE DEF g
<1>4. st = IF f = first THEN a + 1 ELSE g + 1
  BY DEF StartOf, g
<1>5. /\ st \in Nat /\ a + 1 <= st /\ st <= f
      /\ st - 1 \in U => st - 1 \in R
      /\ \A x \in R : ~(st <= x /\ x < f)
  <2>1. CASE f = first
    <3>1. st = a + 1 /\ st - 1 = a
      BY <1>4, <2>1
    <3>2. \A x \in R : ~(st <= x /\ x < f)
      <4> SUFFICES ASSUME NEW x \in R, st <= x, x < f PROVE FALSE
        OBVIOUS
      <4>1. x \in Nat /\ a < x
        BY <1>1, <3>1
      <4>2. first <= x
        BY <4>1
      <4> QED BY <1>2, <2>1, <4>1, <4>2
    <3> QED BY <1>2, <2>1, <3>1, <3>2
  <2>2. CASE f # first
    <3>1. first < f
      BY <1>2, <2>2
    <3>2. first <= g /\ g \in R
      BY <1>2, <1>3, <3>1
    <3>3. st = g + 1 /\ st - 1 = g
      BY <1>3, <1>4, <2>2
    <3>4. \A x \in R : ~(st <= x /\ x < f)
      <4> SUFFICES ASSUME NEW x \in R, st <= x, x < f PROVE FALSE
        OBVIOUS
      <4>1. x \in Nat /\ x <= g
        BY <1>1, <1>3
      <4> QED BY <1>3, <3>3, <4>1
    <3>5. st \in Nat /\ a + 1 <= st /\ st <= f
      BY <1>2, <1>3, <3>2, <3>3
    <3> QED BY <3>2, <3>3, <3>4, <3>5
  <2> QED BY <2>1, <2>2
<1>6. ASSUME NEW x \in st..f
      PROVE  /\ Below(R, x) = Below(R, f)
             /\ m <= x => MapsTo(M, O, x) > Below(R, x)
             /\ x < m => MapsTo(M, O, x) <= Below(R, x)
  <2>1. x \in Nat /\ x <= f
    BY <1>2, <1>5
  <2>2. \A y \in R : ~(x <= y /\ y < f)
    <3> SUFFICES ASSUME NEW y \in R, x <= y, y < f PROVE FALSE
      OBVIOUS
    <3>1. y \in Nat /\ st <= y
      BY <1>1, <1>5, <2>1
    <3> QED BY <1>5, <3>1
  <2>3. Below(R, x) = Below(R, f)
    BY <1>2, <2>1, <2>2, GoodCounts
  <2>4. /\ m \in Nat
        /\ m <= x => Below(R, f) + 1 <= MapsTo(M, O, x)
        /\ x < m => MapsTo(M, O, x) <= Below(R, f)
    BY <1>2, <2>1, OccupiedMaps DEF MappedOf
  <2>5. Below(R, f) \in Nat /\ MapsTo(M, O, x) \in Nat
    BY <1>2, GoodCounts
  <2> HIDE DEF m, M, O, R
  <2> QED BY <2>3, <2>4, <2>5
<1> QED BY <1>5, <1>6

\* The start of a right shift: none, and every run up to e is levelled, or the
\* start of the first run that is not, which the first run of the store gives
\* as the empty slot before it.
LEMMA ShiftStartIs ==
    ASSUME NEW s, NEW size, Good(s, size), NEW e \in s.runends,
           ~RightOfRun(s, e, TotalImplicit).found, ~SettledRunMoves(s, e),
           NEW start, start = ShiftStart(s, e, TotalImplicit)
    PROVE  \/ /\ start = -1
              /\ LevelledTo(Mapping(s.size_grade), UsedSlots(s), s.occupieds, s.runends, e)
           \/ /\ start \in Nat
              /\ \E L \in Nat :
                    /\ Rightward(Size(s), Mapping(s.size_grade), UsedSlots(s), s.occupieds,
                                 s.runends, L)
                    /\ L <= e
                    /\ start = L \/ (start + 1 = L /\ start \notin UsedSlots(s))
<1> DEFINE R == s.runends
           U == UsedSlots(s)
           z == Size(s)
           M == Mapping(s.size_grade)
           O == s.occupieds
           a == FindEmptySlotBefore(s, e)
           first == FirstEnd(s, e)
           p == PreviousRunend(s, first)
           st(f) == StartOf(s, first, a, f)
           m(f) == MappedOf(s, f)
           inner == {f \in R : first < f /\ f <= e /\ m(f) > PreviousRunend(s, f) + 1}
           outer == IF p >= 0 THEN {k \in {FindEmptySlotBefore(s, first) + 1} : m(first) > k}
                    ELSE {k \in {a} : 0 <= k /\ k < m(first)}
           starts == outer \cup {PreviousRunend(s, f) + 1 : f \in inner}
<1>0. start = IF starts = {} THEN -1 ELSE Min(starts)
  BY DEF ShiftStart, FirstEnd, MappedOf
<1>1. /\ z \in Nat /\ z > 0
      /\ Table(z, M) /\ Shape(z, M, U, O, R)
      /\ \A x \in R : x \in Nat /\ x < z /\ x \in U
      /\ \A x \in U : x \in Nat /\ x < z
      /\ \A o \in O : o \in Nat /\ o < TargetSize
      /\ TargetSize \in Nat
  BY GoodFacts, SizesAssumption
<1>2. e \in Nat /\ e < z /\ e \in U
  BY <1>1
<1>3. \A x \in e..(z - 1) : x \in U
  BY RightOfRunIs
<1>4. /\ a \in Nat /\ a < e /\ a \notin U
      /\ \A x \in (a + 1)..(z - 1) : x \in U
      /\ first \in R /\ a < first /\ first <= e
      /\ \A f \in R : a < f => first <= f
      /\ FindEmptySlotBefore(s, first) = a
  BY <1>3, FirstEndIs
<1>5. first \in Nat /\ first < z /\ first \in U
  BY <1>1, <1>4
<1>s. SettledRunMoves(s, e) <=>
          (/\ a >= 0
           /\ \A f \in R : a < f
           /\ GetMappedPos(Min(O), s.size_grade, TotalImplicit) = a + 1)
  BY DEF SettledRunMoves
<1> HIDE DEF a, first
<1>6. ASSUME NEW f \in R, first <= f
      PROVE  /\ st(f) \in Nat /\ a + 1 <= st(f) /\ st(f) <= f
             /\ st(f) - 1 \in U => st(f) - 1 \in R
             /\ \A x \in R : ~(st(f) <= x /\ x < f)
             /\ \A x \in st(f)..f :
                   /\ Below(R, x) = Below(R, f)
                   /\ m(f) <= x => MapsTo(M, O, x) > Below(R, x)
                   /\ x < m(f) => MapsTo(M, O, x) <= Below(R, x)
  <2> HIDE DEF m
  <2> QED BY <1>4, <1>6, StartOfIs DEF m
<1>7. /\ p \in Int /\ -1 <= p /\ p < first
      /\ p = -1 \/ p \in R
      /\ \A x \in R : x < first => x <= p
  BY <1>5, PreviousRunendIs
<1>m. \A f \in R : m(f) \in Nat
  <2> SUFFICES ASSUME NEW f \in R PROVE m(f) \in Nat
    OBVIOUS
  <2>1. f \in U /\ 0 \in Nat
    BY <1>1
  <2> QED BY <2>1, OccupiedMaps DEF MappedOf
<1>8. first \in R /\ st(first) = a + 1 /\ first <= first
  BY <1>4, <1>5 DEF StartOf
<1>9. \A f \in R : first < f => st(f) = PreviousRunend(s, f) + 1
  BY <1>1, <1>5 DEF StartOf
<1>10. ASSUME NEW x \in U, x < a PROVE MapsTo(M, O, x) > Below(R, x)
  <2>0. x \in Nat /\ x < z
    BY <1>1, <1>10
  <2> HIDE DEF M, U, O, R, z
  <2>1. x \in 0..(z - 1) /\ a \in 0..(z - 1) /\ x <= a
    BY <1>1, <1>2, <1>4, <1>10, <2>0
  <2>2. Level(M, U, O, R, x)
    BY <1>1, <1>4, <2>1 DEF Shape, Levelled
  <2> QED BY <2>2 DEF Level
<1>11. ASSUME NEW x \in U, a < x
       PROVE  \E f \in R : first <= f /\ x <= f /\ st(f) <= x
  <2>1. PICK f \in R : x <= f /\ \A y \in R : ~(x <= y /\ y < f)
    BY EndFrom
  <2>2. x \in Nat /\ f \in Nat /\ a < f
    BY <1>1, <1>4, <1>11, <2>1
  <2>3. first <= f
    BY <1>4, <2>2
  <2>4. st(f) <= x
    <3>1. CASE f = first
      BY <1>4, <1>8, <1>11, <2>2, <3>1
    <3>2. CASE f # first
      <4>1. first < f
        BY <1>5, <2>2, <2>3, <3>2
      <4>2. first < x
        BY <1>4, <1>5, <2>1, <2>2, <4>1
      <4>3. st(f) - 1 \in R \/ st(f) - 1 \notin U
        BY <1>6, <2>3
      <4>4. st(f) \in Nat /\ a + 1 <= st(f) /\ st(f) <= f
        BY <1>6, <2>3
      <4>5. ASSUME x < st(f) PROVE FALSE
        <5>1. st(f) - 1 \in (a + 1)..(z - 1)
          BY <1>1, <1>4, <1>11, <2>2, <4>4, <4>5
        <5>2. st(f) - 1 \in R
          BY <1>4, <4>3, <5>1
        <5>3. x <= st(f) - 1 /\ st(f) - 1 < f
          BY <2>2, <4>4, <4>5
        <5> QED BY <2>1, <5>2, <5>3
      <4> QED BY <2>2, <4>4, <4>5
    <3> QED BY <3>1, <3>2
  <2> QED BY <2>1, <2>3, <2>4
<1>12. ASSUME NEW x \in U, a < x,
              \A f \in R : first <= f /\ x <= f /\ st(f) <= x => m(f) <= st(f)
       PROVE  MapsTo(M, O, x) > Below(R, x)
  <2>1. PICK f \in R : first <= f /\ x <= f /\ st(f) <= x
    BY <1>11, <1>12
  <2>2. m(f) <= st(f) /\ st(f) \in Nat /\ x \in Nat /\ f \in Nat /\ m(f) \in Nat
    BY <1>1, <1>6, <1>12, <1>m, <2>1
  <2> HIDE DEF m, st
  <2>3. x \in st(f)..f /\ m(f) <= x
    BY <2>1, <2>2
  <2> QED BY <1>6, <2>1, <2>3
<1> HIDE DEF st, m, p, M, O, U, R, z
\* The first run of the store.
<1>13. CASE p < 0
  <2>1. p = -1 /\ \A x \in R : first <= x
    <3>1. p = -1 /\ p \notin Nat
      BY <1>7, <1>13
    <3>2. ASSUME NEW x \in R, ~(first <= x) PROVE FALSE
      <4>1. x \in Nat /\ x < first
        BY <1>1, <1>5, <3>2
      <4>2. x <= p
        BY <1>7, <4>1
      <4> QED BY <3>1, <4>1, <4>2
    <3> QED BY <3>1, <3>2
  <2>2. \A x \in R : ~(a <= x /\ x < first)
    BY <1>1, <1>5, <2>1
  <2>3. Below(R, a) = Below(R, first) /\ Below(R, first) = 0
    <3>1. Below(R, a) = Below(R, first)
      BY <1>4, <1>5, <2>2, GoodCounts DEF R
    <3>2. \A x \in R : ~(0 <= x /\ x < first)
      BY <1>1, <1>5, <2>1
    <3>3. Below(R, 0) = Below(R, first)
      BY <1>5, <3>2, GoodCounts DEF R
    <3>4. Below(R, 0) = 0
      BY <1>1, BelowZero
    <3> QED BY <3>1, <3>3, <3>4
  <2>4. MapsTo(M, O, a) = 0
    <3>1. a \in 0..(z - 1)
      BY <1>1, <1>2, <1>4
    <3>2. Level(M, U, O, R, a)
      BY <1>1, <1>4, <3>1 DEF Shape, Levelled
    <3> QED BY <1>4, <2>3, <3>2 DEF Level
  <2>5. a < m(first)
    <3>1. m(first) <= a => Below(R, first) + 1 <= MapsTo(M, O, a)
      BY <1>4, <1>5, OccupiedMaps DEF U, R, M, O, m, MappedOf
    <3> QED BY <1>4, <1>8, <1>m, <2>3, <2>4, <3>1
  <2>6. m(first) # a + 1
    <3>1. OccupiedOf(s, first) \in O /\ Below(O, OccupiedOf(s, first)) = 0
      BY <1>5, <2>3, OccupiedOfIs DEF U, R, O
    <3>2. PICK o \in O : o = OccupiedOf(s, first)
      BY <3>1
    <3>3. (\A y \in O : y \in 0..TargetSize) /\ O # {} /\ 0 \in Int /\ TargetSize \in Int
      BY <1>1
    <3>4. Min(O) \in O /\ \A y \in O : Min(O) <= y
      BY <3>3, MinOf
    <3>5. PICK o1 \in O : o1 = Min(O) /\ o1 <= o
      BY <3>4
    <3>6. o1 \in Nat /\ o \in Nat /\ \A y \in O : y \in Nat
      BY <1>1
    <3>7. ASSUME o1 < o PROVE FALSE
      <4>1. Below(O, o1) + 1 <= Below(O, o)
        BY <3>6, <3>7, BelowLess
      <4>2. Below(O, o1) \in Nat
        BY <3>6, BelowFinite
      <4> QED BY <3>1, <3>2, <4>1, <4>2
    <3>8. OccupiedOf(s, first) = Min(O)
      BY <3>2, <3>5, <3>6, <3>7
    <3>9. m(first) = GetMappedPos(Min(O), s.size_grade, TotalImplicit)
      BY <3>8 DEF m, MappedOf
    <3>10. \A f \in R : a < f
      BY <1>1, <1>4, <1>5, <2>1
    <3> QED BY <1>4, <1>s, <3>9, <3>10
  <2>7. a + 1 < m(first)
    BY <1>4, <1>8, <1>m, <2>5, <2>6
  <2>8. start = a
    <3>1. outer = {a}
      BY <1>4, <1>7, <1>13, <2>5
    <3>2. ASSUME NEW k \in starts PROVE k \in a..z
      <4>1. CASE k = a
        BY <1>1, <1>2, <1>4, <4>1
      <4>2. CASE k # a
        <5>1. PICK f \in inner : k = PreviousRunend(s, f) + 1
          BY <3>1, <4>2
        <5>2. f \in R /\ first < f /\ k = st(f) /\ first <= f
          BY <1>1, <1>5, <1>9, <5>1
        <5>3. st(f) \in Nat /\ a + 1 <= st(f) /\ st(f) <= f /\ f \in Nat /\ f < z
          BY <1>1, <1>6, <5>2
        <5> QED BY <1>1, <1>4, <5>2, <5>3
      <4> QED BY <4>1, <4>2
    <3>3. a \in starts
      BY <3>1
    <3> HIDE DEF starts
    <3>4. Min(starts) \in starts /\ \A k \in starts : Min(starts) <= k
      <4>1. a \in Int /\ z \in Int /\ starts # {} /\ \A k \in starts : k \in a..z
        BY <1>1, <1>4, <3>2, <3>3
      <4> QED BY <4>1, MinOf
    <3>5. Min(starts) = a
      <4>1. PICK k \in starts : k = Min(starts)
        BY <3>4
      <4>2. k \in a..z /\ k <= a
        BY <3>2, <3>3, <3>4, <4>1
      <4> QED BY <1>4, <4>1, <4>2
    <3> QED BY <1>0, <3>3, <3>5
  <2>9. Rightward(z, M, U, O, R, a + 1)
    <3>1. a + 1 \in Nat /\ (a + 1) - 1 = a
      BY <1>4
    <3>2. \A x \in U : x < a + 1 => MapsTo(M, O, x) > Below(R, x)
      <4> SUFFICES ASSUME NEW x \in U, x < a + 1 PROVE MapsTo(M, O, x) > Below(R, x)
        OBVIOUS
      <4>1. x \in Nat /\ x # a
        BY <1>1, <1>4
      <4>2. x < a
        BY <1>4, <4>1
      <4> QED BY <1>10, <4>2
    <3>3. MapsTo(M, O, a + 1) <= Below(R, a + 1)
      <4>1. a + 1 \in st(first)..first
        BY <1>4, <1>5, <1>8
      <4> QED BY <1>6, <1>8, <2>7, <4>1
    <3> QED BY <1>4, <3>1, <3>2, <3>3 DEF Rightward
  <2>10. a + 1 \in Nat /\ a + 1 <= e
    BY <1>2, <1>4
  <2>11. /\ Rightward(z, M, U, O, R, a + 1) /\ a + 1 <= e
         /\ start + 1 = a + 1 /\ start \notin U
    BY <1>4, <2>8, <2>9, <2>10
  <2> HIDE DEF starts, outer, inner
  <2> QED BY <1>4, <2>8, <2>10, <2>11 DEF R, U, z, M, O
\* Some run before it.
<1>14. CASE ~(p < 0)
  <2> DEFINE W == {f \in R : first <= f /\ f <= e /\ m(f) > st(f)}
  <2>1. \A k : k \in starts <=> \E f \in W : k = st(f)
    <3>1. outer = {k \in {a + 1} : m(first) > k}
      BY <1>4, <1>7, <1>14
    <3>2. ASSUME NEW k \in starts PROVE \E f \in W : k = st(f)
      <4>1. CASE k \in outer
        <5>1. k = a + 1 /\ m(first) > k
          BY <3>1, <4>1
        <5>2. first \in W
          BY <1>4, <1>8, <5>1
        <5> QED BY <1>8, <5>1, <5>2
      <4>2. CASE k \notin outer
        <5>1. PICK f \in inner : k = PreviousRunend(s, f) + 1
          BY <4>2
        <5>2. f \in R /\ first < f /\ f <= e /\ first <= f
          BY <1>1, <1>5, <5>1
        <5>3. k = st(f)
          BY <1>9, <5>1, <5>2
        <5>4. f \in W
          BY <1>9, <5>1, <5>2
        <5> QED BY <5>3, <5>4
      <4> QED BY <4>1, <4>2
    <3>3. ASSUME NEW f \in W PROVE st(f) \in starts
      <4>1. CASE f = first
        BY <1>8, <3>1, <4>1
      <4>2. CASE f # first
        <5>1. first < f
          BY <1>1, <1>5, <4>2
        <5>2. f \in inner
          BY <1>9, <5>1
        <5> QED BY <1>9, <5>1, <5>2
      <4> QED BY <4>1, <4>2
    <3> QED BY <3>2, <3>3
  <2> HIDE DEF starts
  <2>2. CASE starts = {}
    <3>1. start = -1
      BY <1>0, <2>2
    <3>2. \A f \in R : first <= f /\ f <= e => m(f) <= st(f)
      <4> SUFFICES ASSUME NEW f \in R, first <= f, f <= e PROVE m(f) <= st(f)
        OBVIOUS
      <4>1. f \notin W
        BY <2>1, <2>2
      <4>2. ~(m(f) > st(f)) /\ m(f) \in Nat /\ st(f) \in Nat
        BY <1>6, <1>m, <4>1
      <4> QED BY <4>2
    <3>3. ASSUME NEW x \in U, x <= e PROVE MapsTo(M, O, x) > Below(R, x)
      <4>1. x \in Nat /\ x # a
        BY <1>1, <1>4
      <4>2. CASE x < a
        BY <1>10, <4>2
      <4>3. CASE a < x
        <5>1. ASSUME NEW f \in R, first <= f, x <= f, st(f) <= x PROVE m(f) <= st(f)
          <6>1. CASE f <= e
            BY <3>2, <5>1, <6>1
          <6>2. CASE ~(f <= e)
            <7>1. f \in Nat /\ e < f /\ st(f) <= e
              BY <1>1, <1>2, <1>6, <3>3, <4>1, <5>1, <6>2
            <7>2. ~(st(f) <= e /\ e < f)
              BY <1>6, <5>1 DEF R
            <7> QED BY <7>1, <7>2
          <6> QED BY <6>1, <6>2
        <5> QED BY <1>12, <4>3, <5>1
      <4> QED BY <1>4, <4>1, <4>2, <4>3
    <3>4. LevelledTo(M, U, O, R, e)
      BY <3>3 DEF LevelledTo
    <3> QED BY <3>1, <3>4 DEF M, U, O, R
  <2>3. CASE starts # {}
    <3>1. \A k \in starts : k \in 0..z
      <4> SUFFICES ASSUME NEW k \in starts PROVE k \in 0..z
        OBVIOUS
      <4>1. PICK f \in W : k = st(f)
        BY <2>1
      <4>2. st(f) \in Nat /\ st(f) <= f /\ f \in Nat /\ f < z
        BY <1>1, <1>6, <4>1
      <4> QED BY <1>1, <4>1, <4>2
    <3>2. start \in starts /\ \A k \in starts : start <= k
      <4>1. 0 \in Int /\ z \in Int
        BY <1>1
      <4>2. Min(starts) \in starts /\ \A k \in starts : Min(starts) <= k
        BY <2>3, <3>1, <4>1, MinOf
      <4> QED BY <1>0, <2>3, <4>2
    <3>3. PICK f \in W : start = st(f)
      BY <2>1, <3>2
    <3>4. f \in R /\ first <= f /\ f <= e /\ m(f) > st(f) /\ f \in Nat /\ f < z
      BY <1>1
    <3>5. /\ start \in Nat /\ a + 1 <= start /\ start <= f
          /\ start - 1 \in U => start - 1 \in R
      BY <1>6, <3>3, <3>4
    <3>6. start <= e
      BY <1>2, <3>4, <3>5
    <3>7. MapsTo(M, O, start) <= Below(R, start)
      <4>1. start \in st(f)..f /\ start < m(f)
        BY <1>m, <3>3, <3>4, <3>5
      <4> QED BY <1>6, <3>4, <4>1
    <3>8. \A x \in start..(z - 1) : x \in U
      <4> SUFFICES ASSUME NEW x \in start..(z - 1) PROVE x \in U
        OBVIOUS
      <4>1. x \in (a + 1)..(z - 1)
        BY <1>1, <1>4, <3>5
      <4> QED BY <1>4, <4>1
    <3>9. ASSUME NEW x \in U, x < start PROVE MapsTo(M, O, x) > Below(R, x)
      <4>1. x \in Nat /\ x # a
        BY <1>1, <1>4
      <4>2. CASE x < a
        BY <1>10, <4>2
      <4>3. CASE a < x
        <5>1. ASSUME NEW y \in R, first <= y, x <= y, st(y) <= x PROVE m(y) <= st(y)
          <6>1. st(y) \in Nat /\ y \in Nat /\ st(y) < start /\ st(y) <= y
            BY <1>1, <1>6, <3>5, <3>9, <4>1, <5>1
          <6>2. st(y) \notin starts
            BY <3>2, <3>5, <6>1
          <6>3. y \notin W
            BY <2>1, <6>2
          <6>4. y <= e
            <7> SUFFICES ASSUME ~(y <= e) PROVE FALSE
              OBVIOUS
            <7>1. st(y) <= e /\ e < y
              BY <1>2, <3>6, <3>5, <6>1
            <7>2. ~(st(y) <= e /\ e < y)
              BY <1>6, <5>1 DEF R
            <7> QED BY <7>1, <7>2
          <6>5. ~(m(y) > st(y)) /\ m(y) \in Nat
            BY <1>m, <5>1, <6>3, <6>4
          <6> QED BY <6>1, <6>5
        <5> QED BY <1>12, <4>3, <5>1
      <4> QED BY <1>4, <4>1, <4>2, <4>3
    <3>10. Rightward(z, M, U, O, R, start)
      BY <3>5, <3>7, <3>8, <3>9 DEF Rightward
    <3> QED BY <3>5, <3>6, <3>10 DEF z, M, U, O, R
  <2> QED BY <2>2, <2>3
<1> QED BY <1>7, <1>13, <1>14

-----------------------------------------------------------------------------
(* What a deletion's shifts do to the slots and the run ends.                *)

\* t is slots with b no longer in use.
Emptying(z, V, slots, t, b) ==
    /\ t \in [0..(z - 1) -> V]
    /\ \A p \in 0..(z - 1) : t[p] # 0 <=> (slots[p] # 0 /\ p # b)

\* Closing a hole at k from the right, up to h, empties h alone.
LEMMA EmptiedLeft ==
    ASSUME NEW z \in Nat, NEW V, NEW slots \in [0..(z - 1) -> V], 0 \in V,
           NEW h \in 0..(z - 1), NEW k \in 0..h, Filled(slots, k, h + 1)
    PROVE  Emptying(z, V, slots, ShiftSlotsLeft(slots, k + 1, h + 1), h)
<1>0. PICK t : t = ShiftSlotsLeft(slots, k + 1, h + 1)
  OBVIOUS
<1>f. \A p \in k..h : slots[p] # 0
  BY DEF Filled
<1>1. DOMAIN slots = 0..(z - 1)
  OBVIOUS
<1>2. ASSUME NEW p \in 0..(z - 1)
      PROVE  t[p] = IF p = h THEN 0 ELSE IF k <= p /\ p < h THEN slots[p + 1] ELSE slots[p]
  BY <1>0, <1>1 DEF ShiftSlotsLeft
<1>3. ASSUME NEW p \in 0..(z - 1) PROVE t[p] \in V
  <2>1. p < h => p + 1 \in 0..(z - 1)
    OBVIOUS
  <2> QED BY <1>2, <2>1
<1>4. t = [p \in 0..(z - 1) |-> t[p]]
  BY <1>0, <1>1 DEF ShiftSlotsLeft
<1>5. t \in [0..(z - 1) -> V]
  BY <1>3, <1>4
<1>6. ASSUME NEW p \in 0..(z - 1) PROVE t[p] # 0 <=> (slots[p] # 0 /\ p # h)
  <2>1. CASE p = h
    BY <1>2, <2>1
  <2>2. CASE k <= p /\ p < h
    <3>1. slots[p + 1] # 0 /\ slots[p] # 0
      <4>1. p \in k..h /\ p + 1 \in k..h
        BY <2>2
      <4> QED BY <1>f, <4>1
    <3> QED BY <1>2, <2>2, <3>1
  <2>3. CASE ~(k <= p /\ p <= h)
    BY <1>2, <2>3
  <2> QED BY <2>1, <2>2, <2>3
<1>7. Emptying(z, V, slots, t, h)
  BY <1>5, <1>6 DEF Emptying
<1> QED BY <1>0, <1>7


\* Closing a hole at k from the left, down to L, empties L alone.
LEMMA EmptiedRight ==
    ASSUME NEW z \in Nat, NEW V, NEW slots \in [0..(z - 1) -> V], 0 \in V,
           NEW k \in 0..(z - 1), NEW L \in 0..k, Filled(slots, L, k + 1),
           NEW start \in Nat, start = L \/ (start + 1 = L /\ slots[start] = 0)
    PROVE  Emptying(z, V, slots, ShiftSlotsRight(slots, start, k), L)
<1>0. PICK t : t = ShiftSlotsRight(slots, start, k)
  OBVIOUS
<1>f. \A p \in L..k : slots[p] # 0
  BY DEF Filled
<1>1. DOMAIN slots = 0..(z - 1)
  OBVIOUS
<1>2. ASSUME NEW p \in 0..(z - 1)
      PROVE  t[p] = IF p = start THEN 0 ELSE IF start < p /\ p <= k THEN slots[p - 1] ELSE slots[p]
  BY <1>0, <1>1 DEF ShiftSlotsRight
<1>3. ASSUME NEW p \in 0..(z - 1) PROVE t[p] \in V
  <2>1. start < p => p - 1 \in 0..(z - 1)
    OBVIOUS
  <2> QED BY <1>2, <2>1
<1>4. t = [p \in 0..(z - 1) |-> t[p]]
  BY <1>0, <1>1 DEF ShiftSlotsRight
<1>5. t \in [0..(z - 1) -> V]
  BY <1>3, <1>4
<1>6. ASSUME NEW p \in 0..(z - 1) PROVE t[p] # 0 <=> (slots[p] # 0 /\ p # L)
  <2>1. CASE p = L
    <3>1. CASE start = L
      BY <1>2, <2>1, <3>1
    <3>2. CASE start # L
      <4>1. start + 1 = L /\ slots[start] = 0 /\ p - 1 = start /\ start < p /\ p <= k /\ p # start
        BY <2>1, <3>2
      <4> QED BY <1>2, <2>1, <4>1
    <3> QED BY <3>1, <3>2
  <2>2. CASE L < p /\ p <= k
    <3>1. slots[p - 1] # 0 /\ slots[p] # 0
      <4>1. p \in L..k /\ p - 1 \in L..k
        BY <2>2
      <4> QED BY <1>f, <4>1
    <3>2. start < p /\ p # start
      BY <2>2
    <3> QED BY <1>2, <2>2, <3>1, <3>2
  <2>3. CASE p > k
    <3>1. p # start /\ p # L
      BY <2>3
    <3> QED BY <1>2, <2>3, <3>1
  <2>4. CASE p < L
    <3>1. CASE p = start
      <4>1. slots[p] = 0
        BY <2>4, <3>1
      <4> QED BY <1>2, <3>1, <4>1
    <3>2. CASE p # start
      <4>1. ~(start < p)
        BY <2>4, <3>2
      <4> QED BY <1>2, <2>4, <3>2, <4>1
    <3> QED BY <3>1, <3>2
  <2> QED BY <2>1, <2>2, <2>3, <2>4
<1>7. Emptying(z, V, slots, t, L)
  BY <1>5, <1>6 DEF Emptying
<1> QED BY <1>0, <1>7

\* CountLeft, for all bounds at once.
LEMMA CountsLeft ==
    ASSUME NEW R, \A y \in R : y \in Nat
    PROVE  \A l, r, c \in Nat :
              1 <= l /\ l <= r /\ l - 1 \notin R =>
                 Below(ShiftRunendsLeft(R, l, r), c) = Below(R, c) + Bit(l <= c /\ c < r /\ c \in R)
BY CountLeft

\* CountRight, for all bounds at once.
LEMMA CountsRight ==
    ASSUME NEW R, \A y \in R : y \in Nat
    PROVE  \A l, r, c \in Nat :
              l <= r =>
                 Below(ShiftRunendsRight(R, l, r), c)
                   = Below(R, c) - Bit(l < c /\ c <= r /\ c \in ShiftRunendsRight(R, l, r))
                                 - Bit(r < c /\ r \in R)
BY CountRight

\* R holds positions, and no position from rs up to before e.
Naturals(R) == \A y \in R : y \in Nat
Barren(R, rs, e) == \A p \in rs..(e - 1) : p \notin R

\* What a shift makes of the run ends R that a deletion at k closes, and of
\* their count below c: to the left, out of a run that lasts or that is gone,
\* and to the right.
LeftOut(R, e, k, h, c) ==
    /\ (ShiftRunendsLeft(R, k + 1, h + 1) \ (IF k = h THEN {k} ELSE {})) \cup {e - 1}
         = ShiftRunendsLeft(R, e, h + 1)
    /\ Below(ShiftRunendsLeft(R, e, h + 1), c)
         = Below(R, c) + Bit(k <= c /\ c < h + 1 /\ c \in R)
LeftGone(R, e, h, c) ==
    /\ ShiftRunendsLeft(R, e + 1, h + 1) \ (IF e = h THEN {e} ELSE {})
         = ShiftRunendsLeft(R \ {e}, e + 1, h + 1)
    /\ Below(ShiftRunendsLeft(R \ {e}, e + 1, h + 1), c)
         = Below(R, c) + Bit(e <= c /\ c < h + 1 /\ c \in R) - Bit(e <= c)
RightOut(R, e, rs, k, L, start, c) ==
    /\ ShiftRunendsRight(R, start, k) \cup {e} = ShiftRunendsRight(R, L, rs)
    /\ Below(ShiftRunendsRight(R, L, rs), c)
         = Below(R, c) - Bit(start < c /\ c <= k /\ c \in ShiftRunendsRight(R, start, k))
RightGone(R, e, L, start, c) ==
    /\ ShiftRunendsRight(R, start, e) \ (IF e = start THEN {e} ELSE {})
         = ShiftRunendsRight(R, L, e)
    /\ Below(ShiftRunendsRight(R, L, e), c)
         = Below(R, c) - Bit(start < c /\ c <= e /\ c \in ShiftRunendsRight(R, start, e))
                       - Bit(e < c)

\* A left shift out of the run that ends at e, from its slot k on.
LEMMA EndsLeft ==
    ASSUME NEW R, Naturals(R), NEW e, e \in R, NEW rs \in Nat, rs < e, Barren(R, rs, e),
           NEW k, k \in rs..e, NEW h, h \in R, e <= h, NEW c, c \in Nat
    PROVE  LeftOut(R, e, k, h, c)
<1> DEFINE A == ShiftRunendsLeft(R, k + 1, h + 1)
           B == ShiftRunendsLeft(R, e, h + 1)
<1>0. (\A y \in R : y \in Nat) /\ (\A p \in rs..(e - 1) : p \notin R)
  BY DEF Naturals, Barren
<1>1. e \in Nat /\ h \in Nat /\ k \in Nat
  BY <1>0
<1>2. /\ \A y \in A : y \in Nat
      /\ \A y \in Nat : y < k \/ h + 1 <= y => (y \in A <=> y \in R)
      /\ \A y \in Nat : k <= y /\ y < h => (y \in A <=> y + 1 \in R)
      /\ h \notin A
  <2>1. k + 1 \in Nat /\ h + 1 \in Nat /\ 1 <= k + 1 /\ k + 1 <= h + 1
        /\ (k + 1) - 1 = k /\ (h + 1) - 1 = h
    BY <1>1
  <2>2. /\ \A y \in A : y \in Nat
        /\ \A y \in Nat : y < (k + 1) - 1 \/ h + 1 <= y => (y \in A <=> y \in R)
        /\ \A y \in Nat : (k + 1) - 1 <= y /\ y < (h + 1) - 1 => (y \in A <=> y + 1 \in R)
        /\ (h + 1) - 1 \notin A
    BY <2>1, <1>0, ShiftedLeft
  <2> HIDE DEF A
  <2> QED BY <2>1, <2>2
<1>3. /\ \A y \in B : y \in Nat
      /\ \A y \in Nat : y < e - 1 \/ h + 1 <= y => (y \in B <=> y \in R)
      /\ \A y \in Nat : e - 1 <= y /\ y < h => (y \in B <=> y + 1 \in R)
      /\ h \notin B
  <2>1. h + 1 \in Nat /\ 1 <= e /\ e <= h + 1 /\ (h + 1) - 1 = h
    BY <1>1
  <2>2. /\ \A y \in B : y \in Nat
        /\ \A y \in Nat : y < e - 1 \/ h + 1 <= y => (y \in B <=> y \in R)
        /\ \A y \in Nat : e - 1 <= y /\ y < (h + 1) - 1 => (y \in B <=> y + 1 \in R)
        /\ (h + 1) - 1 \notin B
    BY <1>1, <2>1, <1>0, ShiftedLeft
  <2> HIDE DEF B
  <2> QED BY <2>1, <2>2
<1> HIDE DEF A, B
<1>4. ASSUME NEW y \in Nat PROVE y \in A \cup {e - 1} <=> y \in B
  <2>1. CASE y < k /\ y < e - 1
    BY <1>2, <1>3, <2>1
  <2>2. CASE k <= y /\ y < e - 1
    <3>1. y + 1 \notin R /\ y \notin R
      <4>1. y + 1 \in rs..(e - 1) /\ y \in rs..(e - 1)
        BY <1>1, <2>2
      <4> QED BY <1>0, <4>1
    <3>2. y \notin A
      BY <1>1, <1>2, <2>2, <3>1
    <3>3. y \notin B
      BY <1>3, <2>2, <3>1
    <3> QED BY <1>1, <2>2, <3>2, <3>3
  <2>3. CASE y = e - 1
    <3>1. y + 1 = e /\ e - 1 <= y /\ y < h
      BY <1>1, <2>3
    <3> QED BY <1>3, <2>3, <3>1
  <2>4. CASE e - 1 < y /\ y < h
    <3>1. k <= y /\ e - 1 <= y
      BY <1>1, <2>4
    <3> QED BY <1>2, <1>3, <2>4, <3>1
  <2>5. CASE y = h
    BY <1>1, <1>2, <1>3, <2>5
  <2>6. CASE h + 1 <= y
    BY <1>1, <1>2, <1>3, <2>6
  <2> QED BY <1>1, <2>1, <2>2, <2>3, <2>4, <2>5, <2>6
<1>5. A \cup {e - 1} = B
  BY <1>1, <1>2, <1>3, <1>4
<1>6. (A \ (IF k = h THEN {k} ELSE {})) = A
  BY <1>2
<1>7. Below(B, c) = Below(R, c) + Bit(e <= c /\ c < h + 1 /\ c \in R)
  <2>1. h + 1 \in Nat /\ 1 <= e /\ e <= h + 1 /\ e - 1 \notin R
    BY <1>0, <1>1
  <2>2. \A l, r, x \in Nat :
              1 <= l /\ l <= r /\ l - 1 \notin R =>
                 Below(ShiftRunendsLeft(R, l, r), x) = Below(R, x) + Bit(l <= x /\ x < r /\ x \in R)
    BY <1>0, CountsLeft
  <2>3. Below(ShiftRunendsLeft(R, e, h + 1), c) = Below(R, c) + Bit(e <= c /\ c < h + 1 /\ c \in R)
    BY <1>1, <2>1, <2>2
  <2> QED BY <2>3 DEF B
<1>8. Bit(e <= c /\ c < h + 1 /\ c \in R) = Bit(k <= c /\ c < h + 1 /\ c \in R)
  <2>1. k <= c /\ c \in R => e <= c
    <3>1. k <= c /\ c < e => c \in rs..(e - 1)
      BY <1>0, <1>1
    <3> QED BY <1>0, <1>1, <3>1
  <2>2. e <= c => k <= c
    BY <1>1
  <2>3. (e <= c /\ c < h + 1 /\ c \in R) <=> (k <= c /\ c < h + 1 /\ c \in R)
    BY <2>1, <2>2
  <2> QED BY <2>3 DEF Bit
<1> QED BY <1>5, <1>6, <1>7, <1>8 DEF A, B, LeftOut

\* A left shift onto the place of a run that is gone.
LEMMA EndsLeftGone ==
    ASSUME NEW R, Naturals(R), NEW e, e \in R, NEW h, h \in R, e <= h, NEW c, c \in Nat
    PROVE  LeftGone(R, e, h, c)
<1> DEFINE A == ShiftRunendsLeft(R, e + 1, h + 1)
           Q == R \ {e}
           B == ShiftRunendsLeft(Q, e + 1, h + 1)
<1>1. /\ e \in Nat /\ h \in Nat /\ e + 1 \in Nat /\ h + 1 \in Nat
      /\ 1 <= e + 1 /\ e + 1 <= h + 1 /\ (e + 1) - 1 = e /\ (h + 1) - 1 = h
      /\ \A y \in Q : y \in Nat
      /\ \A y \in R : y \in Nat
  BY DEF Naturals
<1> HIDE DEF Q
<1>2. /\ \A y \in A : y \in Nat
      /\ \A y \in Nat : y < e \/ h + 1 <= y => (y \in A <=> y \in R)
      /\ \A y \in Nat : e <= y /\ y < h => (y \in A <=> y + 1 \in R)
      /\ h \notin A
  <2>2. /\ \A y \in A : y \in Nat
        /\ \A y \in Nat : y < (e + 1) - 1 \/ h + 1 <= y => (y \in A <=> y \in R)
        /\ \A y \in Nat : (e + 1) - 1 <= y /\ y < (h + 1) - 1 => (y \in A <=> y + 1 \in R)
        /\ (h + 1) - 1 \notin A
    BY <1>1, ShiftedLeft
  <2> HIDE DEF A
  <2> QED BY <1>1, <2>2
<1>3. /\ \A y \in B : y \in Nat
      /\ \A y \in Nat : y < e \/ h + 1 <= y => (y \in B <=> y \in Q)
      /\ \A y \in Nat : e <= y /\ y < h => (y \in B <=> y + 1 \in Q)
      /\ h \notin B
  <2>2. /\ \A y \in B : y \in Nat
        /\ \A y \in Nat : y < (e + 1) - 1 \/ h + 1 <= y => (y \in B <=> y \in Q)
        /\ \A y \in Nat : (e + 1) - 1 <= y /\ y < (h + 1) - 1 => (y \in B <=> y + 1 \in Q)
        /\ (h + 1) - 1 \notin B
    BY <1>1, ShiftedLeft
  <2> HIDE DEF B
  <2> QED BY <1>1, <2>2
<1> HIDE DEF A, B
<1>4. ASSUME NEW y \in Nat PROVE y \in A <=> y \in B
  <2>1. CASE y < e \/ h + 1 <= y
    <3>1. y # e
      BY <1>1, <2>1
    <3> QED BY <1>2, <1>3, <2>1, <3>1 DEF Q
  <2>2. CASE e <= y /\ y < h
    <3>1. y + 1 # e
      BY <1>1, <2>2
    <3> QED BY <1>2, <1>3, <2>2, <3>1 DEF Q
  <2>3. CASE y = h
    BY <1>2, <1>3, <2>3
  <2> QED BY <1>1, <2>1, <2>2, <2>3
<1>5. A = B
  BY <1>2, <1>3, <1>4
<1>6. A \ (IF e = h THEN {e} ELSE {}) = A
  BY <1>2
<1>7. Below(B, c) = Below(Q, c) + Bit(e + 1 <= c /\ c < h + 1 /\ c \in Q)
  <2>1. (e + 1) - 1 \notin Q
    BY <1>1 DEF Q
  <2> QED BY <1>1, <2>1, CountLeft DEF B
<1>8. Below(Q, c) = Below(R, c) - Bit(e < c)
  BY <1>1, BelowRemoved DEF Q
<1>9. Below(R, c) \in Nat
  BY <1>1, BelowFinite
<1>10. Below(B, c) = Below(R, c) + Bit(e <= c /\ c < h + 1 /\ c \in R) - Bit(e <= c)
  <2>1. CASE c < e
    <3>1. /\ Bit(e + 1 <= c /\ c < h + 1 /\ c \in Q) = 0 /\ Bit(e < c) = 0
          /\ Bit(e <= c /\ c < h + 1 /\ c \in R) = 0 /\ Bit(e <= c) = 0
      BY <1>1, <2>1 DEF Bit
    <3> QED BY <1>7, <1>8, <1>9, <3>1
  <2>2. CASE c = e
    <3>1. /\ Bit(e + 1 <= c /\ c < h + 1 /\ c \in Q) = 0 /\ Bit(e < c) = 0
          /\ Bit(e <= c /\ c < h + 1 /\ c \in R) = 1 /\ Bit(e <= c) = 1
      BY <1>1, <2>2 DEF Bit
    <3> QED BY <1>7, <1>8, <1>9, <3>1
  <2>3. CASE e < c
    <3>1. /\ Bit(e < c) = 1 /\ Bit(e <= c) = 1
          /\ Bit(e <= c /\ c < h + 1 /\ c \in R) \in Int
      BY <1>1, <2>3 DEF Bit
    <3>2. (e + 1 <= c /\ c < h + 1 /\ c \in Q) <=> (e <= c /\ c < h + 1 /\ c \in R)
      BY <1>1, <2>3 DEF Q
    <3>3. Bit(e + 1 <= c /\ c < h + 1 /\ c \in Q) = Bit(e <= c /\ c < h + 1 /\ c \in R)
      BY <3>2 DEF Bit
    <3> QED BY <1>7, <1>8, <1>9, <3>1, <3>3
  <2> QED BY <1>1, <2>1, <2>2, <2>3
<1> QED BY <1>5, <1>6, <1>10 DEF A, B, Q, LeftGone

\* A right shift into the run that ends at e, up to its slot k.
LEMMA EndsRight ==
    ASSUME NEW R, Naturals(R), NEW e, e \in R, NEW rs \in Nat, rs < e, Barren(R, rs, e),
           NEW k, k \in rs..e, NEW L, L \in 0..rs, NEW start \in Nat,
           start = L \/ (start + 1 = L /\ start \notin R), NEW c, c \in Nat
    PROVE  RightOut(R, e, rs, k, L, start, c)
<1> DEFINE A == ShiftRunendsRight(R, start, k)
           B == ShiftRunendsRight(R, L, rs)
<1>0. (\A y \in R : y \in Nat) /\ (\A p \in rs..(e - 1) : p \notin R)
  BY DEF Naturals, Barren
<1>1. e \in Nat /\ k \in Nat /\ L \in Nat /\ start <= k /\ L <= rs /\ start <= L
  BY <1>0
<1>2. /\ \A y \in A : y \in Nat
      /\ \A y \in Nat : y < start \/ k < y => (y \in A <=> y \in R)
      /\ \A y \in Nat : start < y /\ y <= k => (y \in A <=> y - 1 \in R)
      /\ start \notin A
  BY <1>0, <1>1, ShiftedRight
<1>3. /\ \A y \in B : y \in Nat
      /\ \A y \in Nat : y < L \/ rs < y => (y \in B <=> y \in R)
      /\ \A y \in Nat : L < y /\ y <= rs => (y \in B <=> y - 1 \in R)
      /\ L \notin B
  BY <1>0, <1>1, ShiftedRight
<1> HIDE DEF A, B
<1>l. L \notin A /\ start \notin B
  <2>1. CASE start = L
    BY <1>2, <1>3, <2>1
  <2>2. CASE start # L
    <3>1. start + 1 = L /\ start \notin R /\ start < L /\ L <= k /\ L - 1 = start
      BY <1>1, <2>2
    <3> QED BY <1>1, <1>2, <1>3, <3>1
  <2> QED BY <2>1, <2>2
<1>4. ASSUME NEW y \in Nat PROVE y \in A \cup {e} <=> y \in B
  <2>1. CASE y < start
    <3>1. y < L /\ y # e
      BY <1>1, <2>1
    <3> QED BY <1>2, <1>3, <2>1, <3>1
  <2>2. CASE y = start \/ y = L
    <3>1. y # e
      BY <1>1, <2>2
    <3> QED BY <1>2, <1>3, <1>l, <2>2, <3>1
  <2>3. CASE L < y /\ y <= rs
    <3>1. start < y /\ y <= k /\ y # e
      BY <1>1, <2>3
    <3> QED BY <1>2, <1>3, <2>3, <3>1
  <2>4. CASE rs < y /\ y <= k
    <3>1. start < y /\ y - 1 \in rs..(e - 1)
      BY <1>1, <2>4
    <3>2. y \notin A
      BY <1>0, <1>1, <1>2, <2>4, <3>1
    <3>3. y \in B <=> y \in R
      BY <1>3, <2>4
    <3>4. y # e => y \in rs..(e - 1)
      BY <1>1, <2>4
    <3> QED BY <1>0, <3>2, <3>3, <3>4
  <2>5. CASE k < y
    <3>1. rs < y
      BY <1>1, <2>5
    <3> QED BY <1>2, <1>3, <2>5, <3>1
  <2> QED BY <1>1, <2>1, <2>2, <2>3, <2>4, <2>5
<1>5. A \cup {e} = B
  BY <1>1, <1>2, <1>3, <1>4
<1>6. Below(B, c) = Below(R, c) - Bit(L < c /\ c <= rs /\ c \in B) - Bit(rs < c /\ rs \in R)
  <2>1. \A l, r, x \in Nat :
              l <= r =>
                 Below(ShiftRunendsRight(R, l, r), x)
                   = Below(R, x) - Bit(l < x /\ x <= r /\ x \in ShiftRunendsRight(R, l, r))
                                 - Bit(r < x /\ r \in R)
    BY <1>0, CountsRight
  <2>2. Below(ShiftRunendsRight(R, L, rs), c)
          = Below(R, c) - Bit(L < c /\ c <= rs /\ c \in ShiftRunendsRight(R, L, rs))
                        - Bit(rs < c /\ rs \in R)
    BY <1>1, <2>1
  <2> QED BY <2>2 DEF B
<1>7. Bit(rs < c /\ rs \in R) = 0
  <2>1. rs \notin R
    BY <1>0, <1>1
  <2> QED BY <2>1 DEF Bit
<1>8. Bit(L < c /\ c <= rs /\ c \in B) = Bit(start < c /\ c <= k /\ c \in A)
  <2>1. ASSUME L < c, c <= rs PROVE (c \in B <=> c \in A) /\ start < c /\ c <= k
    <3>1. start < c /\ c <= k
      BY <1>1, <2>1
    <3> QED BY <1>2, <1>3, <2>1, <3>1
  <2>2. ASSUME start < c, c <= k, c \in A PROVE L < c /\ c <= rs
    <3>1. c # L
      BY <1>l, <2>2
    <3>2. c - 1 \in R
      BY <1>2, <2>2
    <3>3. ~(rs < c)
      <4>1. rs < c => c - 1 \in rs..(e - 1)
        BY <1>1, <2>2
      <4> QED BY <1>0, <3>2, <4>1
    <3> QED BY <1>1, <2>2, <3>1, <3>3
  <2>3. (L < c /\ c <= rs /\ c \in B) <=> (start < c /\ c <= k /\ c \in A)
    BY <2>1, <2>2
  <2> QED BY <2>3 DEF Bit
<1>9. Below(R, c) \in Nat /\ Bit(start < c /\ c <= k /\ c \in A) \in Nat
  BY <1>0, BelowFinite DEF Bit
<1>10. Below(B, c) = Below(R, c) - Bit(start < c /\ c <= k /\ c \in A)
  BY <1>6, <1>7, <1>8, <1>9
<1> QED BY <1>5, <1>10 DEF A, B, RightOut

\* A right shift onto the place of a run that is gone.
LEMMA EndsRightGone ==
    ASSUME NEW R, Naturals(R), NEW e, e \in R, NEW L, L \in 0..e, NEW start \in Nat,
           start = L \/ (start + 1 = L /\ start \notin R), NEW c, c \in Nat
    PROVE  RightGone(R, e, L, start, c)
<1> DEFINE A == ShiftRunendsRight(R, start, e)
           B == ShiftRunendsRight(R, L, e)
<1>0. \A y \in R : y \in Nat
  BY DEF Naturals
<1>1. e \in Nat /\ L \in Nat /\ start <= e /\ L <= e /\ start <= L
  BY <1>0
<1>2. /\ \A y \in A : y \in Nat
      /\ \A y \in Nat : y < start \/ e < y => (y \in A <=> y \in R)
      /\ \A y \in Nat : start < y /\ y <= e => (y \in A <=> y - 1 \in R)
      /\ start \notin A
  BY <1>0, <1>1, ShiftedRight
<1>3. /\ \A y \in B : y \in Nat
      /\ \A y \in Nat : y < L \/ e < y => (y \in B <=> y \in R)
      /\ \A y \in Nat : L < y /\ y <= e => (y \in B <=> y - 1 \in R)
      /\ L \notin B
  BY <1>0, <1>1, ShiftedRight
<1> HIDE DEF A, B
<1>l. L \notin A /\ start \notin B
  <2>1. CASE start = L
    BY <1>2, <1>3, <2>1
  <2>2. CASE start # L
    <3>1. start + 1 = L /\ start \notin R /\ start < L /\ L <= e /\ L - 1 = start
      BY <1>1, <2>2
    <3> QED BY <1>1, <1>2, <1>3, <3>1
  <2> QED BY <2>1, <2>2
<1>4. ASSUME NEW y \in Nat PROVE y \in A <=> y \in B
  <2>1. CASE y < start \/ e < y
    <3>1. y < L \/ e < y
      BY <1>1, <2>1
    <3> QED BY <1>2, <1>3, <2>1, <3>1
  <2>2. CASE y = start \/ y = L
    BY <1>2, <1>3, <1>l, <2>2
  <2>3. CASE L < y /\ y <= e
    <3>1. start < y
      BY <1>1, <2>3
    <3> QED BY <1>2, <1>3, <2>3, <3>1
  <2> QED BY <1>1, <2>1, <2>2, <2>3
<1>5. A = B
  BY <1>2, <1>3, <1>4
<1>6. A \ (IF e = start THEN {e} ELSE {}) = A
  BY <1>2
<1>7. Below(B, c) = Below(R, c) - Bit(L < c /\ c <= e /\ c \in B) - Bit(e < c /\ e \in R)
  <2>1. \A l, r, x \in Nat :
              l <= r =>
                 Below(ShiftRunendsRight(R, l, r), x)
                   = Below(R, x) - Bit(l < x /\ x <= r /\ x \in ShiftRunendsRight(R, l, r))
                                 - Bit(r < x /\ r \in R)
    BY <1>0, CountsRight
  <2>2. Below(ShiftRunendsRight(R, L, e), c)
          = Below(R, c) - Bit(L < c /\ c <= e /\ c \in ShiftRunendsRight(R, L, e))
                        - Bit(e < c /\ e \in R)
    BY <1>1, <2>1
  <2> QED BY <2>2 DEF B
<1>8. Bit(e < c /\ e \in R) = Bit(e < c)
  BY DEF Bit
<1>9. Bit(L < c /\ c <= e /\ c \in B) = Bit(start < c /\ c <= e /\ c \in A)
  <2>1. L < c => start < c
    BY <1>1
  <2>2. start < c /\ c \in A => L < c
    <3>1. c # L \/ c \notin A
      BY <1>l
    <3> QED BY <1>1, <3>1
  <2>3. (L < c /\ c <= e /\ c \in B) <=> (start < c /\ c <= e /\ c \in A)
    BY <1>5, <2>1, <2>2
  <2> QED BY <2>3 DEF Bit
<1>10. Below(B, c) = Below(R, c) - Bit(start < c /\ c <= e /\ c \in A) - Bit(e < c)
  BY <1>7, <1>8, <1>9
<1> QED BY <1>5, <1>6, <1>10 DEF A, B, RightGone

\* c is the store s with one slot less in use, and without the part i when its
\* run is destroyed, the occupied bit and its count still to be cleared.
ClosedWell(s, size, i, destroyed, c) ==
    /\ Fields \subseteq DOMAIN c
    /\ c.size_grade = s.size_grade /\ c.elem_count = s.elem_count
    /\ c.occupieds = s.occupieds
    /\ c.slots \in [Positions(s) -> 0..(2^size - 1)]
    /\ c.popcnts \in [{0, 1} -> Int]
    /\ c.popcnts[0] = s.popcnts[0]
    /\ c.popcnts[1] = Below(c.runends, Half)
    /\ \E b \in UsedSlots(s) :
          /\ \A p \in Positions(s) : c.slots[p] # 0 <=> (s.slots[p] # 0 /\ p # b)
          /\ Shape(Size(s), Mapping(s.size_grade), UsedSlots(s) \ {b},
                   IF destroyed THEN s.occupieds \ {i} ELSE s.occupieds, c.runends)

\* A deletion that shifts left closes the hole well.
LEMMA ClosedLeftWell ==
    ASSUME NEW s, NEW size, Good(s, size), NEW i, NEW rs, NEW e,
           Run(UsedSlots(s), s.occupieds, s.runends, i, rs, e), NEW k \in rs..e, NEW h,
           LevelledTo(Mapping(s.size_grade), UsedSlots(s), s.occupieds, s.runends, e),
           Leftward(Mapping(s.size_grade), UsedSlots(s), s.occupieds, s.runends, e, h)
    PROVE  ClosedWell(s, size, i, rs = e, DeleteShiftingLeft(s, k, h, e, rs = e))
<1> DEFINE M == Mapping(s.size_grade)
           R == s.runends
           O == s.occupieds
           U == UsedSlots(s)
           z == Size(s)
           V == 0..(2^size - 1)
           t == DeleteShiftingLeft(s, k, h, e, rs = e)
           A == ShiftRunendsLeft(R, k + 1, h + 1) \ (IF k = h THEN {k} ELSE {})
           T == IF rs = e THEN A ELSE A \cup {e - 1}
           Q == IF rs = e THEN O \ {i} ELSE O
<1>1. /\ z \in Nat /\ z > 0
      /\ Table(z, M) /\ Shape(z, M, U, O, R)
      /\ \A y \in R : y \in Nat /\ y < z /\ y \in U
      /\ \A p \in Nat : p < z => (p \in U <=> s.slots[p] # 0)
  BY GoodFacts
<1>2. /\ Fields \subseteq DOMAIN s
      /\ s.slots \in [0..(z - 1) -> V]
      /\ s.popcnts \in [{0, 1} -> Nat]
      /\ s.popcnts[1] = Below(R, Half)
      /\ Positions(s) = 0..(z - 1)
  BY DEF Good, Positions
<1>3. /\ e \in R /\ rs \in 0..e
      /\ \A p \in rs..e : p \in U
      /\ \A p \in rs..(e - 1) : p \notin R
  BY DEF Run
<1>4. /\ h \in R /\ e <= h
      /\ \A p \in e..h : p \in U
  BY DEF Leftward
<1>5. e \in Nat /\ h \in Nat /\ h < z /\ k \in Nat /\ k <= e /\ rs \in Nat /\ rs <= k
  BY <1>1, <1>3, <1>4
<1>6. 0 \in V
  <2>1. \A q \in Nat : 0 \in 0..(q - 1) <=> q > 0
    OBVIOUS
  <2> QED BY <2>1 DEF Good
<1> HIDE DEF V
<1>7. /\ Fields \subseteq DOMAIN t
      /\ t.size_grade = s.size_grade /\ t.elem_count = s.elem_count
      /\ t.occupieds = O
      /\ t.runends = T
      /\ t.slots = ShiftSlotsLeft(s.slots, k + 1, h + 1)
      /\ t.popcnts = [s.popcnts EXCEPT ![1] = s.popcnts[1]
                         + Bit(k <= Half /\ Half < h + 1 /\ Half \in R)
                         - Bit(rs = e /\ e <= Half)]
  BY <1>2 DEF DeleteShiftingLeft, Fields
<1> HIDE DEF t
<1>8. Emptying(z, V, s.slots, t.slots, h)
  <2>1. Filled(s.slots, k, h + 1)
    <3> SUFFICES ASSUME NEW p \in k..((h + 1) - 1) PROVE s.slots[p] # 0
      BY DEF Filled
    <3>1. p \in Nat /\ p < z /\ (p \in rs..e \/ p \in e..h)
      BY <1>1, <1>5
    <3>2. p \in U
      BY <1>3, <1>4, <3>1
    <3> QED BY <1>1, <3>1, <3>2
  <2>2. h \in 0..(z - 1) /\ k \in 0..h
    BY <1>1, <1>4, <1>5
  <2>3. s.slots \in [0..(z - 1) -> V] /\ 0 \in V /\ z \in Nat
    BY <1>1, <1>2, <1>6
  <2>4. Emptying(z, V, s.slots, ShiftSlotsLeft(s.slots, k + 1, h + 1), h)
    BY <2>1, <2>2, <2>3, EmptiedLeft
  <2> QED BY <1>7, <2>4
<1>9. h \in U
  BY <1>1, <1>4
<1>s. \A y \in R : y \in Nat
  BY <1>1
<1>n. Below(R, Half) \in Nat
  BY <1>s, HalfNat, BelowFinite
<1> DEFINE B1 == Bit(k <= Half /\ Half < h + 1 /\ Half \in R)
           B2 == Bit(rs = e /\ e <= Half)
<1>10. Shape(z, M, U \ {h}, Q, T) /\ Below(T, Half) = Below(R, Half) + B1 - B2
  <2>1. CASE rs = e
    <3>1. k = e
      BY <1>5, <2>1
    <3>a. LeftGone(R, e, h, Half)
      <4>1. e \in R /\ h \in R /\ e <= h /\ Naturals(R)
        BY <1>3, <1>4, <1>s DEF Naturals
      <4> HIDE DEF M, R, O, U, z, A, T, Q, B1, B2
      <4> QED BY <4>1, HalfNat, EndsLeftGone
    <3>2. T = ShiftRunendsLeft(R \ {e}, e + 1, h + 1)
      BY <2>1, <3>1, <3>a DEF LeftGone
    <3>3. Below(ShiftRunendsLeft(R \ {e}, e + 1, h + 1), Half)
            = Below(R, Half) + Bit(e <= Half /\ Half < h + 1 /\ Half \in R) - Bit(e <= Half)
      BY <3>a DEF LeftGone
    <3>4. B2 = Bit(e <= Half)
      BY <2>1 DEF Bit
    <3>5. Shape(z, M, U \ {h}, O \ {i}, ShiftRunendsLeft(R \ {e}, e + 1, h + 1))
      <4>1. Run(U, O, R, i, e, e)
        BY <2>1
      <4> HIDE DEF M, R, O, U, z
      <4> QED BY <1>1, <4>1, RunGoneLeft DEF M, R, O, U
    <3>6. B1 = Bit(e <= Half /\ Half < h + 1 /\ Half \in R)
      BY <3>1
    <3> HIDE DEF T, B1, B2
    <3> QED BY <2>1, <3>2, <3>3, <3>4, <3>5, <3>6
  <2>2. CASE rs # e
    <3>1. rs < e
      BY <1>5, <2>2
    <3>a. LeftOut(R, e, k, h, Half)
      <4>1. /\ e \in R /\ h \in R /\ e <= h /\ rs \in Nat /\ Naturals(R)
            /\ Barren(R, rs, e)
        BY <1>3, <1>4, <1>5, <1>s DEF Naturals, Barren
      <4> HIDE DEF M, R, O, U, z, A, T, Q, B1, B2
      <4> QED BY <3>1, <4>1, HalfNat, EndsLeft
    <3>2. T = ShiftRunendsLeft(R, e, h + 1)
      BY <2>2, <3>a DEF LeftOut
    <3>3. Below(ShiftRunendsLeft(R, e, h + 1), Half) = Below(R, Half) + B1
      BY <3>a DEF LeftOut
    <3>4. B2 = 0 /\ B1 \in Nat
      BY <2>2 DEF Bit
    <3>5. Shape(z, M, U \ {h}, O, ShiftRunendsLeft(R, e, h + 1))
      <4> HIDE DEF M, R, O, U, z
      <4> QED BY <1>1, <3>1, RunShrunkLeft DEF M, R, O, U
    <3> HIDE DEF T, B1, B2
    <3> QED BY <1>n, <2>2, <3>2, <3>3, <3>4, <3>5
  <2> QED BY <2>1, <2>2
<1> HIDE DEF T, Q
<1>11. /\ t.popcnts \in [{0, 1} -> Int]
       /\ t.popcnts[0] = s.popcnts[0] /\ t.popcnts[1] = Below(T, Half)
  <2>1. B1 \in Int /\ B2 \in Int
    BY DEF Bit
  <2> HIDE DEF B1, B2
  <2>2. t.popcnts = [s.popcnts EXCEPT ![1] = s.popcnts[1] + B1 - B2]
    BY <1>7 DEF B1, B2
  <2>3. s.popcnts[1] + B1 - B2 \in Int
    BY <1>2, <2>1
  <2> QED BY <1>2, <1>10, <2>2, <2>3
<1>12. \E b \in U :
          /\ \A p \in Positions(s) : t.slots[p] # 0 <=> (s.slots[p] # 0 /\ p # b)
          /\ Shape(z, M, U \ {b}, Q, t.runends)
  <2>1. \A p \in Positions(s) : t.slots[p] # 0 <=> (s.slots[p] # 0 /\ p # h)
    BY <1>2, <1>8 DEF Emptying
  <2>2. Shape(z, M, U \ {h}, Q, t.runends)
    BY <1>7, <1>10
  <2> HIDE DEF M, R, O, U, z
  <2> QED BY <1>9, <2>1, <2>2
<1>13. t.slots \in [Positions(s) -> V]
  BY <1>2, <1>8 DEF Emptying
<1> QED BY <1>7, <1>11, <1>12, <1>13 DEF ClosedWell, V, t, Q

\* A right shift that starts at `start' moves the cluster from L on, up to e.
ShiftsFrom(s, e, L, start) ==
    /\ L \in Nat /\ L <= e /\ start \in Nat
    /\ Rightward(Size(s), Mapping(s.size_grade), UsedSlots(s), s.occupieds, s.runends, L)
    /\ start = L \/ (start + 1 = L /\ start \notin UsedSlots(s))

\* A deletion that shifts right closes the hole well.
LEMMA ClosedRightWell ==
    ASSUME NEW s, NEW size, Good(s, size), NEW i, NEW rs, NEW e,
           Run(UsedSlots(s), s.occupieds, s.runends, i, rs, e), NEW k \in rs..e, NEW L,
           NEW start, ShiftsFrom(s, e, L, start)
    PROVE  ClosedWell(s, size, i, rs = e, DeleteShiftingRight(s, k, start, e, rs = e))
<1> DEFINE M == Mapping(s.size_grade)
           R == s.runends
           O == s.occupieds
           U == UsedSlots(s)
           z == Size(s)
           V == 0..(2^size - 1)
           t == DeleteShiftingRight(s, k, start, e, rs = e)
           A == ShiftRunendsRight(R, start, k) \ (IF k = start /\ rs = e THEN {e} ELSE {})
           T == IF rs = e THEN A ELSE A \cup {e}
           Q == IF rs = e THEN O \ {i} ELSE O
<1>0. /\ L \in Nat /\ L <= e /\ start \in Nat
      /\ Rightward(z, M, U, O, R, L)
      /\ start = L \/ (start + 1 = L /\ start \notin U)
  BY DEF ShiftsFrom
<1>q. L \in Nat /\ start \in Nat
  BY <1>0
<1>1. /\ z \in Nat /\ z > 0
      /\ Table(z, M) /\ Shape(z, M, U, O, R)
      /\ \A y \in R : y \in Nat /\ y < z /\ y \in U
      /\ \A p \in Nat : p < z => (p \in U <=> s.slots[p] # 0)
  BY GoodFacts
<1>2. /\ Fields \subseteq DOMAIN s
      /\ s.slots \in [0..(z - 1) -> V]
      /\ s.popcnts \in [{0, 1} -> Nat]
      /\ s.popcnts[1] = Below(R, Half)
      /\ Positions(s) = 0..(z - 1)
  BY DEF Good, Positions
<1>3. /\ e \in R /\ rs \in 0..e
      /\ \A p \in rs..e : p \in U
      /\ \A p \in rs..(e - 1) : p \notin R
  BY DEF Run
<1>4. /\ \A p \in L..(z - 1) : p \in U
      /\ L - 1 \in U => L - 1 \in R
  BY <1>0 DEF Rightward
<1>5. e \in Nat /\ e < z /\ k \in Nat /\ k <= e /\ rs \in Nat /\ rs <= k
  BY <1>1, <1>3
<1>l. L <= rs
  <2> SUFFICES ASSUME rs < L PROVE FALSE
    BY <1>0, <1>5
  <2>1. L - 1 \in rs..e /\ L - 1 \in rs..(e - 1)
    BY <1>0, <1>5
  <2> QED BY <1>0, <1>3, <1>4, <2>1
<1>6. 0 \in V
  <2>1. \A q \in Nat : 0 \in 0..(q - 1) <=> q > 0
    OBVIOUS
  <2> QED BY <2>1 DEF Good
<1>u. start = L \/ (start + 1 = L /\ s.slots[start] = 0)
  <2>1. CASE start = L
    BY <1>0, <2>1
  <2>2. CASE start + 1 = L /\ start \notin U
    <3>1. start < z
      BY <1>0, <1>1, <1>5, <2>2
    <3> QED BY <1>q, <1>1, <2>2, <3>1
  <2> QED BY <1>0, <2>1, <2>2
<1>r. start = L \/ (start + 1 = L /\ start \notin R)
  BY <1>0, <1>1
<1>v. start <= L /\ start <= k /\ L <= k
  BY <1>0, <1>5, <1>l
<1> HIDE DEF V
<1>7. /\ Fields \subseteq DOMAIN t
      /\ t.size_grade = s.size_grade /\ t.elem_count = s.elem_count
      /\ t.occupieds = O
      /\ t.runends = T
      /\ t.slots = ShiftSlotsRight(s.slots, start, k)
      /\ t.popcnts = [s.popcnts EXCEPT ![1] = s.popcnts[1]
                         - Bit(start < Half /\ Half <= k /\ Half \in A)
                         - Bit(rs = e /\ e < Half)]
  BY <1>2 DEF DeleteShiftingRight, Fields
<1> HIDE DEF t
<1>8. Emptying(z, V, s.slots, t.slots, L)
  <2>1. Filled(s.slots, L, k + 1)
    <3> SUFFICES ASSUME NEW p \in L..((k + 1) - 1) PROVE s.slots[p] # 0
      BY DEF Filled
    <3>1. p \in Nat /\ p < z /\ p \in L..(z - 1)
      BY <1>q, <1>1, <1>5
    <3>2. p \in U
      BY <1>4, <3>1
    <3> QED BY <1>1, <3>1, <3>2
  <2>2. k \in 0..(z - 1) /\ L \in 0..k
    BY <1>q, <1>1, <1>5, <1>v
  <2>3. s.slots \in [0..(z - 1) -> V] /\ 0 \in V /\ z \in Nat
    BY <1>1, <1>2, <1>6
  <2>4. Emptying(z, V, s.slots, ShiftSlotsRight(s.slots, start, k), L)
    BY <1>q, <1>u, <2>1, <2>2, <2>3, EmptiedRight
  <2> QED BY <1>7, <2>4
<1>9. L \in U
  <2>1. L \in L..(z - 1)
    BY <1>q, <1>1, <1>5, <1>l
  <2> QED BY <1>q, <1>4, <2>1
<1>s. \A y \in R : y \in Nat
  BY <1>1
<1>n. Below(R, Half) \in Nat
  BY <1>s, HalfNat, BelowFinite
<1> DEFINE B1 == Bit(start < Half /\ Half <= k /\ Half \in A)
           B2 == Bit(rs = e /\ e < Half)
<1>10. Shape(z, M, U \ {L}, Q, T) /\ Below(T, Half) = Below(R, Half) - B1 - B2
  <2>1. CASE rs = e
    <3>1. k = e /\ L \in 0..e
      BY <1>q, <1>5, <1>l, <2>1
    <3>b. RightGone(R, e, L, start, Half)
      <4>1. e \in R /\ Naturals(R)
        BY <1>3, <1>s DEF Naturals
      <4> HIDE DEF M, R, O, U, z, A, T, Q, B1, B2
      <4> QED BY <1>q, <1>r, <3>1, <4>1, HalfNat, EndsRightGone
    <3>2. A = ShiftRunendsRight(R, L, e)
      <4>1. ShiftRunendsRight(R, start, e) \ (IF e = start THEN {e} ELSE {})
              = ShiftRunendsRight(R, L, e)
        BY <3>b DEF RightGone
      <4>2. A = ShiftRunendsRight(R, start, e) \ (IF e = start THEN {e} ELSE {})
        BY <2>1, <3>1
      <4> QED BY <4>1, <4>2
    <3>3. Below(ShiftRunendsRight(R, L, e), Half)
            = Below(R, Half) - Bit(start < Half /\ Half <= e /\ Half \in ShiftRunendsRight(R, start, e))
                             - Bit(e < Half)
      BY <3>b DEF RightGone
    <3>4. B2 = Bit(e < Half)
      BY <2>1 DEF Bit
    <3>5. Shape(z, M, U \ {L}, O \ {i}, ShiftRunendsRight(R, L, e))
      <4>1. Run(U, O, R, i, e, e)
        BY <2>1
      <4> HIDE DEF M, R, O, U, z
      <4> QED BY <1>0, <1>1, <4>1, RunGoneRight DEF M, R, O, U, z
    <3>6. start \notin ShiftRunendsRight(R, start, e)
      BY <1>q, <1>5, <1>v, <1>s, <3>1, ShiftedRight
    <3>7. A = ShiftRunendsRight(R, start, e)
      BY <2>1, <3>1, <3>6
    <3>8. B1 = Bit(start < Half /\ Half <= e /\ Half \in ShiftRunendsRight(R, start, e))
      <4> HIDE DEF A
      <4> QED BY <3>1, <3>7
    <3>9. T = A /\ Q = O \ {i}
      BY <2>1
    <3> HIDE DEF T, B1, B2, A, Q
    <3> QED BY <3>2, <3>3, <3>4, <3>5, <3>8, <3>9
  <2>2. CASE rs # e
    <3>1. rs < e /\ L \in 0..rs
      BY <1>q, <1>5, <1>l, <2>2
    <3>a. A = ShiftRunendsRight(R, start, k)
      BY <2>2
    <3>b. RightOut(R, e, rs, k, L, start, Half)
      <4>1. e \in R /\ Naturals(R) /\ Barren(R, rs, e)
        BY <1>3, <1>s DEF Naturals, Barren
      <4> HIDE DEF M, R, O, U, z, A, T, Q, B1, B2
      <4> QED BY <1>q, <1>5, <1>r, <3>1, <4>1, HalfNat, EndsRight
    <3>2. T = ShiftRunendsRight(R, L, rs)
      <4>1. ShiftRunendsRight(R, start, k) \cup {e} = ShiftRunendsRight(R, L, rs)
        BY <3>b DEF RightOut
      <4> QED BY <2>2, <3>a, <4>1
    <3>3. Below(ShiftRunendsRight(R, L, rs), Half)
            = Below(R, Half) - Bit(start < Half /\ Half <= k /\ Half \in ShiftRunendsRight(R, start, k))
      BY <3>b DEF RightOut
    <3>4. B2 = 0 /\ B1 \in Nat
      BY <2>2 DEF Bit
    <3>5. Shape(z, M, U \ {L}, O, ShiftRunendsRight(R, L, rs))
      <4> HIDE DEF M, R, O, U, z
      <4> QED BY <1>0, <1>1, <1>l, <3>1, RunShrunkRight DEF M, R, O, U, z
    <3>6. B1 = Bit(start < Half /\ Half <= k /\ Half \in ShiftRunendsRight(R, start, k))
      <4> HIDE DEF A
      <4> QED BY <3>a
    <3>7. Q = O
      BY <2>2
    <3> HIDE DEF T, B1, B2, A, Q
    <3> QED BY <1>n, <3>2, <3>3, <3>4, <3>5, <3>6, <3>7
  <2> QED BY <2>1, <2>2
<1> HIDE DEF T, Q
<1>11. /\ t.popcnts \in [{0, 1} -> Int]
       /\ t.popcnts[0] = s.popcnts[0] /\ t.popcnts[1] = Below(T, Half)
  <2>1. B1 \in Int /\ B2 \in Int
    BY DEF Bit
  <2> HIDE DEF B1, B2
  <2>2. t.popcnts = [s.popcnts EXCEPT ![1] = s.popcnts[1] - B1 - B2]
    BY <1>7 DEF B1, B2
  <2>3. s.popcnts[1] - B1 - B2 \in Int
    BY <1>2, <2>1
  <2> QED BY <1>2, <1>10, <2>2, <2>3
<1>12. \E b \in U :
          /\ \A p \in Positions(s) : t.slots[p] # 0 <=> (s.slots[p] # 0 /\ p # b)
          /\ Shape(z, M, U \ {b}, Q, t.runends)
  <2>1. \A p \in Positions(s) : t.slots[p] # 0 <=> (s.slots[p] # 0 /\ p # L)
    BY <1>2, <1>8 DEF Emptying
  <2>2. Shape(z, M, U \ {L}, Q, t.runends)
    BY <1>7, <1>10
  <2> HIDE DEF M, R, O, U, z
  <2> QED BY <1>9, <2>1, <2>2
<1>13. t.slots \in [Positions(s) -> V]
  BY <1>2, <1>8 DEF Emptying
<1> QED BY <1>7, <1>11, <1>12, <1>13 DEF ClosedWell, V, t, Q

\* A deletion out of the run of an occupied part leaves the store in shape.
LEMMA DeletedGood ==
    ASSUME NEW s, NEW size, Good(s, size), NEW i \in s.occupieds,
           NEW e, e = RunEndOf(s, i), NEW rs, rs = RunStart(s, i, e), NEW k \in rs..e,
           ~SettledRunMoves(s, e)
    PROVE  /\ Good(DeleteFrom(s, i, k, rs, e, TotalImplicit), size)
           /\ DeleteFrom(s, i, k, rs, e, TotalImplicit).elem_count = s.elem_count - 1
<1> DEFINE right == RightOfRun(s, e, TotalImplicit)
           start == ChosenStart(s, e, right, TotalImplicit)
           c == Closed(s, k, e, rs = e, right, start)
           t == DeleteFrom(s, i, k, rs, e, TotalImplicit)
           U == UsedSlots(s)
           z == Size(s)
           O == s.occupieds
           Q == IF rs = e THEN O \ {i} ELSE O
<1>1. Run(U, O, s.runends, i, rs, e)
  BY RunIs
<1>2. e \in s.runends
  BY <1>1 DEF Run
<1>3. /\ Leftward(Mapping(s.size_grade), U, O, s.runends, e, right.shift_end)
      /\ right.found => LevelledTo(Mapping(s.size_grade), U, O, s.runends, e)
  BY <1>2, RightOfRunIs
<1>4. ClosedWell(s, size, i, rs = e, c)
  <2>1. CASE right.found
    <3>1. start = -1
      BY <2>1 DEF ChosenStart
    <3>2. c = DeleteShiftingLeft(s, k, right.shift_end, e, rs = e)
      BY <3>1 DEF Closed
    <3> HIDE DEF c, right, start
    <3>3. PICK h : h = right.shift_end
      OBVIOUS
    <3> HIDE DEF U, O, z
    <3>4. ClosedWell(s, size, i, rs = e, DeleteShiftingLeft(s, k, h, e, rs = e))
      BY <1>1, <1>3, <2>1, <3>3, ClosedLeftWell DEF U, O
    <3> QED BY <3>2, <3>3, <3>4
  <2>2. CASE ~right.found
    <3>1. start = ShiftStart(s, e, TotalImplicit)
      BY <2>2 DEF ChosenStart
    <3>2. \/ /\ start = -1
             /\ LevelledTo(Mapping(s.size_grade), U, O, s.runends, e)
          \/ /\ start \in Nat
             /\ \E L \in Nat :
                   /\ Rightward(z, Mapping(s.size_grade), U, O, s.runends, L)
                   /\ L <= e
                   /\ start = L \/ (start + 1 = L /\ start \notin U)
      <4>1. ~RightOfRun(s, e, TotalImplicit).found
        BY <2>2
      <4> HIDE DEF start
      <4> QED BY <1>2, <3>1, <4>1, ShiftStartIs
    <3>3. CASE start = -1 /\ LevelledTo(Mapping(s.size_grade), U, O, s.runends, e)
      <4>1. c = DeleteShiftingLeft(s, k, right.shift_end, e, rs = e)
        BY <3>3 DEF Closed
      <4> HIDE DEF c, right, start
      <4>2. PICK h : h = right.shift_end
        OBVIOUS
      <4> HIDE DEF U, O, z
      <4>3. ClosedWell(s, size, i, rs = e, DeleteShiftingLeft(s, k, h, e, rs = e))
        BY <1>1, <1>3, <3>3, <4>2, ClosedLeftWell DEF U, O
      <4> QED BY <4>1, <4>2, <4>3
    <3>4. ASSUME start \in Nat, NEW L \in Nat,
                 Rightward(z, Mapping(s.size_grade), U, O, s.runends, L),
                 L <= e, start = L \/ (start + 1 = L /\ start \notin U)
          PROVE  ClosedWell(s, size, i, rs = e, c)
      <4>1. c = DeleteShiftingRight(s, k, start, e, rs = e)
        <5>1. start # -1
          BY <3>4
        <5> QED BY <5>1 DEF Closed
      <4> HIDE DEF c, right, start
      <4> HIDE DEF U, O, z
      <4>2. ClosedWell(s, size, i, rs = e, DeleteShiftingRight(s, k, start, e, rs = e))
        <5>1. Run(UsedSlots(s), s.occupieds, s.runends, i, rs, e)
          BY <1>1 DEF U, O
        <5>2. ShiftsFrom(s, e, L, start)
          BY <3>4 DEF U, O, z, ShiftsFrom
        <5> QED BY <5>1, <5>2, ClosedRightWell
      <4> QED BY <4>1, <4>2
    <3> HIDE DEF c, start, right
    <3> QED BY <3>2, <3>3, <3>4
  <2> QED BY <2>1, <2>2
<1>5. t = [c EXCEPT !.occupieds = IF rs = e THEN @ \ {i} ELSE @,
                    !.popcnts[0] = @ - Bit(rs = e /\ i < Half),
                    !.elem_count = @ - 1]
  BY DEF DeleteFrom
<1> HIDE DEF c, t, right, start
<1>6. /\ z \in Nat /\ s.elem_count \in Nat
      /\ \A o \in O : o \in Nat
      /\ i \in Nat
      /\ \A p \in U : p \in Nat /\ p < z
  BY GoodFacts
<1>7. /\ Fields \subseteq DOMAIN t
      /\ t.size_grade = s.size_grade
      /\ t.elem_count = s.elem_count - 1
      /\ t.occupieds = Q
      /\ t.runends = c.runends /\ t.slots = c.slots
      /\ t.popcnts = [c.popcnts EXCEPT ![0] = c.popcnts[0] - Bit(rs = e /\ i < Half)]
  BY <1>4, <1>5 DEF ClosedWell, Fields
<1>8. Size(t) = z /\ Positions(t) = Positions(s)
  BY <1>7 DEF Size, Positions
<1>9. PICK b \in U :
          /\ \A p \in Positions(s) : c.slots[p] # 0 <=> (s.slots[p] # 0 /\ p # b)
          /\ Shape(z, Mapping(s.size_grade), U \ {b}, Q, c.runends)
  BY <1>4 DEF ClosedWell
<1>10. UsedSlots(t) = U \ {b}
  <2>1. \A p \in Positions(s) : t.slots[p] # 0 <=> (s.slots[p] # 0 /\ p # b)
    BY <1>7, <1>9
  <2> QED BY <1>8, <2>1 DEF UsedSlots
<1>11. Cardinality(UsedSlots(t)) = t.elem_count
  <2>1. IsFiniteSet(U) /\ Cardinality(U) = s.elem_count
    BY <1>6, UsedFinite DEF Good
  <2>2. Cardinality(U \ {b}) = Cardinality(U) - 1
    BY <1>9, <2>1, FS_RemoveElement
  <2> QED BY <1>7, <1>10, <2>1, <2>2
<1>12. Shape(Size(t), Mapping(t.size_grade), UsedSlots(t), t.occupieds, t.runends)
  BY <1>7, <1>8, <1>9, <1>10
<1>13. Table(Size(t), Mapping(t.size_grade))
  <2>1. Table(z, Mapping(s.size_grade))
    BY GoodFacts
  <2> QED BY <1>7, <1>8, <2>1
<1>14. (\A o \in t.occupieds : o \in Nat) /\ (\A y \in t.runends : y \in Nat)
  <2>1. Within(Size(t), UsedSlots(t), t.occupieds, t.runends)
    BY <1>12 DEF Shape
  <2> QED BY <1>13, <2>1, WithinNat
<1>15. t.popcnts[0] = Below(t.occupieds, Half)
  <2>1. s.popcnts[0] = Below(O, Half) /\ Below(O, Half) \in Nat
    BY <1>6, HalfNat, BelowFinite DEF Good
  <2>2. c.popcnts \in [{0, 1} -> Int] /\ c.popcnts[0] = s.popcnts[0]
    BY <1>4 DEF ClosedWell
  <2>3. t.popcnts[0] = Below(O, Half) - Bit(rs = e /\ i < Half)
    BY <1>7, <2>1, <2>2
  <2>4. CASE rs = e
    <3>1. Below(O \ {i}, Half) = Below(O, Half) - Bit(i < Half)
      BY <1>6, HalfNat, BelowRemoved
    <3>2. Bit(rs = e /\ i < Half) = Bit(i < Half)
      BY <2>4 DEF Bit
    <3> QED BY <1>7, <2>3, <2>4, <3>1, <3>2
  <2>5. CASE rs # e
    <3>1. Bit(rs = e /\ i < Half) = 0
      BY <2>5 DEF Bit
    <3> QED BY <1>7, <2>1, <2>3, <2>5, <3>1
  <2> QED BY <2>4, <2>5
<1>16. t.popcnts[1] = Below(t.runends, Half)
  BY <1>4, <1>7 DEF ClosedWell
<1>17. t.popcnts \in [{0, 1} -> Nat]
  <2>1. Below(t.occupieds, Half) \in Nat /\ Below(t.runends, Half) \in Nat
    BY <1>14, HalfNat, BelowFinite
  <2>2. DOMAIN t.popcnts = {0, 1} /\ t.popcnts = [h \in {0, 1} |-> t.popcnts[h]]
    BY <1>4, <1>7 DEF ClosedWell
  <2> QED BY <1>15, <1>16, <2>1, <2>2
<1>18. t.slots \in [Positions(t) -> 0..(2^size - 1)]
  BY <1>4, <1>7, <1>8 DEF ClosedWell
<1>19. t.elem_count < Size(t) /\ t.size_grade \in Grades
  BY <1>6, <1>7, <1>8 DEF Good
<1>20. 2^size \in Nat /\ 2^size > 0
  BY DEF Good
<1>21. Good(t, size)
  BY <1>7, <1>11, <1>12, <1>15, <1>16, <1>17, <1>18, <1>19, <1>20 DEF Good
<1> QED BY <1>7, <1>21 DEF t

-----------------------------------------------------------------------------
(* Loading.                                                                  *)

\* A list a store can be loaded from: n infixes in the order of their parts.
Listed(list, n, size) ==
    /\ n \in Nat /\ DOMAIN list = 1..n /\ Len(list) = n
    /\ \A j \in 1..n : /\ Implicit(list[j], size) \in Parts
                       /\ Slotted(Explicit(list[j], size), size)
    /\ \A j, k \in 1..n : j <= k => Implicit(list[j], size) <= Implicit(list[k], size)

\* The store holds the explicit part v in the run of the part i.
Holds(s, i, v) ==
    /\ i \in s.occupieds
    /\ \E p \in UsedSlots(s) : /\ Below(s.runends, p) = Below(s.occupieds, i)
                               /\ s.slots[p] = v

\* Distinct places are as many as the infixes.
LEMMA PlacesCount ==
    ASSUME NEW n \in Nat, NEW P, NEW U, U = {P[j] : j \in 1..n},
           \A j \in 1..n : P[j] \in Int, \A j, k \in 1..n : j < k => P[j] < P[k]
    PROVE  Cardinality(U) = n
<1> DEFINE f == [j \in 1..n |-> P[j]]
<1>1. f \in Bijection(1..n, U)
  <2>1. f \in [1..n -> U]
    OBVIOUS
  <2>2. \A j, k \in 1..n : f[j] = f[k] => j = k
    <3> SUFFICES ASSUME NEW j \in 1..n, NEW k \in 1..n, P[j] = P[k], j < k \/ k < j PROVE FALSE
      OBVIOUS
    <3> QED OBVIOUS
  <2>3. \A u \in U : \E j \in 1..n : f[j] = u
    OBVIOUS
  <2> QED BY <2>1, <2>2, <2>3 DEF Bijection, Injection, Surjection, IsInjective
<1>2. IsFiniteSet(1..n) /\ Cardinality(1..n) = n
  BY FS_Interval
<1> HIDE DEF f
<1>3. ExistsBijection(1..n, U)
  BY <1>1 DEF ExistsBijection
<1> QED BY <1>2, <1>3, FS_Bijection

\* The layout of a list is that of its mapped positions.
LEMMA LayoutIs ==
    ASSUME NEW list, NEW n, NEW size, Listed(list, n, size), NEW g \in Grades, n < ScaledSize(g),
           NEW imp, imp = [j \in 1..n |-> Implicit(list[j], size)],
           NEW P, P = Layout(list, g, TotalImplicit, size)
    PROVE  LaidOut(ScaledSize(g), n, [j \in 1..n |-> Mapping(g)[imp[j]]], P)
<1> DEFINE z == ScaledSize(g)
           m == [j \in 1..n |-> Mapping(g)[imp[j]]]
<1>1. /\ n \in Nat /\ DOMAIN list = 1..n /\ Len(list) = n
      /\ \A j \in 1..n : imp[j] \in Parts /\ imp[j] = Implicit(list[j], size)
  BY DEF Listed
<1>2. z \in Nat /\ n <= z /\ z > 0
  BY <1>1, SizesAssumption
<1>3. Table(z, Mapping(g))
  BY <1>2, MappingTable
<1>4. \A j \in 1..n : m[j] \in 0..(z - 1)
  <2> SUFFICES ASSUME NEW j \in 1..n PROVE Mapping(g)[imp[j]] \in 0..(z - 1)
    OBVIOUS
  <2>1. Mapping(g) \in [Parts -> 0..(z - 1)]
    BY <1>3 DEF Table
  <2> QED BY <1>1, <2>1
<1>5. ASSUME NEW j \in 1..n PROVE P[j] = Min({Pushed(m, j), z - 1 - (n - j)})
  <2>1. \A i \in 1..j : GetMappedPos(Implicit(list[i], size), g, TotalImplicit) = m[i]
    <3> SUFFICES ASSUME NEW i \in 1..j
                 PROVE  GetMappedPos(Implicit(list[i], size), g, TotalImplicit) = m[i]
      OBVIOUS
    <3>1. i \in 1..n
      BY <1>1
    <3>2. m[i] = Mapping(g)[imp[i]] /\ imp[i] \in Parts /\ imp[i] = Implicit(list[i], size)
      BY <1>1, <3>1
    <3> QED BY <3>2 DEF Mapping
  <2>2. {GetMappedPos(Implicit(list[i], size), g, TotalImplicit) + (j - i) : i \in 1..j}
          = {m[i] + (j - i) : i \in 1..j}
    BY <2>1
  <2>3. P[j] = Min({Max({GetMappedPos(Implicit(list[i], size), g, TotalImplicit) + (j - i) : i \in 1..j}),
                    ScaledSize(g) - 1 - (Len(list) - j)})
    BY <1>1 DEF Layout
  <2> HIDE DEF m
  <2> QED BY <1>1, <2>2, <2>3 DEF Pushed
<1> HIDE DEF m, z
<1>6. LaidOut(z, n, m, P)
  BY <1>1, <1>2, <1>4, <1>5 DEF LaidOut
<1> QED BY <1>6 DEF m, z

\* What LoadListToInfixStore makes of the bitmaps: the occupied parts of the list,
\* and a run end at the last infix of each.
LEMMA LoadedIs ==
    ASSUME NEW list, NEW n, NEW size, Listed(list, n, size), NEW g \in Grades, n < ScaledSize(g),
           NEW imp, imp = [j \in 1..n |-> Implicit(list[j], size)],
           NEW P, P = Layout(list, g, TotalImplicit, size),
           NEW U, U = {P[j] : j \in 1..n},
           NEW t, t = Written(list, n, g, size, P)
    PROVE  Loaded(ScaledSize(g), Mapping(g), n, imp, P, U, t.occupieds, t.runends)
<1>1. LaidOut(ScaledSize(g), n, [j \in 1..n |-> Mapping(g)[imp[j]]], P)
  BY LayoutIs
<1>2. /\ n \in Nat /\ DOMAIN list = 1..n /\ Len(list) = n
      /\ \A j \in 1..n : imp[j] \in Parts /\ imp[j] = Implicit(list[j], size)
      /\ \A j, k \in 1..n : j <= k => imp[j] <= imp[k]
  BY DEF Listed
<1>3. t.occupieds = {Implicit(list[j], size) : j \in DOMAIN list}
  BY DEF Written
<1>4. t.runends = {P[j] : j \in Lasts(list, size)}
  BY DEF Written
<1>5. Lasts(list, size) = {k \in 1..n : k = n \/ imp[k + 1] # imp[k]}
  <2>1. ASSUME NEW k \in 1..n, k # n
        PROVE  imp[k + 1] = Implicit(list[k + 1], size) /\ imp[k] = Implicit(list[k], size)
    <3>1. k + 1 \in 1..n
      BY <1>2, <2>1
    <3> QED BY <1>2, <3>1
  <2> QED BY <1>2, <2>1 DEF Lasts
<1>6. t.occupieds = {imp[j] : j \in 1..n}
  BY <1>2, <1>3
<1>7. t.runends = {P[j] : j \in {k \in 1..n : k = n \/ imp[k + 1] # imp[k]}}
  BY <1>4, <1>5
<1> QED BY <1>1, <1>2, <1>6, <1>7 DEF Loaded

\* The places P ascend within z slots, and hold the explicit parts of the list.
Ascend(P, n, z) == /\ \A j \in 1..n : P[j] \in 0..(z - 1)
                   /\ \A j, k \in 1..n : j < k => P[j] < P[k]
SlotsOf(list, n, size, P, z, slots) ==
    /\ slots \in [0..(z - 1) -> 0..(2^size - 1)]
    /\ \A j \in 1..n : slots[P[j]] = Explicit(list[j], size)
    /\ \A p \in 0..(z - 1) : slots[p] # 0 <=> \E j \in 1..n : p = P[j]

\* The slots of a loaded store: one for each infix, with its explicit part.
LEMMA LoadedSlots ==
    ASSUME NEW list, NEW n, NEW size, Listed(list, n, size), NEW g \in Grades, n < ScaledSize(g),
           2^size \in Nat, 2^size > 0,
           NEW P, P = Layout(list, g, TotalImplicit, size),
           Ascend(P, n, ScaledSize(g)), NEW t, t = Written(list, n, g, size, P)
    PROVE  SlotsOf(list, n, size, P, ScaledSize(g), t.slots)
<1> DEFINE at(p) == {j \in DOMAIN list : P[j] = p}
           V == 0..(2^size - 1)
<1>1. /\ n \in Nat /\ DOMAIN list = 1..n
      /\ \A j \in 1..n : Explicit(list[j], size) \in V /\ Explicit(list[j], size) # 0
  BY DEF Listed, Slotted
<1>0. /\ \A j \in 1..n : P[j] \in 0..(ScaledSize(g) - 1)
      /\ \A j, k \in 1..n : j < k => P[j] < P[k]
  BY DEF Ascend
<1>2. t.slots = [p \in 0..(ScaledSize(g) - 1) |->
                    IF at(p) = {} THEN 0 ELSE Explicit(list[CHOOSE j \in at(p) : TRUE], size)]
  BY DEF Written
<1>3. ASSUME NEW j \in 1..n PROVE t.slots[P[j]] = Explicit(list[j], size)
  <2>1. at(P[j]) = {j}
    <3> SUFFICES ASSUME NEW k \in 1..n, P[k] = P[j], k # j PROVE FALSE
      BY <1>1
    <3>1. P[k] \in Int /\ P[j] \in Int
      BY <1>0
    <3>2. k < j \/ j < k
      BY <1>1
    <3> QED BY <1>0, <3>1, <3>2
  <2>2. (CHOOSE i \in {j} : TRUE) = j
    OBVIOUS
  <2>3. P[j] \in 0..(ScaledSize(g) - 1)
    BY <1>0
  <2>4. t.slots[P[j]] = IF at(P[j]) = {} THEN 0
                        ELSE Explicit(list[CHOOSE i \in at(P[j]) : TRUE], size)
    BY <1>2, <2>3
  <2> HIDE DEF at
  <2>5. t.slots[P[j]] = IF {j} = {} THEN 0 ELSE Explicit(list[CHOOSE i \in {j} : TRUE], size)
    BY <2>1, <2>4
  <2> QED BY <2>2, <2>5
<1>4. ASSUME NEW p \in 0..(ScaledSize(g) - 1), \A j \in 1..n : p # P[j]
      PROVE  t.slots[p] = 0
  <2>1. at(p) = {}
    BY <1>1, <1>4
  <2> QED BY <1>2, <2>1
<1>5. 0 \in V
  <2>1. \A q \in Nat : 0 \in 0..(q - 1) <=> q > 0
    OBVIOUS
  <2> QED BY <2>1
<1>6. ASSUME NEW p \in 0..(ScaledSize(g) - 1)
      PROVE  t.slots[p] \in V /\ (t.slots[p] # 0 <=> \E j \in 1..n : p = P[j])
  <2>1. CASE \E j \in 1..n : p = P[j]
    BY <1>1, <1>3, <2>1
  <2>2. CASE ~(\E j \in 1..n : p = P[j])
    BY <1>4, <1>5, <2>2
  <2> QED BY <2>1, <2>2
<1>7. /\ DOMAIN t.slots = 0..(ScaledSize(g) - 1)
      /\ t.slots = [p \in 0..(ScaledSize(g) - 1) |-> t.slots[p]]
  BY <1>2
<1> HIDE DEF at, V
<1>8. t.slots \in [0..(ScaledSize(g) - 1) -> V]
  BY <1>6, <1>7
<1> QED BY <1>3, <1>6, <1>8 DEF V, SlotsOf

\* A list of infixes, loaded at a grade that keeps a slot empty, makes a store in
\* shape that holds every one of them.
LEMMA LoadedGood ==
    ASSUME NEW list, NEW n, NEW size, Listed(list, n, size), NEW g \in Grades, n < ScaledSize(g),
           2^size \in Nat, 2^size > 0,
           NEW t, t = LoadListToInfixStore(list, n, g, TotalImplicit, size)
    PROVE  /\ Good(t, size) /\ t.elem_count = n /\ t.size_grade = g
           /\ \A j \in 1..n : Holds(t, Implicit(list[j], size), Explicit(list[j], size))
<1> DEFINE z == ScaledSize(g)
           M == Mapping(g)
           imp == [j \in 1..n |-> Implicit(list[j], size)]
           P == Layout(list, g, TotalImplicit, size)
           U == {P[j] : j \in 1..n}
<1>1. n \in Nat /\ z \in Nat /\ z > 0
  BY SizesAssumption DEF Listed
<1>2. Table(z, M)
  BY <1>1, MappingTable
<1>3. t = Written(list, n, g, size, P)
  BY DEF LoadListToInfixStore
<1>4. /\ Fields \subseteq DOMAIN t
      /\ t.elem_count = n /\ t.size_grade = g
      /\ t.popcnts = [h \in {0, 1} |->
             Cardinality({x \in IF h = 0 THEN t.occupieds ELSE t.runends : x < Half})]
  BY <1>3 DEF Written, Fields
<1>5. imp = [j \in 1..n |-> Implicit(list[j], size)] /\ P = Layout(list, g, TotalImplicit, size)
  OBVIOUS
<1> HIDE DEF imp, P
<1>u. U = {P[j] : j \in 1..n}
  OBVIOUS
<1> HIDE DEF U
<1>6. Loaded(z, M, n, imp, P, U, t.occupieds, t.runends)
  BY <1>3, <1>5, <1>u, LoadedIs
<1>7. /\ \A j \in 1..n : /\ imp[j] \in t.occupieds /\ P[j] \in U
                         /\ P[j] \in 0..(z - 1)
      /\ \A j, k \in 1..n : j < k => P[j] < P[k]
      /\ \A j \in 1..n : Below(t.runends, P[j]) = Below(t.occupieds, imp[j])
      /\ Shape(z, M, U, t.occupieds, t.runends)
  <2> HIDE DEF z, M, U
  <2>1. /\ \A j \in 1..n : /\ imp[j] \in t.occupieds /\ P[j] \in U
                           /\ P[j] \in 0..(z - 1)
        /\ \A j, k \in 1..n : j < k => P[j] < P[k]
    BY <1>2, <1>6, LoadedSteps
  <2>2. \A j \in 1..n : Below(t.runends, P[j]) = Below(t.occupieds, imp[j])
    BY <1>2, <1>6, LoadedRank
  <2>3. Shape(z, M, U, t.occupieds, t.runends)
    BY <1>2, <1>6, LoadedShape
  <2> QED BY <2>1, <2>2, <2>3
<1>8. /\ t.slots \in [0..(z - 1) -> 0..(2^size - 1)]
      /\ \A j \in 1..n : t.slots[P[j]] = Explicit(list[j], size)
      /\ \A p \in 0..(z - 1) : t.slots[p] # 0 <=> \E j \in 1..n : p = P[j]
  <2>1. Ascend(P, n, ScaledSize(g))
    BY <1>7 DEF Ascend
  <2>2. P = Layout(list, g, TotalImplicit, size)
    BY <1>5
  <2>3. SlotsOf(list, n, size, P, ScaledSize(g), t.slots)
    BY <1>3, <2>1, <2>2, LoadedSlots
  <2> QED BY <2>3 DEF SlotsOf
<1>9. Size(t) = z /\ Positions(t) = 0..(z - 1)
  BY <1>4 DEF Size, Positions
<1>10. UsedSlots(t) = U
  BY <1>u, <1>7, <1>8, <1>9 DEF UsedSlots
<1>11. Cardinality(U) = n
  <2>1. \A j \in 1..n : P[j] \in Int
    BY <1>7
  <2>2. \A j, k \in 1..n : j < k => P[j] < P[k]
    BY <1>7
  <2> QED BY <1>1, <2>1, <2>2, PlacesCount DEF U
<1> HIDE DEF z, M
<1>12. Within(z, U, t.occupieds, t.runends)
  BY <1>7 DEF Shape
<1>13. (\A o \in t.occupieds : o \in Nat) /\ (\A e \in t.runends : e \in Nat)
  BY <1>2, <1>12, WithinNat
<1>14. /\ Below(t.occupieds, Half) \in Nat /\ Below(t.runends, Half) \in Nat
  BY <1>13, HalfNat, BelowFinite
<1>15. t.popcnts[0] = Below(t.occupieds, Half) /\ t.popcnts[1] = Below(t.runends, Half)
  BY <1>4 DEF Below
<1>16. t.popcnts \in [{0, 1} -> Nat]
  <2>1. DOMAIN t.popcnts = {0, 1} /\ t.popcnts = [h \in {0, 1} |-> t.popcnts[h]]
    BY <1>4
  <2> QED BY <1>14, <1>15, <2>1
<1>17. Shape(Size(t), Mapping(t.size_grade), UsedSlots(t), t.occupieds, t.runends)
  BY <1>4, <1>7, <1>9, <1>10 DEF M
<1>18. n < z
  BY DEF z
<1>19. Good(t, size)
  BY <1>4, <1>8, <1>9, <1>10, <1>11, <1>15, <1>16, <1>17, <1>18 DEF Good
<1>20. ASSUME NEW j \in 1..n PROVE Holds(t, Implicit(list[j], size), Explicit(list[j], size))
  <2>1. imp[j] = Implicit(list[j], size)
    BY DEF imp
  <2>2. P[j] \in UsedSlots(t)
    BY <1>7, <1>10
  <2> QED BY <1>7, <1>8, <2>1, <2>2 DEF Holds
<1> QED BY <1>4, <1>19, <1>20

-----------------------------------------------------------------------------
(* Listing and resizing.                                                     *)

\* A part and a slot value put together come apart again.
LEMMA Recompose ==
    ASSUME NEW o \in Nat, NEW q \in Nat, q > 0, NEW v \in 0..(q - 1)
    PROVE  /\ o * q + v \in Nat
           /\ (o * q + v) \div q = o
           /\ (o * q + v) % q = v
<1>1. PICK k \in Nat : k = o * q + v
  OBVIOUS
<1>2. PICK d \in Nat : \E r \in 0..(q - 1) : k \div q = d /\ k % q = r /\ k = q * d + r
  BY DivMod
<1>3. PICK r \in 0..(q - 1) : k \div q = d /\ k % q = r /\ k = q * d + r
  BY <1>2
<1>4. ASSUME NEW a \in Nat, NEW b \in Nat, a < b
      PROVE  q * a + q <= q * b
  <2>1. PICK c \in Nat : b = a + 1 + c
    <3>1. b - a - 1 \in Nat /\ b = a + 1 + (b - a - 1)
      BY <1>4
    <3> QED BY <3>1
  <2>2. q * b = q * a + q + q * c
    BY <2>1
  <2>3. q * c \in Nat /\ q * a \in Nat
    OBVIOUS
  <2> QED BY <2>2, <2>3
<1>5. q * d + r = q * o + v
  BY <1>1, <1>3
<1>6. q * d \in Nat /\ q * o \in Nat
  OBVIOUS
<1>7. ~(d < o)
  <2>1. d < o => q * d + q <= q * o
    BY <1>4
  <2> QED BY <1>5, <1>6, <2>1
<1>8. ~(o < d)
  <2>1. o < d => q * o + q <= q * d
    BY <1>4
  <2> QED BY <1>5, <1>6, <2>1
<1>9. d = o
  BY <1>7, <1>8
<1>10. r = v
  BY <1>5, <1>6, <1>9
<1> QED BY <1>1, <1>3, <1>9, <1>10

\* The used slots in ascending order.
LEMMA AscendingIs ==
    ASSUME NEW U, NEW z \in Nat, \A p \in U : p \in Nat /\ p < z,
           NEW n, n = Cardinality(U), NEW used, used = Ascending(U)
    PROVE  /\ n \in Nat /\ DOMAIN used = 1..n
           /\ \A j \in 1..n : used[j] \in U
           /\ \A j, k \in 1..n : j <= k => used[j] <= used[k]
           /\ \A p \in U : \E j \in 1..n : used[j] = p
<1>1. \A p \in U : p \in Nat
  OBVIOUS
<1>2. n = Below(U, z) /\ n \in Nat
  <2>1. Below(U, z) = Cardinality(U)
    BY <1>1, BelowAll
  <2>2. Below(U, z) \in Nat
    BY <1>1, BelowFinite
  <2> QED BY <2>1, <2>2
<1>3. DOMAIN used = 1..n /\ \A j \in 1..n : used[j] = KthOf(U, j - 1, 0)
  BY DEF Ascending
<1>4. ASSUME NEW j \in 1..n
      PROVE  used[j] \in U /\ Below(U, used[j]) = j - 1
  <2>1. j - 1 \in Nat /\ j - 1 < Below(U, z)
    BY <1>2
  <2>2. KthOf(U, j - 1, 0) \in U /\ Below(U, KthOf(U, j - 1, 0)) = j - 1
    BY <1>1, <2>1, KthMember
  <2> QED BY <1>3, <2>2
<1>5. ASSUME NEW j \in 1..n, NEW k \in 1..n, j <= k, used[k] < used[j]
      PROVE  FALSE
  <2>1. used[k] \in U /\ used[j] \in U /\ used[j] \in Nat /\ Below(U, used[k]) = k - 1
        /\ Below(U, used[j]) = j - 1
    BY <1>1, <1>4
  <2>2. \A x \in U : \A y \in Nat : x < y => Below(U, x) + 1 <= Below(U, y)
    BY <1>1, BelowLess
  <2>3. Below(U, used[k]) + 1 <= Below(U, used[j])
    BY <1>5, <2>1, <2>2
  <2> QED BY <1>2, <1>5, <2>1, <2>3
<1>6. ASSUME NEW p \in U
      PROVE  \E j \in 1..n : used[j] = p
  <2>1. \A x \in U : \A y \in Nat : x < y => Below(U, x) + 1 <= Below(U, y)
    BY <1>1, BelowLess
  <2>2. Below(U, p) + 1 <= Below(U, z)
    BY <2>1
  <2>3. Below(U, p) \in Nat
    BY <1>1, BelowFinite
  <2>4. PICK j \in 1..n : j = Below(U, p) + 1
    BY <1>2, <2>2, <2>3
  <2>5. KthOf(U, Below(U, p), 0) = p
    BY <1>1, KthIs
  <2>6. j - 1 = Below(U, p)
    BY <2>3, <2>4
  <2> QED BY <1>3, <2>5, <2>6
<1>7. \A j, k \in 1..n : j <= k => used[j] <= used[k]
  <2> SUFFICES ASSUME NEW j \in 1..n, NEW k \in 1..n, j <= k PROVE used[j] <= used[k]
    OBVIOUS
  <2>1. used[j] \in Nat /\ used[k] \in Nat
    BY <1>1, <1>4
  <2> QED BY <1>5, <2>1
<1> QED BY <1>2, <1>3, <1>4, <1>6, <1>7

\* GetInfixList names every infix of the store, in the order of their parts.
LEMMA ListedGood ==
    ASSUME NEW s, NEW size, Good(s, size), NEW list, list = GetInfixList(s, size)
    PROVE  /\ Listed(list, s.elem_count, size)
           /\ \A i, v : Holds(s, i, v) =>
                \E j \in 1..s.elem_count : /\ Implicit(list[j], size) = i
                                           /\ Explicit(list[j], size) = v
<1> DEFINE U == UsedSlots(s)
           n == s.elem_count
           q == 2^size
           used == Ascending(U)
           R == s.runends
           O == s.occupieds
<1>1. /\ Size(s) \in Nat
      /\ \A p \in U : p \in Nat /\ p < Size(s)
      /\ \A p \in Nat : p < Size(s) => (p \in U <=> s.slots[p] # 0)
      /\ \A o \in O : o \in Nat /\ o \in Parts
  BY GoodFacts
<1>2. n = Cardinality(U) /\ q \in Nat /\ q > 0 /\ s.slots \in [Positions(s) -> 0..(q - 1)]
  BY DEF Good
<1>3. /\ n \in Nat /\ DOMAIN used = 1..n
      /\ \A j \in 1..n : used[j] \in U
      /\ \A j, k \in 1..n : j <= k => used[j] <= used[k]
      /\ \A p \in U : \E j \in 1..n : used[j] = p
  <2> HIDE DEF U
  <2> QED BY <1>1, <1>2, AscendingIs
<1>4. ASSUME NEW p \in U
      PROVE  /\ OccupiedOf(s, p) \in O
             /\ Below(O, OccupiedOf(s, p)) = Below(R, p)
             /\ s.slots[p] \in 0..(q - 1) /\ s.slots[p] # 0
  <2>1. p \in Positions(s)
    BY <1>1 DEF UsedSlots
  <2> QED BY <1>1, <1>2, <2>1, OccupiedOfIs
<1>5. list = [j \in DOMAIN used |-> OccupiedOf(s, used[j]) * q + s.slots[used[j]]]
  BY DEF GetInfixList
<1> HIDE DEF used, U, q, O, R
<1>6. Len(list) = n /\ DOMAIN list = 1..n
      /\ \A j \in 1..n : list[j] = OccupiedOf(s, used[j]) * q + s.slots[used[j]]
  BY <1>3, <1>5
<1>7. ASSUME NEW j \in 1..n
      PROVE  /\ Implicit(list[j], size) = OccupiedOf(s, used[j])
             /\ Explicit(list[j], size) = s.slots[used[j]]
  <2>1. used[j] \in U
    BY <1>3
  <2>2. PICK o \in Nat : o = OccupiedOf(s, used[j])
    BY <1>1, <1>4, <2>1
  <2>3. PICK v \in 0..(q - 1) : v = s.slots[used[j]]
    BY <1>4, <2>1
  <2>4. (o * q + v) \div q = o /\ (o * q + v) % q = v
    BY <1>2, Recompose
  <2>5. list[j] = o * q + v
    BY <1>6, <2>2, <2>3
  <2> QED BY <2>2, <2>3, <2>4, <2>5 DEF Implicit, Explicit, q
<1>8. ASSUME NEW j \in 1..n
      PROVE  Implicit(list[j], size) \in Parts /\ Slotted(Explicit(list[j], size), size)
  <2>1. used[j] \in U
    BY <1>3
  <2>2. OccupiedOf(s, used[j]) \in Parts
    BY <1>1, <1>4, <2>1
  <2> QED BY <1>4, <1>7, <2>1, <2>2 DEF Slotted, q
<1>9. ASSUME NEW j \in 1..n, NEW k \in 1..n, j <= k
      PROVE  Implicit(list[j], size) <= Implicit(list[k], size)
  <2>1. PICK a \in U : a = used[j]
    BY <1>3
  <2>2. PICK b \in U : b = used[k]
    BY <1>3
  <2>3. a <= b /\ a \in Nat /\ b \in Nat
    BY <1>1, <1>3, <1>9, <2>1, <2>2
  <2>4. PICK oa \in O : oa = OccupiedOf(s, a)
    BY <1>4
  <2>5. PICK ob \in O : ob = OccupiedOf(s, b)
    BY <1>4
  <2>6. Below(O, oa) = Below(R, a) /\ Below(O, ob) = Below(R, b)
    BY <1>4, <2>4, <2>5
  <2>7. Below(R, a) <= Below(R, b)
    BY <2>3, GoodCounts DEF R
  <2>8. \A x \in Nat : Below(O, x) \in Nat
    BY GoodCounts DEF O
  <2>9. oa \in Nat /\ ob \in Nat
    BY <1>1
  <2>10. ob < oa => Below(O, ob) + 1 <= Below(O, oa)
    <3>1. \A x \in O : \A y \in Nat : x < y => Below(O, x) + 1 <= Below(O, y)
      <4>1. \A x \in O : x \in Nat
        BY <1>1
      <4> QED BY <4>1, BelowLess
    <3> QED BY <2>9, <3>1
  <2>11. ~(ob < oa)
    <3>1. Below(O, oa) \in Nat /\ Below(O, ob) \in Nat
      BY <2>8, <2>9
    <3> QED BY <2>6, <2>7, <2>10, <3>1
  <2>12. oa <= ob
    BY <2>9, <2>11
  <2> QED BY <1>7, <2>1, <2>2, <2>4, <2>5, <2>12
<1>10. ASSUME NEW i, NEW v, Holds(s, i, v)
       PROVE  \E j \in 1..n : Implicit(list[j], size) = i /\ Explicit(list[j], size) = v
  <2>1. i \in O
    BY <1>10 DEF Holds, O
  <2>2. PICK p \in U : Below(R, p) = Below(O, i) /\ s.slots[p] = v
    BY <1>10 DEF Holds, O, R, U
  <2>3. PICK j \in 1..n : used[j] = p
    BY <1>3
  <2>4. PICK o \in O : o = OccupiedOf(s, p)
    BY <1>4
  <2>5. Below(O, o) = Below(O, i)
    BY <1>4, <2>2, <2>4
  <2>6. o = i
    <3>1. \A x \in O : x \in Nat
      BY <1>1
    <3> QED BY <2>1, <2>5, <3>1, SameRank
  <2> QED BY <1>7, <2>2, <2>3, <2>4, <2>6
<1>11. Listed(list, n, size)
  BY <1>3, <1>6, <1>8, <1>9 DEF Listed
<1> QED BY <1>10, <1>11

\* A resize to a grade with room keeps what the store holds.
LEMMA ResizedGood ==
    ASSUME NEW s, NEW size, Good(s, size), NEW delta \in Int, s.size_grade + delta \in Grades,
           s.elem_count < ScaledSize(s.size_grade + delta),
           NEW t, t = ResizeInfixStore(s, delta, TotalImplicit, size)
    PROVE  /\ Good(t, size) /\ t.elem_count = s.elem_count
           /\ t.size_grade = s.size_grade + delta
           /\ \A i, v : Holds(s, i, v) => Holds(t, i, v)
<1>1. PICK g \in Grades : g = s.size_grade + delta
  OBVIOUS
<1>2. PICK list : list = GetInfixList(s, size)
  OBVIOUS
<1>3. PICK n : n = s.elem_count
  OBVIOUS
<1>4. t = LoadListToInfixStore(list, n, g, TotalImplicit, size)
  BY <1>1, <1>2, <1>3 DEF ResizeInfixStore
<1>5. /\ Listed(list, n, size)
      /\ \A i, v : Holds(s, i, v) =>
                \E j \in 1..n : Implicit(list[j], size) = i /\ Explicit(list[j], size) = v
  BY <1>2, <1>3, ListedGood
<1>6. 2^size \in Nat /\ 2^size > 0
  BY DEF Good
<1>7. n < ScaledSize(g)
  BY <1>1, <1>3
<1>8. /\ Good(t, size) /\ t.elem_count = n /\ t.size_grade = g
      /\ \A j \in 1..n : Holds(t, Implicit(list[j], size), Explicit(list[j], size))
  BY <1>4, <1>5, <1>6, <1>7, LoadedGood
<1> QED BY <1>1, <1>3, <1>5, <1>8

-----------------------------------------------------------------------------
(* Infixes.                                                                  *)

\* The powers of two of an infix size.
LEMMA Powers ==
    /\ \A k \in 0..InfixSize : 2^k \in Nat /\ 2^k > 0 /\ 2^(k + 1) = 2 * 2^k
    /\ 2^0 = 1
    /\ InfixSize \in Nat /\ InfixSize < WordBits
BY PartsAssumption DEF WordBits

\* The lowest set bit h of a slot in use, and the prefix f above it.
LEMMA LowBitIs ==
    ASSUME NEW size \in 1..InfixSize, NEW v, Slotted(v, size)
    PROVE  /\ LowBitPos(v) \in 0..(size - 1)
           /\ \A j \in 1..LowBitPos(v) : v % 2^j = 0
           /\ \E h \in Nat : \E f \in Nat :
                 h > 0 /\ LowBit(v) = h /\ v = (2 * h) * f + h /\ v \div (2 * h) = f
<1> DEFINE D == {n \in 1..size : v % 2^n # 0}
           Low(k) == v % 2^(k + 1) # 0 /\ \A j \in 1..k : v % 2^j = 0
<1>1. InfixSize \in Nat /\ size \in Nat /\ size >= 1 /\ size <= InfixSize /\ InfixSize < WordBits
      /\ WordBits \in Nat
  BY Powers DEF WordBits
<1>2. v \in Nat /\ v # 0 /\ v \in 0..(2^size - 1) /\ 2^size \in Nat /\ 2^size > 0
  BY <1>1, Powers DEF Slotted
<1>3. size \in D
  <2>1. 0 * 2^size + v = v
    BY <1>2
  <2>2. (0 * 2^size + v) % 2^size = v
    BY <1>2, Recompose
  <2> QED BY <1>1, <1>2, <2>1, <2>2
<1>4. PICK n \in D : \A m \in D : n <= m
  <2>1. \A y \in D : y \in Nat
    BY <1>1
  <2> HIDE DEF D
  <2> QED BY <1>3, <2>1, LeastNat
<1>5. PICK k \in Nat : n = k + 1
  <2>1. n - 1 \in Nat /\ n = (n - 1) + 1
    BY <1>1, <1>4
  <2> QED BY <2>1
<1>6. k \in 0..(size - 1) /\ k \in 0..(WordBits - 1)
  <2>1. n \in 1..size
    BY <1>4
  <2> QED BY <1>1, <1>5, <2>1
<1>7. Low(k)
  <2>1. v % 2^(k + 1) # 0
    BY <1>4, <1>5
  <2>2. ASSUME NEW j \in 1..k PROVE v % 2^j = 0
    <3>1. j \in 1..size /\ j \in Nat /\ j < n
      BY <1>1, <1>5, <1>6
    <3>2. j \notin D
      BY <1>1, <1>4, <3>1
    <3> QED BY <3>1, <3>2
  <2> QED BY <2>1, <2>2
<1>8. ASSUME NEW a \in 0..(WordBits - 1), Low(a)
      PROVE  a = k
  <2>1. a \in Nat
    BY <1>1
  <2>2. ~(a < k)
    <3>1. a < k => a + 1 \in 1..k
      BY <1>5, <2>1
    <3> QED BY <1>7, <1>8, <3>1
  <2>3. ~(k < a)
    <3>1. k < a => k + 1 \in 1..a
      BY <1>5, <2>1
    <3> QED BY <1>7, <1>8, <3>1
  <2> QED BY <1>5, <2>1, <2>2, <2>3
<1>9. LowBitPos(v) = k
  <2>1. LowBitPos(v) = CHOOSE a \in 0..(WordBits - 1) : Low(a)
    BY DEF LowBitPos
  <2> HIDE DEF Low
  <2> QED BY <1>6, <1>7, <1>8, <2>1
<1> DEFINE h == 2^k
<1>10. h \in Nat /\ h > 0 /\ 2^(k + 1) = 2 * h
  <2>1. k \in 0..InfixSize
    BY <1>1, <1>6
  <2> QED BY <2>1, Powers
<1>11. v % h = 0
  <2>1. CASE k = 0
    <3>1. h = 1
      BY <2>1, Powers
    <3>2. v % 1 = 0
      BY <1>2
    <3> QED BY <3>1, <3>2
  <2>2. CASE k # 0
    <3>1. k \in 1..k
      BY <1>5, <2>2
    <3> QED BY <1>7, <3>1
  <2> QED BY <2>1, <2>2
<1>12. v % (2 * h) # 0
  BY <1>7, <1>10
<1>13. LowBit(v) = h
  BY <1>2, <1>9 DEF LowBit
<1> HIDE DEF h, Low, D
<1>14. PICK d \in Nat : v = h * d
  <2>1. PICK d \in Nat : \E r \in 0..(h - 1) : v \div h = d /\ v % h = r /\ v = h * d + r
    BY <1>2, <1>10, DivMod
  <2>2. v = h * d + 0
    BY <1>11, <2>1
  <2>3. h * d \in Nat
    BY <1>10
  <2> QED BY <2>2, <2>3
<1>15. 2 * h \in Nat /\ 2 * h > 0 /\ h \in 0..(2 * h - 1) /\ 0 \in 0..(2 * h - 1)
  BY <1>10
<1>16. PICK f \in Nat : d = 2 * f \/ d = 2 * f + 1
  <2>1. d \div 2 \in Nat /\ (d = 2 * (d \div 2) \/ d = 2 * (d \div 2) + 1)
    BY <1>14
  <2> QED BY <2>1
<1>17. d # 2 * f
  <2> SUFFICES ASSUME d = 2 * f PROVE FALSE
    OBVIOUS
  <2>1. v = f * (2 * h) + 0
    <3>1. h * (2 * f) = f * (2 * h)
      BY <1>10
    <3>2. f * (2 * h) \in Nat
      BY <1>10
    <3> QED BY <1>14, <3>1, <3>2
  <2>2. (f * (2 * h) + 0) % (2 * h) = 0
    BY <1>15, Recompose
  <2> QED BY <1>12, <2>1, <2>2
<1>18. v = f * (2 * h) + h
  <2>1. d = 2 * f + 1
    BY <1>16, <1>17
  <2>2. h * (2 * f + 1) = f * (2 * h) + h
    BY <1>10
  <2> QED BY <1>14, <2>1, <2>2
<1>19. v \div (2 * h) = f
  <2>1. (f * (2 * h) + h) \div (2 * h) = f
    BY <1>15, Recompose
  <2> QED BY <1>18, <2>1
<1>20. v = (2 * h) * f + h
  <2>1. (2 * h) * f = f * (2 * h)
    BY <1>15
  <2> QED BY <1>18, <2>1
<1> QED BY <1>6, <1>7, <1>9, <1>10, <1>13, <1>19, <1>20 DEF Low

\* An interval that covers an odd key starts before it.
LEMMA StartBelow ==
    ASSUME NEW size \in 1..InfixSize, NEW v, Slotted(v, size), NEW key \in Nat, key % 2 = 1,
           Covers(v, Explicit(key, size))
    PROVE  Start(v) < key
<1>1. PICK h \in Nat, f \in Nat :
          h > 0 /\ LowBit(v) = h /\ v = (2 * h) * f + h /\ v \div (2 * h) = f
  BY LowBitIs
<1>2. 2^size \in Nat /\ 2^size > 0
  BY Powers
<1>3. PICK d \in Nat : \E r \in 0..(2^size - 1) :
          key \div 2^size = d /\ key % 2^size = r /\ key = 2^size * d + r
  BY <1>2, DivMod
<1>4. PICK x \in Nat : x = key % 2^size /\ x <= key
  <2>1. PICK r \in 0..(2^size - 1) : key % 2^size = r /\ key = 2^size * d + r
    BY <1>3
  <2>2. 2^size * d \in Nat /\ r \in Nat
    BY <1>2
  <2> QED BY <2>1, <2>2
<1>5. x \div (2 * h) = f
  <2>1. v # 0
    BY DEF Slotted
  <2> QED BY <1>1, <1>4, <2>1 DEF Covers, Explicit
<1>6. PICK c \in Nat : c = h * f
  OBVIOUS
<1>7. 2 * c <= x
  <2>1. 2 * h \in Nat /\ 2 * h > 0
    BY <1>1
  <2>2. PICK b \in Nat : \E r \in 0..(2 * h - 1) :
            x \div (2 * h) = b /\ x % (2 * h) = r /\ x = (2 * h) * b + r
    BY <2>1, DivMod
  <2>3. PICK r \in Nat : x = (2 * h) * f + r
    BY <1>5, <2>1, <2>2
  <2>4. (2 * h) * f = 2 * c
    BY <1>6
  <2> QED BY <2>3, <2>4
<1>8. Start(v) = 2 * c
  <2>1. (2 * h) * f = 2 * c
    BY <1>6
  <2>2. v = 2 * c + h
    BY <1>1, <2>1
  <2> QED BY <1>1, <2>2 DEF Start
<1>9. 2 * c # key
  <2>1. (2 * c) % 2 = 0
    OBVIOUS
  <2> QED BY <2>1
<1> QED BY <1>4, <1>7, <1>8, <1>9

\* What an infix between the boundary keys has for a part and for a slot value.
LEMMA InfixParts ==
    ASSUME NEW size \in 1..InfixSize, NEW key \in 0..(TotalImplicit * 2^size - 1),
           key % 2^size # 0
    PROVE  Implicit(key, size) \in Parts /\ Slotted(Explicit(key, size), size)
<1>1. 2^size \in Nat /\ 2^size > 0
  BY Powers
<1>2. TotalImplicit \in Nat /\ TotalImplicit <= TargetSize /\ TargetSize \in Nat
  BY PartsAssumption, SizesAssumption
<1>3. key \in Nat /\ key < TotalImplicit * 2^size /\ TotalImplicit * 2^size \in Nat
  BY <1>1, <1>2
<1>4. PICK d \in Nat : \E r \in 0..(2^size - 1) :
          key \div 2^size = d /\ key % 2^size = r /\ key = 2^size * d + r
  BY <1>1, <1>3, DivMod
<1>5. PICK r \in 0..(2^size - 1) :
          key \div 2^size = d /\ key % 2^size = r /\ key = 2^size * d + r
  BY <1>4
<1>6. d < TotalImplicit
  <2> SUFFICES ASSUME TotalImplicit <= d PROVE FALSE
    BY <1>2
  <2>1. PICK c \in Nat : d = TotalImplicit + c
    <3>1. d - TotalImplicit \in Nat /\ d = TotalImplicit + (d - TotalImplicit)
      BY <1>2
    <3> QED BY <3>1
  <2>2. 2^size * d = TotalImplicit * 2^size + 2^size * c
    BY <1>1, <1>2, <2>1
  <2>3. 2^size * c \in Nat
    BY <1>1
  <2> QED BY <1>3, <1>5, <2>2, <2>3
<1>7. d \in Parts
  BY <1>2, <1>6 DEF Parts
<1> QED BY <1>5, <1>7 DEF Implicit, Explicit, Slotted

\* An infix to insert is odd: its explicit part is not the empty slot's zero.
LEMMA OddKeys ==
    ASSUME NEW size \in 1..InfixSize, NEW key \in InsertedInfixes(size)
    PROVE  /\ key \in Nat /\ key % 2 = 1
           /\ Implicit(key, size) \in Parts /\ Slotted(Explicit(key, size), size)
<1>1. key \in 0..(TotalImplicit * 2^size - 1) /\ key % 2 = 1
  BY DEF InsertedInfixes
<1>2. PICK h \in Nat : h > 0 /\ 2^size = 2 * h
  <2>1. PICK k \in 0..InfixSize : size = k + 1
    <3>1. size - 1 \in 0..InfixSize /\ size = (size - 1) + 1
      BY Powers
    <3> QED BY <3>1
  <2> QED BY <2>1, Powers
<1>3. key \in Nat
  <2>1. TotalImplicit * 2^size \in Nat
    BY <1>2, PartsAssumption
  <2> QED BY <1>1, <2>1
<1>4. key % 2^size # 0
  <2> SUFFICES ASSUME key % 2^size = 0 PROVE FALSE
    OBVIOUS
  <2>1. PICK d \in Nat : \E r \in 0..(2^size - 1) :
            key \div 2^size = d /\ key % 2^size = r /\ key = 2^size * d + r
    <3>1. 2^size \in Nat /\ 2^size > 0
      BY Powers
    <3> QED BY <1>3, <3>1, DivMod
  <2>2. PICK e \in Nat : e = h * d
    OBVIOUS
  <2>3. 2^size * d = 2 * e
    BY <1>2, <2>2
  <2>4. key = 2 * e
    BY <2>1, <2>3
  <2> QED BY <1>1, <2>4
<1> QED BY <1>1, <1>3, <1>4, InfixParts

\* Powers of two multiply.
LEMMA PowersMultiply ==
    ASSUME NEW a \in Nat, NEW b \in Nat, a + b <= InfixSize
    PROVE  2^(a + b) = 2^a * 2^b
<1> DEFINE S == {n \in Nat : a + n <= InfixSize => 2^(a + n) = 2^a * 2^n}
<1>1. 0 \in S
  <2>1. a + 0 = a
    OBVIOUS
  <2>2. a \in 0..InfixSize
    BY Powers
  <2>3. 2^a \in Nat
    BY <2>2, Powers
  <2> QED BY <2>1, <2>3, Powers
<1>2. ASSUME NEW n \in S PROVE n + 1 \in S
  <2> SUFFICES ASSUME a + (n + 1) <= InfixSize PROVE 2^(a + (n + 1)) = 2^a * 2^(n + 1)
    OBVIOUS
  <2>1. n \in Nat /\ a + n <= InfixSize /\ a + (n + 1) = (a + n) + 1
    BY Powers
  <2>2. a \in 0..InfixSize /\ n \in 0..InfixSize /\ a + n \in 0..InfixSize
    BY <2>1, Powers
  <2>3. PICK p \in Nat : p = 2^a
    BY <2>2, Powers
  <2>4. PICK q \in Nat : q = 2^n
    BY <2>2, Powers
  <2>5. 2^(a + n) = p * q
    BY <2>1, <2>3, <2>4
  <2>6. 2^(n + 1) = 2 * q
    BY <2>2, <2>4, Powers
  <2>7. 2^((a + n) + 1) = 2 * (p * q)
    BY <2>2, <2>5, Powers
  <2>8. 2 * (p * q) = p * (2 * q)
    OBVIOUS
  <2> QED BY <2>1, <2>3, <2>6, <2>7, <2>8
<1>3. S = Nat
  <2>1. S \in SUBSET Nat
    OBVIOUS
  <2> HIDE DEF S
  <2> QED BY <1>1, <1>2, <2>1, Induction
<1> QED BY <1>3

\* A shrunk slot is in use when the slot was, and is short enough.
LEMMA ShrunkIs ==
    ASSUME NEW old \in 1..InfixSize, NEW new \in 1..InfixSize, new < old,
           NEW v \in 0..(2^old - 1)
    PROVE  /\ ShrunkSlot(v, old, new) \in 0..(2^new - 1)
           /\ ShrunkSlot(v, old, new) # 0 <=> v # 0
<1>1. PICK b \in Nat : b = old - new /\ b >= 1 /\ new + b = old
  BY Powers
<1>2. PICK p \in Nat : p = 2^new /\ p > 0
  BY Powers
<1>3. PICK q \in Nat : q = 2^b /\ q > 0
  <2>1. b \in 0..InfixSize
    BY <1>1, Powers
  <2> QED BY <2>1, Powers
<1>4. 2^old = p * q
  <2>1. new \in Nat /\ new + b <= InfixSize
    BY <1>1, Powers
  <2> QED BY <1>1, <1>2, <1>3, <2>1, PowersMultiply
<1>5. v \in Nat /\ v < p * q
  <2>1. p * q \in Nat
    OBVIOUS
  <2> QED BY <1>4, <2>1
<1>6. PICK kept \in Nat : \E r \in 0..(q - 1) : v \div q = kept /\ v % q = r /\ v = q * kept + r
  BY <1>3, <1>5, DivMod
<1>7. PICK r \in 0..(q - 1) : v \div q = kept /\ v % q = r /\ v = q * kept + r
  BY <1>6
<1>8. kept < p
  <2> SUFFICES ASSUME p <= kept PROVE FALSE
    OBVIOUS
  <2>1. PICK c \in Nat : kept = p + c
    <3>1. kept - p \in Nat /\ kept = p + (kept - p)
      OBVIOUS
    <3> QED BY <3>1
  <2>2. q * kept = p * q + q * c
    BY <2>1
  <2>3. q * c \in Nat /\ p * q \in Nat /\ r \in Nat
    BY <1>7
  <2> QED BY <1>5, <1>7, <2>2, <2>3
<1>9. PICK g \in Nat : p = 2 * g
  <2>1. PICK k \in 0..InfixSize : new = k + 1
    <3>1. new - 1 \in 0..InfixSize /\ new = (new - 1) + 1
      BY Powers
    <3> QED BY <3>1
  <2> QED BY <1>2, <2>1, Powers
<1>10. kept % 2 = 0 => kept + 1 < p
  <2> SUFFICES ASSUME kept % 2 = 0, kept + 1 = p PROVE FALSE
    BY <1>8
  <2> QED BY <1>9
<1>11. ASSUME v # 0, ~(old > new + LowBitPos(v))
       PROVE  kept # 0
  <2>1. Slotted(v, old)
    BY <1>11 DEF Slotted
  <2>2. /\ LowBitPos(v) \in 0..(old - 1)
        /\ \A j \in 1..LowBitPos(v) : v % 2^j = 0
    BY <2>1, LowBitIs
  <2>3. b \in 1..LowBitPos(v)
    BY <1>1, <1>11, <2>2
  <2>4. v % q = 0
    BY <1>3, <2>2, <2>3
  <2>5. kept = 0 => q * kept = 0
    OBVIOUS
  <2> QED BY <1>7, <1>11, <2>4, <2>5
<1>12. v = 0 => kept = 0
  <2>1. (0 * q + 0) \div q = 0
    <3>1. 0 \in 0..(q - 1)
      BY <1>3
    <3> QED BY <1>3, <3>1, Recompose
  <2>2. 0 * q + 0 = 0
    OBVIOUS
  <2> QED BY <1>7, <2>1, <2>2
<1>13. ShrunkSlot(v, old, new) =
           IF (v # 0 /\ old > new + LowBitPos(v)) /\ kept % 2 = 0 THEN kept + 1 ELSE kept
  BY <1>1, <1>3, <1>7 DEF ShrunkSlot
<1>14. CASE v # 0 /\ old > new + LowBitPos(v)
  <2>1. CASE kept % 2 = 0
    <3>1. ShrunkSlot(v, old, new) = kept + 1
      BY <1>13, <1>14, <2>1
    <3> QED BY <1>2, <1>10, <1>14, <2>1, <3>1
  <2>2. CASE kept % 2 # 0
    <3>1. ShrunkSlot(v, old, new) = kept
      BY <1>13, <2>2
    <3>2. kept # 0
      BY <2>2
    <3> QED BY <1>2, <1>8, <1>14, <3>1, <3>2
  <2> QED BY <2>1, <2>2
<1>15. CASE ~(v # 0 /\ old > new + LowBitPos(v))
  <2>1. ShrunkSlot(v, old, new) = kept
    BY <1>13, <1>15
  <2>2. kept # 0 <=> v # 0
    BY <1>11, <1>12, <1>15
  <2> QED BY <1>2, <1>8, <2>1, <2>2
<1> QED BY <1>14, <1>15

-----------------------------------------------------------------------------
(* The operations.                                                           *)

\* The store an insertion works on is in shape, with two empty slots.
LEMMA RoomForGood ==
    ASSUME NEW s, NEW size, Good(s, size), s.elem_count < MaxElems,
           NEW t, t = RoomFor(s, TotalImplicit, size)
    PROVE  Good(t, size) /\ t.elem_count + 1 < Size(t)
<1>1. s.size_grade \in Grades /\ s.elem_count \in Nat /\ Size(s) = ScaledSize(s.size_grade)
      /\ s.elem_count < Size(s)
  BY GoodFacts DEF Good, Size
<1>2. CASE s.elem_count >= ExpandAt(s.size_grade)
  <2>1. t = ResizeInfixStore(s, 1, TotalImplicit, size)
    BY <1>2 DEF RoomFor
  <2>2. s.size_grade + 1 \in Grades
    BY <1>1, <1>2, SizesAssumption, BoundAssumption DEF Grades, ExpandAt
  <2>3. /\ ScaledSize(s.size_grade) < ScaledSize(s.size_grade + 1)
        /\ ScaledSize(s.size_grade) \in Nat /\ ScaledSize(s.size_grade + 1) \in Nat
    BY <1>1, <2>2, SizesAssumption DEF Grades
  <2>4. s.elem_count < ScaledSize(s.size_grade + 1)
    BY <1>1, <2>3
  <2>5. Good(t, size) /\ t.elem_count = s.elem_count /\ t.size_grade = s.size_grade + 1
    BY <2>1, <2>2, <2>4, ResizedGood
  <2> QED BY <1>1, <2>3, <2>5 DEF Size
<1>3. CASE ~(s.elem_count >= ExpandAt(s.size_grade))
  <2>1. t = s
    BY <1>3 DEF RoomFor
  <2>2. s.elem_count + 1 < Size(s)
    <3>1. CASE s.size_grade = 0
      <4>1. ExceptionSize \in 0..(ScaledSize(0) - 1) /\ ScaledSize(0) \in Nat
        BY <1>1, <3>1, SizesAssumption
      <4>2. s.elem_count < ExceptionSize
        BY <1>1, <1>3, <3>1, <4>1 DEF ExpandAt
      <4> QED BY <1>1, <3>1, <4>1, <4>2
    <3>2. CASE s.size_grade > 0
      <4>1. s.size_grade - 1 \in Grades /\ s.size_grade - 1 < s.size_grade
        BY <1>1, <3>2, SizesAssumption DEF Grades
      <4>2. /\ ScaledSize(s.size_grade - 1) < ScaledSize(s.size_grade)
            /\ ScaledSize(s.size_grade - 1) \in Nat
            /\ ScaledSize(s.size_grade) \in Nat
        BY <1>1, <4>1, SizesAssumption
      <4>3. s.elem_count < ScaledSize(s.size_grade - 1)
        BY <1>1, <1>3, <3>2, <4>2 DEF ExpandAt
      <4> QED BY <1>1, <4>2, <4>3
    <3> QED BY <1>1, <3>1, <3>2, SizesAssumption DEF Grades
  <2> QED BY <2>1, <2>2
<1> QED BY <1>2, <1>3

\* The store a deletion works on is in shape and holds what the store held.
LEMMA FitForGood ==
    ASSUME NEW s, NEW size, Good(s, size), NEW t, t = FitFor(s, TotalImplicit, size)
    PROVE  Good(t, size) /\ \A i, v : Holds(s, i, v) => Holds(t, i, v)
<1>1. s.size_grade \in Grades /\ s.elem_count \in Nat
  BY GoodFacts DEF Good
<1>2. CASE s.size_grade > 0 /\ s.elem_count <= ShrinkAt(s.size_grade)
  <2>1. s.size_grade + (-1) \in Grades /\ s.size_grade + (-1) = s.size_grade - 1
    BY <1>1, <1>2, SizesAssumption DEF Grades
  <2>2. s.elem_count < ScaledSize(s.size_grade - 1)
    <3>1. CASE s.size_grade = 1
      <4>1. ExceptionSize \in 0..(ScaledSize(0) - 1) /\ ScaledSize(0) \in Nat
        BY <2>1, <3>1, SizesAssumption
      <4> QED BY <1>1, <1>2, <3>1, <4>1 DEF ShrinkAt
    <3>2. CASE s.size_grade > 1
      <4>1. s.elem_count <= ScaledSize(s.size_grade - 2)
        BY <1>2, <3>2 DEF ShrinkAt
      <4>2. s.size_grade - 2 \in Grades /\ s.size_grade - 2 < s.size_grade - 1
        BY <1>1, <3>2, SizesAssumption DEF Grades
      <4>3. /\ ScaledSize(s.size_grade - 2) < ScaledSize(s.size_grade - 1)
            /\ ScaledSize(s.size_grade - 2) \in Nat
            /\ ScaledSize(s.size_grade - 1) \in Nat
        BY <2>1, <4>2, SizesAssumption
      <4> QED BY <1>1, <4>1, <4>3
    <3> QED BY <1>1, <1>2, <3>1, <3>2, SizesAssumption DEF Grades
  <2>3. t = ResizeInfixStore(s, -1, TotalImplicit, size)
    BY <1>2 DEF FitFor
  <2>4. s.elem_count < ScaledSize(s.size_grade + (-1))
    BY <2>1, <2>2
  <2> QED BY <2>1, <2>3, <2>4, ResizedGood
<1>3. CASE ~(s.size_grade > 0 /\ s.elem_count <= ShrinkAt(s.size_grade))
  BY <1>3 DEF FitFor
<1> QED BY <1>2, <1>3

\* A point query that answers yes has seen an infix of the key's part.
LEMMA QueryHolds ==
    ASSUME NEW s, NEW size, Good(s, size), NEW key, PointQueryInfixStore(s, key, size)
    PROVE  \E v : /\ Holds(s, Implicit(key, size), v) /\ Slotted(v, size)
                  /\ Covers(v, Explicit(key, size))
<1> DEFINE i == Implicit(key, size)
           R == s.runends
           U == UsedSlots(s)
<1>1. i \in s.occupieds
  BY DEF PointQueryInfixStore
<1>2. PICK e : e = RunEndOf(s, i)
  OBVIOUS
<1>3. PICK p \in Scanned(s, e) : Covers(s.slots[p], Explicit(key, size))
  BY <1>2 DEF PointQueryInfixStore, RunScanned
<1>4. e \in R /\ Below(R, e) = Below(s.occupieds, i)
  BY <1>1, <1>2, RunEndIs
<1>5. /\ Size(s) \in Nat
      /\ e \in Nat /\ e < Size(s) /\ e \in U
      /\ \A y \in Nat : y < Size(s) => (y \in U <=> s.slots[y] # 0)
  BY <1>4, GoodFacts
<1> DEFINE stops == {y \in 0..(e - 1) : s.slots[y] = 0 \/ y \in R} \cup {-1}
<1>6. Max(stops) \in stops /\ \A y \in stops : y <= Max(stops)
  <2>1. \A y \in stops : y \in (-1)..(e - 1)
    BY <1>5
  <2>2. stops # {} /\ -1 \in Int /\ e - 1 \in Int
    BY <1>5
  <2> HIDE DEF stops
  <2> QED BY <2>1, <2>2, MaxOf
<1>7. p \in (Max(stops) + 1)..e
  BY <1>3 DEF Scanned
<1>8. Max(stops) \in (-1)..(e - 1)
  BY <1>5, <1>6
<1>9. p \in Nat /\ p <= e /\ Max(stops) < p
  BY <1>5, <1>7, <1>8
<1>10. \A y \in p..(e - 1) : s.slots[y] # 0 /\ y \notin R
  <2> SUFFICES ASSUME NEW y \in p..(e - 1), s.slots[y] = 0 \/ y \in R PROVE FALSE
    OBVIOUS
  <2>1. y \in 0..(e - 1) /\ y \in Int /\ Max(stops) < y
    <3> HIDE DEF stops
    <3> QED BY <1>5, <1>8, <1>9
  <2>2. y \in stops
    BY <2>1
  <2>3. y <= Max(stops)
    BY <1>6, <2>2
  <2> HIDE DEF stops
  <2> QED BY <1>8, <2>1, <2>3
<1> HIDE DEF stops
<1>11. p \in U
  <2>1. CASE p = e
    BY <1>5, <2>1
  <2>2. CASE p # e
    <3>1. p \in p..(e - 1) /\ p < Size(s)
      BY <1>5, <1>9, <2>2
    <3> QED BY <1>5, <1>9, <1>10, <3>1
  <2> QED BY <2>1, <2>2
<1>12. Below(R, p) = Below(R, e)
  <2>1. \A y \in R : ~(p <= y /\ y < e)
    <3> SUFFICES ASSUME NEW y \in R, p <= y, y < e PROVE FALSE
      OBVIOUS
    <3>1. y \in Nat
      BY GoodFacts
    <3>2. y \in p..(e - 1)
      BY <1>5, <1>9, <3>1
    <3> QED BY <1>10, <3>2
  <2> QED BY <1>5, <1>9, <2>1, GoodCounts
<1>13. PICK v : v = s.slots[p]
  OBVIOUS
<1>14. Holds(s, i, v)
  BY <1>1, <1>4, <1>11, <1>12, <1>13 DEF Holds
<1>15. Slotted(v, size)
  <2>1. p \in Positions(s) /\ s.slots[p] # 0
    BY <1>11 DEF UsedSlots
  <2>2. s.slots \in [Positions(s) -> 0..(2^size - 1)]
    BY DEF Good
  <2> QED BY <1>13, <2>1, <2>2 DEF Slotted
<1> QED BY <1>3, <1>13, <1>14, <1>15

\* The last match of a key whose prefix the store holds lies in the run.
LEMMA MatchInRun ==
    ASSUME NEW s, NEW size \in 1..InfixSize, Good(s, size), NEW key \in InsertedInfixes(size),
           NEW v, Holds(s, Implicit(key, size), v), Slotted(v, size),
           Covers(v, Explicit(key, size)),
           NEW e, e = RunEndOf(s, Implicit(key, size)),
           NEW rs, rs = RunStart(s, Implicit(key, size), e)
    PROVE  LastMatch(s, key, rs, e, size) \in rs..e
<1> DEFINE i == Implicit(key, size)
           matches == {p \in rs..e : /\ Start(s.slots[p]) < key
                                     /\ Covers(s.slots[p], Explicit(key, size))}
<1>1. i \in s.occupieds
  BY DEF Holds
<1>2. PICK p \in UsedSlots(s) : Below(s.runends, p) = Below(s.occupieds, i) /\ s.slots[p] = v
  BY DEF Holds
<1>3. /\ Run(UsedSlots(s), s.occupieds, s.runends, i, rs, e)
      /\ \A y \in UsedSlots(s) : Below(s.runends, y) = Below(s.occupieds, i) => y \in rs..e
  BY <1>1, RunIs
<1>4. p \in rs..e
  BY <1>2, <1>3
<1>5. e \in Nat /\ rs \in 0..e
  <2>1. e \in s.runends /\ rs \in 0..e
    BY <1>3 DEF Run
  <2> QED BY <2>1, GoodFacts
<1>6. Start(v) < key
  BY OddKeys, StartBelow
<1>7. p \in matches
  BY <1>2, <1>4, <1>6
<1>8. LastMatch(s, key, rs, e, size) = Max(matches \cup {rs - 1})
  BY DEF LastMatch
<1>9. \A y \in matches \cup {rs - 1} : y \in (rs - 1)..e
  BY <1>5
<1>10. \A y \in matches : y \in rs..e
  OBVIOUS
<1> HIDE DEF matches
<1>11. /\ Max(matches \cup {rs - 1}) \in matches \cup {rs - 1}
       /\ \A y \in matches \cup {rs - 1} : y <= Max(matches \cup {rs - 1})
  <2>1. rs - 1 \in Int /\ e \in Int /\ matches \cup {rs - 1} # {}
    BY <1>5
  <2> QED BY <1>9, <2>1, MaxOf
<1>12. PICK k : k = Max(matches \cup {rs - 1})
  OBVIOUS
<1>13. k \in matches \cup {rs - 1} /\ p <= k
  BY <1>7, <1>11, <1>12
<1>14. k # rs - 1
  BY <1>4, <1>5, <1>13
<1> QED BY <1>8, <1>10, <1>12, <1>13, <1>14

\* Insertion, deletion and the shortening of infixes keep a store in shape.
LEMMA InsertKeepsGood ==
    ASSUME NEW s, NEW size \in 1..InfixSize, Good(s, size), s.elem_count < MaxElems,
           NEW key \in InsertedInfixes(size)
    PROVE  Good(InsertRawIntoInfixStore(s, key, TotalImplicit, size), size)
<1>1. PICK t : t = RoomFor(s, TotalImplicit, size)
  OBVIOUS
<1>2. Good(t, size) /\ t.elem_count + 1 < Size(t)
  BY <1>1, RoomForGood
<1>3. PICK i : i = Implicit(key, size)
  OBVIOUS
<1>4. PICK x : x = Explicit(key, size)
  OBVIOUS
<1>5. i \in Parts /\ Slotted(x, size)
  BY <1>3, <1>4, OddKeys
<1>6. Good(InsertInto(t, i, x, TotalImplicit), size)
  BY <1>2, <1>5, InsertedGood
<1> QED BY <1>1, <1>3, <1>4, <1>6 DEF InsertRawIntoInfixStore

\* DeleteRawFromInfixStore keeps a store in shape, when the run it deletes from is not
\* one that SettledSpec leaves alone.
LEMMA DeleteKeepsGood ==
    ASSUME NEW s, NEW size \in 1..InfixSize, Good(s, size), NEW key \in InsertedInfixes(size),
           PointQueryInfixStore(s, key, size),
           ~SettledRunMoves(FitFor(s, TotalImplicit, size),
                            RunEndOf(FitFor(s, TotalImplicit, size), Implicit(key, size)))
    PROVE  Good(DeleteRawFromInfixStore(s, key, TotalImplicit, size), size)
<1>1. PICK t : t = FitFor(s, TotalImplicit, size)
  OBVIOUS
<1>2. Good(t, size) /\ \A i, v : Holds(s, i, v) => Holds(t, i, v)
  BY <1>1, FitForGood
<1>3. PICK v : /\ Holds(s, Implicit(key, size), v) /\ Slotted(v, size)
               /\ Covers(v, Explicit(key, size))
  BY QueryHolds
<1>4. PICK e : e = RunEndOf(t, Implicit(key, size))
  OBVIOUS
<1>5. PICK rs : rs = RunStart(t, Implicit(key, size), e)
  OBVIOUS
<1>6. PICK k : k = LastMatch(t, key, rs, e, size)
  OBVIOUS
<1>7. Holds(t, Implicit(key, size), v)
  BY <1>2, <1>3
<1>8. k \in rs..e
  BY <1>2, <1>3, <1>4, <1>5, <1>6, <1>7, MatchInRun
<1>9. PICK i \in t.occupieds : i = Implicit(key, size)
  BY <1>7 DEF Holds
<1>10. ~SettledRunMoves(t, e)
  BY <1>1, <1>4
<1>11. Good(DeleteFrom(t, i, k, rs, e, TotalImplicit), size)
  BY <1>2, <1>4, <1>5, <1>8, <1>9, <1>10, DeletedGood
<1> QED BY <1>1, <1>4, <1>5, <1>6, <1>9, <1>11 DEF DeleteRawFromInfixStore, DeleteKey

\* A store of the grade of the copy is read where it was written: slot by slot,
\* and no slot falls on the run ends.
LEMMA ReadWhereWritten ==
    ASSUME NEW s, NEW old \in 1..InfixSize, Good(s, old), NEW new \in 1..InfixSize, new < old,
           s.size_grade = GrowGrade, (HeaderBits + TargetSize + Size(s)) % ByteBits # 0,
           NEW t, t = ShrinkInfixStoreInfixSize(s, old, new)
    PROVE  /\ Fields \subseteq DOMAIN t
           /\ t.size_grade = s.size_grade /\ t.elem_count = s.elem_count
           /\ t.occupieds = s.occupieds /\ t.popcnts = s.popcnts
           /\ t.runends = s.runends
           /\ t.slots = [p \in Positions(s) |-> ShrunkSlot(s.slots[p], old, new)]
<1>0. /\ Size(s) \in Nat /\ s.runends \subseteq Positions(s)
      /\ s.slots \in [Positions(s) -> 0..(2^old - 1)]
  <2>1. Size(s) \in Nat /\ \A e \in s.runends : e \in Nat /\ e < Size(s)
    BY GoodFacts
  <2>2. s.slots \in [Positions(s) -> 0..(2^old - 1)]
    BY DEF Good
  <2> QED BY <2>1, <2>2 DEF Positions
<1>1. CopiedRunends(s) = s.runends
  BY DEF CopiedRunends
<1>2. ScaledSize(GrowGrade) = Size(s)
  BY DEF Size
<1>3. DOMAIN s.slots = Positions(s)
  BY <1>0
<1>4. ASSUME NEW q \in Int PROVE WrittenSlot(s, q, old, new) \in Nat
  <2>1. CASE q \in Positions(s)
    <3>1. PICK v \in 0..(2^old - 1) : v = s.slots[q]
      BY <1>0, <2>1
    <3>2. ShrunkSlot(v, old, new) \in 0..(2^new - 1)
      BY ShrunkIs
    <3>3. WrittenSlot(s, q, old, new) = ShrunkSlot(v, old, new)
      BY <2>1, <3>1 DEF WrittenSlot
    <3> QED BY <3>2, <3>3
  <2>2. CASE q \notin Positions(s)
    BY <2>2 DEF WrittenSlot
  <2> QED BY <2>1, <2>2
<1>5. ASSUME NEW e \in Positions(s) PROVE RunendRead(s, e, old, new) <=> e \in s.runends
  <2>1. PICK d \in Int : d = e - Size(s) /\ d < 0
    BY <1>0 DEF Positions
  <2>2. d \div new \in Int /\ d \div new < 0
    BY <2>1
  <2>3. WrittenBy(e, new) = d \div new
    BY <1>2, <2>1 DEF WrittenBy
  <2>4. WrittenBy(e, new) \notin Positions(s)
    BY <2>2, <2>3 DEF Positions
  <2>5. WrittenSlot(s, WrittenBy(e, new), old, new) = 0
    BY <2>4 DEF WrittenSlot
  <2> QED BY <1>1, <2>5 DEF RunendRead
<1>6. ASSUME NEW p \in Positions(s)
      PROVE  SlotRead(s, p, old, new) = ShrunkSlot(s.slots[p], old, new)
  <2>1. p \in Nat
    BY <1>0 DEF Positions
  <2>2. PICK m \in Nat : m = p * new /\ m \div new = p /\ m % new = 0
    BY <2>1
  <2>3. (Size(s) + m) - ScaledSize(GrowGrade) = m
    BY <1>0, <1>2
  <2>4. WrittenBy(Size(s) + p * new, new) = p /\ WrittenAs(Size(s) + p * new, new) = 0
    BY <2>2, <2>3 DEF WrittenBy, WrittenAs
  <2>5. PICK v \in Nat : v = WrittenSlot(s, p, old, new)
    BY <1>4, <2>1
  <2>6. PICK w \in Nat : w = WrittenSlot(s, p + 1, old, new)
    BY <1>4, <2>1
  <2>7. PICK n \in Nat : n = 2^(new - 0)
    BY Powers
  <2>8. 2^0 = 1
    BY Powers
  <2>9. SlotRead(s, p, old, new) = v \div 2^0 + (w % 2^0) * n
    BY <2>4, <2>5, <2>6, <2>7 DEF SlotRead
  <2>10. v \div 1 = v /\ w % 1 = 0 /\ 0 * n = 0
    OBVIOUS
  <2>11. SlotRead(s, p, old, new) = v
    BY <2>8, <2>9, <2>10
  <2> QED BY <2>5, <2>11 DEF WrittenSlot
<1>7. {e \in Positions(s) : RunendRead(s, e, old, new)} = s.runends
  BY <1>0, <1>5
<1>8. [p \in DOMAIN s.slots |-> SlotRead(s, p, old, new)]
        = [p \in Positions(s) |-> ShrunkSlot(s.slots[p], old, new)]
  BY <1>3, <1>6
<1>9. Fields \subseteq DOMAIN s
  BY DEF Good
<1> QED BY <1>7, <1>8, <1>9 DEF ShrinkInfixStoreInfixSize, Fields

\* ShrinkInfixStoreInfixSize keeps a store of the fresh grade in shape when it masks no
\* run end away.
LEMMA ShrinkKeepsGood ==
    ASSUME NEW s, NEW old \in 1..InfixSize, Good(s, old), NEW new \in 1..InfixSize, new < old,
           s.size_grade = GrowGrade, (HeaderBits + TargetSize + Size(s)) % ByteBits # 0
    PROVE  Good(ShrinkInfixStoreInfixSize(s, old, new), new)
<1> DEFINE t == ShrinkInfixStoreInfixSize(s, old, new)
<1>1. s.slots \in [Positions(s) -> 0..(2^old - 1)]
  BY DEF Good
<1>2. /\ Fields \subseteq DOMAIN t
      /\ t.size_grade = s.size_grade /\ t.elem_count = s.elem_count
      /\ t.occupieds = s.occupieds /\ t.popcnts = s.popcnts
      /\ t.runends = s.runends
      /\ t.slots = [p \in Positions(s) |-> ShrunkSlot(s.slots[p], old, new)]
  BY ReadWhereWritten
<1> HIDE DEF t
<1>3. Size(t) = Size(s) /\ Positions(t) = Positions(s)
  BY <1>2 DEF Size, Positions
<1>4. \A p \in Positions(s) : /\ t.slots[p] \in 0..(2^new - 1)
                              /\ t.slots[p] # 0 <=> s.slots[p] # 0
  <2> SUFFICES ASSUME NEW p \in Positions(s)
               PROVE  t.slots[p] \in 0..(2^new - 1) /\ (t.slots[p] # 0 <=> s.slots[p] # 0)
    OBVIOUS
  <2>1. PICK v \in 0..(2^old - 1) : v = s.slots[p]
    BY <1>1
  <2>2. t.slots[p] = ShrunkSlot(v, old, new)
    BY <1>2, <2>1
  <2>3. ShrunkSlot(v, old, new) \in 0..(2^new - 1) /\ (ShrunkSlot(v, old, new) # 0 <=> v # 0)
    BY ShrunkIs
  <2> QED BY <2>1, <2>2, <2>3
<1>5. UsedSlots(t) = UsedSlots(s)
  BY <1>3, <1>4 DEF UsedSlots
<1>6. t.slots \in [Positions(t) -> 0..(2^new - 1)]
  <2>1. t.slots = [p \in Positions(s) |-> t.slots[p]]
    BY <1>2
  <2> QED BY <1>3, <1>4, <2>1
<1>7. 2^new \in Nat /\ 2^new > 0
  BY Powers
<1> QED BY <1>2, <1>3, <1>5, <1>6, <1>7 DEF Good, t

-----------------------------------------------------------------------------
(* The inductive invariant.                                                  *)

\* The inductive invariant.
InShape == infix_size \in 1..InfixSize /\ Good(store, infix_size)

\* A bulk load that leaves a slot to spare makes a store in shape.
LEMMA InitInShape == SpareSlot /\ Init => InShape
<1> SUFFICES ASSUME SpareSlot, Init PROVE InShape
  OBVIOUS
<1>1. infix_size = InfixSize /\ InfixSize \in 1..InfixSize
  BY PartsAssumption DEF Init, WordBits
<1>2. PICK list \in InitialLists : \E grade \in LoadGrades(Len(list)) :
          store = LoadListToInfixStore(list, Len(list), grade, TotalImplicit, InfixSize)
  BY DEF Init
<1>3. PICK grade \in LoadGrades(Len(list)) :
          store = LoadListToInfixStore(list, Len(list), grade, TotalImplicit, InfixSize)
  BY <1>2
<1>4. PICK n : n = Len(list)
  OBVIOUS
<1>5. n < ScaledSize(grade)
  BY <1>4 DEF SpareSlot
<1>6. grade \in Grades
  BY LoadGradesFit
<1>7. /\ list \in Seq(InfixesOf(InfixSize))
      /\ \A j, k \in DOMAIN list :
            j <= k => Implicit(list[j], InfixSize) <= Implicit(list[k], InfixSize)
  BY ListsAssumption
<1>8. n \in Nat /\ DOMAIN list = 1..n /\ \A j \in 1..n : list[j] \in InfixesOf(InfixSize)
  BY <1>4, <1>7
<1>9. ASSUME NEW j \in 1..n
      PROVE  /\ Implicit(list[j], InfixSize) \in Parts
             /\ Slotted(Explicit(list[j], InfixSize), InfixSize)
  <2>1. PICK key : key = list[j]
    OBVIOUS
  <2>2. key \in 0..(TotalImplicit * 2^InfixSize - 1) /\ key % 2^InfixSize # 0
    BY <1>8, <2>1 DEF InfixesOf
  <2> QED BY <1>1, <2>1, <2>2, InfixParts
<1>10. Listed(list, n, InfixSize)
  BY <1>4, <1>7, <1>8, <1>9 DEF Listed
<1>11. 2^InfixSize \in Nat /\ 2^InfixSize > 0
  BY <1>1, Powers
<1>12. store = LoadListToInfixStore(list, n, grade, TotalImplicit, InfixSize)
  BY <1>3, <1>4
<1>13. Good(store, InfixSize)
  BY <1>5, <1>6, <1>10, <1>11, <1>12, LoadedGood
<1> QED BY <1>1, <1>13 DEF InShape

\* Every step keeps the store in shape: InShape is inductive.
LEMMA NextInShape == KeepsRunends /\ InShape /\ [SettledNext]_vars => InShape'
<1> SUFFICES ASSUME KeepsRunends, InShape, [SettledNext]_vars PROVE InShape'
  OBVIOUS
<1> USE DEF InShape
<1>1. ASSUME NEW key \in InsertedInfixes(infix_size), Insert(key) PROVE InShape'
  <2>1. Good(InsertRawIntoInfixStore(store, key, TotalImplicit, infix_size), infix_size)
    BY <1>1, InsertKeepsGood DEF Insert
  <2>2. Good(store', infix_size')
    BY <1>1, <2>1 DEF Insert
  <2> QED BY <1>1, <2>2 DEF Insert
<1>2. ASSUME NEW key \in InsertedInfixes(infix_size), DeleteUnlessSettled(key) PROVE InShape'
  <2>1. ~SettledRunMoves(FitFor(store, TotalImplicit, infix_size),
                         RunEndOf(FitFor(store, TotalImplicit, infix_size),
                                  Implicit(key, infix_size)))
    BY <1>2 DEF DeleteUnlessSettled, MovesSettledRun
  <2>2. Good(DeleteRawFromInfixStore(store, key, TotalImplicit, infix_size), infix_size)
    BY <1>2, <2>1, DeleteKeepsGood DEF DeleteUnlessSettled, Delete
  <2>3. Good(store', infix_size')
    BY <1>2, <2>2 DEF DeleteUnlessSettled, Delete
  <2> QED BY <1>2, <2>3 DEF DeleteUnlessSettled, Delete
<1>3. ASSUME NEW new_size \in ShrinkSizes, ShrinkFresh(new_size) PROVE InShape'
  <2>1. new_size \in 1..InfixSize
    BY ListsAssumption
  <2>2. store.size_grade = GrowGrade /\ Shrink(new_size)
    BY <1>3 DEF ShrinkFresh
  <2>3. (HeaderBits + TargetSize + Size(store)) % ByteBits # 0
    BY <2>2 DEF KeepsRunends, Size
  <2>4. Good(ShrinkInfixStoreInfixSize(store, infix_size, new_size), new_size)
    BY <2>1, <2>2, <2>3, ShrinkKeepsGood DEF Shrink
  <2> QED BY <2>1, <2>2, <2>4 DEF Shrink
<1>4. CASE UNCHANGED vars
  BY <1>4 DEF vars, Good, Fields, Size, Positions, UsedSlots
<1> QED BY <1>1, <1>2, <1>3, <1>4 DEF SettledNext

\* A store in shape is well formed, and its cached counts are right.
LEMMA GoodWellFormed == InShape => WellFormed /\ PopcntsAccurate
<1> SUFFICES ASSUME InShape PROVE WellFormed /\ PopcntsAccurate
  OBVIOUS
<1>1. infix_size \in 1..InfixSize /\ Good(store, infix_size)
  BY DEF InShape
<1>2. /\ Size(store) \in Nat /\ store.elem_count \in Nat
      /\ \A e \in store.runends : e \in Nat /\ e < Size(store)
      /\ \A o \in store.occupieds : o \in Nat /\ o < TargetSize /\ o \in Parts
  BY <1>1, GoodFacts
<1>3. TypeOK
  <2>1. store.occupieds \subseteq 0..(TargetSize - 1)
    BY <1>2 DEF Parts
  <2>2. store.runends \subseteq Positions(store)
    BY <1>2 DEF Positions
  <2> QED BY <1>1, <1>2, <2>1, <2>2 DEF TypeOK, Good
<1>4. RunsPaired
  <2>1. Below(store.occupieds, TargetSize) = Below(store.runends, Size(store))
    BY <1>1, GoodCounts
  <2>2. Below(store.runends, Size(store)) = Cardinality(store.runends)
    BY <1>2, BelowAll
  <2>3. Below(store.occupieds, TargetSize) = Cardinality(store.occupieds)
    BY <1>2, SizesAssumption, BelowAll
  <2> QED BY <1>1, <2>1, <2>2, <2>3 DEF RunsPaired, Good
<1>5. PopcntsAccurate
  BY <1>1 DEF PopcntsAccurate, Good, Below
<1> QED BY <1>3, <1>4, <1>5 DEF WellFormed

\* So every store that can be reached is in shape.
LEMMA SettledInShape == SpareSlot /\ KeepsRunends => (SettledSpec => []InShape)
<1> SUFFICES ASSUME SpareSlot, KeepsRunends PROVE SettledSpec => []InShape
  OBVIOUS
<1>1. Init => InShape
  BY InitInShape
<1>2. InShape /\ [SettledNext]_vars => InShape'
  BY NextInShape
<1> QED BY <1>1, <1>2, PTL DEF SettledSpec

\* Insertions, deletions, resizes and shrinks (diva.hpp) keep the shape of a store,
\* for every table of grades, every target size and infix size, and every list it is
\* loaded from: as many runs end as parts are occupied, only used slots end a run,
\* the count is the number of used slots.  SpareSlot, KeepsRunends and the steps that
\* SettledSpec leaves out are needed: the README says what goes wrong without them.
THEOREM WellFormedTheorem == SpareSlot /\ KeepsRunends => (SettledSpec => []WellFormed)
BY SettledInShape, GoodWellFormed, PTL

\* popcnts, which an operation adjusts by the run ends that cross the half and never
\* counts again, stay the counts of the lower halves of the two bitmaps.
THEOREM PopcntsTheorem == SpareSlot /\ KeepsRunends => (SettledSpec => []PopcntsAccurate)
BY SettledInShape, GoodWellFormed, PTL
=============================================================================
