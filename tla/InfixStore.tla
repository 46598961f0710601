----------------------------- MODULE InfixStore -----------------------------
(* One infix store of Diva (src/include/diva.hpp): a quotient filter whose    *)
(* runs hold the explicit parts of the infixes between two neighbouring       *)
(* boundary keys.  A store is a record of what the C++ keeps behind           *)
(* InfixStore::status and InfixStore::ptr:                                    *)
(*   elem_count, size_grade   the two counters of the status word             *)
(*   popcnts                  how many occupieds (0) and runends (1) lie in   *)
(*                            the lower half of the target size               *)
(*   occupieds, runends       the bitmaps, as the sets of positions that are 1*)
(*   slots                    the explicit parts, 0 in an empty slot          *)
(* The operators follow the member functions of the same names.               *)
EXTENDS Infix, SizeGrades, Sequences, SequencesExt, FiniteSetsExt, Functions, Bags

CONSTANTS
    InfixSize,             \* the initial infix_size_
    TotalImplicit,         \* total_implicit of the two boundary keys
    MaxElems               \* bound: insertions stop at this many elements

VARIABLES store, infix_size

vars == <<store, infix_size>>

Half == TargetSize \div 2

\* implicit_scalars_[total_implicit - target / 2].
ImplicitScalar(total_implicit) == (TargetSize * 2^ScaleShift) \div total_implicit

Size(s) == ScaledSize(s.size_grade)
Positions(s) == 0..(Size(s) - 1)

\* The implicit parts of a store fit its occupieds bitmap, infixes fit a word,
\* and the powers of two behave: what the provers do not know of them.
ASSUME PartsAssumption ==
    /\ TotalImplicit \in 1..TargetSize
    /\ InfixSize \in 1..(WordBits - 1)
    /\ 2^(2 * ScaleShift) \in Nat /\ 2^(2 * ScaleShift) > 0
    /\ \A k \in 0..InfixSize : 2^k \in Nat /\ 2^k > 0 /\ 2^(k + 1) = 2 * 2^k

\* No store takes more elements than the last grade but one has slots for.
ASSUME BoundAssumption ==
    MaxElems \in Nat /\ MaxElems <= ScaledSize(SizeScalarCount - 2)

GetMappedPos(implicit, grade, total_implicit) ==
    Min({ScaledSize(grade) - 1,
         (implicit * SizeScalars[grade] * ImplicitScalar(total_implicit))
             \div 2^(2 * ScaleShift)})

-----------------------------------------------------------------------------
(* Rank, select and the four scans over the bitmaps.                         *)

\* The k-th smallest member of S, counted from 0; `none' when S is too small.
KthOf(S, k, none) ==
    IF k < Cardinality(S)
    THEN CHOOSE x \in S : Cardinality({y \in S : y < x}) = k
    ELSE none

\* The members of a set of integers in ascending order.
Ascending(S) == [k \in 1..Cardinality(S) |-> KthOf(S, k - 1, 0)]

RankOccupieds(s, pos) ==
    IF Half <= pos
    THEN s.popcnts[0] + Cardinality({o \in s.occupieds : Half <= o /\ o < pos})
    ELSE Cardinality({o \in s.occupieds : o < pos})

SelectRunends(s, rank) ==
    IF s.popcnts[1] <= rank
    THEN KthOf({e \in s.runends : Half <= e}, rank - s.popcnts[1], Size(s))
    ELSE KthOf(s.runends, rank, Size(s))

\* The last slot of the run of an implicit part.
RunEndOf(s, implicit) == SelectRunends(s, RankOccupieds(s, implicit))

NextOccupied(s, pos)     == Min({o \in s.occupieds : pos < o} \cup {TargetSize})
NextRunend(s, pos)       == Min({e \in s.runends : pos < e} \cup {Size(s)})
PreviousRunend(s, pos)   == Max({e \in s.runends : e < pos} \cup {-1})

\* Both searches hop from run end to run end and look only at the slot after
\* each, so what they return is exact only for a position inside a run.
FindEmptySlotAfter(s, pos) ==
    LET stops == {e \in {pos} \cup {r \in s.runends : pos < r} :
                     e + 1 >= Size(s) \/ s.slots[e + 1] = 0}
    IN  IF stops = {} THEN Size(s) ELSE Min(stops) + 1

FindEmptySlotBefore(s, pos) ==
    LET before == {e \in s.runends : e < pos}
        stop == Max({e \in before : s.slots[e + 1] = 0} \cup {-1})
        last == Min({e \in before : stop < e} \cup {pos})
    IN  Max({p \in (stop + 1)..(last - 1) : s.slots[p] = 0} \cup {stop})

-----------------------------------------------------------------------------
(* Shifts by one place: [l, r) moves to the right or to the left, and the    *)
(* place it leaves is cleared (also when the range is empty).                *)

ShiftSlotsRight(slots, l, r) ==
    [p \in DOMAIN slots |-> IF p = l THEN 0
                            ELSE IF l < p /\ p <= r THEN slots[p - 1] ELSE slots[p]]

ShiftSlotsLeft(slots, l, r) ==
    [p \in DOMAIN slots |-> IF p = r - 1 THEN 0
                            ELSE IF l - 1 <= p /\ p < r - 1 THEN slots[p + 1] ELSE slots[p]]

ShiftRunendsRight(runends, l, r) ==
    {e \in runends : e # l /\ e \notin l..r} \cup {e + 1 : e \in runends \cap l..(r - 1)}

ShiftRunendsLeft(runends, l, r) ==
    {e \in runends : e # r - 1 /\ e \notin (l - 1)..(r - 1)}
        \cup {e - 1 : e \in runends \cap l..(r - 1)}

Bit(cond) == IF cond THEN 1 ELSE 0

-----------------------------------------------------------------------------
(* Between a store and the sorted list of its infixes.                       *)

\* The run a run end closes, counting run ends and occupieds in parallel.
OccupiedOf(s, e) ==
    KthOf(s.occupieds, Cardinality({r \in s.runends : r < e}), TargetSize)

UsedSlots(s) == {p \in Positions(s) : s.slots[p] # 0}

\* GetInfixList: the used slots in order, each under the occupied bit that its
\* rank among the run ends names.
GetInfixList(s, size) ==
    LET used == Ascending(UsedSlots(s))
    IN  [j \in DOMAIN used |-> OccupiedOf(s, used[j]) * 2^size + s.slots[used[j]]]

\* Mutated: nothing is pushed left from the end of the store.
Layout_NoPush(list, grade, total_implicit, size) ==
    [j \in DOMAIN list |->
        Max({GetMappedPos(Implicit(list[i], size), grade, total_implicit) + (j - i) : i \in 1..j})]

\* The slot of each infix of a list, as the two loops of LoadListToInfixStore
\* lay its runs out: as near to its mapped position as those before it allow,
\* and as far to the left as those after it need to fit behind it.
Layout(list, grade, total_implicit, size) ==
    LET mapped(i) == GetMappedPos(Implicit(list[i], size), grade, total_implicit)
        pushed(j) == Max({mapped(i) + (j - i) : i \in 1..j})
        latest(j) == ScaledSize(grade) - 1 - (Len(list) - j)
    IN  [j \in DOMAIN list |-> Min({pushed(j), latest(j)})]

\* The infixes of a list that end a run.
Lasts(list, size) ==
    {j \in DOMAIN list : j = Len(list) \/ Implicit(list[j + 1], size) # Implicit(list[j], size)}

\* A list written out along its layout.  list_len becomes the element count
\* whatever the length of the list is: the code allots list_len places and
\* trusts its caller to have filled them.
Written(list, list_len, grade, size, place) ==
    LET at(p)     == {j \in DOMAIN list : place[j] = p}
        occupieds == {Implicit(list[j], size) : j \in DOMAIN list}
        runends   == {place[j] : j \in Lasts(list, size)}
    IN  [elem_count |-> list_len,
         size_grade |-> grade,
         occupieds  |-> occupieds,
         runends    |-> runends,
         slots      |-> [p \in 0..(ScaledSize(grade) - 1) |->
                            IF at(p) = {} THEN 0
                            ELSE Explicit(list[CHOOSE j \in at(p) : TRUE], size)],
         popcnts    |-> [h \in {0, 1} |->
                            Cardinality({x \in IF h = 0 THEN occupieds ELSE runends : x < Half})]]

LoadListToInfixStore(list, list_len, grade, total_implicit, size) ==
    Written(list, list_len, grade, size, Layout(list, grade, total_implicit, size))

ResizeInfixStore(s, delta, total_implicit, size) ==
    LoadListToInfixStore(GetInfixList(s, size), s.elem_count, s.size_grade + delta,
                         total_implicit, size)

-----------------------------------------------------------------------------
(* InsertRawIntoInfixStore, by its three cases.                              *)

\* Mutated: the run end is counted by the half its implicit part lies in.
InsertAtMappedPos_Half(s, implicit, explicit, mapped) ==
    [s EXCEPT !.slots[mapped] = explicit,
              !.runends = @ \cup {mapped},
              !.popcnts = [h \in {0, 1} |-> @[h] + Bit(implicit < Half)]]

\* A new run in its own, empty slot.
InsertAtMappedPos(s, implicit, explicit, mapped) ==
    [s EXCEPT !.slots[mapped] = explicit,
              !.runends = @ \cup {mapped},
              !.popcnts = [h \in {0, 1} |->
                  @[h] + Bit(IF h = 0 THEN implicit < Half ELSE mapped < Half)]]

\* The slot after the last infix of the run that starts no later.
PlaceInRun_Front(s, l, runend, explicit) == l + 1     \* mutated: always first
PlaceInRun(s, l, runend, explicit) ==
    1 + Max({p \in (l + 1)..runend : Start(s.slots[p]) < explicit} \cup {l})

\* Into a run that exists, at r, from the right or from the left.
ShiftIntoRun(s, explicit, runend, next_empty, prev_empty, r) ==
    IF next_empty < Size(s)
    THEN LET runends == ShiftRunendsRight(s.runends, runend, next_empty)
         IN  [s EXCEPT !.slots = [ShiftSlotsRight(@, r, next_empty) EXCEPT ![r] = explicit],
                       !.runends = runends,
                       !.popcnts[1] = @ - Bit(/\ runend < Half /\ Half <= next_empty
                                              /\ Half \in runends)]
    ELSE LET moved == Min({runend, r})
         IN  [s EXCEPT !.slots = [ShiftSlotsLeft(@, prev_empty + 1, r) EXCEPT ![r - 1] = explicit],
                       !.runends = ShiftRunendsLeft(@, prev_empty + 1, moved),
                       !.popcnts[1] = @ + Bit(/\ prev_empty + 1 <= Half /\ Half < moved
                                              /\ Half \in s.runends)]

InsertIntoRun(s, implicit, explicit, mapped) ==
    LET runend     == RunEndOf(s, implicit)
        prev_empty == FindEmptySlotBefore(s, mapped)
        l          == Max({PreviousRunend(s, runend), prev_empty})
    IN  ShiftIntoRun(s, explicit, runend, FindEmptySlotAfter(s, mapped), prev_empty,
                     PlaceInRun(s, l, runend, explicit))

\* A new run whose own slot is taken: after the run of the previous occupied,
\* which ends at runend.
ShiftNewRunIn(s, explicit, mapped, runend, next_empty, prev_empty) ==
    IF next_empty < Size(s)
    THEN LET start   == Max({runend + 1, mapped})
             runends == ShiftRunendsRight(s.runends, start, next_empty)
         IN  [s EXCEPT !.slots = [ShiftSlotsRight(@, start, next_empty) EXCEPT ![start] = explicit],
                       !.runends = runends \cup {start},
                       !.popcnts[1] = @ + Bit(start < Half)
                           - Bit(start < Half /\ Half <= next_empty /\ Half \in runends)]
    ELSE LET target == Max({runend, prev_empty})
         IN  [s EXCEPT !.slots = [ShiftSlotsLeft(@, prev_empty + 1, target + 1)
                                      EXCEPT ![target] = explicit],
                       !.runends = ShiftRunendsLeft(@, prev_empty + 1, target + 1) \cup {target},
                       !.popcnts[1] = @ + Bit(target < Half)
                           + Bit(/\ prev_empty + 1 <= Half /\ Half < target + 1
                                 /\ Half \in s.runends)]

InsertNewRun(s, implicit, explicit, mapped) ==
    LET rank == RankOccupieds(s, implicit)
        placed == ShiftNewRunIn(s, explicit, mapped,
                                IF rank = 0 THEN -1 ELSE SelectRunends(s, rank - 1),
                                FindEmptySlotAfter(s, mapped), FindEmptySlotBefore(s, mapped))
    IN  [placed EXCEPT !.popcnts[0] = @ + Bit(implicit < Half)]

\* Mutated: the smallest grade never expands.
RoomFor_NotSmallest(st, total_implicit, size) ==
    IF st.size_grade > 0 /\ st.elem_count >= ExpandAt(st.size_grade)
    THEN ResizeInfixStore(st, 1, total_implicit, size) ELSE st

\* The store an insertion works on: expanded first when it is nearly full.
RoomFor(st, total_implicit, size) ==
    IF st.elem_count >= ExpandAt(st.size_grade)
    THEN ResizeInfixStore(st, 1, total_implicit, size) ELSE st

Placed(s, implicit, explicit, mapped) ==
    IF implicit \in s.occupieds THEN InsertIntoRun(s, implicit, explicit, mapped)
    ELSE IF s.slots[mapped] = 0 THEN InsertAtMappedPos(s, implicit, explicit, mapped)
    ELSE InsertNewRun(s, implicit, explicit, mapped)

\* The insertion proper, into a store with room.
InsertInto(s, implicit, explicit, total_implicit) ==
    LET placed == Placed(s, implicit, explicit,
                         GetMappedPos(implicit, s.size_grade, total_implicit))
    IN  [placed EXCEPT !.occupieds = @ \cup {implicit}, !.elem_count = @ + 1]

InsertRawIntoInfixStore(st, key, total_implicit, size) ==
    InsertInto(RoomFor(st, total_implicit, size), Implicit(key, size), Explicit(key, size),
               total_implicit)

-----------------------------------------------------------------------------
(* DeleteRawFromInfixStore.                                                  *)

RunStart(s, implicit, runend) ==
    LET rank == RankOccupieds(s, implicit)
    IN  1 + Max({IF rank > 0 THEN SelectRunends(s, rank - 1) ELSE -1,
                 FindEmptySlotBefore(s, runend)})

\* Mutated: the first prefix of the key in place of the last.
LastMatch_First(s, key, runstart, runend, size) ==
    LET matches == {p \in runstart..runend : Covers(s.slots[p], Explicit(key, size))}
    IN  IF matches = {} THEN runstart - 1 ELSE Min(matches)

\* The last slot of a run that may start no later than key and holds a prefix
\* of it.  The code compares the slot with the whole key, implicit part
\* included, so the search narrows the scan only in run 0.  runstart - 1: none.
LastMatch(s, key, runstart, runend, size) ==
    Max({p \in runstart..runend : /\ Start(s.slots[p]) < key
                                  /\ Covers(s.slots[p], Explicit(key, size))}
        \cup {runstart - 1})

\* The first loop of the deletion.  The cluster to the right of the run ends
\* at an empty slot (`found') or at the end of the store; the left shift stops
\* before the first run that sits at or before its mapped position.
RightOfRun(s, runend, total_implicit) ==
    LET ends  == {e \in s.runends : runend <= e}
        gaps  == {e \in ends : e + 1 < Size(s) /\ s.slots[e + 1] = 0}
        last  == IF gaps # {} THEN Min(gaps) ELSE Max(ends)
        stops == {e \in ends : /\ e < last
                               /\ GetMappedPos(OccupiedOf(s, NextRunend(s, e)),
                                               s.size_grade, total_implicit) >= e + 1}
    IN  [found |-> gaps # {}, shift_end |-> Min(stops \cup {last})]

\* The second loop: where to start a right shift that brings runs pushed left
\* of their mapped position back towards it, -1 when no run wants it.  In the
\* first run of the store the code takes the empty slot before it for its
\* start, and a comparison with an unsigned number skips it when there is none.
ShiftStart(s, runend, total_implicit) ==
    LET mapped(e) == GetMappedPos(OccupiedOf(s, e), s.size_grade, total_implicit)
        first == Max({e \in s.runends :
                        /\ e <= runend
                        /\ LET prev == PreviousRunend(s, e)
                           IN  prev < 0 \/ s.slots[prev + 1] = 0})
        inner == {e \in s.runends : /\ first < e /\ e <= runend
                                    /\ mapped(e) > PreviousRunend(s, e) + 1}
        gap   == FindEmptySlotBefore(s, runend)
        start == FindEmptySlotBefore(s, first) + 1
        outer == IF PreviousRunend(s, first) >= 0
                 THEN {p \in {start} : mapped(first) > p}
                 ELSE {p \in {gap} : 0 <= p /\ p < mapped(first)}
        starts == outer \cup {PreviousRunend(s, e) + 1 : e \in inner}
    IN  IF starts = {} THEN -1 ELSE Min(starts)

\* Mutated: the end of a run that is gone stays where it was.
DeleteShiftingLeft_Stale(s, match, shift_end, runend, destroyed) ==
    [s EXCEPT
       !.slots = ShiftSlotsLeft(@, match + 1, shift_end + 1),
       !.runends = ShiftRunendsLeft(@, match + 1, shift_end + 1)
                       \cup (IF destroyed THEN {match} ELSE {runend - 1})]

\* Close the hole at match from the right ...
DeleteShiftingLeft(s, match, shift_end, runend, destroyed) ==
    LET runends == ShiftRunendsLeft(s.runends, match + 1, shift_end + 1)
                       \ (IF match = shift_end THEN {match} ELSE {})
    IN  [s EXCEPT
           !.slots = ShiftSlotsLeft(@, match + 1, shift_end + 1),
           !.runends = IF destroyed THEN runends ELSE runends \cup {runend - 1},
           !.popcnts[1] = @ + Bit(/\ match <= Half /\ Half < shift_end + 1
                                  /\ Half \in s.runends)
                            - Bit(destroyed /\ runend <= Half)]

\* ... or from the left.
DeleteShiftingRight(s, match, shift_start, runend, destroyed) ==
    LET runends == ShiftRunendsRight(s.runends, shift_start, match)
                       \ (IF match = shift_start /\ destroyed THEN {runend} ELSE {})
    IN  [s EXCEPT
           !.slots = ShiftSlotsRight(@, shift_start, match),
           !.runends = IF destroyed THEN runends ELSE runends \cup {runend},
           !.popcnts[1] = @ - Bit(/\ shift_start < Half /\ Half <= match
                                  /\ Half \in runends)
                            - Bit(destroyed /\ runend < Half)]

\* The store a deletion works on: shrunk first when a smaller grade will do.
FitFor(st, total_implicit, size) ==
    IF st.size_grade > 0 /\ st.elem_count <= ShrinkAt(st.size_grade)
    THEN ResizeInfixStore(st, -1, total_implicit, size) ELSE st

Closed(s, match, runend, destroyed, right, start) ==
    IF start = -1
    THEN DeleteShiftingLeft(s, match, right.shift_end, runend, destroyed)
    ELSE DeleteShiftingRight(s, match, start, runend, destroyed)

ChosenStart(s, runend, right, total_implicit) ==
    IF right.found THEN -1 ELSE ShiftStart(s, runend, total_implicit)

\* The deletion proper, from the run [runstart, runend] of implicit.
DeleteFrom(s, implicit, match, runstart, runend, total_implicit) ==
    LET destroyed == runstart = runend
        right     == RightOfRun(s, runend, total_implicit)
        closed    == Closed(s, match, runend, destroyed, right,
                            ChosenStart(s, runend, right, total_implicit))
    IN  [closed EXCEPT
           !.occupieds = IF destroyed THEN @ \ {implicit} ELSE @,
           !.popcnts[0] = @ - Bit(destroyed /\ implicit < Half),
           !.elem_count = @ - 1]

DeleteKey(s, key, total_implicit, size) ==
    LET implicit == Implicit(key, size)
        runend   == RunEndOf(s, implicit)
        runstart == RunStart(s, implicit, runend)
    IN  DeleteFrom(s, implicit, LastMatch(s, key, runstart, runend, size), runstart, runend,
                   total_implicit)

DeleteRawFromInfixStore(st, key, total_implicit, size) ==
    DeleteKey(FitFor(st, total_implicit, size), key, total_implicit, size)

-----------------------------------------------------------------------------
(* ShrinkInfixStoreInfixSize.  The bitmaps are copied byte by byte, and the  *)
(* last byte, which holds run ends, is masked with BITMASK(bits % 8): nothing *)
(* of it is left when bits % 8 = 0.  The slots are written with the grade of  *)
(* the copy, GrowGrade, and read with that of the store: where the two have   *)
(* different sizes, slots land on other bits than those they are read from.   *)

HeaderBits == 64
ByteBits == 8

CopiedRunends(s) ==
    LET bits == HeaderBits + TargetSize + Size(s)
    IN  IF bits % ByteBits = 0
        THEN {e \in s.runends : HeaderBits + TargetSize + e < bits - ByteBits}
        ELSE s.runends

\* What the loop writes to the q-th slot of the copy; a slot that is empty, or
\* that the store has not, stays as it is.
WrittenSlot(s, q, old_size, new_size) ==
    IF q \in Positions(s) THEN ShrunkSlot(s.slots[q], old_size, new_size) ELSE 0

\* A bit of the copy, counted from the run ends on, as a bit of a slot: which
\* slot of the copy it is written with, and which bit of that slot.
WrittenBy(bit, new_size) == (bit - ScaledSize(GrowGrade)) \div new_size
WrittenAs(bit, new_size) == (bit - ScaledSize(GrowGrade)) % new_size

RunendRead(s, e, old_size, new_size) ==
    LET slot == WrittenSlot(s, WrittenBy(e, new_size), old_size, new_size)
    IN  IF slot = 0 THEN e \in CopiedRunends(s)
        ELSE (slot \div 2^WrittenAs(e, new_size)) % 2 = 1

\* The end of one slot that was written and the beginning of the next.
SlotRead(s, p, old_size, new_size) ==
    LET first == Size(s) + p * new_size
        q     == WrittenBy(first, new_size)
        cut   == WrittenAs(first, new_size)
    IN  WrittenSlot(s, q, old_size, new_size) \div 2^cut
            + (WrittenSlot(s, q + 1, old_size, new_size) % 2^cut) * 2^(new_size - cut)

ShrinkInfixStoreInfixSize(s, old_size, new_size) ==
    [s EXCEPT !.runends = {e \in Positions(s) : RunendRead(s, e, old_size, new_size)},
              !.slots = [p \in DOMAIN @ |-> SlotRead(s, p, old_size, new_size)]]

-----------------------------------------------------------------------------
(* The queries.                                                              *)

\* Mutated: the scan goes on into the run before.
Scanned_PastRun(s, runend) ==
    (Max({p \in 0..(runend - 1) : s.slots[p] = 0} \cup {-1}) + 1)..runend

\* The slots a query scans from a run end leftwards: until an empty slot, the
\* next run end or the start of the store.
Scanned(s, runend) ==
    (Max({p \in 0..(runend - 1) : s.slots[p] = 0 \/ p \in s.runends} \cup {-1}) + 1)..runend

RunScanned(s, implicit) == Scanned(s, RunEndOf(s, implicit))

PointQueryInfixStore(s, key, size) ==
    /\ Implicit(key, size) \in s.occupieds
    /\ \E p \in RunScanned(s, Implicit(key, size)) :
          Covers(s.slots[p], Explicit(key, size))

RangeQueryInfixStore(s, l_key, r_key, size) ==
    LET l == Implicit(l_key, size)
        r == Implicit(r_key, size)
    IN  IF l < r
        THEN \/ NextOccupied(s, l) < r
             \/ /\ r \in s.occupieds
                /\ Start(s.slots[RunStart(s, r, RunEndOf(s, r))]) <= Explicit(r_key, size)
             \/ /\ l \in s.occupieds
                /\ \E p \in RunScanned(s, l) : Explicit(l_key, size) <= End(s.slots[p])
        ELSE /\ l \in s.occupieds
             /\ \E p \in RunScanned(s, l) : /\ Explicit(l_key, size) <= End(s.slots[p])
                                            /\ Start(s.slots[p]) <= Explicit(r_key, size)

\* GetLongestMatchingInfixSize: the explicit bits down to the mark.
GetLongestMatchingInfixSize(s, key, size) ==
    LET implicit == Implicit(key, size)
        runend   == RunEndOf(s, implicit)
        runstart == RunStart(s, implicit, runend)
        match    == LastMatch(s, key, runstart, runend, size)
    IN  IF implicit \in s.occupieds /\ match >= runstart
        THEN size - LowBitPos(s.slots[match]) ELSE 0

-----------------------------------------------------------------------------
(* The life of one store while its boundary keys stay put.                   *)

InfixesOf(size) == {k \in 0..(TotalImplicit * 2^size - 1) : k % 2^size # 0}
InsertedInfixes(size) == {k \in 0..(TotalImplicit * 2^size - 1) : k % 2 = 1}

\* The grades a list may be loaded at: a fresh store of the growing part, the
\* last batch of a bulk load, a split or a merge.
LoadGrades(len) == {LastBatchGrade(len), AllocGrade(len)}
                       \cup {g \in {GrowGrade} : len \in {0, TargetSize - 1}}

CONSTANTS
    InitialLists,          \* bound: the lists a store starts with
    ShrinkSizes            \* bound: the infix sizes a caller shrinks to

\* A list holds infixes in the order of their parts, those of one part as a run
\* holds them, and some grade is large enough for it, slack included; a shrunk
\* infix keeps a bit.
ASSUME ListsAssumption ==
    /\ ShrinkSizes \subseteq 1..InfixSize
    /\ \A list \in InitialLists :
        /\ list \in Seq(InfixesOf(InfixSize))
        /\ \A j, k \in DOMAIN list :
              j <= k => Implicit(list[j], InfixSize) <= Implicit(list[k], InfixSize)
        /\ \A j, k \in DOMAIN list :
              j <= k /\ Implicit(list[j], InfixSize) = Implicit(list[k], InfixSize)
                     => ListBefore(Explicit(list[j], InfixSize), Explicit(list[k], InfixSize))
        /\ \E g \in Grades :
              ScaledSize(g) >= (SizeScalars[GrowGrade] * Len(list)) \div 2^ScaleShift

Init == /\ infix_size = InfixSize
        /\ \E list \in InitialLists : \E grade \in LoadGrades(Len(list)) :
              store = LoadListToInfixStore(list, Len(list), grade, TotalImplicit, InfixSize)

Insert(key) ==
    /\ store.elem_count < MaxElems
    /\ store' = InsertRawIntoInfixStore(store, key, TotalImplicit, infix_size)
    /\ UNCHANGED infix_size

\* Only keys that were inserted may be deleted, so a prefix is there.
Delete(key) ==
    /\ PointQueryInfixStore(store, key, infix_size)
    /\ store' = DeleteRawFromInfixStore(store, key, TotalImplicit, infix_size)
    /\ UNCHANGED infix_size

Shrink(new_size) ==
    /\ new_size < infix_size
    /\ store' = ShrinkInfixStoreInfixSize(store, infix_size, new_size)
    /\ infix_size' = new_size

Next == \/ \E key \in InsertedInfixes(infix_size) : Insert(key) \/ Delete(key)
        \/ \E new_size \in ShrinkSizes : Shrink(new_size)

Spec == Init /\ [][Next]_vars

-----------------------------------------------------------------------------
(* Properties.                                                               *)

\* The shape of a store: bitmaps and slots lie within the size of its grade, an
\* explicit part within the infix size.
TypeOK ==
    /\ infix_size \in 1..InfixSize
    /\ store.size_grade \in Grades
    /\ store.elem_count \in Nat
    /\ store.popcnts \in [{0, 1} -> Nat]
    /\ store.occupieds \subseteq 0..(TargetSize - 1)
    /\ store.runends \subseteq Positions(store)
    /\ store.slots \in [Positions(store) -> 0..(2^infix_size - 1)]

\* The two cached counts rank and select start from are those of the bitmaps,
\* through every shift across the middle of the store.
PopcntsAccurate ==
    /\ store.popcnts[0] = Cardinality({o \in store.occupieds : o < Half})
    /\ store.popcnts[1] = Cardinality({e \in store.runends : e < Half})

\* Run ends and occupied bits pair up, and every slot in use is counted.
RunsPaired == /\ Cardinality(store.runends) = Cardinality(store.occupieds)
              /\ store.elem_count = Cardinality(UsedSlots(store))

Bag == ToBag(GetInfixList(store, infix_size))
Abstract == INSTANCE InfixBag WITH bag <- Bag, infix_size <- infix_size

\* Every insertion adds its infix, every deletion takes out one longest prefix
\* of its key, every shrink shortens each infix, and nothing else changes what
\* the store holds - expansions, shifts and shrinking resizes included.
ImplementsBag == Abstract!BagSpec

\* Point and range queries over the bitmaps and slots answer exactly what the
\* stored prefixes say: no false negative, no positive without a prefix.
QueriesExact ==
    LET keys == 0..(TotalImplicit * 2^infix_size - 1)
        held == Range(GetInfixList(store, infix_size))
    IN  /\ \A k \in keys :
              PointQueryInfixStore(store, k, infix_size) <=> PointAnswer(held, k)
        /\ \A l, r \in {k \in keys : k % 2 = 1} :
              l <= r => (RangeQueryInfixStore(store, l, r, infix_size) <=> RangeAnswer(held, l, r))

\* The length a deletion compares with a partial boundary key is that of the
\* longest stored prefix of the deleted key.
LongestMatchExact ==
    LET held == Range(GetInfixList(store, infix_size))
    IN  \A k \in InsertedInfixes(infix_size) :
           GetLongestMatchingInfixSize(store, k, infix_size)
             = Max({infix_size - LowBitPos(v) : v \in {u \in held : Covers(u, k)}} \cup {0})

\* A deletion takes out one copy of the longest stored prefix of its own key.
DeleteExact ==
    LET before == Bag
    IN  \A k \in InsertedInfixes(infix_size) :
           PointQueryInfixStore(store, k, infix_size) =>
               ToBag(GetInfixList(DeleteRawFromInfixStore(store, k, TotalImplicit, infix_size),
                                  infix_size))
                 = before (-) SetToBag(Abstract!Longest(DOMAIN before, k))

\* The thresholds of the two resizes leave a slot for every element, and one
\* more whenever an insertion comes to look for an empty slot: the search has
\* no answer for a full store.
RoomInvariant ==
    LET s == RoomFor(store, TotalImplicit, infix_size)
    IN  /\ store.elem_count <= Size(store)
        /\ store.elem_count < MaxElems => s.elem_count < Size(s)
=============================================================================
