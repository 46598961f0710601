---------------------------- MODULE MCInfixStore ----------------------------
(* Small infix stores for TLC.                                               *)
EXTENDS InfixStore

\* All lists of up to `max' infixes, sorted as a store receives them.
SortedLists(max) ==
    {list \in BoundedSeq(InfixesOf(InfixSize), max) :
        \A j \in 2..Len(list) : ListBefore(list[j - 1], list[j])}

\* Scaled sizes 4, 5, 6, 7: every implicit part has a slot of its own.
WideScalars == [g \in 0..3 |-> 16 + 4 * g]
UpTo2 == SortedLists(2)
UpTo1 == SortedLists(1)
\* Scaled sizes 3, 4, 5, 6, 7, 9 for a target of 8.
TightScalars == [g \in 0..5 |-> IF g = 5 THEN 18 ELSE 6 + 2 * g]
\* Scaled sizes 3, 5, 6, 7 for a target of 4: bitmaps that end inside a byte.
RaggedScalars == [g \in 0..3 |-> IF g = 0 THEN 12 ELSE 16 + 4 * g]
\* Scaled sizes 6, 8, 10 for a target of 8: at 8 the bitmaps fill their bytes.
ByteScalars == [g \in 0..2 |-> 12 + 4 * g]
\* Five infixes of part 4: a load that fills a store of five slots.
Filled5 == {<<17, 17, 17, 17, 17>>}

\* The deletions that move a settled run off its mapped slot: nothing is empty
\* to the right, and the first run of the store, already where it belongs, has
\* an empty slot before it.
SettledRunMoves(s, runend) ==
    LET gap == FindEmptySlotBefore(s, runend)
    IN  /\ ~RightOfRun(s, runend, TotalImplicit).found
        /\ gap >= 0
        /\ \A e \in s.runends : gap < e
        /\ GetMappedPos(Min(s.occupieds), s.size_grade, TotalImplicit) = gap + 1

MovesSettledRun(key) ==
    \E s \in {FitFor(store, TotalImplicit, infix_size)} :
        SettledRunMoves(s, RunEndOf(s, Implicit(key, infix_size)))

DeleteUnlessSettled(key) == Delete(key) /\ ~MovesSettledRun(key)

\* The shortenings of a store that has the grade of a fresh one, which is that
\* of the copy they make.
ShrinkFresh(new_size) == store.size_grade = GrowGrade /\ Shrink(new_size)

SettledNext ==
    \/ \E key \in InsertedInfixes(infix_size) : Insert(key) \/ DeleteUnlessSettled(key)
    \/ \E new_size \in ShrinkSizes : ShrinkFresh(new_size)

SettledSpec == Init /\ [][SettledNext]_vars

\* As the code goes on: every store is shortened.
AnyGradeNext == SettledNext \/ \E new_size \in ShrinkSizes : Shrink(new_size)
AnyGradeSpec == Init /\ [][AnyGradeNext]_vars

\* What the shape of a store rests on beyond SettledSpec: no load fills a store
\* to its last slot ...
SpareSlot ==
    \A list \in InitialLists : \A g \in LoadGrades(Len(list)) : Len(list) < ScaledSize(g)

\* ... and no shortening of such a store masks the last byte of the run ends
\* away.
KeepsRunends ==
    ShrinkSizes = {} \/ (HeaderBits + TargetSize + ScaledSize(GrowGrade)) % ByteBits # 0

-----------------------------------------------------------------------------
\* InsertRawIntoInfixStore, DeleteRawFromInfixStore, ShrinkInfixStoreInfixSize: every
\* occupied implicit part has one run, and the runs and slots stay within the store.
WellFormed == TypeOK /\ RunsPaired

\* ShrinkInfixStoreInfixSize leaves the list of the shortened infixes, each with its
\* implicit part and in its place: what the tests expect of a store of any grade, and
\* what holds for the grade of a fresh one.
ShortensEach ==
    [][infix_size' # infix_size =>
          LET list == GetInfixList(store, infix_size)
          IN  GetInfixList(store', infix_size')
                = [j \in DOMAIN list |->
                      Implicit(list[j], infix_size) * 2^infix_size'
                        + ShrunkSlot(Explicit(list[j], infix_size), infix_size, infix_size')]]_vars
=============================================================================
