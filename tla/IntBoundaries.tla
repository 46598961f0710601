---------------------------- MODULE IntBoundaries ----------------------------
(* How the filter for integer keys uses its index (diva.hpp over wh_int.c): the *)
(* boundary keys are the keys of the index, every operation finds the two that  *)
(* a key is between with an iterator, keeps pointers into the slots of the      *)
(* leaves, gives the locks back, and then puts and deletes.                     *)
EXTENDS IntLeaf

CONSTANTS Low, High  \* the all-zero and the all-one key

\* The constructor puts the ends first.
BInit == /\ list = PutIn(PutIn(<<NewLeaf(<<>>, <<>>)>>, Low), High)
         /\ present = {Low, High}
         /\ it = None

\* Mutated: does not go back.
Bracket_Next(ls, k) == LET c == SeekTo(ls, k) IN [list |-> c.list, prev |-> c, next |-> c]

\* The start of InsertSimple, InsertSplit, RangeQuery, PointQuery and Delete: the
\* boundary at or before a key and the one after it.
Bracket(ls, k) ==
    LET c    == SeekTo(ls, k)
        on   == StepOn(c)
        back == StepBack(c)
    IN  IF c.it # None /\ Current(c) = k THEN [list |-> on.list, prev |-> c, next |-> on]
        ELSE [list |-> back.list, prev |-> back, next |-> c]

InnerKeys == Keys \ {High}

\* An insertion without a split, a query, a deletion from a store.
Find(k) == /\ list' = Bracket(list, k).list
           /\ UNCHANGED <<present, it>>

\* InsertSplit: the store before the key and the key with the store behind it,
\* the key perhaps cut.
SplitAt(k, e) ==
    LET b == Bracket(list, k)
        p == Current(b.prev)
    IN  /\ e = k \/ (IsStrictPrefix(e, k) /\ Before(p, e))
        /\ list' = PutIn(PutIn(b.list, p), e)
        /\ present' = present \cup {e}
        /\ UNCHANGED it

\* The walk of DeleteMerge from a boundary to the next, back and back again.
AroundIt(k) == LET c == SeekTo(list, k) IN StepBack(StepBack(StepOn(c)))

\* DeleteMerge: the boundary goes, and the one before it gets the new store.
DeleteMerge(k) ==
    LET l == AroundIt(k)
        d == DelFrom(l.list, k)
    IN  /\ k \in present \ {Low, High}
        /\ DelClear(l.list, k)
        /\ list' = PutIn(d, Current(l))
        /\ present' = present \ {k}
        /\ UNCHANGED it

\* BulkLoad and its kin: boundaries in their order, with no seek before the put.
Load(k) == /\ \A y \in present \ {High} : Before(y, k)
           /\ list' = PutIn(list, k)
           /\ present' = present \cup {k}
           /\ UNCHANGED it

\* ShrinkInfixSize, Size, Serialize and the destructor go through all boundaries.
Walk == /\ list' = [x \in DOMAIN list |-> SyncSorted(list[x])]
        /\ UNCHANGED <<present, it>>

BNext == \/ \E k \in InnerKeys : \/ Find(k) \/ DeleteMerge(k) \/ Load(k)
                                 \/ \E e \in Keys : SplitAt(k, e)
         \/ Walk

BSpec == BInit /\ [][BNext]_vars

-----------------------------------------------------------------------------
\* The boundaries an operation finds are the neighbours of its key, and while
\* the iterator went on to the second one the first stayed in its slot.
BracketRight ==
    \A k \in InnerKeys :
        LET b == Bracket(list, k)
            low  == {y \in present : ~ Before(k, y)}
            high == {y \in present : Before(k, y)}
        IN  /\ b.prev.it # None /\ b.next.it # None
            /\ Current([b.prev EXCEPT !.list = b.list]) = Last(InKeyOrder(low))
            /\ Current([b.next EXCEPT !.list = b.list]) = InKeyOrder(high)[1]

\* DeleteMerge reads the left boundary and its store through a pointer into a
\* leaf after it has deleted the middle one: they are still there.
SlotStays ==
    \A k \in present \ {Low, High} :
        LET l == AroundIt(k)
            d == DelFrom(l.list, k)
        IN  Current([l EXCEPT !.list = d]) = Current(l)

\* A key has a boundary behind it, the greatest key of all too.
NextThere == \A k \in Keys : Bracket(list, k).next.it # None
=============================================================================
