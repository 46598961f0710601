------------------------------- MODULE MCDiva -------------------------------
(* Small filters for TLC: the keys are clustered, so that they share prefixes *)
(* with each other and with the boundaries.                                   *)
EXTENDS Diva

\* Keys of 12 bits in a cluster and behind it, far enough apart that no gap is
\* so narrow that its infixes reach beyond the end of a key; and queries on,
\* between and around them.
Sparse == {1185, 1203, 1223, 1266, 1513, 2035}
Around == Sparse \cup {1, 1184, 1200, 1210, 1500, 2040, 2048, 2060}

\* Keys of 6 bits next to each other: gaps as narrow as they come.
Dense  == {11, 13, 14, 17}

\* Load factor 0.8: scaled sizes 4, 5, 6, 7, 9, 12, 15, 19, 23, 29 for a target of 4.
Scalars == <<16, 20, 25, 31, 39, 48, 61, 76, 95, 119>>
DivaScalars == [g \in 0..9 |-> Scalars[g + 1]]

\* Keys of 8 bits for the runs that show a defect, few enough for a short
\* counterexample.
MisdirectedKeys == {1, 10, 14, 17, 64}
UnsortedKeys    == {5, 10, 13, 40}
LostKeys        == {2, 6, 9, 11, 16, 64}

\* No deletions.
GrowNext == \/ \E key \in Keys : SettledInsert(key)
            \/ \E new_size \in ShrinkSizes : Shrink(new_size)
GrowSpec == Init /\ [][GrowNext]_vars

\* Each defect alone: deletions that may take a boundary away from others, and
\* deletions that may merge into an unsorted list.
MisdirectedNext ==
    \E key \in Keys : SettledInsert(key) \/ (Delete(key) /\ ListsSorted')
MisdirectedSpec == Init /\ [][MisdirectedNext]_vars

MergeNext ==
    \E key \in Keys :
        \/ SettledInsert(key)
        \/ /\ Directed(key, PrevKey(tree, key), Gap(PrevKey(tree, key), NextKey(tree, key)))
           /\ Delete(key)
MergeSpec == Init /\ [][MergeNext]_vars

-----------------------------------------------------------------------------
\* InsertSplit, UpdateInfixList, ShrinkInfixSize: every gap's list is as the stores and the
\* queries take it: sorted by intervals, within the parts of its gap, and no cut boundary
\* stands for keys behind another one.
GapsRight == TypeOK /\ ListsSorted /\ InfixesFit /\ PartialsApart
=============================================================================
