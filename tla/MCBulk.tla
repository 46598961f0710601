------------------------------- MODULE MCBulk -------------------------------
(* Small loads for TLC: neighbouring keys and distant ones.                     *)
EXTENDS Bulk

Few    == {11, 13, 14, 17, 40}
Working == {11, 13, 14, 17}
Asked  == {1, 12, 14, 30, 52}
\* Load factor 0.7: scaled sizes 3, 4, 6, 8, 12 for a target of 3.
Scalars == <<16, 22, 32, 46, 66>>
BulkScalars == [g \in 0..4 |-> Scalars[g + 1]]
Zeros  == {0, 11, 14, 17}

-----------------------------------------------------------------------------
\* BulkLoad, BulkLoadStreaming and BulkLoadStreamingFinish: whatever way a filter was loaded,
\* its lists are as the insertions and deletions that follow take them, and every key that is
\* held has an item of its own to delete.
LoadedRight == LoadTypeOK /\ LoadedFits /\ LoadedAccounted
=============================================================================
