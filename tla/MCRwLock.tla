------------------------------ MODULE MCRwLock ------------------------------
(* The lock for TLC: three threads that call the functions that wait, or two of *)
(* them that call every function. A thread that tries the lock over and over    *)
(* may keep the others from it.                                                 *)
EXTENDS RwLock, TLC

VARIABLE calm

Waiting == {"lock_read", "lock_write", "lock_write_hp"}

MCInit == /\ Init /\ op = [t \in Threads |-> "lock_read"]
          /\ calm \in BOOLEAN

Third == CHOOSE t \in Threads : TRUE

MayCall(t) == IF calm THEN op'[t] \in Waiting ELSE t # Third

MCNext == \E t \in Threads :
             \/ Call(t) /\ MayCall(t) /\ UNCHANGED calm
             \/ Step(t) /\ UNCHANGED calm

MCSpec == /\ MCInit /\ [][MCNext]_<<vars, calm>>
          /\ \A t \in Threads : WF_vars(Step(t))

\* rwlock_lock_write_hp: a high-priority writer that has set its bit gets the lock.
WaitersDrain == calm => DrainEnds
=============================================================================
