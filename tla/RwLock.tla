------------------------------- MODULE RwLock -------------------------------
(* The reader-writer spin lock of the index (rwlock_*, lib.c): one word, a    *)
(* write bit above a count of readers. A reader adds itself first and looks   *)
(* afterwards, and takes itself back when the bit was set; a writer swaps the *)
(* bit in when the word is zero, and a high-priority one as soon as no other  *)
(* writer has it, waiting with the bit set until the readers are gone.        *)
(*                                                                            *)
(* One step is one atomic access of the word. A loop that only loads the word *)
(* until it has a value is a step that waits for that value. The build is for *)
(* x86, whose weak compare-and-swap does not fail spuriously.                 *)
EXTENDS Integers, FiniteSets

CONSTANTS Threads,   \* the threads that use the lock
          WBit,      \* RWLOCK_WBIT, above every count of readers
          Retries,   \* nr of the bounded variants
          Ops        \* the functions the threads call

AllOps == {"trylock_read", "trylock_read_lp", "trylock_read_nr", "lock_read",
           "trylock_write", "trylock_write_nr", "lock_write",
           "trylock_write_hp", "trylock_write_hp_nr", "lock_write_hp"}

ASSUME LockAssumption == /\ IsFiniteSet(Threads)
                         /\ WBit \in Nat /\ Cardinality(Threads) < WBit
                         /\ Retries \in Nat
                         /\ Ops \subseteq AllOps

VARIABLES word,   \* the lock
          pc,     \* where each thread is
          op,     \* the function it has called
          left,   \* nr, counted down
          seen    \* v0 of rwlock_trylock_write_hp

vars == <<word, pc, op, left, seen>>

\* Readers that have added themselves to the word, and writers whose bit is set.
Tickets == {t \in Threads : pc[t] \in {"reading", "read_nr", "read_undo"}}
Owners  == {t \in Threads : pc[t] \in {"writing", "hp_drain"}}

Locked == word >= WBit

Go(t, p) == pc' = [pc EXCEPT ![t] = p]

-----------------------------------------------------------------------------
Init == /\ word = 0
        /\ pc = [t \in Threads |-> "idle"]
        /\ op \in [Threads -> Ops]
        /\ left = [t \in Threads |-> 0]
        /\ seen = [t \in Threads |-> 0]

Entry(f) == CASE f \in {"trylock_read", "trylock_read_nr", "lock_read"} -> "read_add"
              [] f = "trylock_read_lp"                                  -> "read_lp"
              [] f \in {"trylock_write", "trylock_write_nr", "lock_write"} -> "write_load"
              [] OTHER                                                  -> "hp_load"

\* A thread calls one of the functions.
Call(t) == /\ pc[t] = "idle"
           /\ \E f \in Ops :
                 /\ op' = [op EXCEPT ![t] = f]
                 /\ Go(t, Entry(f))
           /\ left' = [left EXCEPT ![t] = Retries]
           /\ UNCHANGED <<word, seen>>

-----------------------------------------------------------------------------
(* Readers                                                                   *)

\* rwlock_trylock_read_lp looks before it adds itself.
ReadLp(t) == /\ pc[t] = "read_lp"
             /\ Go(t, IF Locked THEN "idle" ELSE "read_add")
             /\ UNCHANGED <<word, op, left, seen>>

\* Mutated: looks at the word and adds the reader without looking at the bit.
ReadAdd_Unseen(t) ==
    /\ pc[t] = "read_add"
    /\ word' = word + 1
    /\ Go(t, "reading")
    /\ UNCHANGED <<op, left, seen>>

\* atomic_fetch_add: the reader is in if the write bit was clear.
ReadAdd(t) ==
    /\ pc[t] = "read_add"
    /\ word' = word + 1
    /\ Go(t, IF ~Locked THEN "reading"
             ELSE IF op[t] = "trylock_read_nr" THEN "read_nr" ELSE "read_undo")
    /\ UNCHANGED <<op, left, seen>>

\* rwlock_trylock_read_nr stays in the count and looks a few times more.
ReadNr(t) ==
    /\ pc[t] = "read_nr"
    /\ \/ /\ ~Locked
          /\ Go(t, "reading")
          /\ UNCHANGED left
       \/ /\ Locked
          /\ IF left[t] = 0 THEN Go(t, "read_undo") /\ UNCHANGED left
             ELSE left' = [left EXCEPT ![t] = @ - 1] /\ UNCHANGED pc
    /\ UNCHANGED <<word, op, seen>>

\* Mutated: lock_read tries again at once.
ReadUndo_Eager(t) ==
    /\ pc[t] = "read_undo"
    /\ word' = word - 1
    /\ Go(t, IF op[t] = "lock_read" THEN "read_add" ELSE "idle")
    /\ UNCHANGED <<op, left, seen>>

\* Mutated: the count is not taken back.
ReadUndo_Kept(t) ==
    /\ pc[t] = "read_undo"
    /\ Go(t, IF op[t] = "lock_read" THEN "read_spin" ELSE "idle")
    /\ UNCHANGED <<word, op, left, seen>>

\* The reader takes itself back.
ReadUndo(t) ==
    /\ pc[t] = "read_undo"
    /\ word' = word - 1
    /\ Go(t, IF op[t] = "lock_read" THEN "read_spin" ELSE "idle")
    /\ UNCHANGED <<op, left, seen>>

\* rwlock_lock_read waits until the bit is clear before it tries again.
ReadSpin(t) == /\ pc[t] = "read_spin"
               /\ ~Locked
               /\ Go(t, "read_add")
               /\ UNCHANGED <<word, op, left, seen>>

UnlockRead(t) == /\ pc[t] = "reading"
                 /\ word' = word - 1
                 /\ Go(t, "idle")
                 /\ UNCHANGED <<op, left, seen>>

-----------------------------------------------------------------------------
(* Writers                                                                   *)

\* A failed attempt: the plain functions return, the bounded ones look again
\* nr times, the others wait.
Failed(t, again, wait) ==
    IF op[t] \in {"trylock_write", "trylock_write_hp"} THEN Go(t, "idle") /\ UNCHANGED left
    ELSE IF op[t] \in {"lock_write", "lock_write_hp"} THEN Go(t, wait) /\ UNCHANGED left
    ELSE IF left[t] = 0 THEN Go(t, "idle") /\ UNCHANGED left
    ELSE Go(t, again) /\ left' = [left EXCEPT ![t] = @ - 1]

WriteLoad(t) ==
    /\ pc[t] = "write_load"
    /\ IF word = 0 THEN Go(t, "write_cas") /\ UNCHANGED left
       ELSE Failed(t, "write_load", "write_spin")
    /\ UNCHANGED <<word, op, seen>>

\* Mutated: stores the bit instead of swapping it in.
WriteCas_Store(t) ==
    /\ pc[t] = "write_cas"
    /\ word' = WBit
    /\ Go(t, "writing")
    /\ UNCHANGED <<op, left, seen>>

WriteCas(t) ==
    /\ pc[t] = "write_cas"
    /\ IF word = 0 THEN word' = WBit /\ Go(t, "writing") /\ UNCHANGED left
       ELSE Failed(t, "write_load", "write_spin") /\ UNCHANGED word
    /\ UNCHANGED <<op, seen>>

WriteSpin(t) == /\ pc[t] = "write_spin"
                /\ word = 0
                /\ Go(t, "write_load")
                /\ UNCHANGED <<word, op, left, seen>>

HpLoad(t) ==
    /\ pc[t] = "hp_load"
    /\ IF Locked THEN Failed(t, "hp_load", "hp_load") /\ UNCHANGED seen
       ELSE Go(t, "hp_cas") /\ seen' = [seen EXCEPT ![t] = word] /\ UNCHANGED left
    /\ UNCHANGED <<word, op>>

\* Mutated: the writer does not wait for the readers it saw.
HpCas_NoDrain(t) ==
    /\ pc[t] = "hp_cas"
    /\ IF word = seen[t]
       THEN word' = word + WBit /\ Go(t, "writing") /\ UNCHANGED left
       ELSE Failed(t, "hp_load", "hp_load") /\ UNCHANGED word
    /\ UNCHANGED <<op, seen>>

\* rwlock_trylock_write_hp sets the bit beside the readers it saw.
HpCas(t) ==
    /\ pc[t] = "hp_cas"
    /\ IF word = seen[t]
       THEN /\ word' = word + WBit
            /\ Go(t, IF seen[t] = 0 THEN "writing" ELSE "hp_drain")
            /\ UNCHANGED left
       ELSE Failed(t, "hp_load", "hp_load") /\ UNCHANGED word
    /\ UNCHANGED <<op, seen>>

HpDrain(t) == /\ pc[t] = "hp_drain"
              /\ word = WBit
              /\ Go(t, "writing")
              /\ UNCHANGED <<word, op, left, seen>>

UnlockWrite(t) == /\ pc[t] = "writing"
                  /\ word' = word - WBit
                  /\ Go(t, "idle")
                  /\ UNCHANGED <<op, left, seen>>

\* rwlock_write_to_read: one reader more and the bit less, in one step.
WriteToRead(t) == /\ pc[t] = "writing"
                  /\ word' = word + (1 - WBit)
                  /\ Go(t, "reading")
                  /\ UNCHANGED <<op, left, seen>>

-----------------------------------------------------------------------------
Step(t) == \/ ReadLp(t) \/ ReadAdd(t) \/ ReadNr(t) \/ ReadUndo(t) \/ ReadSpin(t)
           \/ UnlockRead(t)
           \/ WriteLoad(t) \/ WriteCas(t) \/ WriteSpin(t)
           \/ HpLoad(t) \/ HpCas(t) \/ HpDrain(t)
           \/ UnlockWrite(t) \/ WriteToRead(t)

Next == \E t \in Threads : Call(t) \/ Step(t)

Spec == Init /\ [][Next]_vars

\* Threads that are inside a function or hold the lock keep running; nobody has
\* to call.
FairSpec == Spec /\ \A t \in Threads : WF_vars(Step(t))

-----------------------------------------------------------------------------
Places == {"idle", "read_lp", "read_add", "read_nr", "read_undo", "read_spin", "reading",
           "write_load", "write_cas", "write_spin", "writing",
           "hp_load", "hp_cas", "hp_drain"}

\* The word never leaves its 32 bits: no subtraction borrows, no count of
\* readers reaches the write bit.
TypeOK == /\ word \in 0 .. 2 * WBit - 1
          /\ pc \in [Threads -> Places]
          /\ op \in [Threads -> Ops]
          /\ left \in [Threads -> 0 .. Retries]
          /\ seen \in [Threads -> 0 .. WBit - 1]

\* Whoever writes is alone: no reader is in and no other writer has the bit.
Exclusion ==
    \A t, u \in Threads :
        (pc[t] = "writing" /\ u # t) => pc[u] \notin {"reading", "writing", "hp_drain"}

\* The word is the write bit of the one writer that has it and the number of
\* readers that have not taken themselves back.
WordCounts ==
    /\ \A t, u \in Owners : t = u
    /\ word = Cardinality(Tickets) + (IF Owners = {} THEN 0 ELSE WBit)

\* Once a writer has set its bit no reader gets in before it, however the
\* reader asks; the one exception is the writer's own change to a reader.
NoOvertaking ==
    [][\A t \in Threads :
          (pc[t] # "reading" /\ pc'[t] = "reading") => (Owners \subseteq {t})]_vars

\* A high-priority writer that has set its bit gets the lock: readers that come
\* later leave the word alone while they wait.
DrainEnds == \A t \in Threads : pc[t] = "hp_drain" ~> pc[t] = "writing"
=============================================================================
