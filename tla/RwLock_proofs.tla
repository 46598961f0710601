---------------------------- MODULE RwLock_proofs ----------------------------
(* The lock excludes: proofs about RwLock for every finite set of threads,    *)
(* every number of retries and every choice of functions.                     *)
EXTENDS RwLock, FiniteSetTheorems, TLAPS

TicketPlaces == {"reading", "read_nr", "read_undo"}
OwnerPlaces  == {"writing", "hp_drain"}

\* The inductive invariant.
IInv == TypeOK /\ WordCounts /\ Exclusion

\* What a move of one thread to place q adds to and takes from the word.
Gain(t, q) == (IF q \in TicketPlaces THEN 1 ELSE 0) - (IF pc[t] \in TicketPlaces THEN 1 ELSE 0)
BitGain(t, q) == IF q \in OwnerPlaces /\ pc[t] \notin OwnerPlaces THEN WBit
                 ELSE IF q \notin OwnerPlaces /\ pc[t] \in OwnerPlaces THEN 0 - WBit
                 ELSE 0

-----------------------------------------------------------------------------
(* The count of readers                                                      *)

\* There are fewer tickets than the write bit is worth.
LEMMA FewTickets ==
    /\ IsFiniteSet(Tickets)
    /\ Cardinality(Tickets) \in Nat
    /\ Cardinality(Tickets) < WBit
    /\ Cardinality(Tickets) = 0 => Tickets = {}
<1>1. Tickets \in SUBSET Threads
  BY DEF Tickets
<1>2. IsFiniteSet(Threads) /\ WBit \in Nat /\ Cardinality(Threads) < WBit
  BY LockAssumption
<1>3. IsFiniteSet(Tickets) /\ Cardinality(Tickets) <= Cardinality(Threads)
  BY <1>1, <1>2, FS_Subset
<1>4. Cardinality(Threads) \in Nat /\ Cardinality(Tickets) \in Nat
  BY <1>2, <1>3, FS_CardinalityType
<1>5. Cardinality(Tickets) = 0 => Tickets = {}
  BY <1>3, FS_EmptySet
<1> QED BY <1>2, <1>3, <1>4, <1>5

\* The write bit of the word shows whether a writer has set it.
LEMMA LockedIffOwned ==
    ASSUME WordCounts
    PROVE  Locked <=> Owners # {}
<1>1. WBit \in Nat
  BY LockAssumption
<1> QED BY <1>1, FewTickets DEF WordCounts, Locked

\* A word of zero has neither readers nor a writer, a word that is only the
\* write bit has no readers.
LEMMA EmptyWord ==
    ASSUME WordCounts
    PROVE  /\ word = 0 => Tickets = {} /\ Owners = {}
           /\ word = WBit => Tickets = {} /\ Owners # {}
<1>1. WBit \in Nat /\ WBit > 0
  BY LockAssumption, FewTickets
<1>2. CASE Owners = {}
  BY <1>1, <1>2, FewTickets DEF WordCounts
<1>3. CASE Owners # {}
  BY <1>1, <1>3, FewTickets DEF WordCounts
<1> QED BY <1>2, <1>3

\* One thread moves: the tickets and the owners change by that thread.
LEMMA Moved ==
    ASSUME TypeOK, NEW t \in Threads, NEW q \in Places, Go(t, q)
    PROVE  /\ Tickets' = IF q \in TicketPlaces THEN Tickets \cup {t} ELSE Tickets \ {t}
           /\ Owners' = IF q \in OwnerPlaces THEN Owners \cup {t} ELSE Owners \ {t}
           /\ Cardinality(Tickets') = Cardinality(Tickets) + Gain(t, q)
<1>1. pc \in [Threads -> Places] /\ pc' = [pc EXCEPT ![t] = q]
  BY DEF TypeOK, Go
<1>2. Tickets' = IF q \in TicketPlaces THEN Tickets \cup {t} ELSE Tickets \ {t}
  BY <1>1 DEF Tickets, TicketPlaces
<1>3. Owners' = IF q \in OwnerPlaces THEN Owners \cup {t} ELSE Owners \ {t}
  BY <1>1 DEF Owners, OwnerPlaces
<1>4. t \in Tickets <=> pc[t] \in TicketPlaces
  BY DEF Tickets, TicketPlaces
<1>5. /\ Cardinality(Tickets \cup {t}) =
             IF t \in Tickets THEN Cardinality(Tickets) ELSE Cardinality(Tickets) + 1
      /\ Cardinality(Tickets \ {t}) =
             IF t \in Tickets THEN Cardinality(Tickets) - 1 ELSE Cardinality(Tickets)
  BY FewTickets, FS_AddElement, FS_RemoveElement
<1>6. Cardinality(Tickets') = Cardinality(Tickets) + Gain(t, q)
  BY <1>2, <1>4, <1>5, FewTickets DEF Gain
<1> QED BY <1>2, <1>3, <1>6

\* A move that changes the word by what it gains keeps the word exact, if a
\* thread sets the bit only when nobody has it.
LEMMA CountsKept ==
    ASSUME TypeOK, WordCounts, NEW t \in Threads, NEW q \in Places, Go(t, q),
           word' = word + Gain(t, q) + BitGain(t, q),
           q \in OwnerPlaces /\ pc[t] \notin OwnerPlaces => Owners = {}
    PROVE  WordCounts' /\ word' \in 0 .. 2 * WBit - 1
<1>1. WBit \in Nat
  BY LockAssumption
<1>2. t \in Owners <=> pc[t] \in OwnerPlaces
  BY DEF Owners, OwnerPlaces
<1>3. \A u, w \in Owners' : u = w
  BY <1>2, Moved DEF WordCounts
<1>4. Cardinality(Tickets') \in Nat /\ Cardinality(Tickets') < WBit
  <2>1. Tickets' \in SUBSET Threads
    BY DEF Tickets
  <2>2. IsFiniteSet(Threads) /\ Cardinality(Threads) < WBit
    BY LockAssumption
  <2>3. IsFiniteSet(Tickets') /\ Cardinality(Tickets') <= Cardinality(Threads)
    BY <2>1, <2>2, FS_Subset
  <2>4. Cardinality(Tickets') \in Nat /\ Cardinality(Threads) \in Nat
    BY <2>2, <2>3, FS_CardinalityType
  <2> QED BY <1>1, <2>2, <2>3, <2>4
<1>5. Owners = {} \/ Owners = {t} \/ (Owners # {} /\ t \notin Owners)
  BY DEF WordCounts
<1>6. Owners' = {} <=> (IF q \in OwnerPlaces THEN FALSE ELSE Owners \subseteq {t})
  BY Moved
<1>7. word' = Cardinality(Tickets') + (IF Owners' = {} THEN 0 ELSE WBit)
  <2>1. Gain(t, q) \in Int /\ BitGain(t, q) \in Int
    BY <1>1 DEF Gain, BitGain
  <2>2. (IF Owners' = {} THEN 0 ELSE WBit) = (IF Owners = {} THEN 0 ELSE WBit) + BitGain(t, q)
    BY <1>1, <1>2, <1>5, <1>6 DEF BitGain
  <2>3. Cardinality(Tickets') = Cardinality(Tickets) + Gain(t, q)
    BY Moved
  <2>4. word = Cardinality(Tickets) + (IF Owners = {} THEN 0 ELSE WBit)
    BY DEF WordCounts
  <2> QED BY <1>1, <2>1, <2>2, <2>3, <2>4, FewTickets
<1>8. word' \in 0 .. 2 * WBit - 1
  BY <1>1, <1>4, <1>7
<1> QED BY <1>3, <1>7, <1>8 DEF WordCounts

\* A move keeps the exclusion if whoever comes in finds the others out.
LEMMA ExclusionKept ==
    ASSUME TypeOK, Exclusion, NEW t \in Threads, NEW q \in Places, Go(t, q),
           q = "writing" =>
               \A u \in Threads : u # t => pc[u] \notin {"reading", "writing", "hp_drain"},
           q \in {"reading", "hp_drain"} => \A u \in Threads : u # t => pc[u] # "writing"
    PROVE  Exclusion'
BY DEF TypeOK, Exclusion, Go

-----------------------------------------------------------------------------
(* One step of a thread                                                      *)

\* An attempt that fails moves the thread to a place outside the word.
LEMMA FailedMoves ==
    ASSUME TypeOK, NEW t \in Threads, NEW again \in Places, NEW wait \in Places,
           Failed(t, again, wait)
    PROVE  /\ \E q \in {"idle", again, wait} : Go(t, q)
           /\ left' \in [Threads -> 0 .. Retries]
<1>1. left \in [Threads -> 0 .. Retries] /\ Retries \in Nat
  BY LockAssumption DEF TypeOK
<1> QED BY <1>1 DEF Failed

\* A step that leaves the places of readers and writers alone, and the word.
LEMMA OutsideStep ==
    ASSUME IInv, NEW t \in Threads, NEW q \in Places, Go(t, q),
           q \notin TicketPlaces \cup OwnerPlaces, pc[t] \notin TicketPlaces \cup OwnerPlaces,
           UNCHANGED word
    PROVE  WordCounts' /\ Exclusion' /\ word' \in 0 .. 2 * WBit - 1 /\ pc' \in [Threads -> Places]
<1>1. WBit \in Nat /\ word \in Int
  BY LockAssumption DEF IInv, TypeOK
<1>2. Gain(t, q) = 0 /\ BitGain(t, q) = 0
  BY DEF Gain, BitGain
<1>3. WordCounts' /\ word' \in 0 .. 2 * WBit - 1
  BY <1>1, <1>2, CountsKept DEF IInv
<1>4. Exclusion'
  BY ExclusionKept DEF IInv, TicketPlaces, OwnerPlaces
<1> QED BY <1>3, <1>4 DEF IInv, TypeOK, Go

\* A step that moves a thread to q and changes the word by what it gains.
LEMMA MovingStep ==
    ASSUME IInv, NEW t \in Threads, NEW q \in Places, Go(t, q),
           word' = word + Gain(t, q) + BitGain(t, q),
           q \in OwnerPlaces /\ pc[t] \notin OwnerPlaces => Owners = {},
           q = "writing" =>
               \A u \in Threads : u # t => pc[u] \notin {"reading", "writing", "hp_drain"},
           q \in {"reading", "hp_drain"} => \A u \in Threads : u # t => pc[u] # "writing",
           UNCHANGED op, seen' \in [Threads -> 0 .. WBit - 1], left' \in [Threads -> 0 .. Retries]
    PROVE  IInv'
<1>1. WordCounts' /\ word' \in 0 .. 2 * WBit - 1
  BY CountsKept DEF IInv
<1>2. Exclusion'
  BY ExclusionKept DEF IInv
<1>3. pc' \in [Threads -> Places] /\ op' \in [Threads -> Ops]
  BY DEF IInv, TypeOK, Go
<1> QED BY <1>1, <1>2, <1>3 DEF IInv, TypeOK

\* Who the others can be, by the word.
LEMMA Others ==
    ASSUME IInv, NEW t \in Threads
    PROVE  /\ ~Locked => \A u \in Threads : pc[u] \notin {"writing", "hp_drain"}
           /\ word = 0 => \A u \in Threads : pc[u] \notin {"reading", "writing", "hp_drain"}
           /\ word = WBit => \A u \in Threads : pc[u] # "reading"
           /\ pc[t] \in OwnerPlaces =>
                  \A u \in Threads : u # t => pc[u] \notin {"writing", "hp_drain"}
<1>1. WordCounts
  BY DEF IInv
<1> QED BY <1>1, LockedIffOwned, EmptyWord DEF WordCounts, Tickets, Owners, OwnerPlaces

\* A step of a thread inside the functions keeps the invariant.
LEMMA StepKeeps ==
    ASSUME IInv, NEW t \in Threads, Step(t)
    PROVE  IInv'
<1> USE DEF Places
<1>0. /\ WBit \in Nat /\ word \in Int /\ Retries \in Nat
      /\ pc \in [Threads -> Places]
      /\ seen \in [Threads -> 0 .. WBit - 1]
      /\ left \in [Threads -> 0 .. Retries]
      /\ TypeOK
  BY LockAssumption DEF IInv, TypeOK
<1> DEFINE Out(q) == q \in Places \ (TicketPlaces \cup OwnerPlaces)
<1>o. ASSUME NEW q, Out(q), Out(pc[t]), Go(t, q), UNCHANGED <<word, op>>,
             seen' \in [Threads -> 0 .. WBit - 1], left' \in [Threads -> 0 .. Retries]
      PROVE  IInv'
  <2>1. WordCounts' /\ Exclusion' /\ word' \in 0 .. 2 * WBit - 1 /\ pc' \in [Threads -> Places]
    BY <1>o, OutsideStep
  <2> QED BY <1>0, <1>o, <2>1 DEF IInv, TypeOK
<1>1. CASE ReadLp(t)
  BY <1>0, <1>1, <1>o DEF ReadLp, TicketPlaces, OwnerPlaces
<1>2. CASE ReadAdd(t)
  <2> DEFINE q == IF ~Locked THEN "reading"
                  ELSE IF op[t] = "trylock_read_nr" THEN "read_nr" ELSE "read_undo"
  <2>1. q \in TicketPlaces /\ q \in Places /\ q \notin OwnerPlaces /\ Go(t, q)
    BY <1>2 DEF ReadAdd, TicketPlaces, OwnerPlaces
  <2>2. Gain(t, q) = 1 /\ BitGain(t, q) = 0
    BY <1>2, <2>1 DEF ReadAdd, Gain, BitGain, TicketPlaces, OwnerPlaces
  <2>3. q = "reading" => \A u \in Threads : u # t => pc[u] # "writing"
    BY Others
  <2>4. word' = word + Gain(t, q) + BitGain(t, q)
    BY <1>0, <1>2, <2>2 DEF ReadAdd
  <2>5. UNCHANGED <<op, left, seen>>
    BY <1>2 DEF ReadAdd
  <2> HIDE DEF q
  <2> QED BY <1>0, <2>1, <2>3, <2>4, <2>5, MovingStep DEF OwnerPlaces
<1>3. CASE ReadNr(t)
  <2>1. CASE ~Locked /\ Go(t, "reading") /\ UNCHANGED left
    <3>1. Gain(t, "reading") = 0 /\ BitGain(t, "reading") = 0
      BY <1>3 DEF ReadNr, Gain, BitGain, TicketPlaces, OwnerPlaces
    <3>2. \A u \in Threads : u # t => pc[u] # "writing"
      BY <2>1, Others
    <3> QED BY <1>0, <1>3, <2>1, <3>1, <3>2, MovingStep DEF ReadNr, OwnerPlaces
  <2>2. CASE Go(t, "read_undo") /\ UNCHANGED left
    <3>1. Gain(t, "read_undo") = 0 /\ BitGain(t, "read_undo") = 0
      BY <1>3 DEF ReadNr, Gain, BitGain, TicketPlaces, OwnerPlaces
    <3> QED BY <1>0, <1>3, <2>2, <3>1, MovingStep DEF ReadNr, OwnerPlaces
  <2>3. CASE left[t] # 0 /\ left' = [left EXCEPT ![t] = @ - 1] /\ UNCHANGED pc
    <3>1. left' \in [Threads -> 0 .. Retries]
      BY <1>0, <2>3
    <3>2. UNCHANGED <<word, op, seen, pc>>
      BY <1>3, <2>3 DEF ReadNr
    <3> QED BY <1>0, <3>1, <3>2 DEF IInv, TypeOK, WordCounts, Exclusion, Tickets, Owners
  <2> QED BY <1>3, <2>1, <2>2, <2>3 DEF ReadNr
<1>4. CASE ReadUndo(t)
  <2> DEFINE q == IF op[t] = "lock_read" THEN "read_spin" ELSE "idle"
  <2>1. q \in Places /\ q \notin TicketPlaces \cup OwnerPlaces /\ Go(t, q)
    BY <1>4 DEF ReadUndo, TicketPlaces, OwnerPlaces
  <2>2. Gain(t, q) = 0 - 1 /\ BitGain(t, q) = 0
    BY <1>4, <2>1 DEF ReadUndo, Gain, BitGain, TicketPlaces, OwnerPlaces
  <2>3. word' = word + Gain(t, q) + BitGain(t, q) /\ UNCHANGED <<op, left, seen>>
    BY <1>0, <1>4, <2>2 DEF ReadUndo
  <2>4. q \notin {"reading", "writing", "hp_drain"}
    OBVIOUS
  <2> HIDE DEF q
  <2> QED BY <1>0, <2>1, <2>3, <2>4, MovingStep
<1>5. CASE ReadSpin(t)
  BY <1>0, <1>5, <1>o DEF ReadSpin, TicketPlaces, OwnerPlaces
<1>6. CASE UnlockRead(t)
  <2>1. Gain(t, "idle") = 0 - 1 /\ BitGain(t, "idle") = 0
    BY <1>6 DEF UnlockRead, Gain, BitGain, TicketPlaces, OwnerPlaces
  <2>2. word' = word + Gain(t, "idle") + BitGain(t, "idle") /\ UNCHANGED <<op, left, seen>>
    BY <1>0, <1>6, <2>1 DEF UnlockRead
  <2> QED BY <1>0, <1>6, <2>2, MovingStep DEF UnlockRead, OwnerPlaces
<1>7. CASE WriteLoad(t)
  <2>1. CASE word = 0
    BY <1>0, <1>7, <2>1, <1>o DEF WriteLoad, TicketPlaces, OwnerPlaces
  <2>2. CASE word # 0
    <3>1. Failed(t, "write_load", "write_spin") /\ UNCHANGED <<word, op, seen>>
      BY <1>7, <2>2 DEF WriteLoad
    <3> QED BY <1>0, <1>7, <3>1, <1>o, FailedMoves DEF WriteLoad, TicketPlaces, OwnerPlaces
  <2> QED BY <2>1, <2>2
<1>8. CASE WriteCas(t)
  <2>1. CASE word = 0
    <3>1. Gain(t, "writing") = 0 /\ BitGain(t, "writing") = WBit
      BY <1>8 DEF WriteCas, Gain, BitGain, TicketPlaces, OwnerPlaces
    <3>2. word' = word + Gain(t, "writing") + BitGain(t, "writing")
      BY <1>0, <1>8, <2>1, <3>1 DEF WriteCas
    <3>3. Owners = {}
      BY <2>1, EmptyWord DEF IInv
    <3>4. \A u \in Threads : pc[u] \notin {"reading", "writing", "hp_drain"}
      BY <2>1, Others
    <3>5. Go(t, "writing") /\ UNCHANGED <<op, left, seen>>
      BY <1>8, <2>1 DEF WriteCas
    <3> QED BY <1>0, <3>2, <3>3, <3>4, <3>5, MovingStep
  <2>2. CASE word # 0
    <3>1. Failed(t, "write_load", "write_spin") /\ UNCHANGED <<word, op, seen>>
      BY <1>8, <2>2 DEF WriteCas
    <3> QED BY <1>0, <1>8, <3>1, <1>o, FailedMoves DEF WriteCas, TicketPlaces, OwnerPlaces
  <2> QED BY <2>1, <2>2
<1>9. CASE WriteSpin(t)
  BY <1>0, <1>9, <1>o DEF WriteSpin, TicketPlaces, OwnerPlaces
<1>10. CASE HpLoad(t)
  <2>1. CASE Locked
    <3>1. Failed(t, "hp_load", "hp_load") /\ UNCHANGED <<word, op, seen>>
      BY <1>10, <2>1 DEF HpLoad
    <3> QED BY <1>0, <1>10, <3>1, <1>o, FailedMoves DEF HpLoad, TicketPlaces, OwnerPlaces
  <2>2. CASE ~Locked
    <3>1. word \in 0 .. WBit - 1
      BY <1>0, <2>2 DEF Locked, TypeOK
    <3>2. seen' \in [Threads -> 0 .. WBit - 1]
      BY <1>0, <1>10, <2>2, <3>1 DEF HpLoad
    <3> QED BY <1>0, <1>10, <2>2, <3>2, <1>o DEF HpLoad, TicketPlaces, OwnerPlaces
  <2> QED BY <2>1, <2>2
<1>11. CASE HpCas(t)
  <2>1. CASE word = seen[t]
    <3> DEFINE q == IF seen[t] = 0 THEN "writing" ELSE "hp_drain"
    <3>1. q \in OwnerPlaces /\ q \in Places /\ q \notin TicketPlaces /\ Go(t, q)
      BY <1>11, <2>1 DEF HpCas, TicketPlaces, OwnerPlaces
    <3>2. Gain(t, q) = 0 /\ BitGain(t, q) = WBit
      BY <1>11, <3>1 DEF HpCas, Gain, BitGain, TicketPlaces, OwnerPlaces
    <3>3. word' = word + Gain(t, q) + BitGain(t, q)
      BY <1>0, <1>11, <2>1, <3>2 DEF HpCas
    <3>4. ~Locked
      BY <1>0, <2>1 DEF Locked
    <3>5. Owners = {}
      BY <3>4, LockedIffOwned DEF IInv
    <3>6. /\ q = "writing" =>
                 \A u \in Threads : u # t => pc[u] \notin {"reading", "writing", "hp_drain"}
          /\ \A u \in Threads : u # t => pc[u] # "writing"
      BY <2>1, <3>4, Others
    <3>7. UNCHANGED <<op, left, seen>>
      BY <1>11, <2>1 DEF HpCas
    <3> HIDE DEF q
    <3> QED BY <1>0, <3>1, <3>3, <3>5, <3>6, <3>7, MovingStep
  <2>2. CASE word # seen[t]
    <3>1. Failed(t, "hp_load", "hp_load") /\ UNCHANGED <<word, op, seen>>
      BY <1>11, <2>2 DEF HpCas
    <3> QED BY <1>0, <1>11, <3>1, <1>o, FailedMoves DEF HpCas, TicketPlaces, OwnerPlaces
  <2> QED BY <2>1, <2>2
<1>12. CASE HpDrain(t)
  <2>1. Gain(t, "writing") = 0 /\ BitGain(t, "writing") = 0 /\ pc[t] \in OwnerPlaces
    BY <1>12 DEF HpDrain, Gain, BitGain, TicketPlaces, OwnerPlaces
  <2>2. \A u \in Threads : u # t => pc[u] \notin {"reading", "writing", "hp_drain"}
    BY <1>12, <2>1, Others DEF HpDrain
  <2>3. word' = word + Gain(t, "writing") + BitGain(t, "writing") /\ UNCHANGED <<op, left, seen>>
    BY <1>0, <1>12, <2>1 DEF HpDrain
  <2> QED BY <1>0, <1>12, <2>1, <2>2, <2>3, MovingStep DEF HpDrain
<1>13. CASE UnlockWrite(t)
  <2>1. Gain(t, "idle") = 0 /\ BitGain(t, "idle") = 0 - WBit
    BY <1>13 DEF UnlockWrite, Gain, BitGain, TicketPlaces, OwnerPlaces
  <2>2. word' = word + Gain(t, "idle") + BitGain(t, "idle") /\ UNCHANGED <<op, left, seen>>
    BY <1>0, <1>13, <2>1 DEF UnlockWrite
  <2> QED BY <1>0, <1>13, <2>2, MovingStep DEF UnlockWrite, OwnerPlaces
<1>14. CASE WriteToRead(t)
  <2>1. Gain(t, "reading") = 1 /\ BitGain(t, "reading") = 0 - WBit /\ pc[t] \in OwnerPlaces
    BY <1>14 DEF WriteToRead, Gain, BitGain, TicketPlaces, OwnerPlaces
  <2>2. word' = word + Gain(t, "reading") + BitGain(t, "reading") /\ UNCHANGED <<op, left, seen>>
    BY <1>0, <1>14, <2>1 DEF WriteToRead
  <2>3. \A u \in Threads : u # t => pc[u] # "writing"
    BY <2>1, Others
  <2> QED BY <1>0, <1>14, <2>2, <2>3, MovingStep DEF WriteToRead, OwnerPlaces
<1> QED
  BY <1>1, <1>2, <1>3, <1>4, <1>5, <1>6, <1>7, <1>8, <1>9, <1>10, <1>11, <1>12, <1>13, <1>14
     DEF Step

\* So does a call.
LEMMA CallKeeps ==
    ASSUME IInv, NEW t \in Threads, Call(t)
    PROVE  IInv'
<1>1. PICK f \in Ops : op' = [op EXCEPT ![t] = f] /\ Go(t, Entry(f))
  BY DEF Call
<1>2. Entry(f) \in {"read_add", "read_lp", "write_load", "hp_load"}
  BY DEF Entry
<1>3. Entry(f) \in Places /\ Entry(f) \notin TicketPlaces \cup OwnerPlaces
  BY <1>2 DEF Places, TicketPlaces, OwnerPlaces
<1>4. pc[t] \notin TicketPlaces \cup OwnerPlaces /\ UNCHANGED <<word, seen>>
  BY DEF Call, TicketPlaces, OwnerPlaces
<1>5. WordCounts' /\ Exclusion' /\ word' \in 0 .. 2 * WBit - 1 /\ pc' \in [Threads -> Places]
  BY <1>1, <1>3, <1>4, OutsideStep
<1>6. op' \in [Threads -> Ops] /\ left' \in [Threads -> 0 .. Retries]
  BY <1>1, LockAssumption DEF Call, IInv, TypeOK
<1> QED BY <1>4, <1>5, <1>6 DEF IInv, TypeOK

-----------------------------------------------------------------------------
(* The theorems                                                              *)

\* The inductive invariant holds of the initial states and of every step.
LEMMA Invariance == Spec => []IInv
<1>1. Init => IInv
  <2> SUFFICES ASSUME Init PROVE IInv
    OBVIOUS
  <2>1. Tickets = {} /\ Owners = {}
    BY DEF Init, Tickets, Owners
  <2>2. Cardinality(Tickets) = 0
    BY <2>1, FS_EmptySet
  <2>3. WBit \in Nat /\ WBit > 0 /\ Retries \in Nat
    BY LockAssumption, FewTickets
  <2> QED BY <2>1, <2>2, <2>3 DEF Init, IInv, TypeOK, WordCounts, Exclusion, Places
<1>2. IInv /\ [Next]_vars => IInv'
  <2> SUFFICES ASSUME IInv, [Next]_vars PROVE IInv'
    OBVIOUS
  <2>1. CASE Next
    BY <2>1, StepKeeps, CallKeeps DEF Next
  <2>2. CASE UNCHANGED vars
    BY <2>2 DEF vars, IInv, TypeOK, WordCounts, Exclusion, Tickets, Owners
  <2> QED BY <2>1, <2>2
<1> QED BY <1>1, <1>2, PTL DEF Spec

\* The word of the lock never leaves its 32 bits: rwlock_unlock_read and
\* rwlock_unlock_write never borrow and no reader count reaches the write bit.
THEOREM TypeCorrect == Spec => []TypeOK
<1>1. IInv => TypeOK
  BY DEF IInv
<1> QED BY <1>1, Invariance, PTL

\* rwlock_lock_write, its try and high-priority variants exclude each other and
\* every reader, for any number of threads.
THEOREM Excludes == Spec => []Exclusion
<1>1. IInv => Exclusion
  BY DEF IInv
<1> QED BY <1>1, Invariance, PTL

\* The word is exactly what the threads have added to it.
THEOREM Exact == Spec => []WordCounts
<1>1. IInv => WordCounts
  BY DEF IInv
<1> QED BY <1>1, Invariance, PTL

\* No reader gets in past a writer that has set its bit, whichever of the read
\* functions it uses.
THEOREM NeverOvertaken == Spec => NoOvertaking
<1>1. ASSUME IInv, Next, NEW t \in Threads, pc[t] # "reading", pc'[t] = "reading"
      PROVE  Owners \subseteq {t}
  <2>1. PICK u \in Threads : Call(u) \/ Step(u)
    BY <1>1 DEF Next
  <2>2. pc \in [Threads -> Places]
    BY <1>1 DEF IInv, TypeOK
  <2>3. \/ Call(u) \/ ReadAdd(u) \/ ReadNr(u) \/ WriteToRead(u)
        \/ \E q \in Places \ {"reading"} : Go(u, q)
    <3>1. Step(u) =>
            \/ ReadAdd(u) \/ ReadNr(u) \/ WriteToRead(u)
            \/ ReadLp(u) \/ ReadUndo(u) \/ ReadSpin(u) \/ UnlockRead(u) \/ WriteSpin(u)
            \/ HpDrain(u) \/ UnlockWrite(u)
            \/ WriteLoad(u) \/ WriteCas(u) \/ HpLoad(u) \/ HpCas(u)
      BY DEF Step
    <3>2. ReadLp(u) \/ ReadUndo(u) \/ ReadSpin(u) \/ UnlockRead(u) \/ WriteSpin(u)
            \/ HpDrain(u) \/ UnlockWrite(u) => \E q \in Places \ {"reading"} : Go(u, q)
      BY DEF ReadLp, ReadUndo, ReadSpin, UnlockRead, WriteSpin, HpDrain, UnlockWrite, Places
    <3>3. WriteLoad(u) \/ WriteCas(u) \/ HpLoad(u) \/ HpCas(u)
            => \E q \in Places \ {"reading"} : Go(u, q)
      BY DEF WriteLoad, WriteCas, HpLoad, HpCas, Failed, Places
    <3> QED BY <2>1, <3>1, <3>2, <3>3
  <2>4. CASE Call(u)
    <3>1. \A f \in Ops : Entry(f) # "reading"
      BY DEF Entry
    <3> QED BY <1>1, <2>2, <2>4, <3>1 DEF Call, Go
  <2>5. CASE ReadAdd(u)
    <3>1. u = t /\ ~Locked
      BY <1>1, <2>2, <2>5 DEF ReadAdd, Go
    <3> QED BY <1>1, <3>1, LockedIffOwned DEF IInv
  <2>6. CASE ReadNr(u)
    <3>1. u = t /\ ~Locked
      BY <1>1, <2>2, <2>6 DEF ReadNr, Go
    <3> QED BY <1>1, <3>1, LockedIffOwned DEF IInv
  <2>7. CASE WriteToRead(u)
    <3>1. u = t /\ t \in Owners
      BY <1>1, <2>2, <2>7 DEF WriteToRead, Go, Owners
    <3> QED BY <1>1, <3>1 DEF IInv, WordCounts
  <2>8. CASE \E q \in Places \ {"reading"} : Go(u, q)
    BY <1>1, <2>2, <2>8 DEF Go
  <2> QED BY <2>3, <2>4, <2>5, <2>6, <2>7, <2>8
<1>2. IInv /\ [Next]_vars =>
         [\A t \in Threads :
             (pc[t] # "reading" /\ pc'[t] = "reading") => (Owners \subseteq {t})]_vars
  BY <1>1
<1> QED BY <1>2, Invariance, PTL DEF Spec, NoOvertaking
=============================================================================
