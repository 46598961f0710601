--------------------------------- MODULE Qsbr --------------------------------
(* Quiescent-state-based reclamation (qsbr_*, lib.c): readers take a slot in  *)
(* one of the shards, announce the version they use, park and resume; the     *)
(* writer that has published a version waits until every slot it has seen is  *)
(* empty, parked or announced.                                                *)
(*                                                                            *)
(* One step is one atomic access of shared memory. A reader's version is that *)
(* of the hash table it has loaded (wh.c): it holds it from the load to the   *)
(* next load, and until it parks or unregisters.                              *)
EXTENDS Integers, FiniteSets, Sequences

CONSTANTS Refs,          \* the readers
          Shards,        \* shards, as numbers
          Slots,         \* slots of a shard, as numbers
          ShardOf,       \* qsbr_shard: the shard a reader hashes to
          MaxVersion,    \* bound: versions published
          MaxRegs,       \* bound: registrations of each reader
          MaxBuffer,     \* bound: delayed stores of one reader
          Fresh,         \* TRUE: slots have never held a reader when the run starts
          StoreBuffers,  \* TRUE: plain stores of a reader may be delayed (x86)
          None, Target   \* a null pointer, and the address of q->target

ASSUME QsbrAssumption == /\ Shards \subseteq Nat /\ Slots \subseteq Nat
                         /\ ShardOf \in [Refs -> Shards]
                         /\ None \notin Refs \cup Nat \cup {Target}
                         /\ Target \notin Refs
                         /\ {MaxVersion, MaxBuffer} \subseteq Nat /\ MaxRegs \in [Refs -> Nat]
                         /\ Fresh \in BOOLEAN /\ StoreBuffers \in BOOLEAN

VARIABLES version,  \* the version of the hash table that is published
          bitmap,   \* for each shard the slots that are taken
          latched,  \* for each shard bit 63 of the bitmap
          ptrs,     \* for each slot the state it points to
          qstate,   \* what each reader has announced
          target,   \* q->target.qstate
          pc,       \* where each reader is
          slot,     \* the slot it uses (pptr)
          bits,     \* the bitmap it read when registering
          held,     \* the version it may use
          regs,     \* how often it has registered
          buffer,   \* its stores that memory has not seen
          wpc,      \* where the writer is
          bms,      \* its copy of the bitmaps
          todo,     \* shards left in this round of the loop
          work,     \* slots of the current shard left to look at
          ptr       \* the state it is about to read

rvars == <<pc, slot, bits, held, regs, buffer>>
wvars == <<target, wpc, bms, todo, work, ptr>>
vars  == <<version, bitmap, latched, ptrs, qstate, rvars, wvars>>

Places  == {"out", "reg_load", "reg_cas", "reg_ptr", "on", "loaded", "parked",
            "unreg_bit", "unreg_wait"}
WPlaces == {"idle", "start", "snap", "round", "scan", "deref"}

Go(r, p) == pc' = [pc EXCEPT ![r] = p]

\* The state a slot starts with: nothing yet, or what an earlier reader left.
Init == /\ version = 0
        /\ bitmap = [s \in Shards |-> {}]
        /\ latched = [s \in Shards |-> FALSE]
        /\ ptrs = [s \in Shards |-> [p \in Slots |-> IF Fresh THEN None ELSE Target]]
        /\ qstate = [r \in Refs |-> 0]
        /\ target = 0
        /\ pc = [r \in Refs |-> "out"]
        /\ slot = [r \in Refs |-> None]
        /\ bits = [r \in Refs |-> {}]
        /\ held = [r \in Refs |-> None]
        /\ regs = [r \in Refs |-> 0]
        /\ buffer = [r \in Refs |-> <<>>]
        /\ wpc = "idle"
        /\ bms = [s \in Shards |-> {}]
        /\ todo = {}
        /\ work = {}
        /\ ptr = None

-----------------------------------------------------------------------------
(* Stores of a reader                                                        *)

Ptr(r, q)   == [to |-> "ptr", at |-> slot[r], val |-> q]
State(r, v) == [to |-> "qstate", at |-> None, val |-> v]

Written(r, st) ==
    IF st.to = "ptr"
    THEN /\ ptrs' = [ptrs EXCEPT ![ShardOf[r]][st.at] = st.val]
         /\ UNCHANGED qstate
    ELSE /\ qstate' = [qstate EXCEPT ![r] = st.val]
         /\ UNCHANGED ptrs

\* A relaxed store: at once, or by way of the store buffer.
Store(r, st) ==
    IF StoreBuffers
    THEN /\ Len(buffer[r]) < MaxBuffer
         /\ buffer' = [buffer EXCEPT ![r] = Append(@, st)]
         /\ UNCHANGED <<ptrs, qstate>>
    ELSE Written(r, st) /\ UNCHANGED buffer

\* The oldest delayed store reaches memory.
Drain(r) == /\ buffer[r] # <<>>
            /\ Written(r, Head(buffer[r]))
            /\ buffer' = [buffer EXCEPT ![r] = Tail(@)]
            /\ UNCHANGED <<version, bitmap, latched, pc, slot, bits, held, regs, wvars>>

\* A locked instruction waits for the stores before it.
Fenced(r) == buffer[r] = <<>>

-----------------------------------------------------------------------------
(* Readers                                                                   *)

\* qsbr_register: announce 0, then look for a free slot.
Register(r) ==
    /\ pc[r] = "out" /\ regs[r] < MaxRegs[r]
    /\ Store(r, State(r, 0))
    /\ regs' = [regs EXCEPT ![r] = @ + 1]
    /\ Go(r, "reg_load")
    /\ UNCHANGED <<version, bitmap, latched, slot, bits, held, wvars>>

\* The bitmap as one word: the slots that are taken, and 63 for the latch.
Word(s) == bitmap[s] \cup (IF latched[s] THEN {63} ELSE {})

\* The lowest free slot; the shard may be full.
RegLoad(r) ==
    LET word == Word(ShardOf[r])
    IN  /\ pc[r] = "reg_load"
        /\ bits' = [bits EXCEPT ![r] = word]
        /\ Go(r, IF Slots \subseteq word THEN "out" ELSE "reg_cas")
        /\ UNCHANGED <<version, bitmap, latched, ptrs, qstate, slot, held, regs, buffer, wvars>>

Lowest(S) == CHOOSE p \in S : \A q \in S : p <= q

RegCas(r) ==
    LET s == ShardOf[r]
        p == Lowest(Slots \ bits[r])
    IN  /\ pc[r] = "reg_cas" /\ Fenced(r)
        /\ IF Word(s) = bits[r]
           THEN /\ bitmap' = [bitmap EXCEPT ![s] = @ \cup {p}]
                /\ slot' = [slot EXCEPT ![r] = p]
                /\ Go(r, "reg_ptr")
           ELSE Go(r, "reg_load") /\ UNCHANGED <<bitmap, slot>>
        /\ UNCHANGED <<version, latched, ptrs, qstate, bits, held, regs, buffer, wvars>>

RegPtr(r) == /\ pc[r] = "reg_ptr"
             /\ Store(r, Ptr(r, r))
             /\ Go(r, "on")
             /\ UNCHANGED <<version, bitmap, latched, slot, bits, held, regs, wvars>>

\* wormhmap_load and its version: what the reader uses from here on.
LoadVersion(r) == /\ pc[r] = "on"
                  /\ held' = [held EXCEPT ![r] = version]
                  /\ Go(r, "loaded")
                  /\ UNCHANGED <<version, bitmap, latched, ptrs, qstate, slot, bits, regs, buffer, wvars>>

\* qsbr_update.
Update(r) == /\ pc[r] = "loaded"
             /\ Store(r, State(r, held[r]))
             /\ Go(r, "on")
             /\ UNCHANGED <<version, bitmap, latched, slot, bits, held, regs, wvars>>

\* qsbr_park: the slot points to q->target, which has always announced.
Park(r) == /\ pc[r] = "on"
           /\ Store(r, Ptr(r, Target))
           /\ held' = [held EXCEPT ![r] = None]
           /\ Go(r, "parked")
           /\ UNCHANGED <<version, bitmap, latched, slot, bits, regs, wvars>>

\* Mutated: a resumed reader leaves its slot parked.
Resume_Parked(r) == /\ pc[r] = "parked"
                    /\ Go(r, "on")
                    /\ UNCHANGED <<version, bitmap, latched, ptrs, qstate, buffer, slot, bits, held, regs, wvars>>

Resume(r) == /\ pc[r] = "parked"
             /\ Store(r, Ptr(r, r))
             /\ Go(r, "on")
             /\ UNCHANGED <<version, bitmap, latched, slot, bits, held, regs, wvars>>

\* qsbr_unregister: the slot to the target, the bit cleared, and a wait for the
\* writer that may have the pointer in its hands; the reader is freed after it.
Unregister(r) == /\ pc[r] \in {"on", "parked"}
                 /\ Store(r, Ptr(r, Target))
                 /\ held' = [held EXCEPT ![r] = None]
                 /\ Go(r, "unreg_bit")
                 /\ UNCHANGED <<version, bitmap, latched, slot, bits, regs, wvars>>

\* Mutated: returns as soon as the bit is cleared.
UnregBit_NoWait(r) ==
    /\ pc[r] = "unreg_bit" /\ Fenced(r)
    /\ bitmap' = [bitmap EXCEPT ![ShardOf[r]] = @ \ {slot[r]}]
    /\ slot' = [slot EXCEPT ![r] = None]
    /\ Go(r, "out")
    /\ UNCHANGED <<version, latched, ptrs, qstate, bits, held, regs, buffer, wvars>>

UnregBit(r) ==
    /\ pc[r] = "unreg_bit" /\ Fenced(r)
    /\ bitmap' = [bitmap EXCEPT ![ShardOf[r]] = @ \ {slot[r]}]
    /\ slot' = [slot EXCEPT ![r] = None]
    /\ Go(r, "unreg_wait")
    /\ UNCHANGED <<version, latched, ptrs, qstate, bits, held, regs, buffer, wvars>>

UnregWait(r) == /\ pc[r] = "unreg_wait"
                /\ ~latched[ShardOf[r]]
                /\ Go(r, "out")
                /\ UNCHANGED <<version, bitmap, latched, ptrs, qstate, slot, bits, held, regs, buffer, wvars>>

-----------------------------------------------------------------------------
(* The writer: qsbr_wait                                                     *)

\* The caller has switched to a new hash table (wormhmap_store).
Publish == /\ wpc = "idle" /\ version < MaxVersion
           /\ version' = version + 1
           /\ wpc' = "start"
           /\ UNCHANGED <<bitmap, latched, ptrs, qstate, rvars, target, bms, todo, work, ptr>>

WaitStart == /\ wpc = "start"
             /\ target' = version
             /\ bms' = [s \in Shards |-> {}]
             /\ todo' = Shards
             /\ wpc' = "snap"
             /\ UNCHANGED <<version, bitmap, latched, ptrs, qstate, rvars, work, ptr>>

\* Shards with slots that are not yet known to be quiescent (cbits).
Unquiet(b) == {s \in Shards : b[s] # {}}

\* The snapshot, shard by shard.
WaitSnap == LET s == Lowest(todo)
            IN  /\ wpc = "snap" /\ todo # {}
                /\ bms' = [bms EXCEPT ![s] = bitmap[s]]
                /\ todo' = todo \ {s}
                /\ UNCHANGED <<version, bitmap, latched, ptrs, qstate, rvars, target, wpc, work, ptr>>

\* A round of the loop begins, or the wait is over.
WaitRound == /\ wpc \in {"snap", "round"} /\ todo = {}
             /\ todo' = Unquiet(bms)
             /\ wpc' = IF Unquiet(bms) = {} THEN "idle" ELSE "round"
             /\ UNCHANGED <<version, bitmap, latched, ptrs, qstate, rvars, target, bms, work, ptr>>

\* Mutated: slots whose bit is gone stay in the writer's copy.
WaitLatch_Sticky ==
    LET s == Lowest(todo)
    IN  /\ wpc = "round" /\ todo # {}
        /\ latched' = [latched EXCEPT ![s] = TRUE]
        /\ work' = bms[s] \cap bitmap[s]
        /\ wpc' = "scan"
        /\ UNCHANGED <<version, bitmap, ptrs, qstate, rvars, target, bms, todo, ptr>>

\* The shard is latched; slots whose bit is gone are quiescent.
WaitLatch ==
    LET s == Lowest(todo)
    IN  /\ wpc = "round" /\ todo # {}
        /\ latched' = [latched EXCEPT ![s] = TRUE]
        /\ bms' = [bms EXCEPT ![s] = @ \cap bitmap[s]]
        /\ work' = bms[s] \cap bitmap[s]
        /\ wpc' = "scan"
        /\ UNCHANGED <<version, bitmap, ptrs, qstate, rvars, target, todo, ptr>>

\* The pointer of the next slot.
WaitPtr == LET s == Lowest(todo)
           IN  /\ wpc = "scan" /\ work # {}
               /\ ptr' = ptrs[s][Lowest(work)]
               /\ wpc' = "deref"
               /\ UNCHANGED <<version, bitmap, latched, ptrs, qstate, rvars, target, bms, todo, work>>

Announced(q) == IF q = Target THEN target ELSE qstate[q]

\* What it points to has announced the target, or is looked at again later. The
\* null pointer of a slot that is taken for the first time has no state to read.
WaitDeref ==
    LET s == Lowest(todo)
    IN  /\ wpc = "deref" /\ ptr # None
        /\ bms' = [bms EXCEPT ![s] = IF Announced(ptr) = target THEN @ \ {Lowest(work)} ELSE @]
        /\ work' = work \ {Lowest(work)}
        /\ wpc' = "scan"
        /\ ptr' = None
        /\ UNCHANGED <<version, bitmap, latched, ptrs, qstate, rvars, target, todo>>

WaitUnlatch ==
    LET s == Lowest(todo)
    IN  /\ wpc = "scan" /\ work = {}
        /\ latched' = [latched EXCEPT ![s] = FALSE]
        /\ todo' = todo \ {s}
        /\ wpc' = "round"
        /\ UNCHANGED <<version, bitmap, ptrs, qstate, rvars, target, bms, work, ptr>>

-----------------------------------------------------------------------------
Reader(r) == \/ Register(r) \/ RegLoad(r) \/ RegCas(r) \/ RegPtr(r)
             \/ LoadVersion(r) \/ Update(r) \/ Park(r) \/ Resume(r)
             \/ Unregister(r) \/ UnregBit(r) \/ UnregWait(r)

Wait == \/ WaitStart \/ WaitSnap \/ WaitRound \/ WaitLatch
        \/ WaitPtr \/ WaitDeref \/ WaitUnlatch

Next == (\E r \in Refs : Reader(r)) \/ Publish \/ Wait

Spec == Init /\ [][Next]_vars

\* The same where memory sees stores late, with StoreBuffers.
DelayedSpec == Init /\ [][Next \/ \E r \in Refs : Drain(r)]_vars

\* Readers finish what they have begun, and one that is registered and not
\* parked loads a version again and again: every operation of the index does,
\* after a bounded number of parks and resumes for its locks. Nobody has to
\* park, to come back or to unregister.
Busy(r) == \/ RegLoad(r) \/ RegCas(r) \/ RegPtr(r) \/ LoadVersion(r) \/ Update(r)
           \/ UnregBit(r) \/ UnregWait(r)

FairSpec == /\ Spec /\ WF_vars(Wait)
            /\ \A r \in Refs : WF_vars(Busy(r)) /\ SF_vars(LoadVersion(r))

-----------------------------------------------------------------------------
\* The shape of the shards, the readers and the snapshot of the writer.
TypeOK == /\ version \in 0 .. MaxVersion
          /\ bitmap \in [Shards -> SUBSET Slots]
          /\ latched \in [Shards -> BOOLEAN]
          /\ ptrs \in [Shards -> [Slots -> Refs \cup {None, Target}]]
          /\ qstate \in [Refs -> 0 .. MaxVersion]
          /\ pc \in [Refs -> Places]
          /\ slot \in [Refs -> Slots \cup {None}]
          /\ held \in [Refs -> (0 .. MaxVersion) \cup {None}]
          /\ wpc \in WPlaces
          /\ bms \in [Shards -> SUBSET Slots]

\* Two readers never have the same slot, whoever registers and unregisters at
\* the same time.
SlotsApart == \A r, q \in Refs :
                  (r # q /\ ShardOf[r] = ShardOf[q] /\ slot[r] # None) => slot[r] # slot[q]

\* The writer never reads the state of a reader whose unregistration has
\* returned: its memory is freed by then (wormhole_unref).
DerefsLive == (wpc = "deref" /\ ptr \in Refs) => pc[ptr] # "out"

\* qsbr_register, qsbr_unregister and qsbr_wait: the writer goes over slots that change hands
\* and never follows a pointer to a reader that is gone, nor do two readers share a slot.
ReadersSafe == TypeOK /\ SlotsApart /\ DerefsLive

\* A slot whose bit is set points to a state the writer can read.
DerefsState == wpc = "deref" => ptr # None

\* When no wait is under way nobody uses anything but the newest version.
GracePeriod == wpc = "idle" => \A r \in Refs : held[r] \in {None, version}

\* The wait ends only when every reader in possession of an older version has
\* announced a newer one, parked or gone.
Abstract == INSTANCE Grace WITH using <- held, waiting <- (wpc # "idle")
\* The protocol implements Grace.
GraceOver == Abstract!Spec

\* Every wait ends as long as the readers that are not parked keep announcing.
WaitEnds == (wpc # "idle") ~> (wpc = "idle")
=============================================================================
