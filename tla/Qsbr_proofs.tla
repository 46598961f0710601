----------------------------- MODULE Qsbr_proofs -----------------------------
(* The wait of a writer is a grace period: proofs about Qsbr for every set of *)
(* readers, every layout of shards and slots and every bound. Stores reach    *)
(* memory at once: where they may be delayed, TLC shows that the wait can end *)
(* too early.                                                                 *)
EXTENDS Qsbr, WellFoundedInduction, TLAPS

\* The places of a reader that has a slot, those at which the slot points to
\* it, and those from which it does not return before the shard is unlatched.
HasSlot == {"reg_ptr", "on", "loaded", "parked", "unreg_bit"}
InUse   == {"on", "loaded"}
Stays   == {"on", "loaded", "parked", "unreg_bit", "unreg_wait"}

\* A reader that may use a version older than the newest.
Old(r) == held[r] # None /\ held[r] # version

\* A reader has a slot whose bit is set, or none; it looks for one where it has
\* seen a free bit.
SlotsTaken ==
    /\ bits \in [Refs -> SUBSET Nat]
    /\ \A r \in Refs : /\ pc[r] \in HasSlot <=> slot[r] # None
                       /\ slot[r] # None => slot[r] \in bitmap[ShardOf[r]]
                       /\ pc[r] = "reg_cas" => Slots \ bits[r] # {}

\* A slot points to the reader that has it while the reader is in use, and to
\* no other reader.
PointersRight ==
    /\ \A r \in Refs : pc[r] \in InUse => ptrs[ShardOf[r]][slot[r]] = r
    /\ \A s \in Shards, p \in Slots :
          LET q == ptrs[s][p]
          IN  q \in Refs => pc[q] \in InUse /\ ShardOf[q] = s /\ slot[q] = p

\* What a reader has announced is no newer than what it may use.
AnnouncedRight ==
    \A r \in Refs : /\ held[r] # None => pc[r] \in InUse /\ held[r] <= version /\ qstate[r] <= held[r]
                    /\ pc[r] = "loaded" => held[r] # None
                    /\ qstate[r] <= version

\* The writer's own variables.
WriterRight ==
    /\ todo \subseteq Shards /\ work \subseteq Slots
    /\ ptr \in Refs \cup {None, Target}
    /\ wpc \in {"scan", "deref"} => todo # {} /\ latched[Lowest(todo)]
    /\ wpc = "deref" => work # {}
    /\ wpc = "deref" /\ ptr \in Refs => ShardOf[ptr] = Lowest(todo) /\ pc[ptr] \in Stays
    /\ wpc \notin {"idle", "start"} => target = version

\* A reader with an older version is in the writer's copy of the bitmaps from
\* the snapshot on, and the pointer that the writer gets for its slot is its own.
OldSeen ==
    \A r \in Refs : Old(r) =>
        /\ wpc # "idle"
        /\ wpc = "snap" /\ ShardOf[r] \notin todo => slot[r] \in bms[ShardOf[r]]
        /\ wpc \in {"round", "scan", "deref"} => slot[r] \in bms[ShardOf[r]]
        /\ wpc = "deref" /\ ShardOf[r] = Lowest(todo) /\ slot[r] = Lowest(work) => ptr = r

\* The inductive invariant.
IInv == /\ TypeOK /\ SlotsApart
        /\ SlotsTaken /\ PointersRight /\ AnnouncedRight /\ WriterRight /\ OldSeen

-----------------------------------------------------------------------------
\* The lowest of a set of numbers is one of them: no natural number has an
\* endless descent below it.
LEMMA LowestIn ==
    ASSUME NEW S \in SUBSET Nat, S # {}
    PROVE  Lowest(S) \in S
<1>1. PICK p \in S : \A q \in S : ~(<<q, p>> \in OpToRel(<, Nat))
  BY NatLessThanWellFounded, WFMin
<1>2. \A q \in S : ~(q < p)
  BY <1>1 DEF OpToRel
<1>3. \A q \in S : p <= q
  BY <1>2
<1> QED BY <1>3 DEF Lowest

\* A relaxed store that is not delayed.
LEMMA StoreNow ==
    ASSUME StoreBuffers = FALSE, NEW r \in Refs, NEW v
    PROVE  /\ Store(r, Ptr(r, v)) => /\ ptrs' = [ptrs EXCEPT ![ShardOf[r]][slot[r]] = v]
                                     /\ UNCHANGED <<qstate, buffer>>
           /\ Store(r, State(r, v)) => /\ qstate' = [qstate EXCEPT ![r] = v]
                                       /\ UNCHANGED <<ptrs, buffer>>
BY DEF Store, Written, Ptr, State

\* A reader whose slot comes to point to it while it is in use, or to the target.
LEMMA Repointed ==
    ASSUME TypeOK, SlotsApart, SlotsTaken, PointersRight,
           NEW r \in Refs, pc[r] \in HasSlot, NEW v \in {r, Target}, NEW p \in Places,
           p \in InUse <=> v = r,
           ptrs' = [ptrs EXCEPT ![ShardOf[r]][slot[r]] = v], Go(r, p), UNCHANGED slot
    PROVE  PointersRight' /\ ptrs' \in [Shards -> [Slots -> Refs \cup {None, Target}]]
<1> USE QsbrAssumption
<1>1. slot[r] \in Slots /\ ShardOf[r] \in Shards
  BY DEF TypeOK, SlotsTaken
<1>2. /\ ptrs' \in [Shards -> [Slots -> Refs \cup {None, Target}]]
      /\ \A s \in Shards, n \in Slots :
            ptrs'[s][n] = IF s = ShardOf[r] /\ n = slot[r] THEN v ELSE ptrs[s][n]
  BY <1>1 DEF TypeOK
<1>3. ASSUME NEW q \in Refs, pc'[q] \in InUse
      PROVE  ptrs'[ShardOf[q]][slot'[q]] = q
  <2>1. CASE q = r
    BY <1>1, <1>2, <1>3, <2>1 DEF TypeOK, Go
  <2>2. CASE q # r
    <3>1. pc[q] \in InUse /\ slot[q] # None
      BY <1>3, <2>2 DEF TypeOK, Go, SlotsTaken, HasSlot, InUse
    <3>2. slot[q] \in Slots /\ ShardOf[q] \in Shards
      BY <3>1 DEF TypeOK
    <3>3. ~(ShardOf[q] = ShardOf[r] /\ slot[q] = slot[r])
      BY <1>1, <2>2, <3>1, <3>2 DEF SlotsApart
    <3> QED BY <1>2, <3>1, <3>2, <3>3 DEF PointersRight
  <2> QED BY <2>1, <2>2
<1>4. ASSUME NEW s \in Shards, NEW n \in Slots, ptrs'[s][n] \in Refs
      PROVE  pc'[ptrs'[s][n]] \in InUse /\ ShardOf[ptrs'[s][n]] = s /\ slot'[ptrs'[s][n]] = n
  BY <1>1, <1>2, <1>4 DEF PointersRight, TypeOK, Go, InUse
<1> QED BY <1>2, <1>3, <1>4 DEF PointersRight

-----------------------------------------------------------------------------
(* Steps of readers                                                          *)

\* A reader that begins to register has nothing yet.
LEMMA RegisterKeeps ==
    ASSUME IInv, StoreBuffers = FALSE, NEW r \in Refs, Register(r)
    PROVE  IInv'
<1> USE QsbrAssumption DEF IInv, Register, Go, rvars, wvars
<1>a. qstate' = [qstate EXCEPT ![r] = 0] /\ UNCHANGED <<ptrs, buffer>>
  BY StoreNow
<1>1. TypeOK'
  BY <1>a DEF TypeOK, Places
<1>2. SlotsApart'
  BY <1>a DEF TypeOK, SlotsApart, SlotsTaken
<1>3. SlotsTaken'
  BY <1>a DEF TypeOK, SlotsTaken, SlotsApart, HasSlot
<1>4. PointersRight'
  BY <1>a DEF TypeOK, PointersRight, SlotsTaken, SlotsApart, HasSlot, InUse
<1>5. AnnouncedRight'
  BY <1>a DEF TypeOK, AnnouncedRight, HasSlot, InUse
<1>6. WriterRight'
  BY <1>a DEF TypeOK, WriterRight, PointersRight, Stays, InUse
<1>7. OldSeen'
  BY <1>a DEF TypeOK, OldSeen, Old, SlotsTaken, AnnouncedRight, PointersRight, WriterRight, HasSlot, InUse, Stays
<1> QED BY <1>1, <1>2, <1>3, <1>4, <1>5, <1>6, <1>7

\* It reads the bitmap; it goes on if a slot is free.
LEMMA RegLoadKeeps ==
    ASSUME IInv, StoreBuffers = FALSE, NEW r \in Refs, RegLoad(r)
    PROVE  IInv'
<1> USE QsbrAssumption DEF IInv, RegLoad, Go, rvars, wvars
<1>a. Word(ShardOf[r]) \in SUBSET Nat
  <2>1. bitmap[ShardOf[r]] \in SUBSET Slots /\ 63 \in Nat
    BY DEF TypeOK
  <2> QED BY <2>1 DEF Word
<1>1. TypeOK'
  BY <1>a DEF TypeOK, Places
<1>2. SlotsApart'
  BY <1>a DEF TypeOK, SlotsApart, SlotsTaken
<1>3. SlotsTaken'
  BY <1>a DEF TypeOK, SlotsTaken, SlotsApart, HasSlot
<1>4. PointersRight'
  BY <1>a DEF TypeOK, PointersRight, SlotsTaken, SlotsApart, HasSlot, InUse
<1>5. AnnouncedRight'
  BY <1>a DEF TypeOK, AnnouncedRight, HasSlot, InUse
<1>6. WriterRight'
  BY <1>a DEF TypeOK, WriterRight, PointersRight, Stays, InUse
<1>7. OldSeen'
  BY <1>a DEF TypeOK, OldSeen, Old, SlotsTaken, AnnouncedRight, PointersRight, WriterRight, HasSlot, InUse, Stays
<1> QED BY <1>1, <1>2, <1>3, <1>4, <1>5, <1>6, <1>7

\* It takes a slot that nobody has, or tries again.
LEMMA RegCasKeeps ==
    ASSUME IInv, StoreBuffers = FALSE, NEW r \in Refs, RegCas(r)
    PROVE  IInv'
<1> USE QsbrAssumption DEF IInv, RegCas, Go, rvars, wvars
<1> DEFINE s == ShardOf[r]
            p == Lowest(Slots \ bits[r])
<1>a. s \in Shards /\ p \in Slots \ bits[r]
  BY LowestIn DEF TypeOK, SlotsTaken
<1>b. slot[r] = None
  BY DEF SlotsTaken, HasSlot
<1>c. \/ /\ p \notin bitmap[s]
         /\ bitmap' = [bitmap EXCEPT ![s] = @ \cup {p}]
         /\ slot' = [slot EXCEPT ![r] = p]
         /\ Go(r, "reg_ptr")
      \/ Go(r, "reg_load") /\ UNCHANGED <<bitmap, slot>>
  BY <1>a DEF Word
<1> HIDE DEF p, s
<1>1. TypeOK'
  BY <1>a, <1>b, <1>c DEF TypeOK, Places
<1>2. SlotsApart'
  BY <1>a, <1>b, <1>c DEF TypeOK, SlotsApart, SlotsTaken
<1>3. SlotsTaken'
  <2>1. CASE /\ bitmap' = [bitmap EXCEPT ![s] = @ \cup {p}]
             /\ slot' = [slot EXCEPT ![r] = p]
             /\ Go(r, "reg_ptr")
    <3>1. \A q \in Refs : /\ pc'[q] = IF q = r THEN "reg_ptr" ELSE pc[q]
                          /\ slot'[q] = IF q = r THEN p ELSE slot[q]
      BY <2>1 DEF TypeOK
    <3>2. p # None /\ p \in bitmap'[s]
      BY <1>a, <2>1 DEF TypeOK
    <3>3. \A q \in Refs : bitmap[ShardOf[q]] \subseteq bitmap'[ShardOf[q]]
      BY <1>a, <2>1 DEF TypeOK
    <3> QED BY <3>1, <3>2, <3>3 DEF SlotsTaken, HasSlot, s
  <2>2. CASE Go(r, "reg_load") /\ UNCHANGED <<bitmap, slot>>
    BY <1>b, <2>2 DEF TypeOK, SlotsTaken, HasSlot
  <2> QED BY <1>c, <2>1, <2>2
<1>4. PointersRight'
  BY <1>a, <1>b, <1>c DEF TypeOK, PointersRight, SlotsTaken, SlotsApart, HasSlot, InUse
<1>5. AnnouncedRight'
  BY <1>a, <1>b, <1>c DEF TypeOK, AnnouncedRight, HasSlot, InUse
<1>6. WriterRight'
  BY <1>a, <1>b, <1>c DEF TypeOK, WriterRight, PointersRight, Stays, InUse
<1>7. OldSeen'
  BY <1>a, <1>b, <1>c DEF TypeOK, OldSeen, Old, SlotsTaken, AnnouncedRight, PointersRight, WriterRight, HasSlot, InUse, Stays
<1> QED BY <1>1, <1>2, <1>3, <1>4, <1>5, <1>6, <1>7

\* The slot it has taken points to it.
LEMMA RegPtrKeeps ==
    ASSUME IInv, StoreBuffers = FALSE, NEW r \in Refs, RegPtr(r)
    PROVE  IInv'
<1> USE QsbrAssumption DEF IInv, RegPtr, Go, rvars, wvars
<1>a. ptrs' = [ptrs EXCEPT ![ShardOf[r]][slot[r]] = r] /\ UNCHANGED <<qstate, buffer>>
  BY StoreNow
<1>b. pc[r] \in HasSlot /\ r \in {r, Target} /\ "on" \in Places
  BY DEF HasSlot, Places
<1>c. PointersRight' /\ ptrs' \in [Shards -> [Slots -> Refs \cup {None, Target}]]
  BY <1>a, <1>b, Repointed DEF InUse
<1>1. TypeOK'
  BY <1>a, <1>c DEF TypeOK, Places
<1>2. SlotsApart'
  BY <1>a DEF TypeOK, SlotsApart, SlotsTaken
<1>3. SlotsTaken'
  BY <1>a DEF TypeOK, SlotsTaken, SlotsApart, HasSlot
<1>4. PointersRight'
  BY <1>c
<1>5. AnnouncedRight'
  BY <1>a DEF TypeOK, AnnouncedRight, HasSlot, InUse
<1>6. WriterRight'
  BY <1>a DEF TypeOK, WriterRight, PointersRight, Stays, InUse
<1>7. OldSeen'
  BY <1>a DEF TypeOK, OldSeen, Old, SlotsTaken, AnnouncedRight, PointersRight, WriterRight, HasSlot, InUse, Stays
<1> QED BY <1>1, <1>2, <1>3, <1>4, <1>5, <1>6, <1>7

\* What it may use from now on is the newest version.
LEMMA LoadVersionKeeps ==
    ASSUME IInv, StoreBuffers = FALSE, NEW r \in Refs, LoadVersion(r)
    PROVE  IInv'
<1> USE QsbrAssumption DEF IInv, LoadVersion, Go, rvars, wvars
<1>1. TypeOK'
  BY DEF TypeOK, Places
<1>2. SlotsApart'
  BY DEF TypeOK, SlotsApart, SlotsTaken
<1>3. SlotsTaken'
  BY DEF TypeOK, SlotsTaken, SlotsApart, HasSlot
<1>4. PointersRight'
  BY DEF TypeOK, PointersRight, SlotsTaken, SlotsApart, HasSlot, InUse
<1>5. AnnouncedRight'
  BY DEF TypeOK, AnnouncedRight, HasSlot, InUse
<1>6. WriterRight'
  BY DEF TypeOK, WriterRight, PointersRight, Stays, InUse
<1>7. OldSeen'
  BY DEF TypeOK, OldSeen, Old, SlotsTaken, AnnouncedRight, PointersRight, WriterRight, HasSlot, InUse, Stays
<1> QED BY <1>1, <1>2, <1>3, <1>4, <1>5, <1>6, <1>7

\* It announces the version it may use.
LEMMA UpdateKeeps ==
    ASSUME IInv, StoreBuffers = FALSE, NEW r \in Refs, Update(r)
    PROVE  IInv'
<1> USE QsbrAssumption DEF IInv, Update, Go, rvars, wvars
<1>a. qstate' = [qstate EXCEPT ![r] = held[r]] /\ UNCHANGED <<ptrs, buffer>>
  BY StoreNow
<1>b. held[r] \in 0 .. MaxVersion
  BY DEF TypeOK, AnnouncedRight
<1>1. TypeOK'
  BY <1>a, <1>b DEF TypeOK, Places
<1>2. SlotsApart'
  BY <1>a, <1>b DEF TypeOK, SlotsApart, SlotsTaken
<1>3. SlotsTaken'
  BY <1>a, <1>b DEF TypeOK, SlotsTaken, SlotsApart, HasSlot
<1>4. PointersRight'
  BY <1>a, <1>b DEF TypeOK, PointersRight, SlotsTaken, SlotsApart, HasSlot, InUse
<1>5. AnnouncedRight'
  BY <1>a, <1>b DEF TypeOK, AnnouncedRight, HasSlot, InUse
<1>6. WriterRight'
  BY <1>a, <1>b DEF TypeOK, WriterRight, PointersRight, Stays, InUse
<1>7. OldSeen'
  BY <1>a, <1>b DEF TypeOK, OldSeen, Old, SlotsTaken, AnnouncedRight, PointersRight, WriterRight, HasSlot, InUse, Stays
<1> QED BY <1>1, <1>2, <1>3, <1>4, <1>5, <1>6, <1>7

\* A parked reader uses nothing.
LEMMA ParkKeeps ==
    ASSUME IInv, StoreBuffers = FALSE, NEW r \in Refs, Park(r)
    PROVE  IInv'
<1> USE QsbrAssumption DEF IInv, Park, Go, rvars, wvars
<1>a. ptrs' = [ptrs EXCEPT ![ShardOf[r]][slot[r]] = Target] /\ UNCHANGED <<qstate, buffer>>
  BY StoreNow
<1>b. pc[r] \in HasSlot /\ Target \in {r, Target} /\ "parked" \in Places
  BY DEF HasSlot, Places
<1>c. PointersRight' /\ ptrs' \in [Shards -> [Slots -> Refs \cup {None, Target}]]
  BY <1>a, <1>b, Repointed DEF InUse
<1>1. TypeOK'
  BY <1>a, <1>c DEF TypeOK, Places
<1>2. SlotsApart'
  BY <1>a DEF TypeOK, SlotsApart, SlotsTaken
<1>3. SlotsTaken'
  BY <1>a DEF TypeOK, SlotsTaken, SlotsApart, HasSlot
<1>4. PointersRight'
  BY <1>c
<1>5. AnnouncedRight'
  BY <1>a DEF TypeOK, AnnouncedRight, HasSlot, InUse
<1>6. WriterRight'
  BY <1>a DEF TypeOK, WriterRight, PointersRight, Stays, InUse
<1>7. OldSeen'
  BY <1>a DEF TypeOK, OldSeen, Old, SlotsTaken, AnnouncedRight, PointersRight, WriterRight, HasSlot, InUse, Stays
<1> QED BY <1>1, <1>2, <1>3, <1>4, <1>5, <1>6, <1>7

\* A reader comes back to the slot it has kept.
LEMMA ResumeKeeps ==
    ASSUME IInv, StoreBuffers = FALSE, NEW r \in Refs, Resume(r)
    PROVE  IInv'
<1> USE QsbrAssumption DEF IInv, Resume, Go, rvars, wvars
<1>a. ptrs' = [ptrs EXCEPT ![ShardOf[r]][slot[r]] = r] /\ UNCHANGED <<qstate, buffer>>
  BY StoreNow
<1>b. pc[r] \in HasSlot /\ r \in {r, Target} /\ "on" \in Places
  BY DEF HasSlot, Places
<1>c. PointersRight' /\ ptrs' \in [Shards -> [Slots -> Refs \cup {None, Target}]]
  BY <1>a, <1>b, Repointed DEF InUse
<1>1. TypeOK'
  BY <1>a, <1>c DEF TypeOK, Places
<1>2. SlotsApart'
  BY <1>a DEF TypeOK, SlotsApart, SlotsTaken
<1>3. SlotsTaken'
  BY <1>a DEF TypeOK, SlotsTaken, SlotsApart, HasSlot
<1>4. PointersRight'
  BY <1>c
<1>5. AnnouncedRight'
  BY <1>a DEF TypeOK, AnnouncedRight, HasSlot, InUse
<1>6. WriterRight'
  BY <1>a DEF TypeOK, WriterRight, PointersRight, Stays, InUse
<1>7. OldSeen'
  BY <1>a DEF TypeOK, OldSeen, Old, SlotsTaken, AnnouncedRight, PointersRight, WriterRight, HasSlot, InUse, Stays
<1> QED BY <1>1, <1>2, <1>3, <1>4, <1>5, <1>6, <1>7

\* A reader that unregisters uses nothing.
LEMMA UnregisterKeeps ==
    ASSUME IInv, StoreBuffers = FALSE, NEW r \in Refs, Unregister(r)
    PROVE  IInv'
<1> USE QsbrAssumption DEF IInv, Unregister, Go, rvars, wvars
<1>a. ptrs' = [ptrs EXCEPT ![ShardOf[r]][slot[r]] = Target] /\ UNCHANGED <<qstate, buffer>>
  BY StoreNow
<1>b. pc[r] \in HasSlot /\ Target \in {r, Target} /\ "unreg_bit" \in Places
  BY DEF HasSlot, Places
<1>c. PointersRight' /\ ptrs' \in [Shards -> [Slots -> Refs \cup {None, Target}]]
  BY <1>a, <1>b, Repointed DEF InUse
<1>1. TypeOK'
  BY <1>a, <1>c DEF TypeOK, Places
<1>2. SlotsApart'
  BY <1>a DEF TypeOK, SlotsApart, SlotsTaken
<1>3. SlotsTaken'
  BY <1>a DEF TypeOK, SlotsTaken, SlotsApart, HasSlot
<1>4. PointersRight'
  BY <1>c
<1>5. AnnouncedRight'
  BY <1>a DEF TypeOK, AnnouncedRight, HasSlot, InUse
<1>6. WriterRight'
  BY <1>a DEF TypeOK, WriterRight, PointersRight, Stays, InUse
<1>7. OldSeen'
  BY <1>a DEF TypeOK, OldSeen, Old, SlotsTaken, AnnouncedRight, PointersRight, WriterRight, HasSlot, InUse, Stays
<1> QED BY <1>1, <1>2, <1>3, <1>4, <1>5, <1>6, <1>7

\* Its bit goes, and no other one.
LEMMA UnregBitKeeps ==
    ASSUME IInv, StoreBuffers = FALSE, NEW r \in Refs, UnregBit(r)
    PROVE  IInv'
<1> USE QsbrAssumption DEF IInv, UnregBit, Go, rvars, wvars
<1>1. TypeOK'
  BY DEF TypeOK, Places
<1>2. SlotsApart'
  BY DEF TypeOK, SlotsApart, SlotsTaken
<1>3. SlotsTaken'
  BY DEF TypeOK, SlotsTaken, SlotsApart, HasSlot
<1>4. PointersRight'
  BY DEF TypeOK, PointersRight, SlotsTaken, SlotsApart, HasSlot, InUse
<1>5. AnnouncedRight'
  BY DEF TypeOK, AnnouncedRight, HasSlot, InUse
<1>6. WriterRight'
  BY DEF TypeOK, WriterRight, PointersRight, Stays, InUse
<1>7. OldSeen'
  BY DEF TypeOK, OldSeen, Old, SlotsTaken, AnnouncedRight, PointersRight, WriterRight, HasSlot, InUse, Stays
<1> QED BY <1>1, <1>2, <1>3, <1>4, <1>5, <1>6, <1>7

\* It returns only while its shard is not latched.
LEMMA UnregWaitKeeps ==
    ASSUME IInv, StoreBuffers = FALSE, NEW r \in Refs, UnregWait(r)
    PROVE  IInv'
<1> USE QsbrAssumption DEF IInv, UnregWait, Go, rvars, wvars
<1>1. TypeOK'
  BY DEF TypeOK, Places
<1>2. SlotsApart'
  BY DEF TypeOK, SlotsApart, SlotsTaken
<1>3. SlotsTaken'
  BY DEF TypeOK, SlotsTaken, SlotsApart, HasSlot
<1>4. PointersRight'
  BY DEF TypeOK, PointersRight, SlotsTaken, SlotsApart, HasSlot, InUse
<1>5. AnnouncedRight'
  BY DEF TypeOK, AnnouncedRight, HasSlot, InUse
<1>6. WriterRight'
  BY DEF TypeOK, WriterRight, PointersRight, Stays, InUse
<1>7. OldSeen'
  BY DEF TypeOK, OldSeen, Old, SlotsTaken, AnnouncedRight, PointersRight, WriterRight, HasSlot, InUse, Stays
<1> QED BY <1>1, <1>2, <1>3, <1>4, <1>5, <1>6, <1>7

-----------------------------------------------------------------------------
(* Steps of the writer                                                       *)

\* Readers with the version that was the newest have an older one now.
LEMMA PublishKeeps ==
    ASSUME IInv, Publish
    PROVE  IInv'
<1> USE QsbrAssumption DEF IInv, Publish, rvars, wvars
<1>1. TypeOK'
  BY LowestIn DEF TypeOK, WPlaces, WriterRight
<1>2. SlotsApart'
  BY LowestIn DEF TypeOK, SlotsApart, SlotsTaken
<1>3. SlotsTaken'
  BY LowestIn DEF TypeOK, SlotsTaken, SlotsApart, HasSlot
<1>4. PointersRight'
  BY LowestIn DEF TypeOK, PointersRight, SlotsTaken, SlotsApart, HasSlot, InUse
<1>5. AnnouncedRight'
  BY LowestIn DEF TypeOK, AnnouncedRight, HasSlot, InUse
<1>6. WriterRight'
  BY LowestIn DEF TypeOK, WriterRight, PointersRight, Stays, InUse
<1>7. OldSeen'
  BY LowestIn DEF TypeOK, OldSeen, Old, SlotsTaken, AnnouncedRight, PointersRight, WriterRight, HasSlot, InUse, Stays
<1> QED BY <1>1, <1>2, <1>3, <1>4, <1>5, <1>6, <1>7

\* The target is the newest version.
LEMMA WaitStartKeeps ==
    ASSUME IInv, WaitStart
    PROVE  IInv'
<1> USE QsbrAssumption DEF IInv, WaitStart, rvars, wvars
<1>1. TypeOK'
  BY LowestIn DEF TypeOK, WPlaces, WriterRight
<1>2. SlotsApart'
  BY LowestIn DEF TypeOK, SlotsApart, SlotsTaken
<1>3. SlotsTaken'
  BY LowestIn DEF TypeOK, SlotsTaken, SlotsApart, HasSlot
<1>4. PointersRight'
  BY LowestIn DEF TypeOK, PointersRight, SlotsTaken, SlotsApart, HasSlot, InUse
<1>5. AnnouncedRight'
  BY LowestIn DEF TypeOK, AnnouncedRight, HasSlot, InUse
<1>6. WriterRight'
  BY LowestIn DEF TypeOK, WriterRight, PointersRight, Stays, InUse
<1>7. OldSeen'
  BY LowestIn DEF TypeOK, OldSeen, Old, SlotsTaken, AnnouncedRight, PointersRight, WriterRight, HasSlot, InUse, Stays
<1> QED BY <1>1, <1>2, <1>3, <1>4, <1>5, <1>6, <1>7

\* The bits of a shard are those of all its readers with an older version.
LEMMA WaitSnapKeeps ==
    ASSUME IInv, WaitSnap
    PROVE  IInv'
<1> USE QsbrAssumption DEF IInv, WaitSnap, rvars, wvars
<1>1. TypeOK'
  BY LowestIn DEF TypeOK, WPlaces, WriterRight
<1>2. SlotsApart'
  BY LowestIn DEF TypeOK, SlotsApart, SlotsTaken
<1>3. SlotsTaken'
  BY LowestIn DEF TypeOK, SlotsTaken, SlotsApart, HasSlot
<1>4. PointersRight'
  BY LowestIn DEF TypeOK, PointersRight, SlotsTaken, SlotsApart, HasSlot, InUse
<1>5. AnnouncedRight'
  BY LowestIn DEF TypeOK, AnnouncedRight, HasSlot, InUse
<1>6. WriterRight'
  BY LowestIn DEF TypeOK, WriterRight, PointersRight, Stays, InUse
<1>7. OldSeen'
  BY LowestIn DEF TypeOK, OldSeen, Old, SlotsTaken, AnnouncedRight, PointersRight, WriterRight, HasSlot, InUse, Stays
<1> QED BY <1>1, <1>2, <1>3, <1>4, <1>5, <1>6, <1>7

\* A wait that ends has seen every bit go.
LEMMA WaitRoundKeeps ==
    ASSUME IInv, WaitRound
    PROVE  IInv'
<1> USE QsbrAssumption DEF IInv, WaitRound, rvars, wvars, Unquiet
<1>1. TypeOK'
  BY LowestIn DEF TypeOK, WPlaces, WriterRight
<1>2. SlotsApart'
  BY LowestIn DEF TypeOK, SlotsApart, SlotsTaken
<1>3. SlotsTaken'
  BY LowestIn DEF TypeOK, SlotsTaken, SlotsApart, HasSlot
<1>4. PointersRight'
  BY LowestIn DEF TypeOK, PointersRight, SlotsTaken, SlotsApart, HasSlot, InUse
<1>5. AnnouncedRight'
  BY LowestIn DEF TypeOK, AnnouncedRight, HasSlot, InUse
<1>6. WriterRight'
  BY LowestIn DEF TypeOK, WriterRight, PointersRight, Stays, InUse
<1>7. OldSeen'
  BY LowestIn DEF TypeOK, OldSeen, Old, SlotsTaken, AnnouncedRight, PointersRight, WriterRight, HasSlot, InUse, Stays
<1> QED BY <1>1, <1>2, <1>3, <1>4, <1>5, <1>6, <1>7

\* A bit of a reader with an older version is still set.
LEMMA WaitLatchKeeps ==
    ASSUME IInv, WaitLatch
    PROVE  IInv'
<1> USE QsbrAssumption DEF IInv, WaitLatch, rvars, wvars
<1>a. Lowest(todo) \in Shards
  BY LowestIn DEF WriterRight
<1>1. TypeOK'
  BY LowestIn DEF TypeOK, WPlaces, WriterRight
<1>2. SlotsApart'
  BY LowestIn, <1>a DEF TypeOK, SlotsApart, SlotsTaken
<1>3. SlotsTaken'
  BY LowestIn, <1>a DEF TypeOK, SlotsTaken, SlotsApart, HasSlot
<1>4. PointersRight'
  BY LowestIn, <1>a DEF TypeOK, PointersRight, SlotsTaken, SlotsApart, HasSlot, InUse
<1>5. AnnouncedRight'
  BY LowestIn, <1>a DEF TypeOK, AnnouncedRight, HasSlot, InUse
<1>6. WriterRight'
  <2>1. latched'[Lowest(todo')]
    BY <1>a DEF TypeOK
  <2>2. todo' \subseteq Shards /\ work' \subseteq Slots /\ todo' # {}
    BY <1>a DEF TypeOK, WriterRight
  <2> QED BY <2>1, <2>2 DEF WriterRight
<1>7. OldSeen'
  BY LowestIn, <1>a DEF TypeOK, OldSeen, Old, SlotsTaken, AnnouncedRight, PointersRight, WriterRight, HasSlot, InUse, Stays
<1> QED BY <1>1, <1>2, <1>3, <1>4, <1>5, <1>6, <1>7

\* The slot of a reader with an older version points to that reader.
LEMMA WaitPtrKeeps ==
    ASSUME IInv, WaitPtr
    PROVE  IInv'
<1> USE QsbrAssumption DEF IInv, WaitPtr, rvars, wvars
<1>a. /\ Lowest(todo) \in Shards /\ Lowest(work) \in Slots
      /\ ptr' = ptrs[Lowest(todo)][Lowest(work)]
  BY LowestIn DEF WriterRight
<1>b. PICK s \in Shards, p \in Slots : s = Lowest(todo) /\ ptr' = ptrs[s][p]
  BY <1>a
<1>c. /\ ptr' \in Refs \cup {None, Target}
      /\ ptr' \in Refs => pc[ptr'] \in InUse /\ ShardOf[ptr'] = Lowest(todo)
  BY <1>b DEF PointersRight, TypeOK
<1>1. TypeOK'
  BY LowestIn DEF TypeOK, WPlaces, WriterRight
<1>2. SlotsApart'
  BY LowestIn, <1>a DEF TypeOK, SlotsApart, SlotsTaken
<1>3. SlotsTaken'
  BY LowestIn, <1>a DEF TypeOK, SlotsTaken, SlotsApart, HasSlot
<1>4. PointersRight'
  BY LowestIn, <1>a DEF TypeOK, PointersRight, SlotsTaken, SlotsApart, HasSlot, InUse
<1>5. AnnouncedRight'
  BY LowestIn, <1>a DEF TypeOK, AnnouncedRight, HasSlot, InUse
<1>6. WriterRight'
  BY <1>c DEF WriterRight, Stays, InUse
<1>7. OldSeen'
  BY LowestIn, <1>a DEF TypeOK, OldSeen, Old, SlotsTaken, AnnouncedRight, PointersRight, WriterRight, HasSlot, InUse, Stays
<1> QED BY <1>1, <1>2, <1>3, <1>4, <1>5, <1>6, <1>7

\* A reader with an older version has not announced the target.
LEMMA WaitDerefKeeps ==
    ASSUME IInv, WaitDeref
    PROVE  IInv'
<1> USE QsbrAssumption DEF IInv, WaitDeref, rvars, wvars, Announced
<1>1. TypeOK'
  BY LowestIn DEF TypeOK, WPlaces, WriterRight
<1>2. SlotsApart'
  BY LowestIn DEF TypeOK, SlotsApart, SlotsTaken
<1>3. SlotsTaken'
  BY LowestIn DEF TypeOK, SlotsTaken, SlotsApart, HasSlot
<1>4. PointersRight'
  BY LowestIn DEF TypeOK, PointersRight, SlotsTaken, SlotsApart, HasSlot, InUse
<1>5. AnnouncedRight'
  BY LowestIn DEF TypeOK, AnnouncedRight, HasSlot, InUse
<1>6. WriterRight'
  BY LowestIn DEF TypeOK, WriterRight, PointersRight, Stays, InUse
<1>7. OldSeen'
  <2> SUFFICES ASSUME NEW r \in Refs, Old(r)
               PROVE  slot[r] \in bms'[ShardOf[r]]
    BY DEF OldSeen, Old
  <2>1. /\ slot[r] \in bms[ShardOf[r]] /\ ShardOf[r] \in Shards
        /\ ShardOf[r] = Lowest(todo) /\ slot[r] = Lowest(work) => ptr = r
    BY DEF OldSeen
  <2>2. qstate[r] # version /\ r # Target
    BY DEF Old, AnnouncedRight, TypeOK
  <2>3. ptr = r => Announced(ptr) # target
    BY <2>2 DEF Announced, WriterRight
  <2> QED BY <2>1, <2>3 DEF TypeOK
<1> QED BY <1>1, <1>2, <1>3, <1>4, <1>5, <1>6, <1>7

\* The next shard of the round, or the next round.
LEMMA WaitUnlatchKeeps ==
    ASSUME IInv, WaitUnlatch
    PROVE  IInv'
<1> USE QsbrAssumption DEF IInv, WaitUnlatch, rvars, wvars
<1>1. TypeOK'
  BY LowestIn DEF TypeOK, WPlaces, WriterRight
<1>2. SlotsApart'
  BY LowestIn DEF TypeOK, SlotsApart, SlotsTaken
<1>3. SlotsTaken'
  BY LowestIn DEF TypeOK, SlotsTaken, SlotsApart, HasSlot
<1>4. PointersRight'
  BY LowestIn DEF TypeOK, PointersRight, SlotsTaken, SlotsApart, HasSlot, InUse
<1>5. AnnouncedRight'
  BY LowestIn DEF TypeOK, AnnouncedRight, HasSlot, InUse
<1>6. WriterRight'
  BY LowestIn DEF TypeOK, WriterRight, PointersRight, Stays, InUse
<1>7. OldSeen'
  BY LowestIn DEF TypeOK, OldSeen, Old, SlotsTaken, AnnouncedRight, PointersRight, WriterRight, HasSlot, InUse, Stays
<1> QED BY <1>1, <1>2, <1>3, <1>4, <1>5, <1>6, <1>7

-----------------------------------------------------------------------------
(* The theorems                                                              *)

LEMMA StepKeeps ==
    ASSUME IInv, StoreBuffers = FALSE, Next
    PROVE  IInv'
<1>1. CASE \E r \in Refs : Reader(r)
  BY <1>1, RegisterKeeps, RegLoadKeeps, RegCasKeeps, RegPtrKeeps, LoadVersionKeeps, UpdateKeeps,
     ParkKeeps, ResumeKeeps, UnregisterKeeps, UnregBitKeeps, UnregWaitKeeps DEF Reader
<1>2. CASE Publish
  BY <1>2, PublishKeeps
<1>3. CASE Wait
  BY <1>3, WaitStartKeeps, WaitSnapKeeps, WaitRoundKeeps, WaitLatchKeeps, WaitPtrKeeps,
     WaitDerefKeeps, WaitUnlatchKeeps DEF Wait
<1> QED BY <1>1, <1>2, <1>3 DEF Next

LEMMA Invariance == ASSUME StoreBuffers = FALSE PROVE Spec => []IInv
<1>1. Init => IInv
  <2> SUFFICES ASSUME Init PROVE IInv
    OBVIOUS
  <2> USE QsbrAssumption DEF Init
  <2>1. TypeOK /\ SlotsApart
    BY DEF TypeOK, SlotsApart, Places, WPlaces
  <2>2. SlotsTaken /\ PointersRight /\ AnnouncedRight
    BY DEF SlotsTaken, PointersRight, AnnouncedRight, HasSlot, InUse
  <2>3. WriterRight /\ OldSeen
    BY DEF WriterRight, OldSeen, Old
  <2> QED BY <2>1, <2>2, <2>3 DEF IInv
<1>2. IInv /\ [Next]_vars => IInv'
  <2> SUFFICES ASSUME IInv, [Next]_vars PROVE IInv'
    OBVIOUS
  <2>1. CASE Next
    BY <2>1, StepKeeps
  <2>2. CASE UNCHANGED vars
    <3> USE <2>2 DEF vars, rvars, wvars, IInv
    <3>1. TypeOK' /\ SlotsApart' /\ SlotsTaken' /\ PointersRight'
      BY DEF TypeOK, SlotsApart, SlotsTaken, PointersRight
    <3>2. AnnouncedRight' /\ WriterRight' /\ OldSeen'
      BY DEF AnnouncedRight, WriterRight, OldSeen, Old
    <3> QED BY <3>1, <3>2
  <2> QED BY <2>1, <2>2
<1> QED BY <1>1, <1>2, PTL DEF Spec

\* qsbr_register, qsbr_unregister and qsbr_wait: for any number of readers that
\* come and go while a writer waits, two readers never share a slot, and the
\* writer reads no state of a reader whose unregistration has returned.
THEOREM Safe == ASSUME StoreBuffers = FALSE PROVE Spec => []ReadersSafe
<1>1. IInv => ReadersSafe
  BY DEF IInv, ReadersSafe, DerefsLive, WriterRight, Stays
<1> QED BY <1>1, Invariance, PTL

\* qsbr_wait: when no wait is under way nobody uses an older version.
THEOREM NoOldVersion == ASSUME StoreBuffers = FALSE PROVE Spec => []GracePeriod
<1>1. IInv => GracePeriod
  BY DEF IInv, GracePeriod, OldSeen, Old
<1> QED BY <1>1, Invariance, PTL

\* The protocol of shards, bitmaps and announcements implements Grace: a reader
\* moves to the newest version or leaves, and a wait ends only when every
\* version in use is the newest one.
THEOREM Implements == ASSUME StoreBuffers = FALSE PROVE Spec => GraceOver
<1>1. Init => Abstract!Init
  BY DEF Init, Abstract!Init
<1>2. IInv /\ IInv' /\ [Next]_vars => [Abstract!Next]_(Abstract!gvars)
  <2> SUFFICES ASSUME IInv, IInv', [Next]_vars PROVE [Abstract!Next]_(Abstract!gvars)
    OBVIOUS
  <2> USE DEF Abstract!gvars, rvars, wvars
  <2>1. CASE UNCHANGED vars
    BY <2>1 DEF vars
  <2>2. ASSUME NEW r \in Refs, Reader(r) PROVE [Abstract!Next]_(Abstract!gvars)
    <3>1. CASE LoadVersion(r)
      BY <3>1 DEF LoadVersion, Abstract!Enter, Abstract!Next
    <3>2. CASE Park(r) \/ Unregister(r)
      BY <3>2 DEF Park, Unregister, Abstract!Leave, Abstract!Next
    <3>3. CASE RegLoad(r) \/ RegCas(r) \/ UnregBit(r) \/ UnregWait(r)
      BY <3>3 DEF RegLoad, RegCas, UnregBit, UnregWait
    <3>4. CASE Register(r) \/ RegPtr(r) \/ Update(r) \/ Resume(r)
      BY <3>4 DEF Register, RegPtr, Update, Resume
    <3> QED BY <2>2, <3>1, <3>2, <3>3, <3>4 DEF Reader
  <2>3. CASE Publish
    BY <2>3 DEF Publish, Abstract!Publish, Abstract!Next
  <2>4. CASE WaitRound
    <3>1. CASE Unquiet(bms) = {}
      <4>1. \A r \in Refs : held[r] \in {None, version}
        BY <2>4, <3>1, WaitRoundKeeps DEF WaitRound, IInv, OldSeen, Old
      <4> QED BY <2>4, <3>1, <4>1 DEF WaitRound, Abstract!Finish, Abstract!Next
    <3>2. CASE Unquiet(bms) # {}
      BY <2>4, <3>2 DEF WaitRound
    <3> QED BY <3>1, <3>2
  <2>5. CASE WaitStart \/ WaitSnap \/ WaitLatch \/ WaitPtr \/ WaitDeref \/ WaitUnlatch
    BY <2>5 DEF WaitStart, WaitSnap, WaitLatch, WaitPtr, WaitDeref, WaitUnlatch
  <2> QED BY <2>1, <2>2, <2>3, <2>4, <2>5 DEF Next, Wait
<1> QED BY <1>1, <1>2, Invariance, PTL DEF Spec, GraceOver, Abstract!Spec
==============================================================================
