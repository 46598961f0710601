--------------------------------- MODULE Slab ---------------------------------
(* The allocator of leaves and meta nodes (src/include/wormhole/lib.c, astk and *)
(* slab): blocks cut into objects, and a stack of free objects in one word that *)
(* holds the top and a sequence number.  Threads of the safe calls pop and push *)
(* with compare-and-swap on that word, and take the lock to bring a block; the  *)
(* link of a free object lies in the object, where its next owner writes.  The  *)
(* unsafe calls are whole steps of callers that exclude each other.             *)
EXTENDS Integers, Sequences, FiniteSets

CONSTANTS
    Procs,
    Blocks,                \* bound: the blocks that pages_alloc_best may return
    PerSlab,               \* objs_per_slab
    SeqMod,                \* 2^16; bound: the number in the word does not come round
    Safe,                  \* which of the two kinds of calls is made
    MaxReserve,            \* bound: what slab_reserve_unsafe is asked for
    None

Objects == Blocks \X (1..PerSlab)

\* What the proofs take for granted of the constants.
SlabAssumption ==
    /\ IsFiniteSet(Blocks)
    /\ PerSlab \in Nat \ {0} /\ SeqMod \in Nat \ {0} /\ MaxReserve \in Nat
    /\ Safe \in BOOLEAN
    /\ None \notin Procs \cup Objects

VARIABLES
    magic,                 \* the word: [ptr, seq]
    next,                  \* the first word of every object
    head_active, head_backup,  \* the lists of blocks
    nr_ready,
    lock,                  \* its holder, or None
    pc,                    \* where each thread is in slab_alloc_safe or slab_free_safe
    m0,                    \* the word as each thread loaded it
    link,                  \* pop: the word of the object that m0 points to
    list,                  \* push: the objects that each thread puts on the stack, in order
    owner,                 \* history: the objects each thread was given
    promised               \* history: what the last slab_reserve_unsafe leaves to be taken

slabVars == <<magic, next, head_active, head_backup, nr_ready>>
regs     == <<pc, m0, link, list>>
vars     == <<slabVars, regs, lock, owner, promised>>

ObjectsOf(blk) == [j \in 1..PerSlab |-> <<blk, j>>]

Known == {head_active[j] : j \in DOMAIN head_active} \cup {head_backup[j] : j \in DOMAIN head_backup}

\* Mutated: the number stays as it is.
astk_m1_Same(m, ptr) == [ptr |-> ptr, seq |-> m.seq]

astk_m1(m, ptr) == [ptr |-> ptr, seq |-> (m.seq + 1) % SeqMod]

astk_m1_unsafe(ptr) == [ptr |-> ptr, seq |-> 0]

\* The list that a chain of objects makes, its last one linked to ptr.
Linked(objs, ptr) ==
    [c \in Objects |-> IF \E j \in DOMAIN objs : objs[j] = c
                       THEN LET j == CHOOSE i \in DOMAIN objs : objs[i] = c
                            IN  IF j < Len(objs) THEN objs[j + 1] ELSE ptr
                       ELSE next[c]]

Go(p, to) == pc' = [pc EXCEPT ![p] = to]

Unlocked(p) == IF lock = p THEN None ELSE lock

\* What slab_expand may add: the first block in reserve, or new core.
Spare == IF head_backup # <<>> THEN {Head(head_backup)} ELSE Blocks \ Known

TakeBlock(blk) ==
    /\ head_active' = <<blk>> \o head_active
    /\ head_backup' = IF head_backup # <<>> THEN Tail(head_backup) ELSE head_backup

-----------------------------------------------------------------------------
(* The calls of many threads.                                                   *)
AllocSafe(p) == /\ Safe /\ pc[p] = "idle"
                /\ Go(p, "load")
                /\ UNCHANGED <<slabVars, m0, link, list, lock, owner, promised>>

\* astk_pop_safe: an empty stack sends its caller to the lock, or to slab_expand.
PopLoad(p) ==
    /\ pc[p] = "load"
    /\ m0' = [m0 EXCEPT ![p] = magic]
    /\ Go(p, IF magic.ptr # None THEN "link" ELSE IF lock = p THEN "expand" ELSE "lock")
    /\ UNCHANGED <<slabVars, link, list, lock, owner, promised>>

\* The object may have been handed out since, and hold anything.
PopLink(p) ==
    /\ pc[p] = "link"
    /\ link' = [link EXCEPT ![p] = next[m0[p].ptr]]
    /\ Go(p, "cas")
    /\ UNCHANGED <<slabVars, m0, list, lock, owner, promised>>

Same(p) == magic = m0[p]

PopCas(p) ==
    /\ pc[p] = "cas" /\ Same(p)
    /\ magic.seq + 1 < SeqMod
    /\ magic' = astk_m1(m0[p], link[p])
    /\ owner' = [owner EXCEPT ![p] = @ \cup {m0[p].ptr}]
    /\ lock' = Unlocked(p)
    /\ Go(p, "idle")
    /\ UNCHANGED <<next, head_active, head_backup, nr_ready, m0, link, list, promised>>

\* The weak form may fail for no reason.
PopAgain(p) == /\ pc[p] = "cas"
               /\ Go(p, "load")
               /\ UNCHANGED <<slabVars, m0, link, list, lock, owner, promised>>

Lock(p) == /\ pc[p] = "lock" /\ lock = None
           /\ lock' = p
           /\ Go(p, "load")
           /\ UNCHANGED <<slabVars, m0, link, list, owner, promised>>

\* Mutated: one object of the block is left out.
ChainOf_Short(blk) == Tail(ObjectsOf(blk))

ChainOf(blk) == ObjectsOf(blk)

\* slab_expand and slab_add up to the push.
Expand(p) ==
    /\ pc[p] = "expand"
    /\ \E blk \in Spare :
          /\ TakeBlock(blk)
          /\ list' = [list EXCEPT ![p] = ChainOf(blk)]
    /\ Go(p, "push")
    /\ UNCHANGED <<magic, next, nr_ready, m0, link, lock, owner, promised>>

\* No memory: slab_alloc_safe returns NULL.
NoCore(p) == /\ pc[p] = "expand" /\ head_backup = <<>>
             /\ lock' = Unlocked(p)
             /\ Go(p, "idle")
             /\ UNCHANGED <<slabVars, m0, link, list, owner, promised>>

FreeSafe(p) ==
    /\ Safe /\ pc[p] = "idle"
    /\ \E c \in owner[p] :
          /\ owner' = [owner EXCEPT ![p] = @ \ {c}]
          /\ list' = [list EXCEPT ![p] = <<c>>]
    /\ Go(p, "push")
    /\ UNCHANGED <<slabVars, m0, link, lock, promised>>

PushLoad(p) ==
    /\ pc[p] = "push"
    /\ m0' = [m0 EXCEPT ![p] = magic]
    /\ next' = Linked(list[p], magic.ptr)
    /\ Go(p, "put")
    /\ UNCHANGED <<magic, head_active, head_backup, nr_ready, link, list, lock, owner, promised>>

PushCas(p) ==
    /\ pc[p] = "put" /\ Same(p)
    /\ magic.seq + 1 < SeqMod
    /\ magic' = astk_m1(m0[p], list[p][1])
    /\ list' = [list EXCEPT ![p] = <<>>]
    /\ Go(p, IF lock = p THEN "load" ELSE "idle")
    /\ UNCHANGED <<next, head_active, head_backup, nr_ready, m0, link, lock, owner, promised>>

PushAgain(p) == /\ pc[p] = "put"
                /\ Go(p, "push")
                /\ UNCHANGED <<slabVars, m0, link, list, lock, owner, promised>>

\* The owner of an object writes it.
Scribble(p) ==
    /\ Safe
    /\ \E c \in owner[p], v \in Objects \cup {None} : next' = [next EXCEPT ![c] = v]
    /\ UNCHANGED <<magic, head_active, head_backup, nr_ready, regs, lock, owner, promised>>

-----------------------------------------------------------------------------
(* The calls that exclude each other.                                           *)
\* slab_add: the objects of a block go on top of what is free.
AddUnsafe(blk) ==
    /\ TakeBlock(blk)
    /\ next' = Linked(ObjectsOf(blk), magic.ptr)

\* One turn of the loop of slab_reserve_unsafe, and its end.
ReserveMore(p, nr) ==
    /\ ~Safe /\ nr_ready < nr
    /\ \E blk \in Spare : AddUnsafe(blk) /\ magic' = astk_m1_unsafe(<<blk, 1>>)
    /\ nr_ready' = nr_ready + PerSlab
    /\ promised' = IF nr_ready' >= nr THEN nr ELSE 0
    /\ UNCHANGED <<regs, lock, owner>>

Reserved(p, nr) == /\ ~Safe /\ nr_ready >= nr
                   /\ promised' = nr
                   /\ UNCHANGED <<slabVars, regs, lock, owner>>

Given(p, c) == owner' = [owner EXCEPT ![p] = @ \cup {c}]

Fewer(n) == IF n > 0 THEN n - 1 ELSE 0

AllocUnsafe(p) ==
    /\ ~Safe
    /\ IF magic.ptr # None
       THEN /\ magic' = astk_m1_unsafe(next[magic.ptr])
            /\ Given(p, magic.ptr)
            /\ nr_ready' = nr_ready - 1
            /\ UNCHANGED <<next, head_active, head_backup>>
       ELSE \E blk \in Spare :
               /\ AddUnsafe(blk)
               /\ magic' = astk_m1_unsafe(next'[<<blk, 1>>])
               /\ Given(p, <<blk, 1>>)
               /\ nr_ready' = nr_ready + PerSlab - 1
    /\ promised' = Fewer(promised)
    /\ UNCHANGED <<regs, lock>>

FreeUnsafe(p) ==
    /\ ~Safe
    /\ \E c \in owner[p] :
          /\ next' = [next EXCEPT ![c] = magic.ptr]
          /\ magic' = astk_m1_unsafe(c)
          /\ owner' = [owner EXCEPT ![p] = @ \ {c}]
    /\ nr_ready' = nr_ready + 1
    /\ UNCHANGED <<head_active, head_backup, regs, lock, promised>>

\* slab_free_all: the callers hold nothing any more.
FreeAll ==
    /\ \A p \in Procs : pc[p] = "idle"
    /\ magic' = [ptr |-> None, seq |-> 0]
    /\ nr_ready' = 0
    /\ head_backup' = head_active \o head_backup /\ head_active' = <<>>
    /\ owner' = [p \in Procs |-> {}]
    /\ promised' = 0
    /\ UNCHANGED <<next, regs, lock>>

-----------------------------------------------------------------------------
Init == /\ magic = [ptr |-> None, seq |-> 0]
        /\ next = [c \in Objects |-> None]
        /\ head_active = <<>> /\ head_backup = <<>>
        /\ nr_ready = 0
        /\ lock = None
        /\ pc = [p \in Procs |-> "idle"]
        /\ m0 = [p \in Procs |-> magic]
        /\ link = [p \in Procs |-> None]
        /\ list = [p \in Procs |-> <<>>]
        /\ owner = [p \in Procs |-> {}]
        /\ promised = 0

SafeCalls == \E p \in Procs :
    \/ AllocSafe(p) \/ PopLoad(p) \/ PopLink(p) \/ PopCas(p) \/ PopAgain(p)
    \/ Lock(p) \/ Expand(p) \/ NoCore(p)
    \/ FreeSafe(p) \/ PushLoad(p) \/ PushCas(p) \/ PushAgain(p) \/ Scribble(p)

UnsafeCalls == \E p \in Procs :
    \/ \E nr \in 1..MaxReserve : ReserveMore(p, nr) \/ Reserved(p, nr)
    \/ AllocUnsafe(p) \/ FreeUnsafe(p)

Next == SafeCalls \/ UnsafeCalls \/ FreeAll

Spec == Init /\ [][Next]_vars

-----------------------------------------------------------------------------
\* A set of objects that has the top of the stack and, with every object, the one it is
\* linked to.
LinkClosed(S) == /\ magic.ptr # None => magic.ptr \in S
                 /\ \A c \in S : next[c] # None => next[c] \in S

\* The stack: what the word leads to.
Stack == {c \in Objects : \A S \in SUBSET Objects : LinkClosed(S) => c \in S}

Moving == UNION {{list[p][j] : j \in DOMAIN list[p]} : p \in Procs}

Active == {c \in Objects : \E j \in DOMAIN head_active : head_active[j] = c[1]}

\* The shape of the word, the links and the lock; the callers hold objects only, and
\* nr_ready counts no more of them than there are.
TypeOK ==
    /\ magic.ptr \in Objects \cup {None} /\ magic.seq \in 0..(SeqMod - 1)
    /\ DOMAIN next = Objects
    /\ nr_ready \in 0..Cardinality(Objects)
    /\ lock \in Procs \cup {None}
    /\ \A p \in Procs : owner[p] \subseteq Objects

\* An object that a thread was given is given to no other, and is not on the stack or on
\* the way to it, whatever loads and swaps of other threads lie between: a leaf handed out
\* twice would be two leaves of the list in one memory.
GivenOnce ==
    /\ \A p \in Procs : owner[p] \cap (Stack \cup Moving) = {}
    /\ \A p, q \in Procs : p # q => owner[p] \cap owner[q] = {}
    /\ Stack \cap Moving = {}

\* No object is lost: those of the blocks in use are free, on the way or given.
NoneLost == Active = Stack \cup Moving \cup UNION {owner[p] : p \in Procs}

\* nr_ready is the number of objects on the stack, which slab_reserve_unsafe relies on.
ReadyExact == ~Safe => nr_ready = Cardinality(Stack)

\* After a reservation that many allocations find a free object: a split of the trie that
\* reserved its nodes does not fail half way.
PromiseKept == promised <= Cardinality(Stack)

\* The calls of the slab, of either kind, give no object twice, lose none, and keep what a
\* reservation promised.
ObjectsKept == TypeOK /\ GivenOnce /\ NoneLost /\ ReadyExact /\ PromiseKept

\* The safe calls are the pool: each hands out a free object, at the step that swaps the word.
P == INSTANCE Pool WITH free <- Stack, moving <- Moving, taken <- owner
\* The safe calls implement Pool.
IsPool == P!Spec
=============================================================================
