------------------------------- MODULE Wormhole -------------------------------
(* The concurrent index (wh.c): a list of leaves under reader-writer locks,   *)
(* found through one of two hash tables. A split or a merge changes the table *)
(* that is not in use, switches to it, waits until no reader uses the other   *)
(* one any more (qsbr_wait) and repeats the change there; versions tell a     *)
(* reader that the leaf it has found is not the one it wants.                 *)
(*                                                                            *)
(* The locks are those of RwLock, the wait that of Qsbr, and a table routes a *)
(* key to the leaf with the greatest anchor that is not greater. A step is an *)
(* access of memory that other threads can see; what a thread does to a leaf  *)
(* it has locked is one step, the release of the lock included.               *)
EXTENDS Integers, FiniteSets, Sequences

CONSTANTS Threads, Keys, None,
          Capacity,    \* WH_KPN
          MergeBelow,  \* WH_KPN_MRG
          Leaves,      \* the leaves memory has room for, as numbers
          Starts,      \* the lists of leaves to start with
          Ops,         \* the operations the threads call
          MaxCalls,    \* bound: operations of each thread
          Reserve      \* FALSE: memory for a leaf or for nodes may run out

\* A list to start with begins with an anchor that is not greater than any key,
\* and the keys of a leaf lie between its anchor and the next one.
StartRight(list) ==
    /\ list \in Seq([anchor : Nat, keys : SUBSET Keys]) /\ list # <<>>
    /\ DOMAIN list \subseteq Leaves
    /\ \A k \in Keys : list[1].anchor <= k
    /\ \A i, j \in DOMAIN list : i < j => list[i].anchor < list[j].anchor
    /\ \A i \in DOMAIN list : \A k \in list[i].keys :
          list[i].anchor <= k /\ (i < Len(list) => k < list[i + 1].anchor)

ASSUME IndexAssumption ==
    /\ Keys \subseteq Nat /\ Leaves \subseteq Nat
    /\ Ops \subseteq {"get", "put", "del", "inpw", "scan", "back"}
    /\ None \notin Nat \cup Threads \cup BOOLEAN \cup [op : Ops, key : Keys]
    /\ \A list \in Starts : StartRight(list)

VARIABLES leaf,      \* the leaves
          wlock,     \* the writer of each leaf's lock, or None
          rlock,     \* its readers
          table,     \* the leaves each of the two hash tables routes to
          hv,        \* their versions
          cur,       \* the table in use (hmap_ptr)
          metalock,  \* the thread that changes the tables, or None
          qstate,    \* the version each thread has announced
          parked,    \* the threads that are parked
          unquiet,   \* threads the waiting writer has not yet seen quiescent
          th,        \* each thread's place and local variables
          calls,     \* how many operations it has called
          must       \* for each iterator the keys it has yet to visit

shared == <<leaf, wlock, rlock, table, hv, cur, metalock>>
vars   == <<shared, qstate, parked, unquiet, th, calls, must>>

Unused == [keys |-> {}, anchor |-> None, next |-> None, prev |-> None, lv |-> 0,
           state |-> "free"]

\* The list a run starts with: a sequence of leaves, each with its anchor.
Started(list) ==
    [l \in Leaves |->
       IF l \in DOMAIN list
       THEN [keys |-> list[l].keys, anchor |-> list[l].anchor, lv |-> 0, state |-> "linked",
             prev |-> IF l = 1 THEN None ELSE l - 1,
             next |-> IF l = Len(list) THEN None ELSE l + 1]
       ELSE Unused]

Idle == [pc |-> "idle", op |-> None, key |-> None, hm |-> 0, v |-> 0, v1 |-> 0,
         leaf |-> None, other |-> None, at |-> None, back |-> FALSE, answer |-> None]

Init == \E list \in Starts :
            /\ leaf = Started(list)
            /\ wlock = [l \in Leaves |-> None]
            /\ rlock = [l \in Leaves |-> {}]
            /\ table = [h \in 0 .. 1 |-> DOMAIN list]
            /\ hv = [h \in 0 .. 1 |-> 0]
            /\ cur = 0
            /\ metalock = None
            /\ qstate = [t \in Threads |-> 0]
            /\ parked = Threads
            /\ unquiet = {}
            /\ th = [t \in Threads |-> Idle]
            /\ calls = [t \in Threads |-> 0]
            /\ must = [t \in Threads |-> {}]

-----------------------------------------------------------------------------
(* Reading the structure                                                     *)

Least(S)    == CHOOSE x \in S : \A y \in S : x <= y
Greatest(S) == CHOOSE x \in S : \A y \in S : y <= x

\* wormhole_jump_leaf: the leaf a table routes a key to.
Route(h, k) == CHOOSE l \in table[h] :
                   /\ leaf[l].anchor <= k
                   /\ \A m \in table[h] : leaf[m].anchor <= k => leaf[m].anchor <= leaf[l].anchor

\* The leaves of the list, and the keys of the map: those of the list and of
\* leaves that are about to be linked, without a key whose split may yet fail.
Linked == {l \in Leaves : leaf[l].state = "linked"}

Present ==
    (UNION {leaf[l].keys : l \in {m \in Leaves : leaf[m].state \in {"linked", "local"}}})
    \ {th[t].key : t \in {u \in Threads :
          th[u].op = "put" /\ th[u].pc \in {"meta", "meta_wait", "meta_resume", "link"}}}

Free(l) == wlock[l] = None /\ rlock[l] = {}

Writes(op) == op \in {"put", "del", "inpw"}

At(t, p)   == th[t].pc = p
Goto(t, p) == th' = [th EXCEPT ![t].pc = p]

\* Locks a leaf for the thread and its operation, and the opposite.
CanLock(t, l)  == IF Writes(th[t].op) THEN Free(l) ELSE wlock[l] = None
Lock(t, l)     == IF Writes(th[t].op)
                  THEN wlock' = [wlock EXCEPT ![l] = t] /\ UNCHANGED rlock
                  ELSE rlock' = [rlock EXCEPT ![l] = @ \cup {t}] /\ UNCHANGED wlock
Unlock(t, ls)  == /\ wlock' = [l \in Leaves |-> IF l \in ls /\ wlock[l] = t THEN None ELSE wlock[l]]
                  /\ rlock' = [l \in Leaves |-> IF l \in ls THEN rlock[l] \ {t} ELSE rlock[l]]

\* Mutated: returns without parking.
Return_Unparked(t, a) == /\ th' = [th EXCEPT ![t] = [Idle EXCEPT !.answer = a]]
                         /\ UNCHANGED parked

\* The operation has its answer and parks (whsafe_*: wormhole_park).
Return(t, a) == /\ th' = [th EXCEPT ![t] = [Idle EXCEPT !.answer = a]]
                /\ parked' = parked \cup {t}

-----------------------------------------------------------------------------
(* Finding a leaf                                                            *)

\* whsafe_*: wormhole_resume, and the operation starts.
Call(t) ==
    /\ At(t, "idle") /\ calls[t] < MaxCalls[t]
    /\ \E f \in Ops, k \in Keys :
          /\ th' = [th EXCEPT ![t] = [Idle EXCEPT !.pc = "load", !.op = f, !.key = k]]
          /\ must' = [must EXCEPT ![t] =
                 CASE f = "scan" -> {x \in Present : x >= k}
                   [] f = "back" -> {x \in Present : x < k}
                   [] OTHER -> {}]
    /\ calls' = [calls EXCEPT ![t] = @ + 1]
    /\ parked' = parked \ {t}
    /\ UNCHANGED <<shared, qstate, unquiet>>

\* wormhmap_load.
LoadHmap(t) == /\ At(t, "load")
               /\ th' = [th EXCEPT ![t].pc = "version", ![t].hm = cur]
               /\ UNCHANGED <<shared, qstate, parked, unquiet, calls, must>>

\* wormhmap_version_load, qsbr_update.
LoadVersion(t) == /\ At(t, "version")
                  /\ th' = [th EXCEPT ![t].pc = "jump", ![t].v = hv[th[t].hm]]
                  /\ qstate' = [qstate EXCEPT ![t] = hv[th[t].hm]]
                  /\ UNCHANGED <<shared, parked, unquiet, calls, must>>

Jump(t) == /\ At(t, "jump")
           /\ th' = [th EXCEPT ![t].pc = "lock", ![t].leaf = Route(th[t].hm, th[t].key)]
           /\ UNCHANGED <<shared, qstate, parked, unquiet, calls, must>>

\* rwlock_trylock_*_nr, then wormleaf_version_load: a leaf that has been split
\* or merged since is given up.
LockLeaf(t) ==
    LET l == th[t].leaf
    IN  /\ At(t, "lock")
        /\ IF ~CanLock(t, l) THEN Goto(t, "spin_v1") /\ UNCHANGED <<wlock, rlock>>
           ELSE IF leaf[l].lv <= th[t].v THEN Lock(t, l) /\ Goto(t, "held")
           ELSE Goto(t, "load") /\ UNCHANGED <<wlock, rlock>>
        /\ UNCHANGED <<leaf, table, hv, cur, metalock, qstate, parked, unquiet, calls, must>>

\* The version of the table in use, loaded before the version of the leaf.
SpinVersion(t) == /\ At(t, "spin_v1")
                  /\ th' = [th EXCEPT ![t].pc = "spin_lv", ![t].v1 = hv[cur]]
                  /\ UNCHANGED <<shared, qstate, parked, unquiet, calls, must>>

\* Mutated: announces the version without a look at the leaf.
SpinLeaf_Blind(t) ==
    /\ At(t, "spin_lv")
    /\ Goto(t, "lock")
    /\ qstate' = [qstate EXCEPT ![t] = th[t].v1]
    /\ UNCHANGED <<shared, parked, unquiet, calls, must>>

\* A leaf that is still the right one is waited for, with the newer version
\* announced.
SpinLeaf(t) ==
    /\ At(t, "spin_lv")
    /\ IF leaf[th[t].leaf].lv > th[t].v
       THEN Goto(t, "load") /\ UNCHANGED qstate
       ELSE Goto(t, "lock") /\ qstate' = [qstate EXCEPT ![t] = th[t].v1]
    /\ UNCHANGED <<shared, parked, unquiet, calls, must>>

-----------------------------------------------------------------------------
(* What an operation does with the leaf it has locked                        *)

Keeps(t, a) == /\ Return(t, a)
               /\ Unlock(t, {th[t].leaf})
               /\ UNCHANGED <<table, hv, cur, metalock, qstate, unquiet, calls>>

\* wormhole_get, wormhole_probe, wormhole_inpr; wormhole_inpw.
Get(t) == /\ At(t, "held") /\ th[t].op \in {"get", "inpw"}
          /\ Keeps(t, th[t].key \in leaf[th[t].leaf].keys)
          /\ UNCHANGED <<leaf, must>>

\* wormhole_put and wormhole_merge: the key is there, or there is room for it.
PutInLeaf(t) ==
    LET l == th[t].leaf
        k == th[t].key
    IN  /\ At(t, "held") /\ th[t].op = "put"
        /\ k \in leaf[l].keys \/ Cardinality(leaf[l].keys) < Capacity
        /\ leaf' = [leaf EXCEPT ![l].keys = @ \cup {k}]
        /\ Keeps(t, TRUE)
        /\ UNCHANGED must

\* Anchors that separate two neighbouring keys.
Anchors(low, high) == {low + 1, high}

\* wormhole_split_leaf: the upper part of the keys, the new one among them,
\* moves to a leaf that nobody knows yet; its lock is taken.
PutSplits(t) ==
    LET l   == th[t].leaf
        all == leaf[l].keys \cup {th[t].key}
    IN  /\ At(t, "held") /\ th[t].op = "put"
        /\ th[t].key \notin leaf[l].keys /\ Cardinality(leaf[l].keys) = Capacity
        /\ \E new \in Leaves :
              /\ leaf[new].state = "free" /\ \A m \in Leaves : leaf[m].state = "free" => new <= m
              /\ \E first \in all \ {Least(all)} :
                    LET low == {x \in all : x < first}
                    IN  \E a \in Anchors(Greatest(low), first) :
                        leaf' = [leaf EXCEPT
                            ![l].keys = low,
                            ![new] = [keys |-> all \ low, anchor |-> a, prev |-> l,
                                      next |-> leaf[l].next, lv |-> 0, state |-> "local"]]
              /\ wlock' = [wlock EXCEPT ![new] = t]
              /\ th' = [th EXCEPT ![t].pc = "meta", ![t].other = new]
        /\ UNCHANGED <<rlock, table, hv, cur, metalock, qstate, parked, unquiet, calls, must>>

\* No memory for the anchor or the new leaf.
PutFails(t) ==
    LET l == th[t].leaf
    IN  /\ At(t, "held") /\ th[t].op = "put"
        /\ th[t].key \notin leaf[l].keys /\ Cardinality(leaf[l].keys) = Capacity
        /\ ~Reserve \/ \A new \in Leaves : leaf[new].state # "free"
        /\ Keeps(t, FALSE)
        /\ UNCHANGED <<leaf, must>>

\* wormhole_del: the key is not there.
DelNothing(t) == /\ At(t, "held") /\ th[t].op = "del"
                 /\ th[t].key \notin leaf[th[t].leaf].keys
                 /\ Keeps(t, FALSE)
                 /\ UNCHANGED <<leaf, must>>

\* The leaf is worth a merge with the next one (wormhole_del_try_merge).
Small(n, l) == /\ leaf[l].next # None
               /\ n = 0 \/ n + Cardinality(leaf[leaf[l].next].keys) < MergeBelow

\* wormhole_del: the key is removed, and a leaf that has become small is kept
\* locked for a merge.
DelKey(t) ==
    LET l    == th[t].leaf
        rest == leaf[l].keys \ {th[t].key}
    IN  /\ At(t, "held") /\ th[t].op = "del"
        /\ th[t].key \in leaf[l].keys
        /\ leaf' = [leaf EXCEPT ![l].keys = rest]
        /\ must' = [u \in Threads |-> must[u] \ {th[t].key}]
        /\ IF Small(Cardinality(rest), l)
           THEN /\ th' = [th EXCEPT ![t].pc = "next", ![t].other = leaf[l].next,
                                    ![t].answer = TRUE]
                /\ UNCHANGED <<wlock, rlock, parked>>
           ELSE Return(t, TRUE) /\ Unlock(t, {l})
        /\ UNCHANGED <<table, hv, cur, metalock, qstate, unquiet, calls>>

-----------------------------------------------------------------------------
(* A second lock: wormleaf_lock_write, wormleaf_lock_read, wormhmap_lock      *)

\* The lock is free; or the thread parks before it waits for it.
NextLock(t) ==
    LET l == th[t].other
    IN  /\ At(t, "next")
        /\ IF CanLock(t, l)
           THEN Lock(t, l) /\ Goto(t, "both") /\ UNCHANGED parked
           ELSE Goto(t, "next_wait") /\ parked' = parked \cup {t} /\ UNCHANGED <<wlock, rlock>>
        /\ UNCHANGED <<leaf, table, hv, cur, metalock, qstate, unquiet, calls, must>>

NextWait(t) == /\ At(t, "next_wait") /\ CanLock(t, th[t].other)
               /\ Lock(t, th[t].other)
               /\ Goto(t, "next_resume")
               /\ UNCHANGED <<leaf, table, hv, cur, metalock, qstate, parked, unquiet, calls, must>>

NextResume(t) == /\ At(t, "next_resume")
                 /\ Goto(t, "both")
                 /\ parked' = parked \ {t}
                 /\ UNCHANGED <<shared, qstate, unquiet, calls, must>>

\* wormhole_meta_leaf_merge: counts again now that both are locked; the keys of
\* the right leaf go to the left one.
Merge(t) ==
    LET l == th[t].leaf
        r == th[t].other
    IN  /\ At(t, "both") /\ th[t].op = "del"
        /\ IF Cardinality(leaf[l].keys) + Cardinality(leaf[r].keys) <= Capacity
           THEN /\ leaf' = [leaf EXCEPT ![l].keys = @ \cup leaf[r].keys]
                /\ Goto(t, "meta")
                /\ UNCHANGED <<wlock, rlock, parked>>
           ELSE Return(t, TRUE) /\ Unlock(t, {l, r}) /\ UNCHANGED leaf
        /\ UNCHANGED <<table, hv, cur, metalock, qstate, unquiet, calls, must>>

MetaLock(t) == /\ At(t, "meta")
               /\ IF metalock = None
                  THEN metalock' = t /\ Goto(t, "link") /\ UNCHANGED parked
                  ELSE Goto(t, "meta_wait") /\ parked' = parked \cup {t} /\ UNCHANGED metalock
               /\ UNCHANGED <<leaf, wlock, rlock, table, hv, cur, qstate, unquiet, calls, must>>

MetaWait(t) == /\ At(t, "meta_wait") /\ metalock = None
               /\ metalock' = t
               /\ Goto(t, "meta_resume")
               /\ UNCHANGED <<leaf, wlock, rlock, table, hv, cur, qstate, parked, unquiet, calls, must>>

MetaResume(t) == /\ At(t, "meta_resume")
                 /\ Goto(t, "link")
                 /\ parked' = parked \ {t}
                 /\ UNCHANGED <<shared, qstate, unquiet, calls, must>>

-----------------------------------------------------------------------------
(* wormhole_split_meta and wormhole_meta_merge                               *)

Splits(t) == th[t].op = "put"

\* Memory for the new table entries is reserved before anything is changed;
\* without it the split is undone (wormleaf_split_undo).
SplitFails(t) ==
    LET l == th[t].leaf
        r == th[t].other
    IN  /\ At(t, "link") /\ Splits(t) /\ ~Reserve
        /\ metalock' = None
        /\ leaf' = [leaf EXCEPT ![l].keys = (@ \cup leaf[r].keys) \ {th[t].key}, ![r] = Unused]
        /\ Return(t, FALSE)
        /\ Unlock(t, {l, r})
        /\ UNCHANGED <<table, hv, cur, qstate, unquiet, calls, must>>

\* Mutated: the version of the left leaf is left as it was.
Link_LeftKept(t) ==
    LET l  == th[t].leaf
        r  == th[t].other
        v1 == hv[cur] + 1
        after == leaf[r].next
    IN  /\ At(t, "link")
        /\ leaf' = [m \in Leaves |->
               IF m = l THEN [leaf[l] EXCEPT !.next = IF Splits(t) THEN r ELSE after]
               ELSE IF m = r THEN [leaf[r] EXCEPT !.lv = v1, !.state = "linked"]
               ELSE IF m = after THEN [leaf[m] EXCEPT !.prev = IF Splits(t) THEN r ELSE l]
               ELSE leaf[m]]
        /\ hv' = [hv EXCEPT ![1 - cur] = v1]
        /\ th' = [th EXCEPT ![t].pc = "patch", ![t].answer = TRUE]
        /\ UNCHANGED <<wlock, rlock, table, cur, metalock, qstate, parked, unquiet, calls, must>>

\* Links the new leaf or unlinks the merged one, and gives both leaves and the
\* table that is not in use the next version.
Link(t) ==
    LET l  == th[t].leaf
        r  == th[t].other
        v1 == hv[cur] + 1
        after == leaf[r].next
    IN  /\ At(t, "link")
        /\ leaf' = [m \in Leaves |->
               IF m = l THEN [leaf[l] EXCEPT !.lv = v1, !.next = IF Splits(t) THEN r ELSE after]
               ELSE IF m = r THEN [leaf[r] EXCEPT !.lv = v1,
                                       !.state = IF Splits(t) THEN "linked" ELSE "unlinked"]
               ELSE IF m = after THEN [leaf[m] EXCEPT !.prev = IF Splits(t) THEN r ELSE l]
               ELSE leaf[m]]
        /\ hv' = [hv EXCEPT ![1 - cur] = v1]
        /\ th' = [th EXCEPT ![t].pc = "patch", ![t].answer = TRUE]
        /\ UNCHANGED <<wlock, rlock, table, cur, metalock, qstate, parked, unquiet, calls, must>>

\* wormmeta_split, wormmeta_merge: what a table looks like afterwards.
Patched(t, h) == IF Splits(t) THEN table[h] \cup {th[t].other} ELSE table[h] \ {th[t].other}

PatchNext(t) == /\ At(t, "patch")
                /\ table' = [table EXCEPT ![1 - cur] = Patched(t, 1 - cur)]
                /\ Goto(t, "switch")
                /\ UNCHANGED <<leaf, wlock, rlock, hv, cur, metalock, qstate, parked, unquiet, calls, must>>

\* qsbr_update, wormhmap_store.
Switch(t) == /\ At(t, "switch")
             /\ qstate' = [qstate EXCEPT ![t] = hv[1 - cur]]
             /\ cur' = 1 - cur
             /\ Goto(t, "unlock")
             /\ UNCHANGED <<leaf, wlock, rlock, table, hv, metalock, parked, unquiet, calls, must>>

\* Both leaves are released; qsbr_wait starts.
UnlockBoth(t) == /\ At(t, "unlock")
                 /\ Unlock(t, {th[t].leaf, th[t].other})
                 /\ unquiet' = Threads
                 /\ Goto(t, "qwait")
                 /\ UNCHANGED <<leaf, table, hv, cur, metalock, qstate, parked, calls, must>>

\* One more thread is seen parked, or with the new version announced.
QsbrSee(t) == /\ At(t, "qwait")
              /\ \E u \in unquiet : /\ u \in parked \/ qstate[u] = hv[cur]
                                    /\ unquiet' = unquiet \ {u}
              /\ UNCHANGED <<shared, qstate, parked, th, calls, must>>

QsbrDone(t) == /\ At(t, "qwait") /\ unquiet = {}
               /\ Goto(t, "repatch")
               /\ UNCHANGED <<shared, qstate, parked, unquiet, calls, must>>

\* The change in the table that was in use before; a merged leaf is freed.
Repatch(t) ==
    /\ At(t, "repatch")
    /\ table' = [table EXCEPT ![1 - cur] = Patched(t, 1 - cur)]
    /\ leaf' = IF Splits(t) THEN leaf ELSE [leaf EXCEPT ![th[t].other] = [Unused EXCEPT !.state = "freed"]]
    /\ metalock' = None
    /\ Return(t, TRUE)
    /\ UNCHANGED <<wlock, rlock, hv, cur, qstate, unquiet, calls, must>>

-----------------------------------------------------------------------------
(* Iterators                                                                 *)

Iterates(t) == th[t].op \in {"scan", "back"}

\* The cursor stands on the nearest key ks has in its direction, or has to go on
\* to the neighbouring leaf (wormhole_iter_fix, wormhole_iter_fix_rev).
Stand(t, l, back, ks) ==
    th' = [th EXCEPT ![t].pc = IF ks = {} THEN "hop" ELSE "cursor",
                     ![t].at = IF ks = {} THEN None ELSE IF back THEN Greatest(ks) ELSE Least(ks),
                     ![t].leaf = l, ![t].other = None, ![t].back = back]

\* wormhole_iter_seek: to the first key that is not smaller.
IterSeek(t) == /\ At(t, "held") /\ Iterates(t)
               /\ Stand(t, th[t].leaf, FALSE, {k \in leaf[th[t].leaf].keys : k >= th[t].key})
               /\ UNCHANGED <<shared, qstate, parked, unquiet, calls, must>>

\* wormhole_iter_skip1, wormhole_iter_skip1_rev: the key has been visited.
IterSkip(t) ==
    LET l    == th[t].leaf
        k    == th[t].at
        back == th[t].op = "back"
    IN  /\ At(t, "cursor")
        /\ must' = [must EXCEPT ![t] = @ \ {k}]
        /\ Stand(t, l, back, {x \in leaf[l].keys : IF back THEN x < k ELSE x > k})
        /\ UNCHANGED <<shared, qstate, parked, unquiet, calls>>

\* Mutated: releases the leaf before it has the lock of the neighbour.
IterHop_Released(t) ==
    LET l   == th[t].leaf
        nxt == IF th[t].back THEN leaf[l].prev ELSE leaf[l].next
    IN  /\ At(t, "hop")
        /\ th' = [th EXCEPT ![t].pc = IF nxt = None THEN "ended" ELSE "next", ![t].other = nxt]
        /\ Unlock(t, {l})
        /\ UNCHANGED <<leaf, table, hv, cur, metalock, qstate, parked, unquiet, calls, must>>

\* The neighbour's address, read from the leaf; at either end the leaf is
\* released and the iterator is invalid for good.
IterHop(t) ==
    LET l   == th[t].leaf
        nxt == IF th[t].back THEN leaf[l].prev ELSE leaf[l].next
    IN  /\ At(t, "hop")
        /\ IF nxt = None
           THEN th' = [th EXCEPT ![t].pc = "ended"] /\ Unlock(t, {l})
           ELSE th' = [th EXCEPT ![t].pc = "next", ![t].other = nxt] /\ UNCHANGED <<wlock, rlock>>
        /\ UNCHANGED <<leaf, table, hv, cur, metalock, qstate, parked, unquiet, calls, must>>

\* Both leaves are locked: the old one is released.
IterMove(t) == /\ At(t, "both") /\ Iterates(t)
               /\ Stand(t, th[t].other, th[t].back, leaf[th[t].other].keys)
               /\ Unlock(t, {th[t].leaf})
               /\ UNCHANGED <<leaf, table, hv, cur, metalock, qstate, parked, unquiet, calls, must>>

\* whsafe_iter_park.
IterPark(t) == /\ At(t, "cursor") \/ At(t, "ended")
               /\ Unlock(t, {th[t].leaf})
               /\ Return(t, None)
               /\ must' = [must EXCEPT ![t] = {}]
               /\ UNCHANGED <<leaf, table, hv, cur, metalock, qstate, unquiet, calls>>

-----------------------------------------------------------------------------
Finds(t)  == LoadHmap(t) \/ LoadVersion(t) \/ Jump(t) \/ LockLeaf(t) \/ SpinVersion(t) \/ SpinLeaf(t)
Works(t)  == Get(t) \/ PutInLeaf(t) \/ PutSplits(t) \/ PutFails(t) \/ DelNothing(t) \/ DelKey(t)
Locks(t)  == NextLock(t) \/ NextWait(t) \/ NextResume(t) \/ MetaLock(t) \/ MetaWait(t) \/ MetaResume(t)
Alters(t) == \/ Merge(t) \/ SplitFails(t) \/ Link(t) \/ PatchNext(t) \/ Switch(t)
             \/ UnlockBoth(t) \/ QsbrSee(t) \/ QsbrDone(t) \/ Repatch(t)
Walks(t)  == IterSeek(t) \/ IterSkip(t) \/ IterHop(t) \/ IterMove(t) \/ IterPark(t)

Step(t) == Finds(t) \/ Works(t) \/ Locks(t) \/ Alters(t) \/ Walks(t)

Next == \E t \in Threads : Call(t) \/ Step(t)

Spec == Init /\ [][Next]_vars

\* A thread inside an operation keeps running; nobody has to call one.
FairSpec == Spec /\ \A t \in Threads : WF_vars(Step(t))

-----------------------------------------------------------------------------
Places == {"idle", "load", "version", "jump", "lock", "spin_v1", "spin_lv", "held",
           "next", "next_wait", "next_resume", "both", "meta", "meta_wait", "meta_resume",
           "link", "patch", "switch", "unlock", "qwait", "repatch",
           "cursor", "hop", "ended"}

\* The shape of the leaves, the locks and the tables; no thread has seen a version
\* that is newer than those of the tables.
TypeOK == /\ \A l \in Leaves :
                /\ leaf[l].keys \subseteq Keys
                /\ {leaf[l].next, leaf[l].prev} \subseteq Leaves \cup {None}
                /\ leaf[l].state \in {"free", "local", "linked", "unlinked", "freed"}
          /\ wlock \in [Leaves -> Threads \cup {None}]
          /\ rlock \in [Leaves -> SUBSET Threads]
          /\ table \in [0 .. 1 -> SUBSET Leaves]
          /\ metalock \in Threads \cup {None}
          /\ \A t \in Threads : th[t].pc \in Places /\ th[t].v <= hv[0] + hv[1]

\* A thread that holds a leaf for its key holds the right one: no other leaf of
\* the list has a greater anchor that is not greater than the key.
HeldIsRight ==
    \A t \in Threads : At(t, "held") =>
        LET l == th[t].leaf
        IN  /\ leaf[l].state = "linked" /\ leaf[l].anchor <= th[t].key
            /\ leaf[l].next # None => th[t].key < leaf[leaf[l].next].anchor

\* The list is in order, and the keys of a leaf are between its anchor and the
\* next one, unless a thread that moves keys has both leaves locked.
ListInOrder ==
    \A l \in Linked :
        LET n == leaf[l].next
        IN  /\ n # None => leaf[n].prev = l /\ leaf[l].anchor < leaf[n].anchor
            /\ \A k \in leaf[l].keys :
                  leaf[l].anchor <= k /\ (n # None /\ wlock[n] = None => k < leaf[n].anchor)

\* Nobody touches a leaf that has been freed: not its lock, its version, its
\* keys or its pointers.
NoFreedLeaf ==
    \A t \in Threads :
        /\ th[t].pc \in {"lock", "spin_lv", "held", "cursor", "hop"} => leaf[th[t].leaf].state # "freed"
        /\ th[t].pc \in {"next", "next_wait", "both"} =>
              leaf[th[t].leaf].state # "freed" /\ leaf[th[t].other].state # "freed"

\* A table is changed only while nobody is looking something up in it.
TablePrivate ==
    \A t, u \in Threads :
        (th[t].pc \in {"link", "patch", "repatch"} /\ th[u].pc \in {"version", "jump"})
            => th[u].hm = cur

\* wormhole_jump_leaf_read, wormhole_split_meta and wormhole_meta_leaf_merge: a leaf that was
\* found without a lock is the right one once it is locked, and is not touched once freed; a
\* table is changed only where no lookup goes.
LeavesSafe == TypeOK /\ HeldIsRight /\ ListInOrder /\ NoFreedLeaf /\ TablePrivate

\* An iterator passes no key that was there when it started and has not been
\* deleted since, on its way forward or back.
ScanComplete ==
    \A t \in Threads :
        /\ At(t, "cursor") /\ th[t].op = "scan" => \A k \in must[t] : th[t].at <= k
        /\ At(t, "cursor") /\ th[t].back => \A k \in must[t] : k <= th[t].at
        /\ At(t, "ended") /\ (th[t].op = "scan" \/ th[t].back) => must[t] = {}

\* Two threads do not wait for each other's leaf locks.
NoLockCycle ==
    LET Holds(t, l) == wlock[l] = t \/ t \in rlock[l]
        Waits(t, u) == /\ At(t, "next_wait") /\ ~CanLock(t, th[t].other)
                       /\ Holds(u, th[t].other)
    IN  ~\E t, u \in Threads : t # u /\ Waits(t, u) /\ Waits(u, t)

\* Every operation acts on the set of keys at one moment.
Map == INSTANCE OrderedMap WITH
           present <- Present,
           call <- [t \in Threads |-> IF At(t, "idle") THEN None
                                      ELSE [op |-> th[t].op, key |-> th[t].key]],
           answer <- [t \in Threads |-> th[t].answer]
\* The index implements OrderedMap.
ImplementsMap == Map!Spec

\* A writer that waits for readers, and every other operation, comes to its end.
OpsEnd == \A t \in Threads : (~At(t, "idle")) ~> At(t, "idle")
=============================================================================
