--------------------------------- MODULE Pool ---------------------------------
(* What an allocator of equal objects promises its callers: it hands out only   *)
(* objects that are free, and each to one caller at a time.                     *)
EXTENDS FiniteSets

CONSTANTS Procs, Objects

VARIABLES
    free,                  \* may be handed out
    moving,                \* on the way in: just given back, or new
    taken                  \* by whom

poolVars == <<free, moving, taken>>

Init == free = {} /\ moving = {} /\ taken = [p \in Procs |-> {}]

Known == free \cup moving \cup UNION {taken[p] : p \in Procs}

Take(p) == \E c \in free : /\ free' = free \ {c}
                           /\ taken' = [taken EXCEPT ![p] = @ \cup {c}]
                           /\ UNCHANGED moving

GiveBack(p) == \E c \in taken[p] : /\ taken' = [taken EXCEPT ![p] = @ \ {c}]
                                   /\ moving' = moving \cup {c}
                                   /\ UNCHANGED free

Bring == \E new \in SUBSET (Objects \ Known) :
            moving' = moving \cup new /\ UNCHANGED <<free, taken>>

Put == \E in \in SUBSET moving : /\ free' = free \cup in
                                 /\ moving' = moving \ in
                                 /\ UNCHANGED taken

Clear == free' = {} /\ moving' = {} /\ taken' = [p \in Procs |-> {}]

Next == \/ \E p \in Procs : Take(p) \/ GiveBack(p)
        \/ Bring \/ Put \/ Clear

Spec == Init /\ [][Next]_poolVars
=============================================================================
