------------------------------ MODULE OrderedMap ------------------------------
(* What the index promises: a set of keys on which every operation acts at    *)
(* one moment between its call and its return.                                *)
EXTENDS Naturals

CONSTANTS Threads, Keys, None

VARIABLES present,  \* the keys of the map
          call,     \* for each thread the operation it has called, or None
          answer    \* what the operation will return, or None

ovars == <<present, call, answer>>

Init == /\ present \subseteq Keys
        /\ call = [t \in Threads |-> None]
        /\ answer = [t \in Threads |-> None]

Call(t) == /\ call[t] = None
           /\ \E f \in {"get", "put", "del", "inpw", "scan", "back"}, k \in Keys :
                 call' = [call EXCEPT ![t] = [op |-> f, key |-> k]]
           /\ answer' = [answer EXCEPT ![t] = None]
           /\ UNCHANGED present

Pending(t, f) == call[t] # None /\ call[t].op = f /\ answer[t] = None

\* An operation that has acted may return in the same step.
Acts(t, a) == /\ answer' = [answer EXCEPT ![t] = a]
              /\ call' \in {call, [call EXCEPT ![t] = None]}

\* wormhole_get and the like look a key up.
Look(t) == /\ Pending(t, "get") \/ Pending(t, "inpw")
           /\ Acts(t, call[t].key \in present)
           /\ UNCHANGED present

\* wormhole_put adds the key; it changes nothing when memory runs out.
Put(t) == /\ Pending(t, "put")
          /\ \/ present' = present \cup {call[t].key} /\ Acts(t, TRUE)
             \/ present' = present /\ Acts(t, FALSE)

Del(t) == /\ Pending(t, "del")
          /\ present' = present \ {call[t].key}
          /\ Acts(t, call[t].key \in present)

\* What iterators visit is not part of this specification.
Return(t) == /\ call[t] # None
             /\ answer[t] # None \/ call[t].op \in {"scan", "back"}
             /\ call' = [call EXCEPT ![t] = None]
             /\ UNCHANGED <<present, answer>>

Next == \E t \in Threads : Call(t) \/ Look(t) \/ Put(t) \/ Del(t) \/ Return(t)

Spec == Init /\ [][Next]_ovars
=============================================================================
