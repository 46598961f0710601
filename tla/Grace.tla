-------------------------------- MODULE Grace --------------------------------
(* What quiescent-state reclamation promises its users: a writer publishes a  *)
(* new version and waits; when the wait is over nobody uses an older version. *)
EXTENDS Naturals

CONSTANTS Refs, None

VARIABLES version,   \* the newest version
          using,     \* for each reader the version it may use, or None
          waiting    \* a writer has published and not yet finished waiting

gvars == <<version, using, waiting>>

Init == version = 0 /\ using = [r \in Refs |-> None] /\ waiting = FALSE

\* A reader picks up the newest version, in place of the one it used.
Enter(r) == using' = [using EXCEPT ![r] = version] /\ UNCHANGED <<version, waiting>>

\* A reader stops using any version.
Leave(r) == using' = [using EXCEPT ![r] = None] /\ UNCHANGED <<version, waiting>>

Publish == ~waiting /\ version' = version + 1 /\ waiting' = TRUE /\ UNCHANGED using

\* The wait ends when every version in use is the newest.
Finish == /\ waiting
          /\ \A r \in Refs : using[r] \in {None, version}
          /\ waiting' = FALSE
          /\ UNCHANGED <<version, using>>

Next == \/ \E r \in Refs : Enter(r) \/ Leave(r)
        \/ Publish
        \/ Finish

Spec == Init /\ [][Next]_gvars
=============================================================================
