----------------------------- MODULE MCWormhole -----------------------------
(* Small indexes for TLC: full leaves that split, small ones that merge, and  *)
(* iterators that cross them.                                                 *)
EXTENDS Wormhole, TLC

L(a, ks) == [anchor |-> a, keys |-> ks]

\* One full leaf, which a put splits; two leaves that a deletion merges; three.
OneFull  == {<<L(0, {1, 3})>>}
TwoSmall == {<<L(0, {1}), L(2, {3})>>}
Three    == {<<L(0, {1}), L(2, {2}), L(3, {3})>>}
FullLeft == {<<L(0, {1, 3}), L(4, {4})>>}
Mixed    == OneFull \cup TwoSmall

CONSTANTS t1, t2, t3

TwoAndOne == t1 :> 2 @@ t2 :> 1
OneEach   == t1 :> 1 @@ t2 :> 1 @@ t3 :> 1

Symmetry == Permutations(Threads)

PutDelGet  == {"get", "put", "del"}
Forward == {"get", "put", "del", "scan"}
DelBack    == {"del", "back"}
PutBack    == {"put", "back"}

=============================================================================
