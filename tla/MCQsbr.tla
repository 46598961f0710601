------------------------------- MODULE MCQsbr -------------------------------
(* A small registry for TLC: two readers that share a shard, one of which      *)
(* registers again, and a shard without readers.                               *)
EXTENDS Qsbr, TLC

CONSTANTS r1, r2

OneShard == r1 :> 0 @@ r2 :> 0
Again    == r1 :> 2 @@ r2 :> 1

=============================================================================
