-------------------------- MODULE MCShardHistory --------------------------
(* Instances of ShardHistory for TLC.                                       *)
EXTENDS ShardHistory

\* All keys collide at the last slot, so that probing wraps around.
MCHome == [k \in Keys |-> Cap - 1]
=============================================================================
