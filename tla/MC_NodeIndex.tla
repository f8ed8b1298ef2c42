------------------------------ MODULE MC_NodeIndex ------------------------------
(* NodeIndex for TLC: ID i lives in shard i % 2, so two of the three collide. *)
EXTENDS NodeIndex

MCShardOf(id) == id % 2
===============================================================================
