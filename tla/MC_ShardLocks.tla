----------------------------- MODULE MC_ShardLocks -----------------------------
(* ShardLocks for TLC. *)
EXTENDS ShardLocks
===============================================================================
