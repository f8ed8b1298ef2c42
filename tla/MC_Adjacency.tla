------------------------------ MODULE MC_Adjacency ------------------------------
(* Adjacency for TLC: every site is a call, so that RemoveEdge has to choose;  *)
(* edge objects are interchangeable.                                           *)
EXTENDS Adjacency, TLC

MCKindOf(s) == "calls"

Symmetry == Permutations(Ptrs)
===============================================================================
