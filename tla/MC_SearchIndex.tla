---------------------------- MODULE MC_SearchIndex ----------------------------
(* SearchIndex for TLC: symbols and indexers are interchangeable.            *)
EXTENDS SearchIndex, TLC

Symmetry == Permutations(Symbols) \cup Permutations(Indexers)
===============================================================================
