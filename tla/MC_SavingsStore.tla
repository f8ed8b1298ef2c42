---------------------------- MODULE MC_SavingsStore ----------------------------
(* SavingsStore for TLC: the processes are interchangeable.                  *)
EXTENDS SavingsStore, TLC

Symmetry == Permutations(Procs)
===============================================================================
