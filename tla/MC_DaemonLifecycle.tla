------------------------- MODULE MC_DaemonLifecycle -------------------------
(* DaemonLifecycle for TLC: the processes are interchangeable.               *)
EXTENDS DaemonLifecycle, TLC

Symmetry == Permutations(Procs)
===============================================================================
