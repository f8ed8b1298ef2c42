---------------------------- MODULE MC_MultiRepo ----------------------------
(* MultiRepo for TLC: a daemon may start with one repository that is not in  *)
(* the snapshot, with two that are, and with two of which one is no longer   *)
(* configured.  A permutation of the repositories maps these starts to each  *)
(* other.                                                                    *)
EXTENDS MultiRepo, TLC

All(s) == [r \in Repos |-> s]

MCStarts ==
    {[config |-> list, nodes |-> All({"prefixed"}), bound |-> 2] :
        list \in {l \in Lists : Len(l) = 2}}
    \cup {[config |-> <<r>>, nodes |-> All({}), bound |-> 3] : r \in Repos}
    \cup {[config |-> <<r>>, nodes |-> All({"prefixed"}), bound |-> 2] : r \in Repos}

Symmetry == Permutations(Repos)
===============================================================================
