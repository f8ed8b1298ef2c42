-------------------------------- MODULE Bucket --------------------------------
(***************************************************************************)
(* A slice with a position sidecar: the representation of every secondary  *)
(* index and adjacency list of a shard (internal/graph/graph.go).          *)
(*                                                                         *)
(* bucket[key] is a slice of pointers; idx[key] maps the identity of an    *)
(* entry to its position.  Writes consult the sidecar: a second insert of  *)
(* an identity overwrites its slot, a removal moves the last entry into    *)
(* the hole.  Positions start at 1 here, at 0 in the code.                 *)
(*                                                                         *)
(* ident is the function from pointers to identities at the time of the    *)
(* call: the node's ID for the node buckets, the whole edgeKey for the     *)
(* edge buckets, read through the pointer (keyOf).                         *)
(***************************************************************************)
EXTENDS Integers, Sequences

EmptyBucket == [slice |-> <<>>, idx |-> [k \in {} |-> 0]]

\* idx with position pos for identity k.
Point(idx, k, pos) ==
    [j \in DOMAIN idx \cup {k} |-> IF j = k THEN pos ELSE idx[j]]

\* idx without identity k.
Forget(idx, k) == [j \in DOMAIN idx \ {k} |-> idx[j]]

\* Mutant of AddToBucket: append without looking at the sidecar.
AddAlways(b, k, x) ==
    [slice |-> Append(b.slice, x), idx |-> Point(b.idx, k, Len(b.slice) + 1)]

\* addNodeToBucket, addEdgeToBucket.
AddToBucket(b, k, x) ==
    IF k \in DOMAIN b.idx
    THEN [b EXCEPT !.slice[b.idx[k]] = x]
    ELSE [slice |-> Append(b.slice, x),
          idx |-> Point(b.idx, k, Len(b.slice) + 1)]

\* Mutant of RemoveFromBucket: the sidecar of the swapped-in entry is not
\* updated.
RemoveWithoutRepoint(b, k, ident) ==
    IF k \notin DOMAIN b.idx THEN b
    ELSE LET pos == b.idx[k]
             last == Len(b.slice)
         IN  IF DOMAIN b.idx = {k} THEN EmptyBucket
             ELSE [slice |-> SubSeq([b.slice EXCEPT ![pos] = b.slice[last]],
                                    1, last - 1),
                   idx |-> Forget(b.idx, k)]

\* removeNodeFromBucket, removeEdgeFromBucket: swap with last, then shrink.
\* When the sidecar runs empty the bucket is deleted, whatever it still holds.
RemoveFromBucket(b, k, ident) ==
    IF k \notin DOMAIN b.idx THEN b
    ELSE LET pos == b.idx[k]
             last == Len(b.slice)
             swapped == b.slice[last]
             idx == IF pos # last
                    THEN Forget(Point(b.idx, ident[swapped], pos), k)
                    ELSE Forget(b.idx, k)
         IN  IF DOMAIN idx = {} THEN EmptyBucket
             ELSE [slice |-> SubSeq([b.slice EXCEPT ![pos] = swapped],
                                    1, last - 1),
                   idx |-> idx]

-------------------------------------------------------------------------------
\* The entries a reader of the bucket sees.
Entries(b) == {b.slice[i] : i \in 1 .. Len(b.slice)}

\* The sidecar is the inverse of the slice: every entry is recorded under its
\* identity at its position, and nothing else is recorded.  In particular no
\* two entries have the same identity.
Mirrors(b, ident) ==
    /\ DOMAIN b.idx = {ident[b.slice[i]] : i \in 1 .. Len(b.slice)}
    /\ \A i \in 1 .. Len(b.slice) : b.idx[ident[b.slice[i]]] = i

\* Every recorded position holds an entry with the recorded identity; an entry
\* may be recorded nowhere, and be one of several with its identity.
Located(b, ident) ==
    \A k \in DOMAIN b.idx :
        b.idx[k] \in 1 .. Len(b.slice) /\ ident[b.slice[b.idx[k]]] = k

\* Every recorded position exists: bucket[key][pos] does not panic.
InBounds(b) == \A k \in DOMAIN b.idx : b.idx[k] \in 1 .. Len(b.slice)
===============================================================================
