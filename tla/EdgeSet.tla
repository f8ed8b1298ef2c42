-------------------------------- MODULE EdgeSet --------------------------------
(***************************************************************************)
(* What the adjacency lists promise: a set of edges, identified by their   *)
(* edgeKey.  Inserting is idempotent, a removal takes one matching edge, a *)
(* retarget replaces one edge by another, and an eviction removes, in one  *)
(* step, the edges that touch the evicted nodes.                           *)
(***************************************************************************)
CONSTANTS Ids, Unresolved, Sites, KindOf(_)

NodeIds == Ids \ Unresolved

EdgeKey == [from : NodeIds, to : Ids, site : Sites]

VARIABLES
    edges,
    evicting  \* an eviction holds every shard

vars == <<edges, evicting>>

Init == edges = {} /\ evicting = FALSE

\* One call of a writer, atomic.
Replace(new) == ~evicting /\ edges' = new /\ UNCHANGED evicting

AddEdge(e) == Replace(edges \cup {e})

RemoveEdge(from, to, kind) ==
    \E e \in edges : /\ e.from = from /\ e.to = to /\ KindOf(e.site) = kind
                     /\ Replace(edges \ {e})

Retarget(e, t) ==
    /\ e \in edges /\ e.to \in Unresolved /\ t \notin Unresolved
    /\ Replace((edges \ {e}) \cup {[e EXCEPT !.to = t]})

\* The edges of the evicted nodes go at once, and until the eviction ends
\* nothing else changes.
Evict(ids) ==
    /\ ~evicting
    /\ edges' = {e \in edges : {e.from, e.to} \cap ids = {}}
    /\ evicting' = TRUE

EndEvict == evicting /\ evicting' = FALSE /\ UNCHANGED edges

Next ==
    \/ \E e \in EdgeKey : AddEdge(e)
    \/ \E from \in NodeIds, to \in Ids, s \in Sites : RemoveEdge(from, to, KindOf(s))
    \/ \E e \in edges, t \in Ids : Retarget(e, t)
    \/ \E ids \in SUBSET NodeIds : Evict(ids)
    \/ EndEvict

Spec == Init /\ [][Next]_vars
===============================================================================
