------------------------------ MODULE ResolverRace ------------------------------
(***************************************************************************)
(* A resolution pass (resolver.ResolveAll and ResolveFile, and their       *)
(* cross-repo counterparts) running beside the other writers of the graph. *)
(*                                                                         *)
(* resolveMu keeps passes apart from each other, and from nothing else:    *)
(* the pass works on a copied list of edge pointers, writes e.To with no   *)
(* shard lock held, and only then calls ReindexEdge, which takes the three *)
(* shard locks.  AddEdge, RemoveEdge and evictions of other files' patches *)
(* come in between, and an eviction holds its locks across the write.      *)
(***************************************************************************)
EXTENDS Adjacency

CONSTANT NoEdge   \* no edge is between its write and its ReindexEdge

VARIABLE res      \* the pass that holds resolveMu

raceVars == <<heap, used, out, in, ev, clashed, res>>

NoPass == [todo |-> {}, edge |-> NoEdge, oldTo |-> None]

RaceInit == Init /\ res = NoPass

\* resolveMu.Lock and edges := graph.AllEdges() (GetOutEdges for the nodes of
\* one file or repository: the smaller list is one in which the pass skips).
BeginPass ==
    /\ res = NoPass
    /\ NoShardLocked
    /\ OutPtrs # {}
    /\ res' = [NoPass EXCEPT !.todo = OutPtrs]
    /\ UNCHANGED vars

\* An edge that is resolved already, or for which no target is found.
SkipEdge(p) ==
    /\ res.edge = NoEdge
    /\ p \in res.todo
    /\ res' = [res EXCEPT !.todo = @ \ {p}]
    /\ UNCHANGED vars

\* resolveEdge: oldTo := e.To; e.To = t, under no shard lock.
WriteTo(p, t) ==
    /\ res.edge = NoEdge
    /\ p \in res.todo
    /\ heap[p].to \in Unresolved
    /\ t \notin Unresolved
    /\ heap' = [heap EXCEPT ![p].to = t]
    /\ res' = [todo |-> res.todo \ {p}, edge |-> p, oldTo |-> heap[p].to]
    /\ UNCHANGED <<used, out, in, ev, clashed>>

\* resolveEdge: if e.To != oldTo { ReindexEdge(e, oldTo) }, once its locks
\* are free.
FinishEdge ==
    /\ res.edge # NoEdge
    /\ NoShardLocked
    /\ Reindexed(heap, res.edge, res.oldTo)
    /\ res' = [res EXCEPT !.edge = NoEdge, !.oldTo = None]
    /\ UNCHANGED <<heap, used, ev>>

\* In Adjacency, where a retarget is one step, every recorded position stays
\* right (SidecarsMirror): what goes wrong here is the interleaving alone.
RaceNext ==
    \/ Write /\ UNCHANGED res
    \/ BeginPass
    \/ \E p \in Ptrs : SkipEdge(p) \/ \E t \in Ids : WriteTo(p, t)
    \/ FinishEdge

RaceSpec == RaceInit /\ [][RaceNext]_raceVars

===============================================================================
