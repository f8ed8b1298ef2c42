------------------------------- MODULE Adjacency -------------------------------
(***************************************************************************)
(* The adjacency lists of the graph (internal/graph/graph.go): outEdges    *)
(* and inEdges with their sidecars, under AddEdge, RemoveEdge, the         *)
(* resolver's retargeting of an edge (ReindexEdge), and the edge removal   *)
(* of EvictFile and EvictRepo (evictEdgesLocked).                          *)
(*                                                                         *)
(* Edges are heap objects: outEdges[from] and inEdges[to] hold the same    *)
(* pointer, and the resolver writes e.To through it.  The identity of an   *)
(* edge is its edgeKey; a site stands for the (Kind, FilePath, Line) part. *)
(*                                                                         *)
(* The shard locks make AddEdge and RemoveEdge atomic (ShardLocks).  The   *)
(* two loops of an eviction are taken one edge at a time, while every      *)
(* shard is write-locked; here a retarget happens in one step and never    *)
(* during an eviction (ResolverRace drops both).                           *)
(***************************************************************************)
EXTENDS Bucket, FiniteSets

CONSTANTS
    Ids,        \* node IDs and stub targets of edges
    Unresolved, \* the stubs unresolved::F that the extractors emit
    Sites,      \* (Kind, FilePath, Line) triples
    KindOf(_),  \* the edge kind of a site
    Ptrs,       \* edge objects; never reused
    None        \* no ID

ASSUME NoneAssumption == None \notin Ids
ASSUME UnresolvedAssumption == Unresolved \subseteq Ids

\* Only nodes have outgoing edges, and only nodes are evicted.
NodeIds == Ids \ Unresolved

EdgeKey == [from : NodeIds, to : Ids, site : Sites]

ASSUME EdgeKeyAssumption == EdgeKey # {}

VARIABLES
    heap,    \* heap[p]: the fields of the edge object p
    used,    \* the edge objects allocated so far
    out,     \* outEdges and outEdgeIdx, by node ID
    in,      \* inEdges and inEdgeIdx, by node ID
    ev,      \* the eviction in progress
    clashed  \* history: nodes of which an outgoing edge was retargeted onto an
             \* identity that their out list had already

vars == <<heap, used, out, in, ev, clashed>>

\* No eviction: no goroutine is in evictEdgesLocked.
NoEvict == [phase |-> "none", ids |-> {}, todo |-> {}, cur |-> None,
            rest |-> {}]

NoShardLocked == ev = NoEvict

-------------------------------------------------------------------------------
Init ==
    /\ heap = [p \in Ptrs |-> CHOOSE e \in EdgeKey : TRUE]
    /\ used = {}
    /\ out = [a \in Ids |-> EmptyBucket]
    /\ in = [b \in Ids |-> EmptyBucket]
    /\ ev = NoEvict
    /\ clashed = {}

\* AddEdge: a fresh edge object goes into both lists, or replaces the object
\* that has the same identity.
AddEdge(p, e) ==
    /\ NoShardLocked
    /\ p \notin used
    /\ used' = used \cup {p}
    /\ heap' = [heap EXCEPT ![p] = e]
    /\ out' = [out EXCEPT ![e.from] = AddToBucket(@, e, p)]
    /\ in' = [in EXCEPT ![e.to] = AddToBucket(@, e, p)]
    /\ UNCHANGED <<ev, clashed>>

\* Mutant of DropEdge: only the out list is updated.
DropOutOnly(e) ==
    /\ out' = [out EXCEPT ![e.from] = RemoveFromBucket(@, e, heap)]
    /\ UNCHANGED in

DropEdge(e) ==
    /\ out' = [out EXCEPT ![e.from] = RemoveFromBucket(@, e, heap)]
    /\ in' = [in EXCEPT ![e.to] = RemoveFromBucket(@, e, heap)]

\* RemoveEdge: the first match of (from, to, kind) in the out list.
RemoveEdge(from, to, kind) ==
    /\ NoShardLocked
    /\ LET matches(i) == LET e == heap[out[from].slice[i]]
                         IN  e.to = to /\ KindOf(e.site) = kind
       IN  \E i \in 1 .. Len(out[from].slice) :
             /\ matches(i)
             /\ \A j \in 1 .. i - 1 : ~matches(j)
             /\ DropEdge(heap[out[from].slice[i]])
    /\ UNCHANGED <<heap, used, ev, clashed>>

\* Mutant of Reindexed: the edge stays in the in list of its old target.
ReindexedKeepsOld(h, p, oldTo) ==
    LET new == h[p]
        old == [new EXCEPT !.to = oldTo]
        fromIdx == out[new.from].idx
    IN  /\ out' = IF old \in DOMAIN fromIdx
                  THEN [out EXCEPT ![new.from].idx =
                            Point(Forget(@, old), new, fromIdx[old])]
                  ELSE out
        /\ in' = [in EXCEPT ![new.to] = AddToBucket(@, new, p)]
        /\ UNCHANGED clashed

\* ReindexEdge(e, oldTo), e.To already written (h is the heap after it): the
\* out list keeps the slot and records it under the new identity, whether or not
\* another slot is recorded there; the in list of the old target loses the edge,
\* that of the new one gains it, in place of the one with that identity.
Reindexed(h, p, oldTo) ==
    LET new == h[p]
        old == [new EXCEPT !.to = oldTo]
        fromIdx == out[new.from].idx
        inOld == [in EXCEPT ![oldTo] = RemoveFromBucket(@, old, h)]
    IN  /\ out' = IF old \in DOMAIN fromIdx
                  THEN [out EXCEPT ![new.from].idx =
                            Point(Forget(@, old), new, fromIdx[old])]
                  ELSE out
        /\ in' = [inOld EXCEPT ![new.to] = AddToBucket(@, new, p)]
        /\ clashed' = clashed \cup {a \in {new.from} : new \in DOMAIN fromIdx}

\* resolveEdge on an unresolved edge the resolver got from AllEdges or
\* GetOutEdges: e.To = t, then ReindexEdge.
Retarget(p, t) ==
    /\ NoShardLocked
    /\ p \in Entries(out[heap[p].from])
    /\ heap[p].to \in Unresolved
    /\ t \notin Unresolved
    /\ LET h == [heap EXCEPT ![p].to = t]
       IN  heap' = h /\ Reindexed(h, p, heap[p].to)
    /\ UNCHANGED <<used, ev>>

-------------------------------------------------------------------------------
(* evictEdgesLocked(ids).  Phase "out" is its first loop, over the outgoing  *)
(* edges of every evicted node, phase "in" the second, over the incoming     *)
(* ones.  The map of IDs is iterated in any order; the order in which the    *)
(* edges of one list are visited is left open as well.                       *)

StartEvict(ids) ==
    /\ NoShardLocked
    /\ ids # {}
    /\ ev' = [phase |-> "out", ids |-> ids, todo |-> ids, cur |-> None,
              rest |-> {}]
    /\ UNCHANGED <<heap, used, out, in, clashed>>

\* for id := range evictedIDs { edges := s.outEdges[id] ... s.inEdges[id] }
EvictPick(id) ==
    /\ ev.phase # "none"
    /\ ev.cur = None
    /\ id \in ev.todo
    /\ ev' = [ev EXCEPT !.todo = @ \ {id}, !.cur = id,
                        !.rest = Entries(IF ev.phase = "out" THEN out[id]
                                                             ELSE in[id])]
    /\ UNCHANGED <<heap, used, out, in, clashed>>

\* An outgoing edge of an evicted node leaves the in list of its target.
EvictOutEdge(p) ==
    /\ ev.phase = "out"
    /\ p \in ev.rest
    /\ in' = IF heap[p].to \in ev.ids THEN in
             ELSE [in EXCEPT ![heap[p].to] =
                        RemoveFromBucket(@, heap[p], heap)]
    /\ ev' = [ev EXCEPT !.rest = @ \ {p}]
    /\ UNCHANGED <<heap, used, out, clashed>>

\* Mutant of EvictInEdge: incoming edges stay in the out lists of survivors.
EvictInEdgeKeeps(p) ==
    /\ ev.phase = "in"
    /\ p \in ev.rest
    /\ ev' = [ev EXCEPT !.rest = @ \ {p}]
    /\ UNCHANGED <<heap, used, out, in, clashed>>

\* An incoming edge from a surviving node leaves that node's out list.
EvictInEdge(p) ==
    /\ ev.phase = "in"
    /\ p \in ev.rest
    /\ out' = IF heap[p].from \in ev.ids THEN out
              ELSE [out EXCEPT ![heap[p].from] =
                         RemoveFromBucket(@, heap[p], heap)]
    /\ ev' = [ev EXCEPT !.rest = @ \ {p}]
    /\ UNCHANGED <<heap, used, in, clashed>>

\* Mutant of EvictOutList: the second loop runs over every ID.
EvictOutListAll ==
    /\ ev.phase = "out" /\ ev.cur # None /\ ev.rest = {}
    /\ out' = [out EXCEPT ![ev.cur] = EmptyBucket]
    /\ ev' = IF ev.todo # {} THEN [ev EXCEPT !.cur = None]
             ELSE [ev EXCEPT !.cur = None, !.phase = "in", !.todo = Ids]
    /\ UNCHANGED <<heap, used, in, clashed>>

\* delete(s.outEdges, id); after the last ID the second loop begins.
EvictOutList ==
    /\ ev.phase = "out" /\ ev.cur # None /\ ev.rest = {}
    /\ out' = [out EXCEPT ![ev.cur] = EmptyBucket]
    /\ ev' = IF ev.todo # {} THEN [ev EXCEPT !.cur = None]
             ELSE [ev EXCEPT !.cur = None, !.phase = "in", !.todo = ev.ids]
    /\ UNCHANGED <<heap, used, in, clashed>>

\* delete(s.inEdges, id); after the last ID the shards are unlocked.
EvictInList ==
    /\ ev.phase = "in" /\ ev.cur # None /\ ev.rest = {}
    /\ in' = [in EXCEPT ![ev.cur] = EmptyBucket]
    /\ ev' = IF ev.todo # {} THEN [ev EXCEPT !.cur = None] ELSE NoEvict
    /\ UNCHANGED <<heap, used, out, clashed>>

EvictStep ==
    \/ \E id \in Ids : EvictPick(id)
    \/ \E p \in Ptrs : EvictOutEdge(p) \/ EvictInEdge(p)
    \/ EvictOutList
    \/ EvictInList

-------------------------------------------------------------------------------
Write ==
    \/ \E p \in Ptrs, e \in EdgeKey : AddEdge(p, e)
    \/ \E from \in NodeIds, to \in Ids, s \in Sites : RemoveEdge(from, to, KindOf(s))
    \/ \E ids \in SUBSET NodeIds : StartEvict(ids)
    \/ EvictStep

Next == Write \/ \E p \in used, t \in Ids : Retarget(p, t)

Spec == Init /\ [][Next]_vars

-------------------------------------------------------------------------------
OutPtrs == UNION {Entries(out[a]) : a \in Ids}
InPtrs == UNION {Entries(in[b]) : b \in Ids}

\* The variables have the types the code gives them; an eviction visits evicted
\* nodes only.
TypeOK ==
    /\ heap \in [Ptrs -> EdgeKey]
    /\ used \in SUBSET Ptrs
    /\ \A a \in Ids : /\ Entries(out[a]) \subseteq used
                      /\ Entries(in[a]) \subseteq used
                      /\ DOMAIN out[a].idx \subseteq EdgeKey
                      /\ DOMAIN in[a].idx \subseteq EdgeKey
    /\ ev.phase \in {"none", "out", "in"}
    /\ ev.ids \subseteq Ids /\ ev.todo \subseteq ev.ids
    /\ ev.cur \in ev.ids \cup {None} /\ ev.rest \subseteq used

\* Every sidecar is the inverse of its slice, whatever the order of inserts,
\* swap-removals and retargets: the two invariants the comment on shard
\* promises, idempotent writes and O(1) removal, rest on it.  ReindexEdge does
\* not look whether the new identity is taken; the out list of a node where it
\* was may have entries that no longer are recorded, and still every recorded
\* position is right.  The in lists are not affected.
SidecarsMirror ==
    \A a \in Ids : /\ Mirrors(in[a], heap)
                   /\ IF a \in clashed THEN Located(out[a], heap)
                                       ELSE Mirrors(out[a], heap)

\* Outside an eviction the two directions agree: an edge is in the out list of
\* its source exactly if it is in the in list of its target ("so outEdges and
\* inEdges stay consistent", AddEdge).  The out list of a node where identities
\* clashed may hold more.
DirectionsAgree ==
    NoShardLocked =>
        \A p \in used :
            /\ p \in Entries(in[heap[p].to]) => p \in Entries(out[heap[p].from])
            /\ heap[p].from \notin clashed =>
                  (p \in Entries(out[heap[p].from]) => p \in Entries(in[heap[p].to]))

\* Every list holds only edges of its node: GetOutEdges(a) and GetInEdges(a)
\* never return someone else's edge.
ListsOwnEdges ==
    \A a \in Ids : /\ \A p \in Entries(out[a]) : heap[p].from = a
                   /\ \A p \in Entries(in[a]) : heap[p].to = a

\* An eviction leaves no edge that touches an evicted node, in the lists of
\* either direction ("removes all nodes and edges belonging to the given file
\* path", EvictFile).  Only in the out list of a node where identities clashed
\* an edge to an evicted node may stay.
EvictsExactly ==
    [][(ev.phase # "none" /\ ev'.phase = "none") =>
         \A a \in Ids :
            /\ \A p \in Entries(out'[a]) :
                  heap[p].from \notin ev.ids /\ (heap[p].to \in ev.ids => a \in clashed)
            /\ \A p \in Entries(in'[a]) : {heap[p].from, heap[p].to} \cap ev.ids = {}]_vars

\* The adjacency lists implement the set of edges of EdgeSet, read through the
\* in lists (GetInEdges), where no identity is twice; by DirectionsAgree the out
\* lists show the same edges, unless identities clashed.  From its first step
\* on, an eviction has removed the edges of the evicted nodes: no reader sees
\* them, the shards are locked.
AbstractEdges ==
    {heap[p] : p \in {q \in InPtrs : {heap[q].from, heap[q].to} \cap ev.ids = {}}}

EdgeSetSpec == INSTANCE EdgeSet WITH edges <- AbstractEdges,
                                     evicting <- ~NoShardLocked

\* Every step of the lists is a step of the abstract edge set, or invisible.
ImplementsEdgeSet == EdgeSetSpec!Spec

\* "Graph is a thread-safe in-memory knowledge graph": no sequence of graph
\* calls leaves a sidecar position outside its slice, where the next removal
\* or replacement of that identity would panic with index out of range.
PositionsInRange == \A a \in Ids : InBounds(out[a]) /\ InBounds(in[a])
================================================================================
