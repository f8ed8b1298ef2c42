------------------------------- MODULE NodeIndex -------------------------------
(***************************************************************************)
(* The nodes of the graph and their secondary indexes                      *)
(* (internal/graph/graph.go): nodes, byFile, byName, byRepo and byQual of  *)
(* every shard, under AddNode, EvictFile and EvictRepo.                    *)
(*                                                                         *)
(* AddNode holds the shard of the node's ID, an eviction holds all shards  *)
(* while it works through the nodes it gathered, one at a time; it goes on *)
(* with the edges of those nodes in evictEdgesLocked (Adjacency).          *)
(***************************************************************************)
EXTENDS Bucket

CONSTANTS
    GraphIds,     \* node IDs
    Shards,       \* shard numbers
    ShardOf(_),   \* shardIdx: the hash of an ID
    Files, Names, \* file paths and short names
    Quals, Repos, \* qualified names and repository prefixes, without ""
    Empty         \* the empty string

ASSUME EmptyAssumption == Empty \notin GraphIds \cup Files \cup Names \cup Quals \cup Repos
ASSUME ShardOfAssumption == \A id \in GraphIds : ShardOf(id) \in Shards

Node == [id : GraphIds, file : Files, name : Names, qual : Quals \cup {Empty},
         repo : Repos \cup {Empty}]

\* nil
NoNode == [id |-> Empty, file |-> Empty, name |-> Empty, qual |-> Empty,
           repo |-> Empty]

VARIABLES
    nodes,   \* nodes[id], over all shards
    byFile,  \* byFile and byFileIdx of a shard, by path
    byName,  \* byName and byNameIdx
    byRepo,  \* byRepo and byRepoIdx
    byQual,  \* byQual: one node for each qualified name
    evict    \* the nodes an eviction has gathered and not yet removed

nodeVars == <<nodes, byFile, byName, byRepo, byQual, evict>>

\* No goroutine is in EvictFile or EvictRepo.
NotEvicting == evict = {}

\* The identity of an entry of a node bucket.
IdOf == [n \in Node |-> n.id]

\* index with the entry of id removed from the bucket of key.
Without(index, id, key) ==
    IF key = Empty THEN index
    ELSE [index EXCEPT ![ShardOf(id)][key] = RemoveFromBucket(@, id, IdOf)]

\* index with n in the bucket of key.
With(index, n, key) ==
    IF key = Empty THEN index
    ELSE [index EXCEPT ![ShardOf(n.id)][key] = AddToBucket(@, n.id, n)]

\* Mutant of Released: the slot outlives its node.
NotReleased(slots, id, q) == slots

\* Mutant of Released: a record without a node is left in the slot.
ReleasedTombstone(slots, id, q) ==
    IF q # Empty THEN [slots EXCEPT ![ShardOf(id)][q] = [NoNode EXCEPT !.qual = q]]
    ELSE slots

\* delete(s.byQual, q), if the slot still belongs to id.
Released(slots, id, q) ==
    IF q # Empty /\ slots[ShardOf(id)][q].id = id
    THEN [slots EXCEPT ![ShardOf(id)][q] = NoNode]
    ELSE slots

NodeInit ==
    /\ nodes = [id \in GraphIds |-> NoNode]
    /\ byFile = [s \in Shards |-> [f \in Files |-> EmptyBucket]]
    /\ byName = [s \in Shards |-> [m \in Names |-> EmptyBucket]]
    /\ byRepo = [s \in Shards |-> [r \in Repos |-> EmptyBucket]]
    /\ byQual = [s \in Shards |-> [q \in Quals |-> NoNode]]
    /\ evict = {}

-------------------------------------------------------------------------------
\* Mutant of Migrated: the replaced node keeps its old entries.
NotMigrated(index, id, oldKey, newKey) == index

\* The entry of a replaced node leaves the bucket of its old key.
Migrated(index, id, oldKey, newKey) ==
    IF oldKey # newKey THEN Without(index, id, oldKey) ELSE index

\* AddNode: insert n, or replace the node with its ID and move its entries.
AddNode(n) ==
    /\ NotEvicting
    /\ LET prev == nodes[n.id]
           slots == IF prev.qual # n.qual THEN Released(byQual, n.id, prev.qual)
                                          ELSE byQual
       IN  /\ nodes' = [nodes EXCEPT ![n.id] = n]
           /\ byFile' = With(Migrated(byFile, n.id, prev.file, n.file), n, n.file)
           /\ byName' = With(Migrated(byName, n.id, prev.name, n.name), n, n.name)
           /\ byRepo' = With(Migrated(byRepo, n.id, prev.repo, n.repo), n, n.repo)
           /\ byQual' = IF n.qual = Empty THEN slots
                        ELSE [slots EXCEPT ![ShardOf(n.id)][n.qual] = n]
    /\ UNCHANGED evict

\* Gather the nodes of one key of index across the shards.
Gathered(index, key) == UNION {Entries(index[s][key]) : s \in Shards}

\* EvictFile and EvictRepo, up to the loop; with nothing gathered they return.
StartEvictFile(f) ==
    /\ NotEvicting
    /\ evict' = Gathered(byFile, f)
    /\ UNCHANGED <<nodes, byFile, byName, byRepo, byQual>>

StartEvictRepo(r) ==
    /\ NotEvicting
    /\ evict' = Gathered(byRepo, r)
    /\ UNCHANGED <<nodes, byFile, byName, byRepo, byQual>>

\* One iteration of for _, n := range nodes.
EvictNode(n) ==
    /\ n \in evict
    /\ nodes' = [nodes EXCEPT ![n.id] = NoNode]
    /\ byQual' = Released(byQual, n.id, n.qual)
    /\ byName' = Without(byName, n.id, n.name)
    /\ byFile' = Without(byFile, n.id, n.file)
    /\ byRepo' = Without(byRepo, n.id, n.repo)
    /\ evict' = evict \ {n}

NodeNext ==
    \/ \E n \in Node : AddNode(n) \/ EvictNode(n)
    \/ \E f \in Files : StartEvictFile(f)
    \/ \E r \in Repos : StartEvictRepo(r)

NodeSpec == NodeInit /\ [][NodeNext]_nodeVars

-------------------------------------------------------------------------------
\* The variables have the types the code gives them.
NodeTypeOK ==
    /\ nodes \in [GraphIds -> Node \cup {NoNode}]
    /\ byQual \in [Shards -> [Quals -> Node \cup {NoNode}]]
    /\ evict \subseteq Node
    /\ \A s \in Shards :
        /\ \A f \in Files : Entries(byFile[s][f]) \subseteq Node
        /\ \A m \in Names : Entries(byName[s][m]) \subseteq Node
        /\ \A r \in Repos : Entries(byRepo[s][r]) \subseteq Node

Live(s) == {n \in {nodes[id] : id \in GraphIds} : n # NoNode /\ ShardOf(n.id) = s}

\* After any history of inserts, replacements that move a node to another
\* file, name or repository, and evictions (in the middle of one as well),
\* each index lists exactly the current nodes of its key, each once: "the
\* secondary-index entries are migrated from the old bucket to the new one"
\* (AddNode), and an eviction leaves no stale pointer behind.
IndexesMatchNodes ==
    \A s \in Shards :
        /\ \A f \in Files : Entries(byFile[s][f]) = {n \in Live(s) : n.file = f}
        /\ \A m \in Names : Entries(byName[s][m]) = {n \in Live(s) : n.name = m}
        /\ \A r \in Repos : Entries(byRepo[s][r]) = {n \in Live(s) : n.repo = r}

\* Every sidecar is the inverse of its slice, so no lookup returns a node twice
\* and the next insert or removal touches the right slot.
NodeSidecarsMirror ==
    \A s \in Shards :
        /\ \A f \in Files : Mirrors(byFile[s][f], IdOf)
        /\ \A m \in Names : Mirrors(byName[s][m], IdOf)
        /\ \A r \in Repos : Mirrors(byRepo[s][r], IdOf)

\* A qualified-name slot never answers with an evicted or replaced node, though
\* several nodes compete for one slot and each may leave at any time.
QualSlotLive ==
    \A s \in Shards, q \in Quals :
        byQual[s][q] # NoNode => /\ byQual[s][q] \in Live(s)
                                 /\ byQual[s][q].qual = q

===============================================================================
