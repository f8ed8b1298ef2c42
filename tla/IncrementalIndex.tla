--------------------------- MODULE IncrementalIndex ---------------------------
(***************************************************************************)
(* The graph of one repository as a whole, kept up to date file by file:   *)
(* the watcher's patches (Indexer.IndexFile, Indexer.EvictFile), the storm *)
(* drain, the janitor's IncrementalReindex, and the snapshot through which *)
(* it survives a restart of the daemon (saveSnapshot, loadSnapshot,        *)
(* ReconcileRepoCtx, TrackRepoCtx).                                        *)
(*                                                                         *)
(* A file defines some names and calls some names.  Each file has a node   *)
(* and a node for every definition; each call is an edge, to a definition  *)
(* or to the stub unresolved::name.  The edges are those of AllEdges, the  *)
(* out-lists.  indexFile is three steps: evict, read and add; ResolveFile, *)
(* edge by edge; stat.  FileSync is about two operations that overlap in   *)
(* the first of these on one file.                                         *)
(***************************************************************************)
EXTENDS Integers, FiniteSets

CONSTANTS
    Files, Names,
    Dir(_),       \* the directory of a file
    Contents,     \* the contents a file may have: [defs, calls : SUBSET Names]
    InitDisk,     \* the repository when the daemon first starts
    Absent,       \* no such file, no file
    MaxEdits,     \* bound: changes of the file system, and failing reads
    MaxRestarts,  \* bound: stops and crashes of the daemon
    MaxSnapshots  \* bound: periodic snapshots

ASSUME ContentsAssumption ==
    /\ Contents \subseteq [defs : SUBSET Names, calls : SUBSET Names]
    /\ InitDisk \in [Files -> Contents \cup {Absent}]
    /\ Absent \notin Contents \cup Files \cup Names

ASSUME BoundsAssumption == MaxEdits \in Nat

VARIABLES
    disk,    \* disk[f]: content and mtime of the file
    edits,   \* changes and failing reads so far; the source of mtimes
    dirty,   \* files with an event that the watcher has not worked off
    missed,  \* files changed while the daemon ran and no watcher was attached
    adrift,  \* history: files not indexed since their nodes came from a snapshot
             \* that had no mtime for them, or they changed between the read and
             \* the stat of indexFile, or a batch purged them though they were on
             \* disk, or could not be read
    cut,     \* history: calls whose edge went with the file it led to, or was
             \* pruned by the loader, and whose file was not indexed since
    stranded, \* history: edges whose target was evicted after the resolver had
             \* found it and before ReindexEdge
    up,      \* the daemon is running
    graph,   \* nodes and edges
    doubled, \* edges with a second entry in the out-list, which no sidecar knows
    mtimes,  \* Indexer.fileMtimes
    meta,    \* RepoMetadata.FileMtimes, the copy that goes into a snapshot
    job,     \* the janitor's or the warm-up's batch
    storm,   \* the storm drain
    open,    \* the calls of indexFile between their read and their stat
    resolver, \* who holds the resolve mutex, the edges left, the edge at hand
    saving,  \* the snapshot being written
    snap,    \* the snapshot on disk
    stops,   \* restarts so far
    saves    \* periodic snapshots so far

files == <<disk, edits, dirty, missed>>
index == <<adrift, cut, stranded, graph, doubled>>
work == <<job, storm, open, resolver>>
snapshots == <<saving, snap, saves>>
vars == <<files, index, up, mtimes, meta, work, snapshots, stops>>

Zeros == [f \in Files |-> 0]
NoJob == [kind |-> "none", pc |-> "none", walk |-> {}, gone |-> {}, todo |-> {}]
NoStorm == [on |-> FALSE, todo |-> {}]
NoEdge == [file |-> Absent, name |-> Absent, at |-> Absent]
Op(by, f) == [by |-> by, file |-> f]
FreeResolver == [by |-> Op("nobody", Absent), edges |-> {}, moving |-> NoEdge]
NotSaving == [pc |-> "idle", mtimes |-> Zeros, nodes |-> {}, adrift |-> {}]
NoSnapshot == [mtimes |-> Zeros, nodes |-> {}, edges |-> {}, cut |-> {}, adrift |-> {}]

OnDisk(f) == disk[f].content # Absent

-------------------------------------------------------------------------------
(* The graph as a value.  at is the file of the called definition, Absent    *)
(* for an unresolved call.                                                   *)

NodesOf(f, c) == {[file |-> f, name |-> s] : s \in c.defs \cup {Absent}}
EdgesOf(f, c) == {[file |-> f, name |-> s, at |-> Absent] : s \in c.calls}

Target(e) == [file |-> e.at, name |-> e.name]

\* The call that an edge stands for.
Call(e) == [e EXCEPT !.at = Absent]

\* The edges of other files that an eviction of f takes: the in-list of a node
\* of f has them, under the identity the out-list has.  It does not have yet the
\* edge that the resolver is moving, nor the second entry of a doubled one.
Incoming(f) == {e \in graph.edges : /\ e.file # f /\ e.at = f /\ Target(e) \in graph.nodes
                                    /\ e # resolver.moving /\ e \notin doubled}

\* Mutant of Evicted: only the file's own edges go.
EvictedOwnOnly(f) ==
    [nodes |-> {n \in graph.nodes : n.file # f},
     edges |-> {e \in graph.edges : e.file # f}]

\* Graph.EvictFile: the file's nodes, and every edge from or to one of them.
Evicted(f) ==
    [nodes |-> {n \in graph.nodes : n.file # f},
     edges |-> {e \in graph.edges : e.file # f} \ Incoming(f)]

\* Mutant of Indexed: the old version of the file is not evicted first.
IndexedOver(f) ==
    [nodes |-> graph.nodes \cup NodesOf(f, disk[f].content),
     edges |-> graph.edges \cup EdgesOf(f, disk[f].content)]

\* indexFile up to the resolver, for a file that can be read.
Indexed(f) ==
    [nodes |-> Evicted(f).nodes \cup NodesOf(f, disk[f].content),
     edges |-> Evicted(f).edges \cup EdgesOf(f, disk[f].content)]

\* Mutant of Resolve: the edge gets the name where the node's ID belongs.
ResolveToName(e) ==
    IF \E n \in graph.nodes : n.name = e.name THEN [e EXCEPT !.at = e.name] ELSE e

\* resolveFunctionCall: a definition in the caller's directory, else the first
\* definition that FindNodesByName returns, else the edge stays as it is.
Resolve(e) ==
    LET defs == {n \in graph.nodes : n.name = e.name}
        near == {n \in defs : Dir(n.file) = Dir(e.file)}
        from == IF near # {} THEN near ELSE defs
    IN  IF from = {} THEN e
        ELSE [e EXCEPT !.at = (CHOOSE n \in from : TRUE).file]

\* Definitions and calls of the files on disk.
Definitions == UNION {NodesOf(f, disk[f].content) : f \in {x \in Files : OnDisk(x)}}
Calls == UNION {EdgesOf(f, disk[f].content) : f \in {x \in Files : OnDisk(x)}}

Init ==
    /\ disk = [f \in Files |-> [content |-> InitDisk[f],
                                mtime |-> IF InitDisk[f] = Absent THEN 0 ELSE 1]]
    /\ edits = 0
    /\ dirty = {} /\ missed = {} /\ adrift = {} /\ cut = {} /\ stranded = {}
    /\ up = FALSE
    /\ graph = [nodes |-> {}, edges |-> {}] /\ doubled = {}
    /\ mtimes = Zeros /\ meta = Zeros
    /\ job = NoJob /\ storm = NoStorm /\ open = {} /\ resolver = FreeResolver
    /\ saving = NotSaving /\ snap = NoSnapshot
    /\ stops = 0 /\ saves = 0

-------------------------------------------------------------------------------
\* The watcher is attached at the end of the warm-up.
Watching == up /\ job.kind \notin {"boot", "track"}

\* Files that were read and whose mtime is about to be taken: by indexFile, or by
\* a full index, which stats all files after the last read.
Unstatted ==
    {o.file : o \in open} \cup
    (IF job.kind = "track" /\ job.pc = "walk"
     THEN Files \ (job.walk \cup job.gone \cup job.todo) ELSE {})

\* A file is written, created or removed; the watcher hears of it.
Change(f, c) ==
    /\ edits < MaxEdits
    /\ c # Absent \/ OnDisk(f)
    /\ edits' = edits + 1
    /\ disk' = [disk EXCEPT ![f] = [content |-> c,
                                    mtime |-> IF c = Absent THEN 0 ELSE edits + 2]]
    /\ dirty' = IF Watching THEN dirty \cup {f} ELSE dirty
    /\ missed' = IF up /\ ~Watching THEN missed \cup {f} ELSE missed
    /\ adrift' = IF c # Absent /\ f \in Unstatted THEN adrift \cup {f} ELSE adrift
    /\ UNCHANGED <<cut, stranded, up, graph, doubled, mtimes, meta, work, snapshots, stops>>

\* Graph.EvictFile, with what it means for the edges it does not find.
EvictFile(f) ==
    /\ cut' = {c \in cut : c.file # f} \cup {Call(e) : e \in Incoming(f)}
    /\ LET moving == resolver.moving
           late == IF moving.at = f THEN {moving} ELSE {}
       IN  /\ stranded' = {e \in stranded \cup late : e.file # f} \ Incoming(f)
           /\ doubled' = {e \in doubled : e.file # f} \ late
           /\ resolver' = IF moving.file = f THEN [resolver EXCEPT !.moving = NoEdge]
                          ELSE resolver

\* Reading or extracting a file that is there may fail.
Attempt(f, ok) ==
    /\ ok \/ (OnDisk(f) /\ edits < MaxEdits)
    /\ edits' = IF ok THEN edits ELSE edits + 1

\* indexFile up to the resolver.  A file that is not there, cannot be read or
\* that the extractor fails on stays evicted, and its mtime is not taken.
IndexFile(by, f, ok) ==
    /\ Attempt(f, ok)
    /\ EvictFile(f)
    /\ graph' = IF OnDisk(f) /\ ok THEN Indexed(f) ELSE Evicted(f)
    /\ open' = IF OnDisk(f) /\ ok THEN open \cup {Op(by, f)} ELSE open
    /\ adrift' = IF OnDisk(f) /\ ~ok THEN adrift \cup {f} ELSE adrift \ {f}
    /\ missed' = missed \ {f}

Busy(by) == \E o \in open : o.by = by

\* The end of indexFile: the mtime of the file as it is now.
Stat(o) ==
    /\ mtimes' = IF OnDisk(o.file) THEN [mtimes EXCEPT ![o.file] = disk[o.file].mtime]
                 ELSE mtimes
    /\ open' = open \ {o}

\* patchGraph: IndexFile, or EvictFile for a file that is gone.
PatchFile(f, ok) ==
    /\ Watching
    /\ f \in dirty /\ Op("patch", f) \notin open
    /\ dirty' = dirty \ {f}
    /\ IndexFile("patch", f, ok)
    /\ UNCHANGED <<disk, up, mtimes, meta, job, storm, snapshots, stops>>

\* drainStorm: patchGraphNoResolve for each file of the batch, then ResolveAll.
StartStorm ==
    /\ Watching /\ storm = NoStorm
    /\ Cardinality(dirty) > 1
    /\ storm' = [on |-> TRUE, todo |-> dirty]
    /\ dirty' = {}
    /\ UNCHANGED <<disk, edits, missed, index, up, mtimes, meta, job, open, resolver,
                   snapshots, stops>>

StormFile(f, ok) ==
    /\ f \in storm.todo /\ ~Busy("storm")
    /\ storm' = [storm EXCEPT !.todo = @ \ {f}]
    /\ IndexFile("storm", f, ok)
    /\ UNCHANGED <<disk, dirty, up, mtimes, meta, job, snapshots, stops>>

StormStat(f) ==
    /\ Op("storm", f) \in open
    /\ Stat(Op("storm", f))
    /\ UNCHANGED <<files, index, up, meta, job, storm, resolver, snapshots, stops>>

-------------------------------------------------------------------------------
(* The resolver: one pass at a time, over the edges of a file or over all,   *)
(* beside evictions.                                                         *)

\* The passes that wait for the mutex: ResolveFile in indexFile, ResolveAll after
\* a storm and after a full index.
Waiting ==
    {o \in open : o.by # "storm"}
    \cup (IF storm.on /\ storm.todo = {} /\ ~Busy("storm") THEN {Op("storm", Absent)} ELSE {})
    \cup (IF job.pc = "resolve" THEN {Op("batch", Absent)} ELSE {})

StartResolve(o) ==
    /\ resolver = FreeResolver
    /\ resolver' = [FreeResolver EXCEPT !.by = o,
           !.edges = {e \in graph.edges : e.at = Absent /\ o.file \in {e.file, Absent}}]
    /\ UNCHANGED <<files, index, up, mtimes, meta, job, storm, open, snapshots, stops>>

\* Mutant of Retargeted: a call that stays unresolved is dropped.
RetargetedOnly(e) ==
    (graph.edges \ {e}) \cup (IF Resolve(e) = e THEN {} ELSE {Resolve(e)})

\* The edge gets its target.
Retargeted(e) == (graph.edges \ {e}) \cup {Resolve(e)}

\* resolveEdge up to ReindexEdge: the target is looked up and written to the edge.
\* An edge with the identity of another one is a second entry in the out-list.
Lookup(e) ==
    /\ e \in resolver.edges /\ resolver.moving = NoEdge
    /\ LET moved == e \in graph.edges /\ Resolve(e) # e
       IN  /\ resolver' = [resolver EXCEPT !.edges = @ \ {e},
                                           !.moving = IF moved THEN Resolve(e) ELSE NoEdge]
           /\ graph' = IF e \in graph.edges THEN [graph EXCEPT !.edges = Retargeted(e)]
                       ELSE graph
           /\ doubled' = IF moved /\ Resolve(e) \in graph.edges
                         THEN doubled \cup {Resolve(e)} ELSE doubled
    /\ UNCHANGED <<files, adrift, cut, stranded, up, mtimes, meta, job, storm, open,
                   snapshots, stops>>

\* Graph.ReindexEdge: the in-list of the target gets the edge.
ReindexEdge ==
    /\ resolver.moving # NoEdge
    /\ resolver' = [resolver EXCEPT !.moving = NoEdge]
    /\ UNCHANGED <<files, index, up, mtimes, meta, job, storm, open, snapshots, stops>>

Resolved(o) == resolver = [FreeResolver EXCEPT !.by = o]

\* The end of IndexFile.
EndIndexFile(o) ==
    /\ o \in open /\ Resolved(o)
    /\ resolver' = FreeResolver
    /\ Stat(o)
    /\ UNCHANGED <<files, index, up, meta, job, storm, snapshots, stops>>

EndStorm ==
    /\ Resolved(Op("storm", Absent))
    /\ resolver' = FreeResolver /\ storm' = NoStorm
    /\ UNCHANGED <<files, index, up, mtimes, meta, job, open, snapshots, stops>>

-------------------------------------------------------------------------------
(* IncrementalReindex, by the janitor and by ReconcileRepoCtx at warm-up.   *)

Reindexing == job.kind \in {"janitor", "boot"}

StartJanitor ==
    /\ up /\ job = NoJob
    /\ job' = [NoJob EXCEPT !.kind = "janitor", !.pc = "walk", !.walk = Files]
    /\ UNCHANGED <<files, index, up, mtimes, meta, storm, open, resolver, snapshots, stops>>

\* The walk comes to f: it is stale, or up to date, or there is none.
WalkFile(f) ==
    /\ f \in job.walk
    /\ job' = [job EXCEPT !.walk = @ \ {f},
                          !.todo = IF OnDisk(f) /\ mtimes[f] # disk[f].mtime THEN @ \cup {f} ELSE @,
                          !.gone = IF OnDisk(f) THEN @ ELSE @ \cup {f}]
    /\ UNCHANGED <<files, index, up, mtimes, meta, storm, open, resolver, snapshots, stops>>

\* The files that the walk did not meet and that have an mtime are deleted ones.
ScanDeleted ==
    /\ Reindexing /\ job.pc = "walk" /\ job.walk = {}
    /\ job' = [job EXCEPT !.pc = "work", !.gone = {f \in @ : mtimes[f] # 0}]
    /\ UNCHANGED <<files, index, up, mtimes, meta, storm, open, resolver, snapshots, stops>>

PurgeFile(f) ==
    /\ job.pc = "work" /\ f \in job.gone
    /\ EvictFile(f)
    /\ graph' = Evicted(f)
    /\ mtimes' = [mtimes EXCEPT ![f] = 0]
    /\ job' = [job EXCEPT !.gone = @ \ {f}]
    /\ adrift' = IF OnDisk(f) THEN adrift \cup {f} ELSE adrift \ {f}
    /\ missed' = missed \ {f}
    /\ UNCHANGED <<disk, edits, dirty, up, meta, storm, open, snapshots, stops>>

ReindexFile(f, ok) ==
    /\ job.pc = "work" /\ job.gone = {} /\ ~Busy("batch")
    /\ f \in job.todo
    /\ job' = [job EXCEPT !.todo = @ \ {f}]
    /\ IndexFile("batch", f, ok)
    /\ UNCHANGED <<disk, dirty, up, mtimes, meta, storm, snapshots, stops>>

\* ReconcileAll and ReconcileRepoCtx copy the mtimes into the metadata.
EndReindex ==
    /\ job.pc = "work" /\ job.gone = {} /\ job.todo = {} /\ ~Busy("batch")
    /\ meta' = mtimes
    /\ job' = IF job.kind = "boot" THEN [job EXCEPT !.pc = "attach"] ELSE NoJob
    /\ UNCHANGED <<files, index, up, mtimes, storm, open, resolver, snapshots, stops>>

-------------------------------------------------------------------------------
(* IndexCtx, the full index by TrackRepoCtx at warm-up.                     *)

\* A worker reads a file that the walk met, and adds it to what is there.
TrackFile(f, ok) ==
    /\ job.kind = "track" /\ job.walk = {} /\ f \in job.todo
    /\ Attempt(f, ok)
    /\ job' = [job EXCEPT !.todo = @ \ {f}]
    /\ graph' = IF OnDisk(f) /\ ok
                THEN [nodes |-> graph.nodes \cup NodesOf(f, disk[f].content),
                      edges |-> graph.edges \cup EdgesOf(f, disk[f].content)]
                ELSE graph
    /\ cut' = {c \in cut : c.file # f}
    /\ adrift' = IF OnDisk(f) /\ ~ok THEN adrift \cup {f} ELSE adrift
    /\ missed' = missed \ {f}
    /\ UNCHANGED <<disk, dirty, stranded, up, doubled, mtimes, meta, storm, open,
                   resolver, snapshots, stops>>

\* After the last read the mtimes of the files that the walk met.
TrackStat ==
    /\ job.kind = "track" /\ job.pc = "walk" /\ job.walk = {} /\ job.todo = {}
    /\ mtimes' = [f \in Files |-> IF f \in job.gone THEN 0 ELSE disk[f].mtime]
    /\ job' = [job EXCEPT !.pc = "resolve", !.gone = {}]
    /\ UNCHANGED <<files, index, up, meta, storm, open, resolver, snapshots, stops>>

\* ResolveAll is done and the repository is registered.
EndTrack ==
    /\ Resolved(Op("batch", Absent))
    /\ resolver' = FreeResolver
    /\ meta' = mtimes
    /\ job' = [job EXCEPT !.pc = "attach"]
    /\ UNCHANGED <<files, index, up, mtimes, storm, open, snapshots, stops>>

\* MultiWatcher.Start, when the warm-up is through with all repositories.
Attach ==
    /\ job.pc = "attach"
    /\ job' = NoJob
    /\ UNCHANGED <<files, index, up, mtimes, meta, storm, open, resolver, snapshots, stops>>

-------------------------------------------------------------------------------
(* Snapshots and restarts.                                                  *)

\* collectSnapshotRepos, then AllNodes, then AllEdges; the file appears whole,
\* by rename.
StartSave ==
    /\ up /\ saving.pc = "idle" /\ saves < MaxSnapshots /\ stops < MaxRestarts
    /\ saves' = saves + 1
    /\ saving' = [NotSaving EXCEPT !.pc = "nodes", !.mtimes = meta]
    /\ UNCHANGED <<files, index, up, mtimes, meta, work, snap, stops>>

SaveNodes ==
    /\ saving.pc = "nodes"
    /\ saving' = [saving EXCEPT !.pc = "edges", !.nodes = graph.nodes, !.adrift = adrift]
    /\ UNCHANGED <<files, index, up, mtimes, meta, work, snap, saves, stops>>

\* Mutant of SaveEdges: the mtimes are collected last, from the indexer.
SaveEdgesLateMtimes ==
    /\ saving.pc = "edges"
    /\ snap' = [mtimes |-> mtimes, nodes |-> saving.nodes, edges |-> graph.edges,
                cut |-> cut, adrift |-> saving.adrift \cup adrift]
    /\ saving' = NotSaving
    /\ UNCHANGED <<files, index, up, mtimes, meta, work, saves, stops>>

SaveEdges ==
    /\ saving.pc = "edges"
    /\ snap' = [mtimes |-> saving.mtimes, nodes |-> saving.nodes, edges |-> graph.edges,
                cut |-> cut, adrift |-> saving.adrift \cup adrift]
    /\ saving' = NotSaving
    /\ UNCHANGED <<files, index, up, mtimes, meta, work, saves, stops>>

\* The process ends: nothing is left of what it had in memory.
Down ==
    /\ up /\ stops < MaxRestarts
    /\ up' = FALSE /\ stops' = stops + 1
    /\ dirty' = {} /\ missed' = {} /\ adrift' = {} /\ cut' = {} /\ stranded' = {}
    /\ graph' = [nodes |-> {}, edges |-> {}] /\ doubled' = {}
    /\ mtimes' = Zeros /\ meta' = Zeros
    /\ job' = NoJob /\ storm' = NoStorm /\ open' = {} /\ resolver' = FreeResolver
    /\ UNCHANGED <<disk, edits, saves>>

\* The daemon is asked to stop: the watcher is stopped, a snapshot is written.
Stop ==
    /\ Down
    /\ saving.pc = "idle"
    /\ snap' = [mtimes |-> meta, nodes |-> graph.nodes, edges |-> graph.edges, cut |-> cut,
                adrift |-> adrift]
    /\ UNCHANGED saving

\* The daemon is killed: the last snapshot is what is left.
Crash ==
    /\ Down
    /\ saving' = NotSaving
    /\ UNCHANGED snap

\* loadSnapshot: edges between loaded nodes only.
Loaded ==
    [nodes |-> snap.nodes,
     edges |-> {e \in snap.edges : {[file |-> e.file, name |-> Absent], Target(e)}
                                       \subseteq snap.nodes}]

\* buildDaemonState: the snapshot is loaded.  The warm-up then reconciles with
\* the snapshot's mtimes, or indexes everything when there are none.
Start ==
    /\ ~up
    /\ up' = TRUE
    /\ cut' = snap.cut \cup {Call(e) : e \in snap.edges \ Loaded.edges}
    /\ adrift' = snap.adrift \cup
                    {f \in Files : snap.mtimes[f] = 0 /\ \E n \in snap.nodes : n.file = f}
    /\ graph' = Loaded
    /\ mtimes' = snap.mtimes
    /\ job' = [NoJob EXCEPT !.kind = IF snap.mtimes = Zeros THEN "track" ELSE "boot",
                            !.pc = "walk", !.walk = Files]
    /\ UNCHANGED <<files, stranded, doubled, meta, storm, open, resolver, snapshots, stops>>

Next ==
    \/ \E f \in Files, c \in Contents \cup {Absent} : Change(f, c)
    \/ \E f \in Files, ok \in BOOLEAN :
          PatchFile(f, ok) \/ StormFile(f, ok) \/ ReindexFile(f, ok) \/ TrackFile(f, ok)
    \/ \E f \in Files : StormStat(f) \/ WalkFile(f) \/ PurgeFile(f)
    \/ StartStorm \/ EndStorm \/ StartJanitor \/ ScanDeleted \/ EndReindex
    \/ TrackStat \/ EndTrack \/ Attach
    \/ \E o \in Waiting : StartResolve(o)
    \/ \E e \in resolver.edges : Lookup(e)
    \/ ReindexEdge
    \/ \E o \in open : EndIndexFile(o)
    \/ StartSave \/ SaveNodes \/ SaveEdges
    \/ Stop \/ Crash \/ Start

Spec == Init /\ [][Next]_vars

-------------------------------------------------------------------------------
\* The daemon is up and has worked off everything it heard of.
AtRest == up /\ dirty = {} /\ job = NoJob /\ storm = NoStorm /\ open = {}

\* Of file f the graph has the definitions on disk, and no other.
InStep(f) == {n \in graph.nodes : n.file = f} = {n \in Definitions : n.file = f}

\* The variables have the types the code gives them.
TypeOK ==
    /\ disk \in [Files -> [content : Contents \cup {Absent}, mtime : 0 .. MaxEdits + 1]]
    /\ cut \subseteq [file : Files, name : Names, at : {Absent}]
    /\ dirty \subseteq Files /\ missed \subseteq Files /\ adrift \subseteq Files
    /\ graph.nodes \subseteq [file : Files, name : Names \cup {Absent}]
    /\ graph.edges \subseteq [file : Files, name : Names, at : Files \cup {Absent}]
    /\ doubled \subseteq graph.edges /\ stranded \subseteq graph.edges
    /\ mtimes \in [Files -> 0 .. MaxEdits + 1]
    /\ meta \in [Files -> 0 .. MaxEdits + 1]
    /\ job.walk \subseteq Files /\ job.gone \subseteq Files /\ job.todo \subseteq Files
    /\ storm.todo \subseteq Files
    /\ open \subseteq [by : {"patch", "storm", "batch"}, file : Files]
    /\ resolver.moving \in graph.edges \cup {NoEdge}

\* At rest the graph has a node for every definition on disk, and no other,
\* whatever crashes, offline edits, snapshots taken amid patches, and patches
\* beside the janitor's walk and purges came before; for each file that was not
\* changed behind the watcher's back, and that was indexed since the mtimes last
\* ceased to tell its version (IncrementalReindex, indexFile, saveSnapshot).
NodesMatchDisk == AtRest => \A f \in Files \ (missed \cup adrift) : InStep(f)

\* At rest every edge is a call that its file really makes: no edge of an older
\* version of a file survives, in the graph or by way of a snapshot; with the
\* exceptions of NodesMatchDisk.
EdgesAreCalls ==
    AtRest => \A e \in graph.edges :
        e.file \in missed \cup adrift \/ Call(e) \in Calls

\* No edge leads to a node that is not in the graph, at any time: "so the graph
\* never contains dangling references" (loadSnapshot); but for an edge whose
\* target was evicted between the resolver's lookup and ReindexEdge, and one that
\* a full index on top of a loaded graph has entered twice.
NoDanglingEdges ==
    \A e \in graph.edges \ (stranded \cup doubled) :
        e.at = Absent \/ Target(e) \in graph.nodes

\* At rest every call on disk has its edge, to a definition or to the stub of a
\* name nobody defines: patches, storms, reindexing, the resolver, snapshots and
\* restarts lose only the calls into a file that was evicted and those the loader
\* prunes, and these come back when the calling file is indexed (Graph.EvictFile,
\* which takes incoming edges, and loadSnapshot; README.md's "surgical graph
\* updates").
CallsKeptUnlessCut ==
    AtRest => \A c \in Calls \ cut :
        c.file \in missed \cup adrift \/ \E e \in graph.edges : Call(e) = c
===============================================================================
