------------------------ MODULE IncrementalIndexProofs ------------------------
(***************************************************************************)
(* Proofs about IncrementalIndex, for any files, names, contents and       *)
(* bounds: which edges may dangle, and that at rest the nodes and edges of *)
(* every file that is not excused are those of its content on disk,        *)
(* through patches beside the janitor, storms, resolver passes beside      *)
(* evictions, failing reads, snapshots, stops and crashes.                 *)
(*                                                                         *)
(* The argument goes file by file.  A file is right when its nodes, its    *)
(* edges and the calls that lost their edge add up to its content.  While  *)
(* the daemon is up a file is right, or is still to be worked on, or is    *)
(* excused.  What survives a restart is the mtimes: unless it is adrift, a *)
(* file whose recorded mtime is the one on disk has not changed since it   *)
(* was indexed, so it is right wherever the mtime is kept, in the indexer, *)
(* in the metadata, in a snapshot being written and in the one on disk.    *)
(***************************************************************************)
EXTENDS IncrementalIndex, TLAPS

Mtimes == [Files -> 0 .. MaxEdits + 1]
Disk == [Files -> [content : Contents \cup {Absent}, mtime : 0 .. MaxEdits + 1]]
Node == [file : Files, name : Names \cup {Absent}]
Edge == [file : Files, name : Names, at : Files \cup {Absent}]
CallId == [file : Files, name : Names, at : {Absent}]
Graph == [nodes : SUBSET Node, edges : SUBSET Edge]
Jobs == [kind : {"none", "janitor", "boot", "track"},
         pc : {"none", "walk", "work", "resolve", "attach"},
         walk : SUBSET Files, gone : SUBSET Files, todo : SUBSET Files]
Storms == [on : BOOLEAN, todo : SUBSET Files]
Ops == [by : {"patch", "storm", "batch"}, file : Files]
Resolvers == [by : [by : {"nobody", "patch", "storm", "batch"}, file : Files \cup {Absent}],
              edges : SUBSET CallId, moving : Edge \cup {NoEdge}]
Savings == [pc : {"idle", "nodes", "edges"}, mtimes : Mtimes,
            nodes : SUBSET Node, adrift : SUBSET Files]
Snapshots == [mtimes : Mtimes, nodes : SUBSET Node, edges : SUBSET Edge,
              cut : SUBSET CallId, adrift : SUBSET Files]

\* The types of the variables.
Types ==
    /\ disk \in Disk /\ edits \in 0 .. MaxEdits /\ up \in BOOLEAN
    /\ dirty \in SUBSET Files /\ missed \in SUBSET Files /\ adrift \in SUBSET Files
    /\ cut \in SUBSET CallId /\ graph \in Graph
    /\ mtimes \in Mtimes /\ meta \in Mtimes
    /\ job \in Jobs /\ storm \in Storms /\ open \in SUBSET Ops /\ resolver \in Resolvers
    /\ saving \in Savings /\ snap \in Snapshots

\* File f defines s, or calls s, on the disk D.
Defines(D, f, s) == D[f].content # Absent /\ (s \in D[f].content.defs \/ s = Absent)
Makes(D, f, s) == D[f].content # Absent /\ s \in D[f].content.calls

\* Of file f, N has the definitions, E only calls that it makes, and E and C
\* between them all of these.
NodesRight(D, N, f) == \A n \in Node : n.file = f => (n \in N <=> Defines(D, f, n.name))
EdgesRight(D, E, f) == \A e \in E : e.file = f => Makes(D, f, e.name)
CallsRight(D, E, C, f) ==
    \A s \in Names : Makes(D, f, s) => \/ [file |-> f, name |-> s, at |-> Absent] \in C
                                       \/ \E e \in E : e.file = f /\ e.name = s
Right(D, N, E, C, f) == NodesRight(D, N, f) /\ EdgesRight(D, E, f) /\ CallsRight(D, E, C, f)
GraphRight(f) == Right(disk, graph.nodes, graph.edges, cut, f)

\* The graph g has nothing of file f.
Unknown(g, f) == (\A n \in g.nodes : n.file # f) /\ (\A e \in g.edges : e.file # f)

\* The mtime m has for f is the one on the disk D.
Current(D, m, f) == D[f].content # Absent /\ m[f] = D[f].mtime

\* Mtimes come from the number of changes, and a file on disk has one.
Clock ==
    \A f \in Files : /\ OnDisk(f) => disk[f].mtime > 0
                     /\ disk[f].mtime <= edits + 1 /\ mtimes[f] <= edits + 1
                     /\ meta[f] <= edits + 1 /\ saving.mtimes[f] <= edits + 1
                     /\ snap.mtimes[f] <= edits + 1

\* A daemon that is down has nothing in memory and nothing under way.
Stopped ==
    ~up => /\ dirty = {} /\ missed = {} /\ stranded = {} /\ doubled = {}
           /\ meta = Zeros /\ job = NoJob /\ storm = NoStorm /\ open = {}
           /\ resolver = FreeResolver /\ saving.pc = "idle"

WarmUp == job.kind \in {"boot", "track"}
Walked == job.walk \cup job.gone \cup job.todo

\* The phases of a batch.  The walk puts a file on one list.  During the warm-up
\* only the batch works.
Shape ==
    /\ job.kind = "none" => job = NoJob
    /\ job.pc \notin {"walk", "work"} => Walked = {}
    /\ job.pc # "walk" => job.walk = {}
    /\ job.pc \in {"work", "resolve"} => job.kind # "none"
    /\ job.kind = "track" => job.pc # "work" /\ open = {}
    /\ job.pc = "resolve" => job.kind = "track"
    /\ job.walk \cap (job.gone \cup job.todo) = {} /\ job.gone \cap job.todo = {}
    /\ WarmUp => /\ up /\ storm = NoStorm /\ dirty = {}
                 /\ \A o \in open : o.by = "batch" /\ o.file \notin Walked
                 /\ \A f \in job.gone : OnDisk(f) => f \in missed

\* Who holds the resolve mutex after a batch is still in that batch.
Passes ==
    /\ resolver.by = Op("storm", Absent) => storm.on /\ storm.todo = {}
    /\ resolver.by = Op("batch", Absent) => job.pc = "resolve"

\* Every file is right, is still to be worked on, or is excused.
Excused ==
    missed \cup adrift \cup dirty \cup storm.todo \cup (IF WarmUp THEN Walked ELSE {})
Working == up => \A f \in Files \ Excused : GraphRight(f)

\* The warm-up has nothing of a file without an mtime until it works on it, and a
\* full index takes no mtimes before the last file.
Blank ==
    /\ WarmUp => \A f \in Walked \ adrift : mtimes[f] = 0 => Unknown(graph, f)
    /\ job.kind = "track" /\ job.pc = "walk" => mtimes = Zeros

\* A file whose mtime in m is that on disk is right.
Recorded(m) == \A f \in Files \ adrift : Current(disk, m, f) => GraphRight(f)
Trusted ==
    /\ Recorded(mtimes) /\ Recorded(meta)
    /\ saving.pc # "idle" => Recorded(saving.mtimes)

\* So is one whose mtime is about to be taken.
Opened == \A f \in Unstatted \ adrift : OnDisk(f) => GraphRight(f)

\* And one whose mtime is in a snapshot, with the nodes and edges it has.
Captured ==
    saving.pc = "edges" =>
        \A f \in Files \ saving.adrift :
            Current(disk, saving.mtimes, f) => NodesRight(disk, saving.nodes, f)
Stored ==
    \A f \in Files \ snap.adrift :
        Current(disk, snap.mtimes, f) => Right(disk, snap.nodes, snap.edges, snap.cut, f)

\* The edges that an eviction may miss are edges with a target.
Tracked ==
    /\ stranded \in SUBSET graph.edges /\ doubled \in SUBSET graph.edges
    /\ \A e \in stranded \cup doubled : e.at # Absent
    /\ resolver.moving = NoEdge \/ (resolver.moving \in graph.edges /\ resolver.moving.at # Absent)

\* Of g no other edge than those of X leads to a node that g does not have.
Sound(g, X) == \A e \in g.edges \ X : e.at = Absent \/ Target(e) \in g.nodes

Inv ==
    /\ Types /\ Clock /\ Stopped /\ Shape /\ Passes /\ Working /\ Blank
    /\ Trusted /\ Opened /\ Captured /\ Stored
    /\ Tracked /\ Sound(graph, stranded \cup doubled)

-------------------------------------------------------------------------------
(* The operations on the graph.                                              *)

\* What is on disk is a content, with its definitions and calls.
LEMMA OnDiskContent ==
    ASSUME Types, NEW f \in Files, OnDisk(f)
    PROVE  disk[f].content.defs \in SUBSET Names /\ disk[f].content.calls \in SUBSET Names
<1>1. disk[f].content \in Contents
  BY DEF OnDisk, Types, Disk
<1>2. QED
  BY <1>1, ContentsAssumption

\* What the extractor makes of one file.
LEMMA ContentOf ==
    ASSUME Types, NEW f \in Files, OnDisk(f)
    PROVE  /\ \A n : n \in NodesOf(f, disk[f].content) <=>
                        n \in Node /\ n.file = f /\ Defines(disk, f, n.name)
           /\ \A e : e \in EdgesOf(f, disk[f].content) <=>
                        e \in CallId /\ e.file = f /\ Makes(disk, f, e.name)
<1>1. \A n : n \in NodesOf(f, disk[f].content) <=>
                n \in Node /\ n.file = f /\ Defines(disk, f, n.name)
  BY OnDiskContent DEF NodesOf, Node, Defines, OnDisk
<1>2. \A e : e \in EdgesOf(f, disk[f].content) <=>
                e \in CallId /\ e.file = f /\ Makes(disk, f, e.name)
  BY OnDiskContent DEF EdgesOf, CallId, Makes, OnDisk
<1>3. QED
  BY <1>1, <1>2

\* What all files together define and call.
LEMMA DefinitionsAndCalls ==
    ASSUME Types
    PROVE  /\ \A n : n \in Definitions <=> n \in Node /\ Defines(disk, n.file, n.name)
           /\ \A e : e \in Calls <=> e \in CallId /\ Makes(disk, e.file, e.name)
<1>1. ASSUME NEW n PROVE n \in Definitions <=> n \in Node /\ Defines(disk, n.file, n.name)
  <2>1. n \in Definitions <=> \E f \in Files : OnDisk(f) /\ n \in NodesOf(f, disk[f].content)
    BY DEF Definitions
  <2>2. n \in Definitions <=>
            \E f \in Files : OnDisk(f) /\ n \in Node /\ n.file = f /\ Defines(disk, f, n.name)
    BY <2>1, ContentOf
  <2>3. QED
    BY <2>2 DEF Node, Defines, OnDisk
<1>2. ASSUME NEW e PROVE e \in Calls <=> e \in CallId /\ Makes(disk, e.file, e.name)
  <2>1. e \in Calls <=> \E f \in Files : OnDisk(f) /\ e \in EdgesOf(f, disk[f].content)
    BY DEF Calls
  <2>2. e \in Calls <=>
            \E f \in Files : OnDisk(f) /\ e \in CallId /\ e.file = f /\ Makes(disk, f, e.name)
    BY <2>1, ContentOf
  <2>3. QED
    BY <2>2 DEF CallId, Makes, OnDisk
<1>3. QED
  BY <1>1, <1>2

\* The parts of an edge, and the call it stands for.
LEMMA EdgeParts ==
    ASSUME NEW e \in Edge
    PROVE  /\ e.file \in Files /\ e.name \in Names /\ e.at \in Files \cup {Absent}
           /\ Call(e) = [file |-> e.file, name |-> e.name, at |-> Absent]
           /\ Call(e) \in CallId
BY DEF Edge, Call, CallId

\* EvictFile: the nodes of a file, its edges and those into it that it finds.
LEMMA EvictedParts ==
    ASSUME Types, NEW f \in Files
    PROVE  /\ Evicted(f) \in Graph
           /\ \A n : n \in Evicted(f).nodes <=> n \in graph.nodes /\ n.file # f
           /\ \A e : e \in Evicted(f).edges <=>
                        e \in graph.edges /\ e.file # f /\ e \notin Incoming(f)
BY DEF Evicted, Graph, Types

\* indexFile up to the resolver: the file as it is on disk, and of the others what
\* the eviction leaves.
LEMMA IndexedParts ==
    ASSUME Types, NEW f \in Files, OnDisk(f)
    PROVE  /\ Indexed(f) \in Graph
           /\ \A n : n \in Indexed(f).nodes <=>
                  \/ n \in graph.nodes /\ n.file # f
                  \/ n \in Node /\ n.file = f /\ Defines(disk, f, n.name)
           /\ \A e : e \in Indexed(f).edges <=>
                  \/ e \in graph.edges /\ e.file # f /\ e \notin Incoming(f)
                  \/ e \in CallId /\ e.file = f /\ Makes(disk, f, e.name)
<1> DEFINE g == Evicted(f)
           N == NodesOf(f, disk[f].content)
           E == EdgesOf(f, disk[f].content)
<1>1. /\ g \in Graph
      /\ \A n : n \in g.nodes <=> n \in graph.nodes /\ n.file # f
      /\ \A e : e \in g.edges <=> e \in graph.edges /\ e.file # f /\ e \notin Incoming(f)
  BY EvictedParts
<1>2. Indexed(f) = [nodes |-> g.nodes \cup N, edges |-> g.edges \cup E]
  BY DEF Indexed
<1>3. /\ \A n : n \in N <=> n \in Node /\ n.file = f /\ Defines(disk, f, n.name)
      /\ \A e : e \in E <=> e \in CallId /\ e.file = f /\ Makes(disk, f, e.name)
  BY ContentOf DEF Types
<1> HIDE DEF g, N, E
<1>4. N \in SUBSET Node /\ E \in SUBSET Edge
  BY <1>3 DEF CallId, Edge
<1>5. Indexed(f) \in Graph
  BY <1>1, <1>2, <1>4 DEF Graph
<1>6. QED
  BY <1>1, <1>2, <1>3, <1>5

\* resolveFunctionCall leaves the call alone and targets a definition of it.
LEMMA ResolveParts ==
    ASSUME Types, NEW e \in CallId
    PROVE  /\ Resolve(e) \in Edge
           /\ Resolve(e).file = e.file /\ Resolve(e).name = e.name
           /\ \/ Resolve(e) = e
              \/ Resolve(e).at # Absent /\ Target(Resolve(e)) \in graph.nodes
<1> DEFINE defs == {n \in graph.nodes : n.name = e.name}
           near == {n \in defs : Dir(n.file) = Dir(e.file)}
           from == IF near # {} THEN near ELSE defs
           n == CHOOSE m \in from : TRUE
<1>1. Resolve(e) = IF from = {} THEN e ELSE [e EXCEPT !.at = n.file]
  BY DEF Resolve
<1>2. CASE from = {}
  BY <1>1, <1>2 DEF CallId, Edge
<1>3. CASE from # {}
  <2>1. n \in from
    BY <1>3
  <2>2. n \in graph.nodes /\ n.name = e.name
    BY <2>1
  <2>3. Resolve(e) = [e EXCEPT !.at = n.file]
    BY <1>1, <1>3
  <2> HIDE DEF n
  <2>4. n \in Node
    BY <2>2 DEF Types, Graph
  <2>5. n = [file |-> n.file, name |-> n.name] /\ n.file \in Files
    BY <2>4 DEF Node
  <2>6. /\ Resolve(e) \in Edge
        /\ Resolve(e).file = e.file /\ Resolve(e).name = e.name /\ Resolve(e).at = n.file
    BY <2>3, <2>5 DEF Edge, CallId
  <2>7. Target(Resolve(e)) = n
    BY <2>2, <2>5, <2>6 DEF Target
  <2>8. QED
    BY <2>2, <2>5, <2>6, <2>7, ContentsAssumption
<1>4. QED
  BY <1>2, <1>3

-------------------------------------------------------------------------------
(* The steps that change the graph.                                          *)

\* What a step leaves of file x.
Kept(x) ==
    /\ NodesRight(disk, graph.nodes, x) => NodesRight(disk, graph'.nodes, x)
    /\ EdgesRight(disk, graph.edges, x) => EdgesRight(disk, graph'.edges, x)
    /\ CallsRight(disk, graph.edges, cut, x) => CallsRight(disk, graph'.edges, cut', x)
    /\ Unknown(graph, x) => Unknown(graph', x)

\* The effect on the graph of an operation on the files X.
GraphStep(X) ==
    /\ graph' \in Graph /\ cut' \in SUBSET CallId /\ resolver' \in Resolvers
    /\ Tracked' /\ Sound(graph, stranded \cup doubled)'
    /\ \A x \in Files \ X : Kept(x)

\* A call into file f that loses its edge is cut, and nothing is uncut.
LEMMA CutParts ==
    ASSUME Types, NEW f \in Files, EvictFile(f)
    PROVE  /\ cut' \in SUBSET CallId
           /\ \A c \in cut : c.file # f => c \in cut'
           /\ \A e \in Incoming(f) : [file |-> e.file, name |-> e.name, at |-> Absent] \in cut'
<1>1. Incoming(f) \in SUBSET Edge /\ cut \in SUBSET CallId
  BY DEF Types, Graph, Incoming
<1>2. \A e \in Incoming(f) : /\ Call(e) = [file |-> e.file, name |-> e.name, at |-> Absent]
                             /\ Call(e) \in CallId
  BY <1>1, EdgeParts
<1>3. QED
  BY <1>1, <1>2 DEF EvictFile

\* An eviction, with what is added for the file afterwards.
LEMMA EvictStep ==
    ASSUME Inv, NEW f \in Files, EvictFile(f), graph' \in Graph,
           \A n : n.file # f => (n \in graph'.nodes <=> n \in graph.nodes),
           \A e : e.file # f => (e \in graph'.edges <=> e \in graph.edges /\ e \notin Incoming(f)),
           \A e \in graph'.edges : e.file = f => e.at = Absent
    PROVE  GraphStep({f})
<1> DEFINE moving == resolver.moving
           late == IF moving.at = f THEN {moving} ELSE {}
<1>1. /\ stranded' = {e \in stranded \cup late : e.file # f} \ Incoming(f)
      /\ doubled' = {e \in doubled : e.file # f} \ late
      /\ resolver' = IF moving.file = f THEN [resolver EXCEPT !.moving = NoEdge] ELSE resolver
  BY DEF EvictFile
<1>2. cut' \in SUBSET CallId /\ Types /\ resolver \in Resolvers /\ f # Absent
  BY CutParts, ContentsAssumption DEF Inv, Types
<1>3. /\ NoEdge.at = Absent /\ NoEdge.file = Absent
      /\ [resolver EXCEPT !.moving = NoEdge].moving = NoEdge
      /\ [resolver EXCEPT !.moving = NoEdge] \in Resolvers
  BY <1>2 DEF NoEdge, Resolvers
<1>4. resolver' \in Resolvers /\ (resolver'.moving = NoEdge \/ resolver'.moving = moving)
  BY <1>1, <1>2, <1>3
<1>5. /\ stranded \in SUBSET graph.edges /\ doubled \in SUBSET graph.edges
      /\ \A e \in stranded \cup doubled : e.at # Absent
      /\ moving = NoEdge \/ (moving \in graph.edges /\ moving.at # Absent)
  BY DEF Inv, Tracked
<1>6. \A e \in Incoming(f) : e.at = f /\ e # moving /\ e \notin doubled
  BY DEF Incoming
<1> HIDE DEF moving
<1>7. late \in SUBSET graph.edges /\ \A e \in late : e.at # Absent
  BY <1>2, <1>3, <1>5
<1>8. Tracked'
  <2>1. stranded' \in SUBSET graph'.edges /\ doubled' \in SUBSET graph'.edges
    BY <1>1, <1>5, <1>6, <1>7
  <2>2. \A e \in stranded' \cup doubled' : e.at # Absent
    BY <1>1, <1>5, <1>7
  <2>3. resolver'.moving = NoEdge \/ (resolver'.moving \in graph'.edges /\ resolver'.moving.at # Absent)
    BY <1>1, <1>2, <1>3, <1>4, <1>5, <1>6
  <2>4. QED
    BY <2>1, <2>2, <2>3 DEF Tracked
<1>9. Sound(graph, stranded \cup doubled)'
  <2> SUFFICES ASSUME NEW e \in graph'.edges, e \notin stranded', e \notin doubled', e.at # Absent
               PROVE  Target(e) \in graph'.nodes
    BY DEF Sound
  <2>1. e.file # f /\ e \in graph.edges /\ e \notin Incoming(f)
    OBVIOUS
  <2>2. Target(e).file = e.at
    BY DEF Target
  <2>3. e \notin late /\ e \notin stranded /\ e \notin doubled
    BY <1>1, <2>1
  <2>4. Target(e) \in graph.nodes
    BY <2>1, <2>3 DEF Inv, Sound
  <2>5. CASE e.at = f
    <3>1. e # moving
      BY <2>3, <2>5
    <3>2. e \in Incoming(f)
      BY <2>1, <2>3, <2>4, <2>5, <3>1 DEF Incoming, moving
    <3>3. QED
      BY <2>1, <3>2
  <2>6. CASE e.at # f
    BY <2>2, <2>4, <2>6
  <2>7. QED
    BY <2>5, <2>6
<1>10. ASSUME NEW x \in Files \ {f} PROVE Kept(x)
  <2>1. NodesRight(disk, graph.nodes, x) => NodesRight(disk, graph'.nodes, x)
    BY DEF NodesRight
  <2>2. EdgesRight(disk, graph.edges, x) => EdgesRight(disk, graph'.edges, x)
    BY DEF EdgesRight
  <2>3. ASSUME CallsRight(disk, graph.edges, cut, x), NEW s \in Names, Makes(disk, x, s)
        PROVE  \/ [file |-> x, name |-> s, at |-> Absent] \in cut'
               \/ \E e \in graph'.edges : e.file = x /\ e.name = s
    <3>1. CASE [file |-> x, name |-> s, at |-> Absent] \in cut
      BY <1>2, <3>1, CutParts
    <3>2. CASE \E e \in graph.edges : e.file = x /\ e.name = s
      <4>1. PICK e \in graph.edges : e.file = x /\ e.name = s
        BY <3>2
      <4>2. CASE e \in Incoming(f)
        BY <1>2, <4>1, <4>2, CutParts
      <4>3. CASE e \notin Incoming(f)
        BY <4>1, <4>3
      <4>4. QED
        BY <4>2, <4>3
    <3>3. QED
      BY <2>3, <3>1, <3>2 DEF CallsRight
  <2>4. Unknown(graph, x) => Unknown(graph', x)
    BY DEF Unknown
  <2>5. QED
    BY <2>1, <2>2, <2>3, <2>4 DEF Kept, CallsRight
<1>11. QED
  BY <1>2, <1>4, <1>8, <1>9, <1>10 DEF GraphStep

\* EvictFile of a file that is gone makes it right; of any file, leaves none of it.
LEMMA EvictedStep ==
    ASSUME Inv, NEW f \in Files, EvictFile(f), graph' = Evicted(f)
    PROVE  /\ GraphStep({f}) /\ Unknown(graph', f)
           /\ ~OnDisk(f) => Right(disk, graph'.nodes, graph'.edges, cut', f)
<1>1. /\ graph' \in Graph
      /\ \A n : n \in graph'.nodes <=> n \in graph.nodes /\ n.file # f
      /\ \A e : e \in graph'.edges <=> e \in graph.edges /\ e.file # f /\ e \notin Incoming(f)
  BY EvictedParts DEF Inv
<1>2. GraphStep({f})
  BY <1>1, EvictStep
<1>3. Unknown(graph', f)
  BY <1>1 DEF Unknown
<1>4. ~OnDisk(f) => Right(disk, graph'.nodes, graph'.edges, cut', f)
  BY <1>3
  DEF Unknown, OnDisk, Right, NodesRight, EdgesRight, CallsRight, Defines, Makes
<1>5. QED
  BY <1>2, <1>3, <1>4

\* indexFile up to the resolver makes the file right, if it is read.
LEMMA IndexedStep ==
    ASSUME Inv, NEW f \in Files, EvictFile(f), OnDisk(f), graph' = Indexed(f)
    PROVE  GraphStep({f}) /\ Right(disk, graph'.nodes, graph'.edges, cut', f)
<1>1. /\ graph' \in Graph
      /\ \A n : n \in graph'.nodes <=> \/ n \in graph.nodes /\ n.file # f
                                       \/ n \in Node /\ n.file = f /\ Defines(disk, f, n.name)
      /\ \A e : e \in graph'.edges <=> \/ e \in graph.edges /\ e.file # f /\ e \notin Incoming(f)
                                       \/ e \in CallId /\ e.file = f /\ Makes(disk, f, e.name)
  BY IndexedParts DEF Inv
<1>2. \A e \in graph'.edges : e.file = f => e.at = Absent
  BY <1>1 DEF CallId
<1>3. GraphStep({f})
  BY <1>1, <1>2, EvictStep
<1>4. NodesRight(disk, graph'.nodes, f) /\ EdgesRight(disk, graph'.edges, f)
  BY <1>1 DEF NodesRight, EdgesRight
<1>5. CallsRight(disk, graph'.edges, cut', f)
  <2> SUFFICES ASSUME NEW s \in Names, Makes(disk, f, s)
               PROVE  \E e \in graph'.edges : e.file = f /\ e.name = s
    BY DEF CallsRight
  <2> DEFINE c == [file |-> f, name |-> s, at |-> Absent]
  <2>1. c \in CallId /\ c.file = f /\ c.name = s
    BY DEF CallId
  <2>2. c \in graph'.edges
    BY <1>1, <2>1
  <2>3. QED
    BY <2>1, <2>2
<1>6. QED
  BY <1>3, <1>4, <1>5 DEF Right

\* What a step that works on file f does: it brings the file up to date, or sets
\* it adrift.
WorksOn(f) ==
    /\ UNCHANGED <<disk, up, meta, saving, snap>>
    /\ up /\ edits' \in edits .. MaxEdits
    /\ GraphStep({f})
    /\ adrift' \in SUBSET Files /\ adrift' \ {f} = adrift \ {f}
    /\ f \in adrift' \/ Right(disk, graph'.nodes, graph'.edges, cut', f)
    /\ missed' = missed \ {f}
    /\ dirty' = dirty \/ dirty' = dirty \ {f}
    /\ mtimes' = mtimes \/ mtimes' = [mtimes EXCEPT ![f] = 0]
    /\ job' \in Jobs /\ job'.kind = job.kind /\ job'.pc = job.pc /\ job'.walk = job.walk
    /\ job'.gone = job.gone \/ job'.gone = job.gone \ {f}
    /\ job'.todo = job.todo \/ job'.todo = job.todo \ {f}
    /\ job.kind = "none" => job' = job
    /\ storm' \in Storms /\ storm'.on = storm.on /\ resolver'.by = resolver.by
    /\ storm'.todo = storm.todo \/ storm'.todo = storm.todo \ {f}
    /\ open' \in SUBSET Ops /\ Unstatted' \subseteq Unstatted \cup {f}
    /\ WarmUp => /\ storm' = storm /\ dirty' = dirty /\ f \notin Walked'
                 /\ \A o \in open' : o \in open \/ o = Op("batch", f)
    /\ job.kind = "track" => open' = open /\ mtimes' = mtimes

\* A step that works on one file keeps the invariant.
LEMMA WorksOnInv == ASSUME Inv, NEW f \in Files, WorksOn(f) PROVE Inv'
<1>1. /\ disk' = disk /\ up' = up /\ up /\ meta' = meta /\ saving' = saving /\ snap' = snap
      /\ edits' \in edits .. MaxEdits /\ edits \in 0 .. MaxEdits /\ missed' = missed \ {f}
      /\ adrift' \ {f} = adrift \ {f} /\ GraphStep({f})
  BY DEF WorksOn, Inv, Types
<1>2. /\ mtimes' \in Mtimes /\ \A x \in Files : mtimes'[x] = mtimes[x] \/ (x = f /\ mtimes'[x] = 0)
  BY BoundsAssumption DEF WorksOn, Inv, Types, Mtimes
<1>3. Types'
  <2>1. missed' \in SUBSET Files /\ dirty' \in SUBSET Files /\ edits' \in 0 .. MaxEdits
    BY <1>1, BoundsAssumption DEF WorksOn, Inv, Types
  <2>2. QED
    BY <1>1, <1>2, <2>1 DEF WorksOn, GraphStep, Inv, Types
<1>4. Clock'
  <2> SUFFICES ASSUME NEW x \in Files
               PROVE  /\ OnDisk(x) => disk[x].mtime > 0
                      /\ disk[x].mtime <= edits' + 1 /\ mtimes'[x] <= edits' + 1
                      /\ meta[x] <= edits' + 1 /\ saving.mtimes[x] <= edits' + 1
                      /\ snap.mtimes[x] <= edits' + 1
    BY <1>1 DEF Clock, OnDisk
  <2>1. /\ OnDisk(x) => disk[x].mtime > 0
        /\ disk[x].mtime <= edits + 1 /\ mtimes[x] <= edits + 1
        /\ meta[x] <= edits + 1 /\ saving.mtimes[x] <= edits + 1
        /\ snap.mtimes[x] <= edits + 1
    BY DEF Inv, Clock
  <2>2. /\ disk[x].mtime \in Nat /\ mtimes[x] \in Nat /\ meta[x] \in Nat
        /\ saving.mtimes[x] \in Nat /\ snap.mtimes[x] \in Nat
    BY BoundsAssumption DEF Inv, Types, Disk, Mtimes, Savings, Snapshots
  <2>3. edits \in Nat /\ edits' \in Nat /\ edits <= edits'
    BY <1>1, BoundsAssumption
  <2>4. QED
    BY <1>2, <2>1, <2>2, <2>3
<1>5. Stopped'
  BY <1>1 DEF Stopped
<1>6. WarmUp' = WarmUp /\ Walked' \subseteq Walked /\ Walked \subseteq Walked' \cup {f}
  BY DEF WorksOn, WarmUp, Walked
<1>7. Shape'
  <2>1. /\ job'.kind = "none" => job' = NoJob
        /\ job'.pc \notin {"walk", "work"} => Walked' = {}
        /\ job'.pc # "walk" => job'.walk = {}
        /\ job'.pc \in {"work", "resolve"} => job'.kind # "none"
        /\ job'.pc = "resolve" => job'.kind = "track"
    BY <1>6 DEF WorksOn, Inv, Shape
  <2>2. job'.kind = "track" => job'.pc # "work" /\ open' = {}
    BY DEF WorksOn, Inv, Shape
  <2>3. job'.walk \cap (job'.gone \cup job'.todo) = {} /\ job'.gone \cap job'.todo = {}
    BY DEF WorksOn, Inv, Shape
  <2>4. ASSUME WarmUp
        PROVE  /\ storm' = NoStorm /\ dirty' = {}
               /\ \A o \in open' : o.by = "batch" /\ o.file \notin Walked'
               /\ \A x \in job'.gone : OnDisk(x) => x \in missed'
    <3>1. /\ storm' = storm /\ dirty' = dirty /\ f \notin Walked'
          /\ \A o \in open' : o \in open \/ o = Op("batch", f)
      BY <2>4 DEF WorksOn
    <3>2. /\ storm = NoStorm /\ dirty = {}
          /\ \A o \in open : o.by = "batch" /\ o.file \notin Walked
          /\ \A x \in job.gone : OnDisk(x) => x \in missed
      BY <2>4 DEF Inv, Shape
    <3>3. Op("batch", f).by = "batch" /\ Op("batch", f).file = f
      BY DEF Op
    <3>4. job'.gone \subseteq job.gone /\ job'.gone \subseteq Walked'
      BY DEF WorksOn, Walked
    <3>5. QED
      BY <1>1, <1>6, <3>1, <3>2, <3>3, <3>4
  <2>5. QED
    BY <1>1, <1>6, <2>1, <2>2, <2>3, <2>4 DEF Shape, OnDisk
<1>8. \A x \in Files \ {f} : GraphRight(x) => GraphRight(x)'
  BY <1>1 DEF GraphStep, Kept, GraphRight, Right
<1>9. f \in adrift' \/ GraphRight(f)'
  BY <1>1 DEF WorksOn, GraphRight
<1>10. Working'
  <2> SUFFICES ASSUME NEW x \in Files \ Excused' PROVE GraphRight(x)'
    BY DEF Working
  <2>1. CASE x = f
    BY <1>9, <2>1 DEF Excused
  <2>2. CASE x # f
    <3>1. x \notin Excused
      BY <1>1, <1>6, <2>2 DEF WorksOn, Excused
    <3>2. QED
      BY <1>1, <1>8, <2>2, <3>1 DEF Inv, Working
  <2>3. QED
    BY <2>1, <2>2
<1>11. Blank'
  <2>1. ASSUME WarmUp, NEW x \in Walked', x \notin adrift', mtimes'[x] = 0
        PROVE  Unknown(graph', x)
    <3>1. x # f /\ x \in Walked /\ x \in Files
      BY <1>6, <2>1 DEF WorksOn, Walked, Jobs
    <3>2. x \notin adrift /\ mtimes[x] = 0
      BY <1>1, <1>2, <2>1, <3>1
    <3>3. QED
      BY <1>1, <2>1, <3>1, <3>2 DEF Inv, Blank, GraphStep, Kept
  <2>2. job'.kind = "track" /\ job'.pc = "walk" => mtimes' = Zeros
    BY DEF WorksOn, Inv, Blank
  <2>3. QED
    BY <1>6, <2>1, <2>2 DEF Blank
<1>12. Trusted'
  <2>1. ASSUME NEW m, Recorded(m), NEW x \in Files \ adrift', Current(disk, m, x)
        PROVE  GraphRight(x)'
    <3>1. CASE x = f
      BY <1>9, <3>1
    <3>2. CASE x # f
      BY <1>1, <1>8, <2>1, <3>2 DEF Recorded
    <3>3. QED
      BY <3>1, <3>2
  <2>2. ASSUME NEW x \in Files \ adrift', Current(disk, mtimes', x) PROVE GraphRight(x)'
    <3>1. CASE x = f
      BY <1>9, <3>1
    <3>2. CASE x # f
      BY <1>1, <1>2, <1>8, <2>2, <3>2 DEF Inv, Trusted, Recorded, Current
    <3>3. QED
      BY <3>1, <3>2
  <2>3. Recorded(mtimes)' /\ Recorded(meta)' /\ (saving.pc # "idle" => Recorded(saving.mtimes)')
    BY <1>1, <2>1, <2>2 DEF Inv, Trusted, Recorded
  <2>4. QED
    BY <1>1, <2>3 DEF Trusted
<1>13. Opened'
  <2> SUFFICES ASSUME NEW x \in Unstatted', x \notin adrift', OnDisk(x) PROVE GraphRight(x)'
    BY <1>1 DEF Opened, OnDisk
  <2>1. CASE x = f
    BY <1>9, <2>1
  <2>2. CASE x # f
    <3>1. x \in Unstatted /\ x \notin adrift
      BY <1>1, <2>2 DEF WorksOn
    <3>2. Unstatted \subseteq Files
      BY DEF Inv, Types, Unstatted, Ops
    <3>3. QED
      BY <1>8, <2>2, <3>1, <3>2 DEF Inv, Opened
  <2>3. QED
    BY <2>1, <2>2
<1>14. Captured' /\ Stored' /\ Passes'
  BY <1>1 DEF WorksOn, Inv, Captured, Stored, Passes
<1>15. QED
  BY <1>1, <1>3, <1>4, <1>5, <1>7, <1>10, <1>11, <1>12, <1>13, <1>14 DEF GraphStep, Inv

\* An eviction leaves the resolve mutex where it is.
LEMMA EvictKeepsBy ==
    ASSUME Inv, NEW f \in Files, EvictFile(f) PROVE resolver'.by = resolver.by
BY DEF EvictFile, Inv, Types, Resolvers

\* indexFile up to the resolver, of a file that is there or not, read or not.
LEMMA IndexFileParts ==
    ASSUME Inv, NEW f \in Files, NEW by \in {"patch", "storm", "batch"}, NEW ok \in BOOLEAN,
           IndexFile(by, f, ok)
    PROVE  /\ edits' \in edits .. MaxEdits /\ GraphStep({f})
           /\ adrift' \in SUBSET Files /\ adrift' \ {f} = adrift \ {f}
           /\ f \in adrift' \/ Right(disk, graph'.nodes, graph'.edges, cut', f)
           /\ missed' = missed \ {f}
           /\ open' \in SUBSET Ops /\ \A o \in open' : o \in open \/ o = Op(by, f)
           /\ resolver'.by = resolver.by
<1>0. resolver'.by = resolver.by
  BY EvictKeepsBy DEF IndexFile
<1>1. EvictFile(f) /\ missed' = missed \ {f} /\ edits \in 0 .. MaxEdits
  BY DEF IndexFile, Inv, Types
<1>2. edits' \in edits .. MaxEdits
  BY <1>1, BoundsAssumption DEF IndexFile, Attempt
<1>3. CASE OnDisk(f) /\ ok
  <2>1. graph' = Indexed(f)
    BY <1>3 DEF IndexFile
  <2>2. QED
    BY <1>0, <1>1, <1>2, <1>3, <2>1, IndexedStep DEF IndexFile, Op, Ops, Inv, Types
<1>4. CASE ~(OnDisk(f) /\ ok)
  <2>1. graph' = Evicted(f) /\ open' = open
    BY <1>4 DEF IndexFile
  <2>2. GraphStep({f}) /\ (~OnDisk(f) => Right(disk, graph'.nodes, graph'.edges, cut', f))
    BY <1>1, <2>1, EvictedStep
  <2>3. QED
    BY <1>0, <1>1, <1>2, <1>4, <2>1, <2>2 DEF IndexFile, Inv, Types
<1>5. QED
  BY <1>3, <1>4

\* The files that wait for their mtime outside of a full index.
LEMMA UnstattedOpen == job.kind # "track" => Unstatted = {o.file : o \in open}
BY DEF Unstatted

\* A patch works on one file.
LEMMA PatchWorks ==
    ASSUME Inv, NEW f \in Files, NEW ok \in BOOLEAN, PatchFile(f, ok) PROVE WorksOn(f)
<1>1. IndexFile("patch", f, ok) /\ up /\ ~WarmUp
  BY DEF PatchFile, Watching, WarmUp
<1>2. /\ edits' \in edits .. MaxEdits /\ GraphStep({f})
      /\ adrift' \in SUBSET Files /\ adrift' \ {f} = adrift \ {f}
      /\ f \in adrift' \/ Right(disk, graph'.nodes, graph'.edges, cut', f)
      /\ missed' = missed \ {f}
      /\ open' \in SUBSET Ops /\ \A o \in open' : o \in open \/ o = Op("patch", f)
      /\ resolver'.by = resolver.by
  BY <1>1, IndexFileParts
<1>3. job' = job /\ storm' = storm /\ job \in Jobs /\ storm \in Storms /\ job.kind # "track"
  BY <1>1 DEF PatchFile, Inv, Types, WarmUp
<1>4. Unstatted' \subseteq Unstatted \cup {f}
  BY <1>2, <1>3 DEF Unstatted, Op
<1>5. /\ UNCHANGED <<disk, up, meta, saving, snap>>
      /\ mtimes' = mtimes /\ dirty' = dirty \ {f}
  BY DEF PatchFile, snapshots
<1>6. QED
  BY <1>1, <1>2, <1>3, <1>4, <1>5 DEF WorksOn

\* So does a file of a storm.
LEMMA StormWorks ==
    ASSUME Inv, NEW f \in Files, NEW ok \in BOOLEAN, StormFile(f, ok) PROVE WorksOn(f)
<1>1. /\ IndexFile("storm", f, ok) /\ f \in storm.todo /\ storm \in Storms /\ job' = job
      /\ job \in Jobs /\ storm' = [storm EXCEPT !.todo = @ \ {f}]
  BY DEF StormFile, Inv, Types
<1>2. NoStorm.todo = {}
  BY DEF NoStorm
<1>3. up /\ ~WarmUp /\ job.kind # "track"
  BY <1>1, <1>2 DEF Inv, Stopped, Shape, WarmUp
<1>4. /\ edits' \in edits .. MaxEdits /\ GraphStep({f})
      /\ adrift' \in SUBSET Files /\ adrift' \ {f} = adrift \ {f}
      /\ f \in adrift' \/ Right(disk, graph'.nodes, graph'.edges, cut', f)
      /\ missed' = missed \ {f}
      /\ open' \in SUBSET Ops /\ \A o \in open' : o \in open \/ o = Op("storm", f)
      /\ resolver'.by = resolver.by
  BY <1>1, IndexFileParts
<1>5. storm' \in Storms /\ storm'.on = storm.on /\ storm'.todo = storm.todo \ {f}
  BY <1>1 DEF Storms
<1>6. Unstatted' \subseteq Unstatted \cup {f}
  BY <1>1, <1>3, <1>4 DEF Unstatted, Op
<1>7. UNCHANGED <<disk, up, meta, saving, snap, mtimes, dirty>>
  BY DEF StormFile, snapshots
<1>8. QED
  BY <1>1, <1>3, <1>4, <1>5, <1>6, <1>7 DEF WorksOn

\* A batch that has not ended runs in a daemon that is up.
LEMMA BatchUp == ASSUME Inv, job.pc # "none" PROVE up
BY DEF Inv, Stopped, NoJob

\* So does a file that IncrementalReindex finds changed.
LEMMA ReindexWorks ==
    ASSUME Inv, NEW f \in Files, NEW ok \in BOOLEAN, ReindexFile(f, ok) PROVE WorksOn(f)
<1>1. /\ IndexFile("batch", f, ok) /\ job.pc = "work" /\ job.gone = {} /\ job \in Jobs
      /\ job' = [job EXCEPT !.todo = @ \ {f}] /\ storm' = storm /\ storm \in Storms
  BY DEF ReindexFile, Inv, Types
<1>2. /\ job' \in Jobs /\ job'.kind = job.kind /\ job'.pc = job.pc /\ job'.walk = job.walk
      /\ job'.gone = job.gone /\ job'.todo = job.todo \ {f}
  BY <1>1 DEF Jobs
<1>3. up /\ job.kind # "none" /\ job.kind # "track" /\ job.walk = {}
  BY <1>1, BatchUp DEF Inv, Shape
<1>4. f \notin Walked'
  BY <1>1, <1>2, <1>3 DEF Walked
<1>5. /\ edits' \in edits .. MaxEdits /\ GraphStep({f})
      /\ adrift' \in SUBSET Files /\ adrift' \ {f} = adrift \ {f}
      /\ f \in adrift' \/ Right(disk, graph'.nodes, graph'.edges, cut', f)
      /\ missed' = missed \ {f}
      /\ open' \in SUBSET Ops /\ \A o \in open' : o \in open \/ o = Op("batch", f)
      /\ resolver'.by = resolver.by
  BY <1>1, IndexFileParts
<1>6. Unstatted' \subseteq Unstatted \cup {f}
  BY <1>2, <1>3, <1>5 DEF Unstatted, Op
<1>7. UNCHANGED <<disk, up, meta, saving, snap, mtimes, dirty>>
  BY DEF ReindexFile, snapshots
<1>8. QED
  BY <1>1, <1>2, <1>3, <1>4, <1>5, <1>6, <1>7 DEF WorksOn

\* And a file that it finds gone.
LEMMA PurgeWorks == ASSUME Inv, NEW f \in Files, PurgeFile(f) PROVE WorksOn(f)
<1>1. /\ EvictFile(f) /\ graph' = Evicted(f) /\ job.pc = "work" /\ f \in job.gone /\ job \in Jobs
      /\ job' = [job EXCEPT !.gone = @ \ {f}] /\ storm' = storm /\ storm \in Storms
      /\ open' = open /\ open \in SUBSET Ops
      /\ adrift' = IF OnDisk(f) THEN adrift \cup {f} ELSE adrift \ {f}
  BY DEF PurgeFile, Inv, Types
<1>2. /\ job' \in Jobs /\ job'.kind = job.kind /\ job'.pc = job.pc /\ job'.walk = job.walk
      /\ job'.gone = job.gone \ {f} /\ job'.todo = job.todo
  BY <1>1 DEF Jobs
<1>3. up /\ job.kind # "none" /\ job.kind # "track" /\ job.walk = {} /\ f \notin job.todo
  BY <1>1, BatchUp DEF Inv, Shape
<1>4. f \notin Walked'
  BY <1>2, <1>3 DEF Walked
<1>5. GraphStep({f}) /\ (~OnDisk(f) => Right(disk, graph'.nodes, graph'.edges, cut', f))
  BY <1>1, EvictedStep
<1>6. Unstatted' \subseteq Unstatted \cup {f}
  BY <1>1, <1>2, <1>3 DEF Unstatted
<1>7. edits' \in edits .. MaxEdits
  BY BoundsAssumption DEF PurgeFile, Inv, Types
<1>8. adrift' \in SUBSET Files /\ adrift' \ {f} = adrift \ {f} /\ (OnDisk(f) => f \in adrift')
  BY <1>1 DEF Inv, Types
<1>9. /\ UNCHANGED <<disk, up, meta, saving, snap, dirty>> /\ resolver'.by = resolver.by
      /\ missed' = missed \ {f} /\ mtimes' = [mtimes EXCEPT ![f] = 0]
  BY <1>1, EvictKeepsBy DEF PurgeFile, snapshots
<1>10. QED
  BY <1>1, <1>2, <1>3, <1>4, <1>5, <1>6, <1>7, <1>8, <1>9 DEF WorksOn

\* A file of a full index is added to what is there.
LEMMA TrackedStep ==
    ASSUME Inv, NEW f \in Files, NEW ok \in BOOLEAN, TrackFile(f, ok)
    PROVE  /\ GraphStep({f})
           /\ Unknown(graph, f) /\ (OnDisk(f) => ok) =>
                  Right(disk, graph'.nodes, graph'.edges, cut', f)
<1> DEFINE N == IF OnDisk(f) /\ ok THEN NodesOf(f, disk[f].content) ELSE {}
           E == IF OnDisk(f) /\ ok THEN EdgesOf(f, disk[f].content) ELSE {}
<1>1. /\ \A n \in N : n \in Node /\ n.file = f
      /\ \A e \in E : e \in CallId /\ e.file = f
      /\ OnDisk(f) /\ ok =>
            /\ \A n : n \in N <=> n \in Node /\ n.file = f /\ Defines(disk, f, n.name)
            /\ \A e : e \in E <=> e \in CallId /\ e.file = f /\ Makes(disk, f, e.name)
  BY ContentOf DEF Inv
<1>2. graph \in Graph /\ cut \in SUBSET CallId /\ resolver \in Resolvers
  BY DEF Inv, Types
<1>3. graph' = [nodes |-> graph.nodes \cup N, edges |-> graph.edges \cup E]
  BY <1>2 DEF TrackFile, Graph
<1>4. /\ cut' = {c \in cut : c.file # f} /\ stranded' = stranded /\ doubled' = doubled
      /\ resolver' = resolver
  BY DEF TrackFile
<1>5. ~OnDisk(f) => \A s : ~Defines(disk, f, s) /\ ~Makes(disk, f, s)
  BY DEF OnDisk, Defines, Makes
<1> HIDE DEF N, E
<1>6. N \in SUBSET Node /\ E \in SUBSET Edge /\ \A e \in E : e.at = Absent
  BY <1>1 DEF CallId, Edge
<1>7. /\ graph' \in Graph /\ graph'.nodes = graph.nodes \cup N /\ graph'.edges = graph.edges \cup E
  BY <1>2, <1>3, <1>6 DEF Graph
<1>8. Tracked' /\ Sound(graph, stranded \cup doubled)'
  BY <1>4, <1>6, <1>7 DEF Inv, Tracked, Sound
<1>9. ASSUME NEW x \in Files \ {f} PROVE Kept(x)
  <2>1. NodesRight(disk, graph.nodes, x) => NodesRight(disk, graph'.nodes, x)
    BY <1>1, <1>7 DEF NodesRight
  <2>2. EdgesRight(disk, graph.edges, x) => EdgesRight(disk, graph'.edges, x)
    BY <1>1, <1>7 DEF EdgesRight
  <2>3. CallsRight(disk, graph.edges, cut, x) => CallsRight(disk, graph'.edges, cut', x)
    BY <1>4, <1>7 DEF CallsRight
  <2>4. Unknown(graph, x) => Unknown(graph', x)
    BY <1>1, <1>7 DEF Unknown
  <2>5. QED
    BY <2>1, <2>2, <2>3, <2>4 DEF Kept
<1>10. GraphStep({f})
  BY <1>2, <1>4, <1>7, <1>8, <1>9 DEF GraphStep
<1>11. ASSUME Unknown(graph, f), OnDisk(f) => ok
       PROVE  Right(disk, graph'.nodes, graph'.edges, cut', f)
  <2>1. /\ \A n \in Node : n.file = f => (n \in N <=> Defines(disk, f, n.name))
        /\ \A e \in E : Makes(disk, f, e.name)
    <3>1. CASE OnDisk(f)
      BY <1>1, <1>11, <3>1
    <3>2. CASE ~OnDisk(f)
      BY <1>5, <3>2 DEF N, E
    <3>3. QED
      BY <3>1, <3>2
  <2>2. /\ \A n \in Node : n.file = f => (n \in graph'.nodes <=> n \in N)
        /\ \A e \in graph'.edges : e.file = f => e \in E
    BY <1>7, <1>11 DEF Unknown
  <2>3. NodesRight(disk, graph'.nodes, f) /\ EdgesRight(disk, graph'.edges, f)
    BY <2>1, <2>2 DEF NodesRight, EdgesRight
  <2>4. ASSUME NEW s \in Names, Makes(disk, f, s)
        PROVE  \E e \in graph'.edges : e.file = f /\ e.name = s
    <3> DEFINE c == [file |-> f, name |-> s, at |-> Absent]
    <3>1. c \in CallId /\ c.file = f /\ c.name = s
      BY DEF CallId
    <3>2. OnDisk(f) /\ ok
      BY <1>5, <1>11, <2>4
    <3>3. c \in graph'.edges
      BY <1>1, <1>7, <2>4, <3>1, <3>2
    <3>4. QED
      BY <3>1, <3>3
  <2>5. QED
    BY <2>3, <2>4 DEF Right, CallsRight
<1>12. QED
  BY <1>10, <1>11

\* A full index works on one file after the other.
LEMMA TrackWorks ==
    ASSUME Inv, NEW f \in Files, NEW ok \in BOOLEAN, TrackFile(f, ok) PROVE WorksOn(f)
<1>1. /\ job.kind = "track" /\ job.walk = {} /\ f \in job.todo /\ job \in Jobs
      /\ job' = [job EXCEPT !.todo = @ \ {f}] /\ storm' = storm /\ storm \in Storms
      /\ open' = open /\ open \in SUBSET Ops /\ mtimes' = mtimes
      /\ adrift' = IF OnDisk(f) /\ ~ok THEN adrift \cup {f} ELSE adrift
  BY DEF TrackFile, Inv, Types
<1>2. /\ job' \in Jobs /\ job'.kind = job.kind /\ job'.pc = job.pc /\ job'.walk = job.walk
      /\ job'.gone = job.gone /\ job'.todo = job.todo \ {f}
  BY <1>1 DEF Jobs
<1>3. up /\ WarmUp /\ f \in Walked /\ f \notin job.gone /\ job.pc = "walk"
  BY <1>1 DEF Inv, Shape, WarmUp, Walked
<1>4. f \notin Walked'
  BY <1>1, <1>2, <1>3 DEF Walked
<1>5. mtimes[f] = 0
  BY <1>1, <1>3 DEF Inv, Blank, Zeros
<1>6. f \notin adrift => Unknown(graph, f)
  BY <1>3, <1>5 DEF Inv, Blank
<1>7. /\ GraphStep({f})
      /\ Unknown(graph, f) /\ (OnDisk(f) => ok) => Right(disk, graph'.nodes, graph'.edges, cut', f)
  BY TrackedStep
<1>8. f \in adrift' \/ Right(disk, graph'.nodes, graph'.edges, cut', f)
  BY <1>1, <1>6, <1>7
<1>9. Unstatted' \subseteq Unstatted \cup {f}
  BY <1>1, <1>2 DEF Unstatted
<1>10. adrift' \in SUBSET Files /\ adrift' \ {f} = adrift \ {f}
  BY <1>1 DEF Inv, Types
<1>11. edits' \in edits .. MaxEdits
  BY BoundsAssumption DEF TrackFile, Attempt, Inv, Types
<1>12. UNCHANGED <<disk, up, meta, saving, snap, dirty, resolver>> /\ missed' = missed \ {f}
  BY DEF TrackFile, snapshots
<1>13. QED
  BY <1>1, <1>2, <1>3, <1>4, <1>7, <1>8, <1>9, <1>10, <1>11, <1>12 DEF WorksOn

-------------------------------------------------------------------------------
(* The other steps of the daemon: none of them takes anything from a file.   *)

\* A step that leaves the graph alone.
LEMMA Untouched ==
    ASSUME Inv, UNCHANGED <<graph, cut, stranded, doubled>>, resolver' \in Resolvers,
           resolver'.moving \in {NoEdge, resolver.moving}
    PROVE  GraphStep({})
<1>1. /\ graph' = graph /\ cut' = cut /\ stranded' = stranded /\ doubled' = doubled
      /\ graph \in Graph /\ cut \in SUBSET CallId
  BY DEF Inv, Types
<1>2. Tracked'
  BY <1>1 DEF Inv, Tracked
<1>3. Sound(graph, stranded \cup doubled)'
  BY <1>1 DEF Inv, Sound
<1>4. \A x \in Files : Kept(x)
  BY <1>1 DEF Kept
<1>5. QED
  BY <1>1, <1>2, <1>3, <1>4 DEF GraphStep

\* A step that keeps what is right in the graph keeps the invariant, if it lets no
\* file go, and records no mtime, that is not right.
LEMMA QuietStep ==
    ASSUME Inv, up, UNCHANGED <<disk, edits, missed, adrift, up, saving, snap>>,
           GraphStep({}),
           mtimes' \in Mtimes, meta' \in Mtimes, job' \in Jobs, storm' \in Storms,
           open' \in SUBSET Ops, dirty' \in SUBSET Files, Shape', Passes',
           \A f \in Files : mtimes'[f] <= edits + 1 /\ meta'[f] <= edits + 1,
           Recorded(mtimes'), Recorded(meta'),
           \A f \in Files : f \in Excused /\ f \notin Excused' => GraphRight(f),
           WarmUp' => \A f \in Walked' \ adrift : mtimes'[f] = 0 => Unknown(graph, f),
           job'.kind = "track" /\ job'.pc = "walk" => mtimes' = Zeros,
           \A f \in Unstatted' \ adrift : OnDisk(f) => GraphRight(f)
    PROVE  Inv'
<1>1. /\ disk' = disk /\ edits' = edits /\ missed' = missed /\ adrift' = adrift
      /\ up' = up /\ saving' = saving /\ snap' = snap
  OBVIOUS
<1>2. /\ \A x \in Files : Kept(x)
      /\ graph' \in Graph /\ cut' \in SUBSET CallId /\ resolver' \in Resolvers
      /\ Tracked' /\ Sound(graph, stranded \cup doubled)'
  BY DEF GraphStep
<1>3. \A f \in Files : GraphRight(f) => GraphRight(f)'
  BY <1>1, <1>2 DEF Kept, GraphRight, Right
<1>4. Types'
  BY <1>1, <1>2 DEF Inv, Types
<1>5. Clock'
  BY <1>1 DEF Inv, Clock, OnDisk
<1>6. Stopped'
  BY <1>1 DEF Stopped
<1>7. Working'
  BY <1>3 DEF Inv, Working
<1>8. Unstatted' \subseteq Files /\ Walked' \subseteq Files
  BY DEF Unstatted, Walked, Jobs, Ops
<1>9. Blank'
  BY <1>1, <1>2, <1>8 DEF Blank, Kept
<1>10. ASSUME NEW m, Recorded(m), NEW f \in Files \ adrift', Current(disk, m, f)
       PROVE  GraphRight(f)'
  BY <1>1, <1>3, <1>10 DEF Recorded
<1>11. Trusted'
  BY <1>1, <1>10 DEF Inv, Trusted, Recorded
<1>12. Opened'
  BY <1>1, <1>3, <1>8 DEF Opened, OnDisk
<1>13. Captured' /\ Stored'
  BY <1>1 DEF Inv, Captured, Stored
<1>14. QED
  BY <1>2, <1>4, <1>5, <1>6, <1>7, <1>9, <1>11, <1>12, <1>13 DEF Inv

\* What holds of the state before a step, in the form that QuietStep asks for.
LEMMA Before ==
    ASSUME Inv
    PROVE  /\ mtimes \in Mtimes /\ meta \in Mtimes /\ job \in Jobs /\ storm \in Storms
           /\ open \in SUBSET Ops /\ dirty \in SUBSET Files /\ resolver \in Resolvers
           /\ \A f \in Files : mtimes[f] <= edits + 1 /\ meta[f] <= edits + 1
           /\ Recorded(mtimes) /\ Recorded(meta)
           /\ WarmUp => \A f \in Walked \ adrift : mtimes[f] = 0 => Unknown(graph, f)
           /\ job.kind = "track" /\ job.pc = "walk" => mtimes = Zeros
           /\ \A f \in Unstatted \ adrift : OnDisk(f) => GraphRight(f)
BY DEF Inv, Types, Clock, Trusted, Blank, Opened

\* FreeResolver is a resolver at rest, and no pass over all edges holds it.
LEMMA Free ==
    ASSUME Types
    PROVE  /\ FreeResolver \in Resolvers /\ FreeResolver.moving = NoEdge
           /\ FreeResolver.by.by = "nobody" /\ FreeResolver.by # Op("storm", Absent)
           /\ FreeResolver.by # Op("batch", Absent)
BY DEF FreeResolver, Resolvers, NoEdge, Op

\* The mtime that indexFile takes is that of a file that is right.
LEMMA StatParts ==
    ASSUME Inv, NEW o \in open, Stat(o), UNCHANGED <<job, disk>>
    PROVE  /\ up /\ mtimes' \in Mtimes /\ open' \in SUBSET Ops /\ open' \subseteq open
           /\ \A f \in Files : mtimes'[f] <= edits + 1
           /\ Recorded(mtimes')
           /\ WarmUp => \A f \in Walked \ adrift : mtimes'[f] = 0 => Unknown(graph, f)
           /\ job.kind # "track"
           /\ \A f \in Unstatted' \ adrift : OnDisk(f) => GraphRight(f)
<1>1. /\ mtimes \in Mtimes /\ disk \in Disk /\ o.file \in Files /\ open \in SUBSET Ops
      /\ up /\ job.kind # "track"
  BY DEF Inv, Types, Ops, Stopped, Shape
<1>2. mtimes' = IF OnDisk(o.file) THEN [mtimes EXCEPT ![o.file] = disk[o.file].mtime] ELSE mtimes
  BY DEF Stat
<1>3. disk[o.file].mtime \in 0 .. MaxEdits + 1
  BY <1>1 DEF Disk
<1>4. /\ mtimes' \in Mtimes
      /\ \A f \in Files : \/ mtimes'[f] = mtimes[f]
                          \/ f = o.file /\ OnDisk(f) /\ mtimes'[f] = disk[f].mtime
  BY <1>1, <1>2, <1>3 DEF Mtimes
<1>5. o.file \in Unstatted
  BY DEF Unstatted
<1>6. ASSUME NEW f \in Files \ adrift, Current(disk, mtimes', f) PROVE GraphRight(f)
  <2>1. CASE mtimes'[f] = mtimes[f]
    BY <1>6, <2>1 DEF Inv, Trusted, Recorded, Current
  <2>2. CASE f = o.file /\ OnDisk(f)
    BY <1>5, <1>6, <2>2 DEF Inv, Opened
  <2>3. QED
    BY <1>4, <2>1, <2>2
<1>7. WarmUp => \A f \in Walked \ adrift : mtimes'[f] = 0 => Unknown(graph, f)
  <2>1. WarmUp => o.file \notin Walked /\ Walked \subseteq Files
    BY DEF Inv, Shape, Types, Jobs, Walked
  <2>2. QED
    BY <1>4, <2>1 DEF Inv, Blank
<1>8. open' = open \ {o}
  BY DEF Stat
<1>9. \A f \in Unstatted' \ adrift : OnDisk(f) => GraphRight(f)
  <2>1. Unstatted' \subseteq Unstatted
    BY <1>1, <1>8 DEF Unstatted
  <2>2. QED
    BY <2>1, Before
<1>10. \A f \in Files : mtimes'[f] <= edits + 1
  BY <1>4 DEF Inv, Clock
<1>11. QED
  BY <1>1, <1>4, <1>6, <1>7, <1>8, <1>9, <1>10 DEF Recorded

\* The end of a file of a storm.
LEMMA StormStatInv == ASSUME Inv, NEW f \in Files, StormStat(f) PROVE Inv'
<1> DEFINE o == Op("storm", f)
<1>1. /\ o \in open /\ Stat(o)
      /\ UNCHANGED <<disk, edits, dirty, missed, adrift, cut, stranded, graph, doubled, up,
                     meta, job, storm, resolver, saving, snap>>
  BY DEF StormStat, files, index, snapshots
<1> HIDE DEF o
<1>2. /\ up /\ mtimes' \in Mtimes /\ open' \in SUBSET Ops /\ open' \subseteq open
      /\ \A x \in Files : mtimes'[x] <= edits + 1
      /\ Recorded(mtimes')
      /\ WarmUp => \A x \in Walked \ adrift : mtimes'[x] = 0 => Unknown(graph, x)
      /\ job.kind # "track"
      /\ \A x \in Unstatted' \ adrift : OnDisk(x) => GraphRight(x)
  BY <1>1, StatParts
<1>3. GraphStep({})
  BY <1>1, Before, Untouched
<1>4. Shape' /\ Passes'
  BY <1>1, <1>2 DEF Inv, Shape, Passes, WarmUp, Walked, OnDisk
<1>5. WarmUp' = WarmUp /\ Walked' = Walked /\ Excused' = Excused
  BY <1>1 DEF WarmUp, Walked, Excused
<1>6. QED
  BY <1>1, <1>2, <1>3, <1>4, <1>5, Before, QuietStep

\* The end of indexFile elsewhere.
LEMMA EndIndexFileInv == ASSUME Inv, NEW o \in open, EndIndexFile(o) PROVE Inv'
<1>1. /\ Stat(o) /\ resolver' = FreeResolver
      /\ UNCHANGED <<disk, edits, dirty, missed, adrift, cut, stranded, graph, doubled, up,
                     meta, job, storm, saving, snap>>
  BY DEF EndIndexFile, files, index, snapshots
<1>2. /\ up /\ mtimes' \in Mtimes /\ open' \in SUBSET Ops /\ open' \subseteq open
      /\ \A x \in Files : mtimes'[x] <= edits + 1
      /\ Recorded(mtimes')
      /\ WarmUp => \A x \in Walked \ adrift : mtimes'[x] = 0 => Unknown(graph, x)
      /\ job.kind # "track"
      /\ \A x \in Unstatted' \ adrift : OnDisk(x) => GraphRight(x)
  BY <1>1, StatParts
<1>3. Types
  BY DEF Inv
<1>4. GraphStep({})
  BY <1>1, <1>3, Free, Untouched
<1>5. Shape' /\ Passes'
  BY <1>1, <1>2, <1>3, Free DEF Inv, Shape, Passes, WarmUp, Walked, OnDisk
<1>6. WarmUp' = WarmUp /\ Walked' = Walked /\ Excused' = Excused
  BY <1>1 DEF WarmUp, Walked, Excused
<1>7. QED
  BY <1>1, <1>2, <1>4, <1>5, <1>6, Before, QuietStep

\* A step of the resolver.
LEMMA ResolverStep ==
    ASSUME Inv, up, GraphStep({}), Passes',
           UNCHANGED <<files, adrift, up, mtimes, meta, job, storm, open, snapshots>>
    PROVE  Inv'
<1>1. UNCHANGED <<disk, edits, dirty, missed, adrift, up, mtimes, meta, job, storm, open,
                  saving, snap>>
  BY DEF files, snapshots
<1>2. Shape'
  BY <1>1 DEF Inv, Shape, WarmUp, Walked, OnDisk
<1>3. /\ WarmUp' = WarmUp /\ Walked' = Walked /\ Excused' = Excused /\ Unstatted' = Unstatted
  BY <1>1 DEF WarmUp, Walked, Excused, Unstatted
<1>4. QED
  BY <1>1, <1>2, <1>3, Before, QuietStep

\* A pass begins: over the edges of a file, or over all.
LEMMA StartResolveInv == ASSUME Inv, NEW o \in Waiting, StartResolve(o) PROVE Inv'
<1> DEFINE E == {e \in graph.edges : e.at = Absent /\ o.file \in {e.file, Absent}}
<1>1. Types /\ graph \in Graph /\ resolver' = [FreeResolver EXCEPT !.by = o, !.edges = E]
  BY DEF StartResolve, Inv, Types
<1>2. /\ o \in open \/ (o = Op("storm", Absent) /\ storm.on /\ storm.todo = {})
                    \/ (o = Op("batch", Absent) /\ job.pc = "resolve")
  BY DEF Waiting
<1>3. o \in [by : {"nobody", "patch", "storm", "batch"}, file : Files \cup {Absent}]
  BY <1>1, <1>2 DEF Op, Ops, Types
<1>4. E \in SUBSET CallId
  BY <1>1 DEF Graph, Edge, CallId
<1> HIDE DEF E
<1>5. resolver' \in Resolvers /\ resolver'.by = o /\ resolver'.moving = NoEdge
  BY <1>1, <1>3, <1>4 DEF FreeResolver, Resolvers
<1>6. up
  BY <1>2 DEF Inv, Stopped, NoStorm, NoJob
<1>7. ASSUME o \in open PROVE o # Op("storm", Absent) /\ o # Op("batch", Absent)
  BY <1>1, <1>7, ContentsAssumption DEF Types, Ops, Op
<1>8. UNCHANGED <<graph, cut, stranded, doubled, storm, job>>
  BY DEF StartResolve, index
<1>9. Op("storm", Absent) # Op("batch", Absent)
  BY DEF Op
<1>10. Passes'
  BY <1>2, <1>5, <1>7, <1>8, <1>9 DEF Passes
<1>11. GraphStep({})
  BY <1>5, <1>8, Untouched
<1>12. QED
  BY <1>6, <1>10, <1>11, ResolverStep DEF StartResolve, index

\* The in-list of the target gets the edge.
LEMMA ReindexEdgeInv == ASSUME Inv, ReindexEdge PROVE Inv'
<1>1. up /\ resolver \in Resolvers /\ Types
  BY Free DEF ReindexEdge, Inv, Stopped, Types
<1>2. /\ resolver' \in Resolvers /\ resolver'.by = resolver.by /\ resolver'.moving = NoEdge
  BY <1>1 DEF ReindexEdge, Resolvers
<1>3. UNCHANGED <<graph, cut, stranded, doubled, storm, job>>
  BY DEF ReindexEdge, index
<1>4. Passes'
  BY <1>2, <1>3 DEF Inv, Passes
<1>5. GraphStep({})
  BY <1>2, <1>3, Untouched
<1>6. QED
  BY <1>1, <1>4, <1>5, ResolverStep DEF ReindexEdge, index

\* The resolver gives an edge its target: the call stays the call of its file.
LEMMA LookupStep == ASSUME Inv, NEW e \in resolver.edges, Lookup(e) PROVE GraphStep({})
<1> DEFINE r == Resolve(e)
           moved == e \in graph.edges /\ r # e
<1>1. /\ Types /\ graph \in Graph /\ cut \in SUBSET CallId /\ resolver \in Resolvers
      /\ e \in CallId
  BY DEF Inv, Types, Resolvers
<1>2. /\ r \in Edge /\ r.file = e.file /\ r.name = e.name
      /\ r = e \/ (r.at # Absent /\ Target(r) \in graph.nodes)
  BY <1>1, ResolveParts
<1>3. /\ resolver' = [resolver EXCEPT !.edges = @ \ {e}, !.moving = IF moved THEN r ELSE NoEdge]
      /\ graph' = IF e \in graph.edges THEN [graph EXCEPT !.edges = (graph.edges \ {e}) \cup {r}]
                  ELSE graph
      /\ doubled' = IF moved /\ r \in graph.edges THEN doubled \cup {r} ELSE doubled
      /\ cut' = cut /\ stranded' = stranded
  BY DEF Lookup, Retargeted
<1>4. e.at = Absent /\ e.file \in Files
  BY <1>1 DEF CallId
<1> HIDE DEF r
<1>5. resolver' \in Resolvers /\ (resolver'.moving = NoEdge \/ (moved /\ resolver'.moving = r))
  BY <1>1, <1>2, <1>3 DEF Resolvers
<1>6. /\ graph' \in Graph /\ graph'.nodes = graph.nodes
      /\ graph'.edges = IF e \in graph.edges THEN (graph.edges \ {e}) \cup {r} ELSE graph.edges
  BY <1>1, <1>2, <1>3 DEF Graph
<1>7. /\ stranded \in SUBSET graph.edges /\ doubled \in SUBSET graph.edges
      /\ \A x \in stranded \cup doubled : x.at # Absent
  BY DEF Inv, Tracked
<1>8. Tracked'
  <2>1. e \notin stranded /\ e \notin doubled
    BY <1>4, <1>7
  <2>2. stranded' \in SUBSET graph'.edges
    BY <1>3, <1>6, <1>7, <2>1
  <2>3. doubled' \in SUBSET graph'.edges
    BY <1>3, <1>6, <1>7, <2>1
  <2>4. \A x \in stranded' \cup doubled' : x.at # Absent
    BY <1>2, <1>3, <1>7
  <2>5. resolver'.moving = NoEdge \/ (resolver'.moving \in graph'.edges /\ resolver'.moving.at # Absent)
    BY <1>2, <1>5, <1>6
  <2>6. QED
    BY <2>2, <2>3, <2>4, <2>5 DEF Tracked
<1>9. Sound(graph, stranded \cup doubled)'
  <2> SUFFICES ASSUME NEW x \in graph'.edges, x \notin stranded', x \notin doubled', x.at # Absent
               PROVE  Target(x) \in graph'.nodes
    BY DEF Sound
  <2>1. x \notin stranded /\ x \notin doubled
    BY <1>3
  <2>2. CASE x \in graph.edges
    BY <1>6, <2>1, <2>2 DEF Inv, Sound
  <2>3. CASE x \notin graph.edges
    BY <1>2, <1>4, <1>6, <2>3
  <2>4. QED
    BY <2>2, <2>3
<1>10. ASSUME NEW f \in Files PROVE Kept(f)
  <2>1. NodesRight(disk, graph.nodes, f) => NodesRight(disk, graph'.nodes, f)
    BY <1>6
  <2>2. EdgesRight(disk, graph.edges, f) => EdgesRight(disk, graph'.edges, f)
    BY <1>2, <1>6 DEF EdgesRight
  <2>3. CallsRight(disk, graph.edges, cut, f) => CallsRight(disk, graph'.edges, cut', f)
    <3> SUFFICES ASSUME NEW s \in Names, \E x \in graph.edges : x.file = f /\ x.name = s
                 PROVE  \E x \in graph'.edges : x.file = f /\ x.name = s
      BY <1>3 DEF CallsRight
    <3>1. PICK x \in graph.edges : x.file = f /\ x.name = s
      OBVIOUS
    <3>2. CASE x = e
      BY <1>2, <1>6, <3>1, <3>2
    <3>3. CASE x # e
      BY <1>6, <3>1, <3>3
    <3>4. QED
      BY <3>2, <3>3
  <2>4. Unknown(graph, f) => Unknown(graph', f)
    BY <1>2, <1>6 DEF Unknown
  <2>5. QED
    BY <2>1, <2>2, <2>3, <2>4 DEF Kept
<1>11. QED
  BY <1>1, <1>3, <1>5, <1>6, <1>8, <1>9, <1>10 DEF GraphStep

LEMMA LookupInv == ASSUME Inv, NEW e \in resolver.edges, Lookup(e) PROVE Inv'
<1>1. GraphStep({})
  BY LookupStep
<1>2. up
  BY DEF Inv, Stopped, FreeResolver
<1>3. UNCHANGED <<storm, job>> /\ resolver'.by = resolver.by
  BY DEF Lookup, Inv, Types, Resolvers
<1>4. Passes'
  BY <1>3 DEF Inv, Passes
<1>5. QED
  BY <1>1, <1>2, <1>4, ResolverStep DEF Lookup

\* The end of the pass after a storm.
LEMMA EndStormInv == ASSUME Inv, EndStorm PROVE Inv'
<1>1. /\ UNCHANGED <<disk, edits, dirty, missed, adrift, cut, stranded, graph, doubled, up,
                     mtimes, meta, job, open, saving, snap>>
      /\ resolver' = FreeResolver /\ storm' = NoStorm /\ resolver.by = Op("storm", Absent)
  BY DEF EndStorm, Resolved, FreeResolver, files, index, snapshots
<1>2. Types /\ up /\ storm.todo = {} /\ ~WarmUp
  BY <1>1, Free DEF Inv, Stopped, Passes, Shape, NoStorm
<1>3. storm' \in Storms /\ storm'.todo = {}
  BY <1>1 DEF NoStorm, Storms
<1>4. GraphStep({})
  BY <1>1, <1>2, Free, Untouched
<1>5. WarmUp' = WarmUp /\ Walked' = Walked /\ Excused' = Excused /\ Unstatted' = Unstatted
  BY <1>1, <1>2, <1>3 DEF WarmUp, Walked, Excused, Unstatted
<1>6. Shape' /\ Passes'
  BY <1>1, <1>2, <1>5, Free DEF Inv, Shape, Passes, OnDisk
<1>7. QED
  BY <1>1, <1>2, <1>3, <1>4, <1>5, <1>6, Before, QuietStep

\* A storm takes over the dirty files.
LEMMA StartStormInv == ASSUME Inv, StartStorm PROVE Inv'
<1>1. /\ UNCHANGED <<disk, edits, missed, adrift, cut, stranded, graph, doubled, up,
                     mtimes, meta, job, open, resolver, saving, snap>>
      /\ up /\ ~WarmUp /\ storm = NoStorm
      /\ storm' = [on |-> TRUE, todo |-> dirty] /\ dirty' = {}
  BY DEF StartStorm, Watching, WarmUp, index, snapshots
<1>2. storm' \in Storms /\ storm'.todo = dirty /\ storm.todo = {} /\ ~storm.on
  BY <1>1 DEF Inv, Types, NoStorm, Storms
<1>3. GraphStep({})
  BY <1>1, Before, Untouched
<1>4. WarmUp' = WarmUp /\ Walked' = Walked /\ Excused' = Excused /\ Unstatted' = Unstatted
  BY <1>1, <1>2 DEF WarmUp, Walked, Excused, Unstatted
<1>5. Shape' /\ Passes'
  BY <1>1, <1>2, <1>4 DEF Inv, Shape, Passes, OnDisk
<1>6. QED
  BY <1>1, <1>2, <1>3, <1>4, <1>5, Before, QuietStep

\* A step of a batch that changes nothing but the lists of the batch.
LEMMA BatchStep ==
    ASSUME Inv, up, UNCHANGED <<files, index, up, mtimes, storm, open, snapshots>>,
           job' \in Jobs, meta' = meta \/ meta' = mtimes, Shape', Passes',
           resolver' \in Resolvers, resolver'.moving \in {NoEdge, resolver.moving},
           \A f \in Files : f \in Excused /\ f \notin Excused' => GraphRight(f),
           WarmUp' => WarmUp /\ Walked' \subseteq Walked,
           job'.kind = "track" /\ job'.pc = "walk" => mtimes = Zeros,
           Unstatted' \subseteq Unstatted
    PROVE  Inv'
<1>1. UNCHANGED <<disk, edits, dirty, missed, adrift, cut, stranded, graph, doubled, up,
                  mtimes, storm, open, saving, snap>>
  BY DEF files, index, snapshots
<1>2. GraphStep({})
  BY <1>1, Untouched
<1>3. /\ WarmUp' => \A f \in Walked' \ adrift : mtimes'[f] = 0 => Unknown(graph, f)
      /\ \A f \in Unstatted' \ adrift : OnDisk(f) => GraphRight(f)
      /\ Recorded(meta') /\ Recorded(mtimes') /\ meta' \in Mtimes
      /\ \A f \in Files : mtimes'[f] <= edits + 1 /\ meta'[f] <= edits + 1
  BY <1>1, Before
<1>4. QED
  BY <1>1, <1>2, <1>3, Before, QuietStep

\* The janitor begins its walk.
LEMMA StartJanitorInv == ASSUME Inv, StartJanitor PROVE Inv'
<1>1. /\ UNCHANGED <<files, index, up, mtimes, meta, storm, open, resolver, snapshots>>
      /\ up /\ job = NoJob
      /\ job' = [kind |-> "janitor", pc |-> "walk", walk |-> Files, gone |-> {}, todo |-> {}]
  BY DEF StartJanitor, NoJob
<1>2. job' \in Jobs /\ ~WarmUp /\ ~WarmUp' /\ job.pc = "none" /\ Walked = {}
  BY <1>1 DEF Jobs, WarmUp, Walked, NoJob
<1>3. Unstatted' \subseteq Unstatted /\ Excused' = Excused
  BY <1>1, <1>2 DEF Unstatted, Excused, WarmUp, files, index
<1>4. resolver \in Resolvers /\ resolver' = resolver /\ storm' = storm
  BY <1>1, Before
<1>5. Shape' /\ Passes'
  BY <1>1, <1>2, <1>4 DEF Inv, Shape, Passes, Walked
<1>6. QED
  BY <1>1, <1>2, <1>3, <1>4, <1>5, BatchStep

\* The walk puts a file on a list or finds its recorded mtime on disk.
LEMMA WalkFileInv == ASSUME Inv, NEW f \in Files, WalkFile(f) PROVE Inv'
<1> DEFINE stale == mtimes[f] # disk[f].mtime
<1>1. /\ UNCHANGED <<files, index, up, mtimes, meta, storm, open, resolver, snapshots>>
      /\ f \in job.walk /\ job \in Jobs
      /\ job' = [job EXCEPT !.walk = @ \ {f},
                            !.todo = IF OnDisk(f) /\ stale THEN @ \cup {f} ELSE @,
                            !.gone = IF OnDisk(f) THEN @ ELSE @ \cup {f}]
  BY DEF WalkFile, Inv, Types
<1>2. /\ job' \in Jobs /\ job'.kind = job.kind /\ job'.pc = job.pc
      /\ job'.walk = job.walk \ {f}
      /\ job'.todo = IF OnDisk(f) /\ stale THEN job.todo \cup {f} ELSE job.todo
      /\ job'.gone = IF OnDisk(f) THEN job.gone ELSE job.gone \cup {f}
  BY <1>1 DEF Jobs
<1>3. job.pc = "walk" /\ up /\ f \in Walked
  BY <1>1, BatchUp DEF Inv, Shape, Walked
<1>4. resolver \in Resolvers /\ UNCHANGED <<disk, missed, dirty, adrift, storm, open, mtimes, resolver>>
  BY <1>1, Before DEF files, index
<1>5. /\ WarmUp' = WarmUp /\ Walked' \subseteq Walked /\ Walked \subseteq Walked' \cup {f}
      /\ f \notin Walked' => OnDisk(f) /\ ~stale
  BY <1>1, <1>2 DEF WarmUp, Walked
<1>6. job.kind = "track" => f \in Walked'
  <2> SUFFICES ASSUME job.kind = "track", OnDisk(f), ~stale PROVE FALSE
    BY <1>5
  <2>1. mtimes[f] = 0
    BY <1>3 DEF Inv, Blank, Zeros
  <2>2. disk[f].mtime > 0
    BY DEF Inv, Clock
  <2>3. QED
    BY <2>1, <2>2
<1>7. Unstatted' \subseteq Unstatted
  BY <1>2, <1>4, <1>5, <1>6 DEF Unstatted, Walked
<1>8. ASSUME NEW x \in Files, x \in Excused, x \notin Excused' PROVE GraphRight(x)
  <2>1. x = f /\ x \notin Walked' /\ x \notin adrift
    BY <1>4, <1>5, <1>8 DEF Excused
  <2>2. Current(disk, mtimes, x)
    BY <1>5, <2>1 DEF Current, OnDisk
  <2>3. QED
    BY <2>1, <2>2, Before DEF Recorded
<1>9. Shape'
  <2>1. /\ job'.kind = "none" => job' = NoJob
        /\ job'.pc \notin {"walk", "work"} => Walked' = {}
        /\ job'.pc # "walk" => job'.walk = {}
        /\ job'.pc \in {"work", "resolve"} => job'.kind # "none"
        /\ job'.kind = "track" => job'.pc # "work" /\ open' = {}
        /\ job'.pc = "resolve" => job'.kind = "track"
    BY <1>1, <1>2, <1>3, <1>4 DEF Inv, Shape, NoJob
  <2>2. job'.walk \cap (job'.gone \cup job'.todo) = {} /\ job'.gone \cap job'.todo = {}
    BY <1>1, <1>2 DEF Inv, Shape
  <2>3. ASSUME WarmUp
        PROVE  /\ up' /\ storm' = NoStorm /\ dirty' = {}
               /\ \A o \in open' : o.by = "batch" /\ o.file \notin Walked'
               /\ \A x \in job'.gone : OnDisk(x) => x \in missed'
    BY <1>1, <1>2, <1>3, <1>4, <1>5, <2>3 DEF Inv, Shape
  <2>4. QED
    BY <1>4, <1>5, <2>1, <2>2, <2>3 DEF Shape, OnDisk
<1>10. Passes'
  BY <1>2, <1>4 DEF Inv, Passes
<1>11. job'.kind = "track" /\ job'.pc = "walk" => mtimes = Zeros
  BY <1>2 DEF Inv, Blank
<1>12. QED
  BY <1>1, <1>2, <1>3, <1>4, <1>5, <1>7, <1>8, <1>9, <1>10, <1>11, BatchStep

\* The files that are left to a purge have an mtime.
LEMMA ScanDeletedInv == ASSUME Inv, ScanDeleted PROVE Inv'
<1> DEFINE gone == {f \in job.gone : mtimes[f] # 0}
<1>1. /\ UNCHANGED <<files, index, up, mtimes, meta, storm, open, resolver, snapshots>>
      /\ job.kind \in {"janitor", "boot"} /\ job.pc = "walk" /\ job.walk = {} /\ job \in Jobs
      /\ job' = [job EXCEPT !.pc = "work", !.gone = gone]
  BY DEF ScanDeleted, Reindexing, Inv, Types
<1>2. /\ job' \in Jobs /\ job'.kind = job.kind /\ job'.pc = "work"
      /\ job'.walk = {} /\ job'.todo = job.todo /\ job'.gone = gone
  BY <1>1 DEF Jobs
<1>3. up
  BY <1>1, BatchUp
<1>4. resolver \in Resolvers /\ UNCHANGED <<disk, missed, dirty, adrift, storm, open, mtimes, resolver>>
  BY <1>1, Before DEF files, index
<1>5. /\ WarmUp' = WarmUp /\ Walked' \subseteq Walked
      /\ \A x \in Walked \ Walked' : x \in job.gone /\ mtimes[x] = 0
  BY <1>1, <1>2 DEF WarmUp, Walked
<1>6. Unstatted' \subseteq Unstatted
  BY <1>1, <1>2, <1>4 DEF Unstatted
<1>7. ASSUME NEW x \in Files, x \in Excused, x \notin Excused' PROVE GraphRight(x)
  <2>1. WarmUp /\ x \in Walked /\ x \notin Walked' /\ x \notin adrift /\ x \notin missed
    BY <1>4, <1>5, <1>7 DEF Excused
  <2>2. Unknown(graph, x)
    BY <1>5, <2>1 DEF Inv, Blank
  <2>3. ~OnDisk(x)
    BY <1>5, <2>1 DEF Inv, Shape
  <2>4. QED
    BY <2>2, <2>3
    DEF Unknown, OnDisk, GraphRight, Right, NodesRight, EdgesRight, CallsRight, Defines, Makes
<1>8. Shape'
  BY <1>1, <1>2, <1>3, <1>4, <1>5 DEF Inv, Shape, OnDisk
<1>9. Passes'
  BY <1>1, <1>2, <1>4 DEF Inv, Passes
<1>10. QED
  BY <1>1, <1>2, <1>3, <1>4, <1>5, <1>6, <1>7, <1>8, <1>9, BatchStep

\* The end of IncrementalReindex: the metadata gets the mtimes.
LEMMA EndReindexInv == ASSUME Inv, EndReindex PROVE Inv'
<1>1. /\ UNCHANGED <<files, index, up, mtimes, storm, open, resolver, snapshots>>
      /\ job.pc = "work" /\ job.gone = {} /\ job.todo = {} /\ job \in Jobs /\ meta' = mtimes
      /\ job' = IF job.kind = "boot" THEN [job EXCEPT !.pc = "attach"] ELSE NoJob
  BY DEF EndReindex, Inv, Types
<1>2. up /\ job.walk = {} /\ job.kind # "track" /\ job.kind # "none"
  BY <1>1, BatchUp DEF Inv, Shape
<1>3. /\ job' \in Jobs /\ job'.walk = {} /\ job'.todo = {} /\ job'.gone = {}
      /\ job'.kind = "none" => job' = NoJob
      /\ \/ job.kind = "boot" /\ job'.kind = "boot" /\ job'.pc = "attach"
         \/ job.kind # "boot" /\ job'.kind = "none" /\ job'.pc = "none"
  BY <1>1, <1>2 DEF Jobs, NoJob
<1>4. resolver \in Resolvers /\ UNCHANGED <<disk, missed, dirty, adrift, storm, open, mtimes, resolver>>
  BY <1>1, Before DEF files, index
<1>5. WarmUp' = WarmUp /\ Walked' = {} /\ Walked = {}
  BY <1>1, <1>2, <1>3 DEF WarmUp, Walked, Jobs
<1>6. Unstatted' \subseteq Unstatted /\ Excused' = Excused
  BY <1>3, <1>4, <1>5 DEF Unstatted, Excused
<1>7. Shape' /\ Passes'
  BY <1>1, <1>2, <1>3, <1>4, <1>5 DEF Inv, Shape, Passes, OnDisk
<1>8. QED
  BY <1>1, <1>2, <1>3, <1>4, <1>5, <1>6, <1>7, BatchStep

\* A full index records the mtime of every file it met.
LEMMA TrackStatInv == ASSUME Inv, TrackStat PROVE Inv'
<1>1. /\ UNCHANGED <<disk, edits, dirty, missed, adrift, cut, stranded, graph, doubled, up,
                     meta, storm, open, resolver, saving, snap>>
      /\ job.kind = "track" /\ job.pc = "walk" /\ job.walk = {} /\ job.todo = {} /\ job \in Jobs
      /\ mtimes' = [f \in Files |-> IF f \in job.gone THEN 0 ELSE disk[f].mtime]
      /\ job' = [job EXCEPT !.pc = "resolve", !.gone = {}]
  BY DEF TrackStat, files, index, snapshots, Inv, Types
<1>2. /\ job' \in Jobs /\ job'.kind = "track" /\ job'.pc = "resolve"
      /\ job'.walk = {} /\ job'.todo = {} /\ job'.gone = {}
  BY <1>1 DEF Jobs
<1>3. up /\ WarmUp /\ WarmUp' /\ Walked = job.gone /\ Walked' = {} /\ open = {}
  BY <1>1, <1>2, BatchUp DEF Inv, Shape, WarmUp, Walked
<1>4. mtimes' \in Mtimes
  <2>1. \A f \in Files : disk[f].mtime \in 0 .. MaxEdits + 1
    BY DEF Inv, Types, Disk
  <2>2. 0 \in 0 .. MaxEdits + 1
    BY BoundsAssumption
  <2>3. QED
    BY <1>1, <2>1, <2>2 DEF Mtimes
<1>5. \A f \in Files : mtimes'[f] <= edits + 1
  <2>1. \A f \in Files : disk[f].mtime <= edits + 1 /\ 0 <= edits + 1
    BY BoundsAssumption DEF Inv, Clock, Types
  <2>2. QED
    BY <1>1, <2>1
<1>6. ASSUME NEW f \in Files \ adrift, Current(disk, mtimes', f) PROVE GraphRight(f)
  <2>1. OnDisk(f) /\ mtimes'[f] = disk[f].mtime /\ disk[f].mtime > 0
    BY <1>6 DEF Current, OnDisk, Inv, Clock
  <2>2. f \notin job.gone
    BY <1>1, <2>1
  <2>3. f \in Unstatted
    BY <1>1, <2>2 DEF Unstatted
  <2>4. QED
    BY <1>6, <2>1, <2>3, Before
<1>7. ASSUME NEW f \in Files, f \in Excused, f \notin Excused' PROVE GraphRight(f)
  <2>1. f \in job.gone /\ f \notin adrift /\ f \notin missed
    BY <1>1, <1>2, <1>3, <1>7 DEF Excused
  <2>2. mtimes[f] = 0
    BY <1>1 DEF Inv, Blank, Zeros
  <2>3. Unknown(graph, f) /\ ~OnDisk(f)
    BY <1>3, <2>1, <2>2 DEF Inv, Blank, Shape
  <2>4. QED
    BY <2>3
    DEF Unknown, OnDisk, GraphRight, Right, NodesRight, EdgesRight, CallsRight, Defines, Makes
<1>8. Unstatted' = {}
  BY <1>1, <1>2, <1>3 DEF Unstatted
<1>9. resolver' = resolver /\ resolver \in Resolvers
  BY <1>1, Before
<1>10. GraphStep({})
  BY <1>1, <1>9, Untouched
<1>11. Shape' /\ Passes'
  BY <1>1, <1>2, <1>3 DEF Inv, Shape, Passes, OnDisk
<1>12. QED
  BY <1>1, <1>2, <1>3, <1>4, <1>5, <1>6, <1>7, <1>8, <1>10, <1>11, Before, QuietStep DEF Recorded

\* The end of a full index: the metadata gets the mtimes.
LEMMA EndTrackInv == ASSUME Inv, EndTrack PROVE Inv'
<1>1. /\ UNCHANGED <<files, index, up, mtimes, storm, open, snapshots>>
      /\ resolver.by = Op("batch", Absent) /\ resolver' = FreeResolver /\ meta' = mtimes
      /\ job' = [job EXCEPT !.pc = "attach"] /\ job \in Jobs
  BY DEF EndTrack, Resolved, FreeResolver, Inv, Types
<1>2. Types /\ job.pc = "resolve" /\ job.kind = "track" /\ Walked = {}
  BY <1>1 DEF Inv, Passes, Shape
<1>3. /\ job' \in Jobs /\ job'.kind = job.kind /\ job'.pc = "attach"
      /\ job'.walk = job.walk /\ job'.todo = job.todo /\ job'.gone = job.gone
  BY <1>1 DEF Jobs
<1>4. up
  BY <1>2, BatchUp
<1>5. UNCHANGED <<disk, missed, dirty, adrift, storm, open>>
  BY <1>1 DEF files, index
<1>6. WarmUp' = WarmUp /\ Walked' = {}
  BY <1>2, <1>3 DEF WarmUp, Walked
<1>7. Unstatted' \subseteq Unstatted /\ Excused' = Excused
  BY <1>2, <1>3, <1>5, <1>6 DEF Unstatted, Excused
<1>8. Shape' /\ Passes'
  BY <1>1, <1>2, <1>3, <1>4, <1>5, <1>6, Free DEF Inv, Shape, Passes, OnDisk, Walked
<1>9. QED
  BY <1>1, <1>2, <1>3, <1>4, <1>6, <1>7, <1>8, Free, BatchStep

\* The watcher is attached.
LEMMA AttachInv == ASSUME Inv, Attach PROVE Inv'
<1>1. /\ UNCHANGED <<files, index, up, mtimes, meta, storm, open, resolver, snapshots>>
      /\ job.pc = "attach" /\ job' = NoJob
  BY DEF Attach
<1>2. Walked = {} /\ up
  BY <1>1, BatchUp DEF Inv, Shape
<1>3. /\ job' \in Jobs /\ job'.kind = "none" /\ job'.pc = "none" /\ Walked' = {} /\ ~WarmUp'
      /\ job'.walk = {} /\ job'.gone = {} /\ job'.todo = {}
  BY <1>1 DEF Jobs, NoJob, WarmUp, Walked
<1>4. resolver \in Resolvers /\ UNCHANGED <<disk, missed, dirty, adrift, storm, open, resolver>>
  BY <1>1, Before DEF files, index
<1>5. Unstatted' \subseteq Unstatted /\ Excused' = Excused
  BY <1>2, <1>3, <1>4 DEF Unstatted, Excused
<1>6. Shape' /\ Passes'
  BY <1>1, <1>3, <1>4 DEF Inv, Shape, Passes
<1>7. QED
  BY <1>1, <1>2, <1>3, <1>4, <1>5, <1>6, BatchStep

-------------------------------------------------------------------------------
(* Snapshots, restarts, and the disk.                                        *)

\* A step that leaves all but the snapshots alone.
LEMMA SaveStep ==
    ASSUME Inv, UNCHANGED <<files, index, up, mtimes, meta, work>>, up,
           saving' \in Savings, snap' \in Snapshots,
           \A f \in Files : saving'.mtimes[f] <= edits + 1 /\ snap'.mtimes[f] <= edits + 1,
           saving'.pc # "idle" => Recorded(saving'.mtimes),
           saving'.pc = "edges" =>
              \A f \in Files \ saving'.adrift :
                 Current(disk, saving'.mtimes, f) => NodesRight(disk, saving'.nodes, f),
           \A f \in Files \ snap'.adrift :
              Current(disk, snap'.mtimes, f) =>
                 Right(disk, snap'.nodes, snap'.edges, snap'.cut, f)
    PROVE  Inv'
<1>1. UNCHANGED <<disk, edits, dirty, missed, adrift, cut, stranded, graph, doubled, up,
                  mtimes, meta, job, storm, open, resolver>>
  BY DEF files, index, work
<1>2. Types'
  BY <1>1 DEF Inv, Types
<1>3. Clock'
  BY <1>1 DEF Inv, Clock, OnDisk
<1>4. Stopped'
  BY <1>1 DEF Stopped
<1>5. Shape' /\ Passes'
  BY <1>1 DEF Inv, Shape, Passes, WarmUp, Walked, OnDisk
<1>6. Working' /\ Blank'
  BY <1>1 DEF Inv, Working, Blank, Excused, WarmUp, Walked, GraphRight, Unknown
<1>7. Trusted'
  BY <1>1 DEF Inv, Trusted, Recorded, GraphRight
<1>8. Opened'
  BY <1>1 DEF Inv, Opened, Unstatted, OnDisk, GraphRight
<1>9. Captured' /\ Stored'
  BY <1>1 DEF Captured, Stored
<1>10. Tracked' /\ Sound(graph, stranded \cup doubled)'
  BY <1>1 DEF Inv, Tracked, Sound
<1>11. QED
  BY <1>2, <1>3, <1>4, <1>5, <1>6, <1>7, <1>8, <1>9, <1>10 DEF Inv

\* The snapshot on disk and the one being written, before a step.
LEMMA Snaps ==
    ASSUME Inv
    PROVE  /\ saving \in Savings /\ snap \in Snapshots
           /\ \A f \in Files : saving.mtimes[f] <= edits + 1 /\ snap.mtimes[f] <= edits + 1
           /\ saving.pc # "idle" => Recorded(saving.mtimes)
           /\ \A f \in Files \ snap.adrift :
                 Current(disk, snap.mtimes, f) => Right(disk, snap.nodes, snap.edges, snap.cut, f)
BY DEF Inv, Types, Clock, Trusted, Stored

\* All mtimes zero, in a snapshot that is not being written.
LEMMA Nothing ==
    ASSUME Inv
    PROVE  /\ Zeros \in Mtimes /\ \A f \in Files : Zeros[f] = 0 /\ Zeros[f] <= edits + 1
           /\ NotSaving \in Savings /\ NotSaving.pc = "idle" /\ NotSaving.mtimes = Zeros
           /\ Recorded(Zeros)
<1>1. /\ Zeros \in Mtimes /\ \A f \in Files : Zeros[f] = 0 /\ Zeros[f] <= edits + 1
  BY BoundsAssumption DEF Zeros, Mtimes, Inv, Types
<1>2. Recorded(Zeros)
  BY <1>1 DEF Inv, Clock, Recorded, Current, OnDisk
<1>3. QED
  BY <1>1, <1>2 DEF NotSaving, Savings

LEMMA StartSaveInv == ASSUME Inv, StartSave PROVE Inv'
<1>1. /\ up /\ snap' = snap /\ UNCHANGED <<files, index, up, mtimes, meta, work>>
      /\ saving' = [pc |-> "nodes", mtimes |-> meta, nodes |-> {}, adrift |-> {}]
  BY DEF StartSave, NotSaving
<1>2. /\ saving' \in Savings /\ saving'.mtimes = meta /\ saving'.pc = "nodes"
  BY <1>1, Before DEF Savings
<1>3. QED
  BY <1>1, <1>2, Before, Snaps, SaveStep

LEMMA SaveNodesInv == ASSUME Inv, SaveNodes PROVE Inv'
<1>1. /\ snap' = snap /\ UNCHANGED <<files, index, up, mtimes, meta, work>> /\ saving.pc = "nodes"
      /\ saving' = [saving EXCEPT !.pc = "edges", !.nodes = graph.nodes, !.adrift = adrift]
      /\ up /\ graph.nodes \in SUBSET Node /\ adrift \in SUBSET Files
  BY DEF SaveNodes, Inv, Stopped, Types, Graph
<1>2. /\ saving' \in Savings /\ saving'.mtimes = saving.mtimes /\ saving'.pc = "edges"
      /\ saving'.nodes = graph.nodes /\ saving'.adrift = adrift
  BY <1>1, Snaps DEF Savings
<1>3. \A f \in Files \ adrift :
         Current(disk, saving.mtimes, f) => NodesRight(disk, graph.nodes, f)
  BY <1>1, Snaps DEF Recorded, GraphRight, Right
<1>4. QED
  BY <1>1, <1>2, <1>3, Snaps, SaveStep

LEMMA SaveEdgesInv == ASSUME Inv, SaveEdges PROVE Inv'
<1>1. /\ UNCHANGED <<files, index, up, mtimes, meta, work>> /\ saving.pc = "edges"
      /\ saving' = NotSaving
      /\ snap' = [mtimes |-> saving.mtimes, nodes |-> saving.nodes, edges |-> graph.edges,
                  cut |-> cut, adrift |-> saving.adrift \cup adrift]
      /\ up /\ graph \in Graph /\ adrift \in SUBSET Files /\ cut \in SUBSET CallId
  BY DEF SaveEdges, Inv, Stopped, Types
<1>2. snap' \in Snapshots
  BY <1>1, Snaps DEF Snapshots, Savings, Graph
<1>3. ASSUME NEW f \in Files \ (saving.adrift \cup adrift), Current(disk, saving.mtimes, f)
      PROVE  Right(disk, saving.nodes, graph.edges, cut, f)
  <2>1. NodesRight(disk, saving.nodes, f)
    BY <1>1, <1>3 DEF Inv, Captured
  <2>2. GraphRight(f)
    BY <1>1, <1>3, Snaps DEF Recorded
  <2>3. QED
    BY <2>1, <2>2 DEF GraphRight, Right
<1>4. \A f \in Files \ snap'.adrift :
         Current(disk, snap'.mtimes, f) => Right(disk, snap'.nodes, snap'.edges, snap'.cut, f)
  BY <1>1, <1>3
<1>5. /\ saving' \in Savings /\ saving'.pc = "idle"
      /\ \A f \in Files : saving'.mtimes[f] <= edits + 1 /\ snap'.mtimes[f] <= edits + 1
  BY <1>1, Nothing, Snaps
<1>6. QED
  BY <1>1, <1>2, <1>4, <1>5, SaveStep

\* A daemon that goes down leaves what is on disk.
LEMMA DownStep ==
    ASSUME Inv, Down, saving' \in Savings, saving'.pc = "idle", snap' \in Snapshots,
           \A f \in Files : saving'.mtimes[f] <= edits + 1 /\ snap'.mtimes[f] <= edits + 1,
           \A f \in Files \ snap'.adrift :
              Current(disk, snap'.mtimes, f) =>
                 Right(disk, snap'.nodes, snap'.edges, snap'.cut, f)
    PROVE  Inv'
<1>1. /\ disk' = disk /\ edits' = edits /\ up' = FALSE
      /\ dirty' = {} /\ missed' = {} /\ adrift' = {} /\ cut' = {} /\ stranded' = {}
      /\ graph' = [nodes |-> {}, edges |-> {}] /\ doubled' = {}
      /\ mtimes' = Zeros /\ meta' = Zeros
      /\ job' = NoJob /\ storm' = NoStorm /\ open' = {} /\ resolver' = FreeResolver
  BY DEF Down
<1>2. /\ NoJob \in Jobs /\ NoJob.kind = "none" /\ NoJob.pc = "none"
      /\ NoJob.walk = {} /\ NoJob.gone = {} /\ NoJob.todo = {}
      /\ NoStorm \in Storms /\ NoStorm.todo = {} /\ ~NoStorm.on
  BY DEF NoJob, Jobs, NoStorm, Storms
<1>3. Types /\ graph' \in Graph
  BY <1>1 DEF Inv, Graph
<1>4. Types'
  BY <1>1, <1>2, <1>3, Nothing, Free DEF Types
<1>5. Clock'
  BY <1>1, Nothing DEF Inv, Clock, OnDisk
<1>6. Stopped'
  BY <1>1 DEF Stopped
<1>7. ~WarmUp' /\ Walked' = {}
  BY <1>1, <1>2 DEF WarmUp, Walked
<1>8. Shape' /\ Passes'
  BY <1>1, <1>2, <1>3, <1>7, Free DEF Shape, Passes
<1>9. Working' /\ Blank'
  BY <1>1, <1>2, <1>7 DEF Working, Blank
<1>10. \A f \in Files : ~Current(disk, Zeros, f)
  BY Nothing DEF Inv, Clock, Current, OnDisk
<1>11. Trusted'
  BY <1>1, <1>10 DEF Trusted, Recorded
<1>12. Opened'
  BY <1>1, <1>2 DEF Opened, Unstatted
<1>13. Captured' /\ Stored'
  BY <1>1 DEF Captured, Stored
<1>14. Tracked' /\ Sound(graph, stranded \cup doubled)'
  BY <1>1, <1>3, Free DEF Tracked, Sound
<1>15. QED
  BY <1>4, <1>5, <1>6, <1>8, <1>9, <1>11, <1>12, <1>13, <1>14 DEF Inv

LEMMA StopInv == ASSUME Inv, Stop PROVE Inv'
<1>1. /\ Down /\ saving.pc = "idle" /\ saving' = saving
      /\ snap' = [mtimes |-> meta, nodes |-> graph.nodes, edges |-> graph.edges, cut |-> cut,
                  adrift |-> adrift]
      /\ graph \in Graph /\ adrift \in SUBSET Files /\ cut \in SUBSET CallId
  BY DEF Stop, Inv, Types
<1>2. snap' \in Snapshots
  BY <1>1, Before DEF Snapshots, Graph
<1>3. \A f \in Files \ snap'.adrift :
         Current(disk, snap'.mtimes, f) => Right(disk, snap'.nodes, snap'.edges, snap'.cut, f)
  BY <1>1, Before DEF Recorded, GraphRight
<1>4. \A f \in Files : saving'.mtimes[f] <= edits + 1 /\ snap'.mtimes[f] <= edits + 1
  BY <1>1, Before, Snaps
<1>5. QED
  BY <1>1, <1>2, <1>3, <1>4, Snaps, DownStep

LEMMA CrashInv == ASSUME Inv, Crash PROVE Inv'
<1>1. Down /\ saving' = NotSaving /\ snap' = snap
  BY DEF Crash
<1>2. QED
  BY <1>1, Nothing, Snaps, DownStep

\* The calls that are cut after a start.
CutByLoad == snap.cut \cup {Call(e) : e \in snap.edges \ Loaded.edges}

\* loadSnapshot leaves of a file its nodes and edges, or cuts the call.
LEMMA LoadedParts ==
    ASSUME Inv, NEW f \in Files
    PROVE  /\ Right(disk, snap.nodes, snap.edges, snap.cut, f) =>
                  Right(disk, Loaded.nodes, Loaded.edges, CutByLoad, f)
           /\ (\A n \in snap.nodes : n.file # f) => Unknown(Loaded, f)
<1>1. snap.nodes \in SUBSET Node /\ snap.edges \in SUBSET Edge /\ snap.cut \in SUBSET CallId
  BY Snaps DEF Snapshots
<1>2. /\ Loaded.nodes = snap.nodes
      /\ \A e : e \in Loaded.edges <=>
            e \in snap.edges /\ [file |-> e.file, name |-> Absent] \in snap.nodes
                             /\ Target(e) \in snap.nodes
      /\ Loaded = [nodes |-> Loaded.nodes, edges |-> Loaded.edges]
  BY DEF Loaded
<1>3. ASSUME Right(disk, snap.nodes, snap.edges, snap.cut, f)
      PROVE  Right(disk, Loaded.nodes, Loaded.edges, CutByLoad, f)
  <2>1. NodesRight(disk, Loaded.nodes, f) /\ EdgesRight(disk, Loaded.edges, f)
    BY <1>2, <1>3 DEF Right, NodesRight, EdgesRight
  <2>2. ASSUME NEW s \in Names, \E e \in snap.edges : e.file = f /\ e.name = s
        PROVE  \/ [file |-> f, name |-> s, at |-> Absent] \in CutByLoad
               \/ \E e \in Loaded.edges : e.file = f /\ e.name = s
    <3>1. PICK e \in snap.edges : e.file = f /\ e.name = s
      BY <2>2
    <3>2. Call(e) = [file |-> f, name |-> s, at |-> Absent]
      BY <1>1, <3>1, EdgeParts
    <3>3. QED
      BY <3>1, <3>2 DEF CutByLoad
  <2>3. snap.cut \subseteq CutByLoad
    BY DEF CutByLoad
  <2>4. CallsRight(disk, Loaded.edges, CutByLoad, f)
    BY <1>3, <2>2, <2>3 DEF Right, CallsRight
  <2>5. QED
    BY <2>1, <2>4 DEF Right
<1>4. (\A n \in snap.nodes : n.file # f) => Unknown(Loaded, f)
  <2> SUFFICES ASSUME \A n \in snap.nodes : n.file # f, NEW e \in Loaded.edges, e.file = f
               PROVE  FALSE
    BY <1>2 DEF Unknown
  <2> DEFINE n == [file |-> e.file, name |-> Absent]
  <2>1. n \in snap.nodes /\ n.file = f
    BY <1>2
  <2>2. QED
    BY <2>1
<1>5. QED
  BY <1>3, <1>4

\* What it loads is a graph without dangling edges.
LEMMA LoadedGraph ==
    ASSUME Inv PROVE Loaded \in Graph /\ CutByLoad \in SUBSET CallId /\ Sound(Loaded, {})
<1>1. snap.nodes \in SUBSET Node /\ snap.edges \in SUBSET Edge /\ snap.cut \in SUBSET CallId
  BY Snaps DEF Snapshots
<1>2. CutByLoad \in SUBSET CallId
  BY <1>1, EdgeParts DEF CutByLoad
<1>3. /\ Loaded = [nodes |-> Loaded.nodes, edges |-> Loaded.edges]
      /\ Loaded.nodes = snap.nodes /\ Loaded.edges \in SUBSET snap.edges
      /\ \A e \in Loaded.edges : Target(e) \in Loaded.nodes
  BY DEF Loaded
<1>4. Loaded \in Graph /\ Sound(Loaded, {})
  BY <1>1, <1>3 DEF Graph, Sound
<1>5. QED
  BY <1>2, <1>4

\* A start: every file is to be worked on, and the snapshot's mtimes are trusted.
LEMMA StartInv == ASSUME Inv, Start PROVE Inv'
<1> DEFINE A == snap.adrift \cup {f \in Files : snap.mtimes[f] = 0 /\ \E n \in snap.nodes : n.file = f}
<1>1. /\ UNCHANGED <<disk, edits, dirty, missed, stranded, doubled, meta, storm, open,
                     resolver, saving, snap>>
      /\ ~up /\ up' = TRUE /\ cut' = CutByLoad /\ adrift' = A /\ graph' = Loaded /\ mtimes' = snap.mtimes
      /\ job' = [kind |-> IF snap.mtimes = Zeros THEN "track" ELSE "boot",
                 pc |-> "walk", walk |-> Files, gone |-> {}, todo |-> {}]
  BY DEF Start, NoJob, CutByLoad, files, snapshots
<1>2. /\ dirty = {} /\ missed = {} /\ stranded = {} /\ doubled = {} /\ meta = Zeros
      /\ storm = NoStorm /\ open = {} /\ resolver = FreeResolver /\ saving.pc = "idle"
  BY <1>1 DEF Inv, Stopped
<1>3. /\ job' \in Jobs /\ job'.kind = IF snap.mtimes = Zeros THEN "track" ELSE "boot"
      /\ job'.pc = "walk" /\ job'.walk = Files /\ job'.gone = {} /\ job'.todo = {}
  BY <1>1 DEF Jobs
<1>4. snap \in Snapshots /\ A \in SUBSET Files /\ snap.mtimes \in Mtimes /\ Types
  BY Snaps DEF Snapshots, Inv
<1>5. Loaded \in Graph /\ CutByLoad \in SUBSET CallId /\ Sound(Loaded, {})
  BY LoadedGraph
<1>6. \A f \in Files : Right(disk, snap.nodes, snap.edges, snap.cut, f) =>
                          Right(disk, Loaded.nodes, Loaded.edges, CutByLoad, f)
  BY LoadedParts
<1>7. \A f \in Files : (\A n \in snap.nodes : n.file # f) => Unknown(Loaded, f)
  BY LoadedParts
<1> HIDE DEF A
<1>8. Types'
  BY <1>1, <1>3, <1>4, <1>5 DEF Types
<1>9. Clock'
  BY <1>1 DEF Inv, Clock, OnDisk
<1>10. Stopped'
  BY <1>1 DEF Stopped
<1>11. WarmUp' /\ Walked' = Files
  BY <1>3 DEF WarmUp, Walked
<1>12. Shape' /\ Passes'
  BY <1>1, <1>2, <1>3, <1>4, <1>11, Free DEF Shape, Passes
<1>13. Working'
  BY <1>11 DEF Working, Excused
<1>14. Blank'
  <2>1. ASSUME NEW f \in Files \ A, snap.mtimes[f] = 0 PROVE Unknown(Loaded, f)
    BY <1>7, <2>1 DEF A
  <2>2. QED
    BY <1>1, <1>3, <1>11, <2>1 DEF Blank
<1>15. Trusted'
  <2>1. ASSUME NEW f \in Files \ A, Current(disk, snap.mtimes, f)
        PROVE  Right(disk, Loaded.nodes, Loaded.edges, CutByLoad, f)
    BY <1>6, <2>1, Snaps DEF A
  <2>2. Recorded(mtimes)'
    BY <1>1, <2>1 DEF Recorded, GraphRight
  <2>3. \A f \in Files : ~Current(disk, Zeros, f)
    BY Nothing DEF Inv, Clock, Current, OnDisk
  <2>4. Recorded(meta)'
    BY <1>1, <1>2, <2>3 DEF Recorded
  <2>5. QED
    BY <1>1, <1>2, <2>2, <2>4 DEF Trusted
<1>16. Opened'
  BY <1>1, <1>2, <1>3 DEF Opened, Unstatted
<1>17. Captured' /\ Stored'
  BY <1>1, <1>2 DEF Inv, Captured, Stored
<1>18. Tracked' /\ Sound(graph, stranded \cup doubled)'
  BY <1>1, <1>2, <1>4, <1>5, Free DEF Tracked, Sound
<1>19. QED
  BY <1>8, <1>9, <1>10, <1>12, <1>13, <1>14, <1>15, <1>16, <1>17, <1>18 DEF Inv

\* A change of the file system is heard of, or missed, and outdates every mtime.
LEMMA ChangeInv ==
    ASSUME Inv, NEW f \in Files, NEW c \in Contents \cup {Absent}, Change(f, c)
    PROVE  Inv'
<1> DEFINE v == [content |-> c, mtime |-> IF c = Absent THEN 0 ELSE edits + 2]
<1>1. /\ UNCHANGED <<cut, stranded, up, graph, doubled, mtimes, meta, job, storm, open,
                     resolver, saving, snap>>
      /\ edits' = edits + 1 /\ disk' = [disk EXCEPT ![f] = v]
      /\ edits \in 0 .. MaxEdits /\ edits < MaxEdits /\ disk \in Disk
      /\ dirty' = IF Watching THEN dirty \cup {f} ELSE dirty
      /\ missed' = IF up /\ ~Watching THEN missed \cup {f} ELSE missed
      /\ adrift' = IF c # Absent /\ f \in Unstatted THEN adrift \cup {f} ELSE adrift
  BY DEF Change, Inv, Types, work, snapshots
<1>2. /\ v \in [content : Contents \cup {Absent}, mtime : 0 .. MaxEdits + 1]
      /\ v.content = c /\ v.mtime = IF c = Absent THEN 0 ELSE edits + 2
  BY <1>1, BoundsAssumption
<1> HIDE DEF v
<1>3. disk' \in Disk /\ disk'[f] = v /\ \A x \in Files \ {f} : disk'[x] = disk[x]
  BY <1>1, <1>2 DEF Disk
<1>4. /\ missed \subseteq missed' /\ missed' \in SUBSET Files
      /\ dirty \subseteq dirty' /\ dirty' \in SUBSET Files
      /\ adrift \subseteq adrift' /\ adrift' \in SUBSET Files
      /\ up => f \in missed' \cup dirty'
  BY <1>1 DEF Inv, Types
<1>5. Types'
  BY <1>1, <1>3, <1>4, BoundsAssumption DEF Inv, Types
<1>6. /\ mtimes \in Mtimes /\ meta \in Mtimes /\ saving.mtimes \in Mtimes /\ snap.mtimes \in Mtimes
      /\ \A x \in Files : disk[x].mtime \in Nat
  BY <1>1, BoundsAssumption DEF Inv, Types, Disk, Savings, Snapshots
<1>7. \A x \in Files : /\ OnDisk(x) => disk[x].mtime > 0
                       /\ disk[x].mtime <= edits + 1 /\ mtimes[x] <= edits + 1
                       /\ meta[x] <= edits + 1 /\ saving.mtimes[x] <= edits + 1
                       /\ snap.mtimes[x] <= edits + 1
  BY DEF Inv, Clock
<1>8. Clock'
  BY <1>1, <1>2, <1>3, <1>6, <1>7 DEF Clock, OnDisk, Mtimes
<1>9. /\ ~Current(disk', mtimes, f) /\ ~Current(disk', meta, f)
      /\ ~Current(disk', saving.mtimes, f) /\ ~Current(disk', snap.mtimes, f)
  BY <1>1, <1>2, <1>3, <1>6, <1>7 DEF Current, Mtimes
<1>10. ASSUME NEW x \in Files \ {f}
       PROVE  /\ \A m : Current(disk', m, x) <=> Current(disk, m, x)
              /\ \A N, E, C : Right(disk, N, E, C, x) <=> Right(disk', N, E, C, x)
              /\ \A N : NodesRight(disk, N, x) <=> NodesRight(disk', N, x)
              /\ GraphRight(x) => GraphRight(x)'
  <2>1. \A N : NodesRight(disk, N, x) <=> NodesRight(disk', N, x)
    BY <1>3 DEF NodesRight, Defines
  <2>2. \A N, E, C : Right(disk, N, E, C, x) <=> Right(disk', N, E, C, x)
    BY <1>3 DEF Right, NodesRight, EdgesRight, CallsRight, Defines, Makes
  <2>3. \A m : Current(disk', m, x) <=> Current(disk, m, x)
    BY <1>3 DEF Current
  <2>4. QED
    BY <1>1, <2>1, <2>2, <2>3 DEF GraphRight
<1>11. /\ WarmUp' = WarmUp /\ Walked' = Walked /\ Unstatted' = Unstatted
       /\ Walked \subseteq Files /\ Unstatted \subseteq Files /\ job.gone \subseteq Files
  BY <1>1 DEF WarmUp, Walked, Unstatted, Inv, Types, Jobs, Ops
<1>12. Stopped' /\ Passes'
  BY <1>1 DEF Inv, Stopped, Passes, Watching
<1>13. Shape'
  <2>1. ASSUME WarmUp PROVE dirty' = {} /\ f \in missed'
    BY <1>1, <2>1 DEF Inv, Shape, WarmUp, Watching
  <2>2. ASSUME WarmUp, NEW x \in job.gone, disk'[x].content # Absent PROVE x \in missed'
    <3>1. CASE x = f
      BY <2>1, <2>2, <3>1
    <3>2. CASE x # f
      BY <1>3, <1>4, <1>11, <2>2, <3>2 DEF Inv, Shape, OnDisk
    <3>3. QED
      BY <3>1, <3>2
  <2>3. QED
    BY <1>1, <1>11, <2>1, <2>2 DEF Inv, Shape, OnDisk
<1>14. Working'
  <2> SUFFICES ASSUME up, NEW x \in Files \ Excused' PROVE GraphRight(x)'
    BY <1>1 DEF Working
  <2>1. x # f /\ x \notin Excused
    BY <1>1, <1>4, <1>11 DEF Excused
  <2>2. QED
    BY <1>10, <2>1 DEF Inv, Working
<1>15. Blank'
  BY <1>1, <1>4, <1>11 DEF Inv, Blank
<1>16. Trusted'
  <2>1. ASSUME NEW m, Recorded(m), ~Current(disk', m, f), NEW x \in Files \ adrift',
               Current(disk', m, x)
        PROVE  GraphRight(x)'
    <3>1. x # f /\ x \notin adrift
      BY <1>4, <2>1
    <3>2. GraphRight(x)
      BY <1>10, <2>1, <3>1 DEF Recorded
    <3>3. QED
      BY <1>10, <3>1, <3>2
  <2>2. Recorded(mtimes)' /\ Recorded(meta)' /\ (saving.pc # "idle" => Recorded(saving.mtimes)')
    BY <1>1, <1>9, <2>1 DEF Inv, Trusted, Recorded
  <2>3. QED
    BY <1>1, <2>2 DEF Trusted
<1>17. Opened'
  <2> SUFFICES ASSUME NEW x \in Unstatted, x \notin adrift', disk'[x].content # Absent
               PROVE  GraphRight(x)'
    BY <1>11 DEF Opened, OnDisk
  <2>1. x # f
    BY <1>1, <1>2, <1>3
  <2>2. OnDisk(x) /\ x \notin adrift /\ x \in Files
    BY <1>3, <1>4, <1>11, <2>1 DEF OnDisk
  <2>3. QED
    BY <1>10, <2>1, <2>2 DEF Inv, Opened
<1>18. Captured'
  <2> SUFFICES ASSUME saving.pc = "edges", NEW x \in Files \ saving.adrift,
                      Current(disk', saving.mtimes, x)
               PROVE  NodesRight(disk', saving.nodes, x)
    BY <1>1 DEF Captured
  <2>1. x # f
    BY <1>9
  <2>2. QED
    BY <1>10, <2>1 DEF Inv, Captured
<1>19. Stored'
  <2> SUFFICES ASSUME NEW x \in Files \ snap.adrift, Current(disk', snap.mtimes, x)
               PROVE  Right(disk', snap.nodes, snap.edges, snap.cut, x)
    BY <1>1 DEF Stored
  <2>1. x # f
    BY <1>9
  <2>2. QED
    BY <1>10, <2>1 DEF Inv, Stored
<1>20. Tracked' /\ Sound(graph, stranded \cup doubled)'
  BY <1>1 DEF Inv, Tracked, Sound
<1>21. QED
  BY <1>5, <1>8, <1>12, <1>13, <1>14, <1>15, <1>16, <1>17, <1>18, <1>19, <1>20 DEF Inv

\* The daemon has not started yet.
LEMMA InvInit == Init => Inv
<1> SUFFICES ASSUME Init PROVE Inv
  OBVIOUS
<1>1. \A f \in Files :
        /\ [content |-> InitDisk[f], mtime |-> IF InitDisk[f] = Absent THEN 0 ELSE 1]
              \in [content : Contents \cup {Absent}, mtime : 0 .. MaxEdits + 1]
        /\ disk[f].content = InitDisk[f]
        /\ disk[f].mtime = IF InitDisk[f] = Absent THEN 0 ELSE 1
  BY ContentsAssumption, BoundsAssumption DEF Init
<1>2. disk \in Disk
  BY <1>1 DEF Init, Disk
<1>3. /\ edits = 0 /\ dirty = {} /\ missed = {} /\ adrift = {} /\ cut = {} /\ stranded = {}
      /\ up = FALSE /\ graph = [nodes |-> {}, edges |-> {}] /\ doubled = {}
      /\ mtimes = Zeros /\ meta = Zeros /\ job = NoJob /\ storm = NoStorm /\ open = {}
      /\ resolver = FreeResolver /\ saving = NotSaving /\ snap = NoSnapshot
  BY DEF Init
<1>4. /\ Zeros \in Mtimes /\ \A f \in Files : Zeros[f] = 0
      /\ NoJob \in Jobs /\ NoJob.kind = "none" /\ NoJob.pc = "none"
      /\ NoJob.walk = {} /\ NoJob.gone = {} /\ NoJob.todo = {}
      /\ NoStorm \in Storms /\ NoStorm.todo = {} /\ graph \in Graph
      /\ FreeResolver \in Resolvers /\ FreeResolver.moving = NoEdge
      /\ FreeResolver.by # Op("storm", Absent) /\ FreeResolver.by # Op("batch", Absent)
  BY <1>3, BoundsAssumption
  DEF Zeros, Mtimes, NoJob, Jobs, NoStorm, Storms, Graph, FreeResolver, Resolvers, NoEdge, Op
<1>5. /\ NotSaving \in Savings /\ NotSaving.pc = "idle" /\ NotSaving.mtimes = Zeros
      /\ NoSnapshot \in Snapshots /\ NoSnapshot.mtimes = Zeros
  BY <1>4 DEF NotSaving, Savings, NoSnapshot, Snapshots
<1>6. Types
  <2>1. disk \in Disk /\ edits \in 0 .. MaxEdits
    BY <1>2, <1>3, BoundsAssumption
  <2>5. up \in BOOLEAN
    BY DEF Init
  <2>2. /\ dirty \in SUBSET Files /\ missed \in SUBSET Files /\ adrift \in SUBSET Files
        /\ cut \in SUBSET CallId /\ open \in SUBSET Ops
    BY <1>3
  <2>3. /\ graph \in Graph /\ mtimes \in Mtimes /\ meta \in Mtimes /\ job \in Jobs
        /\ storm \in Storms /\ resolver \in Resolvers
    BY <1>3, <1>4
  <2>4. saving \in Savings /\ snap \in Snapshots
    BY <1>3, <1>5
  <2>6. QED
    BY <2>1, <2>2, <2>3, <2>4, <2>5 DEF Types
<1>7. Clock
  BY <1>1, <1>3, <1>4, <1>5 DEF Clock, OnDisk
<1>8. \A f \in Files : ~Current(disk, Zeros, f)
  BY <1>1, <1>4 DEF Current
<1>9. Stopped /\ Shape /\ Passes /\ Working /\ Blank
  BY <1>3, <1>4, <1>5 DEF Stopped, Shape, Passes, Working, Blank, WarmUp, Walked
<1>10. Trusted /\ Captured /\ Stored
  BY <1>3, <1>5, <1>8 DEF Trusted, Recorded, Captured, Stored
<1>11. Opened /\ Tracked /\ Sound(graph, stranded \cup doubled)
  BY <1>3, <1>4 DEF Opened, Unstatted, Tracked, Sound
<1>12. QED
  BY <1>6, <1>7, <1>9, <1>10, <1>11 DEF Inv

LEMMA Inductive == Spec => []Inv
<1>1. Inv /\ [Next]_vars => Inv'
  <2> SUFFICES ASSUME Inv, [Next]_vars PROVE Inv'
    OBVIOUS
  <2>1. ASSUME NEW f \in Files, NEW c \in Contents \cup {Absent}, Change(f, c) PROVE Inv'
    BY <2>1, ChangeInv
  <2>2. ASSUME NEW f \in Files, NEW ok \in BOOLEAN,
               PatchFile(f, ok) \/ StormFile(f, ok) \/ ReindexFile(f, ok) \/ TrackFile(f, ok)
        PROVE  Inv'
    BY <2>2, PatchWorks, StormWorks, ReindexWorks, TrackWorks, WorksOnInv
  <2>3. ASSUME NEW f \in Files, StormStat(f) \/ WalkFile(f) \/ PurgeFile(f) PROVE Inv'
    BY <2>3, StormStatInv, WalkFileInv, PurgeWorks, WorksOnInv
  <2>4. CASE StartStorm \/ EndStorm \/ StartJanitor \/ ScanDeleted \/ EndReindex
    BY <2>4, StartStormInv, EndStormInv, StartJanitorInv, ScanDeletedInv, EndReindexInv
  <2>5. CASE TrackStat \/ EndTrack \/ Attach
    BY <2>5, TrackStatInv, EndTrackInv, AttachInv
  <2>6. ASSUME NEW o \in Waiting, StartResolve(o) PROVE Inv'
    BY <2>6, StartResolveInv
  <2>7. ASSUME NEW e \in resolver.edges, Lookup(e) PROVE Inv'
    BY <2>7, LookupInv
  <2>8. CASE ReindexEdge
    BY <2>8, ReindexEdgeInv
  <2>9. ASSUME NEW o \in open, EndIndexFile(o) PROVE Inv'
    BY <2>9, EndIndexFileInv
  <2>10. CASE StartSave \/ SaveNodes \/ SaveEdges
    BY <2>10, StartSaveInv, SaveNodesInv, SaveEdgesInv
  <2>11. CASE Stop \/ Crash \/ Start
    BY <2>11, StopInv, CrashInv, StartInv
  <2>12. CASE UNCHANGED vars
    <3>1. UNCHANGED <<files, index, up, mtimes, meta, work, saving, snap, disk, edits, dirty,
                      missed, adrift, cut, stranded, graph, doubled, job, storm, open, resolver>>
      BY <2>12 DEF vars, files, index, work, snapshots
    <3>2. up => Inv'
      BY <3>1, Snaps, SaveStep DEF Inv, Captured
    <3>3. ~up => Inv'
      BY <3>1 DEF Inv, Types, Clock, Stopped, Shape, Passes, Working, Blank, Trusted, Recorded,
                  Opened, Captured, Stored, Tracked, Sound, WarmUp, Walked, Unstatted, OnDisk,
                  GraphRight
    <3>4. QED
      BY <3>2, <3>3
  <2>13. QED
    BY <2>1, <2>2, <2>3, <2>4, <2>5, <2>6, <2>7, <2>8, <2>9, <2>10, <2>11, <2>12 DEF Next
<1>2. QED
  BY <1>1, InvInit, PTL DEF Spec

-------------------------------------------------------------------------------

\* The variables keep their types.
THEOREM TypeCorrect == Spec => []TypeOK
<1>1. Inv => TypeOK
  <2> SUFFICES ASSUME Inv PROVE TypeOK
    OBVIOUS
  <2>1. /\ resolver.moving \in graph.edges \cup {NoEdge}
        /\ doubled \subseteq graph.edges /\ stranded \subseteq graph.edges
    BY DEF Inv, Tracked
  <2>2. QED
    BY <2>1 DEF Inv, Types, TypeOK, Disk, Mtimes, Graph, Node, Edge, CallId, Jobs, Storms, Ops
<1>2. QED
  BY <1>1, Inductive, PTL

\* No edge leads to a node that is not in the graph, but for one whose target was
\* evicted between the resolver's lookup and ReindexEdge, and one that a full
\* index on a loaded graph has entered twice (EvictFile, resolveEdge, ReindexEdge,
\* loadSnapshot).
THEOREM NothingDangles == Spec => []NoDanglingEdges
<1>1. Inv => NoDanglingEdges
  BY DEF Inv, Sound, NoDanglingEdges
<1>2. QED
  BY <1>1, Inductive, PTL

\* At rest a file that is not excused is right.
LEMMA RightAtRest ==
    ASSUME Inv, AtRest, NEW f \in Files \ (missed \cup adrift)
    PROVE  GraphRight(f)
<1>1. up /\ dirty = {} /\ storm.todo = {} /\ ~WarmUp
  BY DEF AtRest, NoJob, NoStorm, WarmUp
<1>2. f \notin Excused
  BY <1>1 DEF Excused
<1>3. QED
  BY <1>1, <1>2 DEF Inv, Working
\* At rest the graph has a node for every definition on disk, and no other,
\* through patches, storms, reindexing, snapshots, stops and crashes
\* (IncrementalReindex, saveSnapshot).
THEOREM NodesRightAtRest == Spec => []NodesMatchDisk
<1>1. Inv => NodesMatchDisk
  <2> SUFFICES ASSUME Inv, AtRest, NEW f \in Files \ (missed \cup adrift) PROVE InStep(f)
    BY DEF NodesMatchDisk
  <2>1. NodesRight(disk, graph.nodes, f)
    BY RightAtRest DEF GraphRight, Right
  <2>2. Types /\ graph.nodes \in SUBSET Node
    BY DEF Inv, Types, Disk, Graph
  <2>3. \A n : n \in graph.nodes /\ n.file = f <=> n \in Definitions /\ n.file = f
    BY <2>1, <2>2, DefinitionsAndCalls DEF NodesRight
  <2>4. QED
    BY <2>3 DEF InStep
<1>2. QED
  BY <1>1, Inductive, PTL

\* At rest every edge is a call that its file makes: no edge of an older version
\* of a file survives, in the graph or by way of a snapshot.
THEOREM EdgesRightAtRest == Spec => []EdgesAreCalls
<1>1. Inv => EdgesAreCalls
  <2> SUFFICES ASSUME Inv, AtRest, NEW e \in graph.edges, e.file \notin missed \cup adrift
               PROVE  Call(e) \in Calls
    BY DEF EdgesAreCalls
  <2>1. e \in Edge /\ Types
    BY DEF Inv, Types, Disk, Graph
  <2>2. /\ e.file \in Files /\ Call(e) \in CallId
        /\ Call(e) = [file |-> e.file, name |-> e.name, at |-> Absent]
    BY <2>1, EdgeParts
  <2>3. Makes(disk, e.file, e.name)
    BY <2>2, RightAtRest DEF GraphRight, Right, EdgesRight
  <2>4. QED
    BY <2>1, <2>2, <2>3, DefinitionsAndCalls
<1>2. QED
  BY <1>1, Inductive, PTL

\* At rest every call on disk has its edge, but for those that went with the
\* file they led to or were pruned by the loader (EvictFile, loadSnapshot).
THEOREM CallsRightAtRest == Spec => []CallsKeptUnlessCut
<1>1. Inv => CallsKeptUnlessCut
  <2> SUFFICES ASSUME Inv, AtRest, NEW c \in Calls \ cut, c.file \notin missed \cup adrift
               PROVE  \E e \in graph.edges : Call(e) = c
    BY DEF CallsKeptUnlessCut
  <2>1. Types /\ graph.edges \in SUBSET Edge
    BY DEF Inv, Types, Disk, Graph
  <2>2. c \in CallId /\ Makes(disk, c.file, c.name)
    BY <2>1, DefinitionsAndCalls
  <2>3. c = [file |-> c.file, name |-> c.name, at |-> Absent] /\ c.file \in Files /\ c.name \in Names
    BY <2>2 DEF CallId
  <2>4. CallsRight(disk, graph.edges, cut, c.file)
    BY <2>3, RightAtRest DEF GraphRight, Right
  <2>5. PICK e \in graph.edges : e.file = c.file /\ e.name = c.name
    BY <2>2, <2>3, <2>4 DEF CallsRight
  <2>6. Call(e) = c
    BY <2>1, <2>3, <2>5, EdgeParts
  <2>7. QED
    BY <2>6
<1>2. QED
  BY <1>1, Inductive, PTL
===============================================================================
