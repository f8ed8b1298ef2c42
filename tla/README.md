# Gortex: a verification project

Gortex is a code-intelligence engine written in Go. It parses the files of one or
more repositories into an in-memory graph (nodes: files, functions, types, ...;
edges: calls, imports, references, ...), keeps that graph in step with the file
system, and answers queries of coding agents, usually from a long-lived daemon.

This directory holds TLA+ models of the parts that carry the system's own logic and
are hard to test, TLC configurations that check them on small instances, and TLAPS
proofs. `PROJECT.json` lists runs, mutants, the map from definitions to source
lines, findings, hazards and theorems.

## The system

| component | state | operations | what is hard |
|---|---|---|---|
| graph, shards (`internal/graph/graph.go`) | 16 shards, each with an RWMutex | every method locks one, two, three or all shards | lock order, writer preference, coverage of what a body touches |
| graph, buckets | slices with a position sidecar | insert-or-replace, swap-with-last removal | a wrong position surfaces many calls later |
| graph, adjacency | `outEdges`, `inEdges`, shared edge pointers | AddEdge, RemoveEdge, ReindexEdge, evictEdgesLocked | two lists must agree; identities change through a pointer |
| graph, node indexes | `nodes`, `byFile`, `byName`, `byRepo`, `byQual` | AddNode, EvictFile, EvictRepo | replacement under other keys; one-to-one `byQual` |
| resolver (`internal/resolver`) | the graph-wide resolve mutex | ResolveAll, ResolveFile, cross-repo passes | writes `e.To` outside the shard locks |
| watcher (`internal/indexer/watcher.go`) | pending timers, storm batch | handleEvent, timer callbacks, drainStorm | goroutines on one path, cancelled timers, late drains |
| indexer (`internal/indexer/indexer.go`) | `fileMtimes` | indexFile, EvictFile, IndexCtx, IncrementalReindex | read/stat gap, evict before read, edges of other files |
| multi-repo (`multi.go`, `multi_watcher.go`, `config/global.go`) | repos, indexers, watchers, the configured list | track, untrack, reconcile, reload | check-then-act over seconds; a list rewritten under a loop |
| git watcher (`git_watcher.go`) | last SHA, a debounce timer | reconcile | overlapping reconciles, rebases |
| search (`internal/search`) | the swappable backend | Add, Remove, Swap, upgrade | updates lost by a swap, a closed backend in use |
| snapshot (`cmd/gortex/daemon_snapshot.go`, `daemon_state.go`) | the file on disk | saveSnapshot, loadSnapshot, warm-up | a graph and mtimes of different ages; a crash at any time |
| daemon (`internal/daemon`, `cmd/gortex/daemon*.go`) | socket, PID file, sessions | start, serve, control, shutdown | two daemons, shutdown beside requests |
| savings store (`internal/savings/store.go`) | totals, deltas, one file for all processes | AddObservation, Flush, Reset | merges of several processes, crashes amid a flush |
| Dart scanner (`internal/parser/dartlang/scanner.c`) | none between calls | scan | nested comments, text cut off anywhere |
| semantic enrichment, contracts, MCP tools, extractors | see `PROJECT.json` | | |

Interaction: fsnotify events reach the watcher's loop; its timers and drains call the
indexer, which evicts and adds in the graph and calls the resolver. The janitor
calls `IncrementalReindex` of every indexer once an hour. Every ten minutes, and at a
shutdown, the graph is written to the snapshot together with each repository's
mtimes; at a start it is loaded and each repository reconciled before its watcher is
attached. All of these are goroutines on one graph; the shard locks order single
calls, the resolve mutex orders resolution passes, and nothing orders two patches of
one file, a patch and the janitor, or a pass and an eviction.

## The modules

**ShardLocks** — the lock protocol. A thread is a goroutine in one method of `Graph`:
`CallAddNode`, `CallEdge`, `CallReindexEdge`, ... choose the shards and the plan
(`PlanTwo`, `PlanThree` with `Dedupe`, `PlanAll` are `lockTwoWrite`,
`lockThreeWrite`, `lockAll*`); `ClaimWrite`/`DrainWrite`/`LockRead` are
`sync.RWMutex`, with waiting writers blocking new readers; unlocking runs in the
opposite order. Look-ups that ask shard after shard hold one at a time.
*NoConflict*: a body touches only what it has locked, and nobody else is there beside
a writer. *LockOrder*: waiting only upwards. *CallsReturn*: every call returns.
**ShardLocksProofs** proves the first three properties for any number of threads and
shards.

**Bucket** — the slice with its sidecar: `AddToBucket`, `RemoveFromBucket`, as values.

**Adjacency** — edge objects on a heap, the lists of both directions, `AddEdge`,
`RemoveEdge`, `Retarget` (the resolver's write and `ReindexEdge` as one step) and
`evictEdgesLocked` one edge at a time. An edge's identity is its `edgeKey`; a *site*
stands for `(Kind, FilePath, Line)`. A retarget may produce an identity that the out
list has already; `clashed` records the source node, because its out list is not what it
was from then on (see below). **EdgeSet** is what the lists promise: a set of edges,
changed by atomic calls; *ImplementsEdgeSet* is the refinement, read through the in
lists as `GetInEdges` does: there `addEdgeToBucket` replaces the entry of a taken
identity, so the refinement needs no exception. **GraphProofs** proves all its
properties, the refinement included.

**ResolverRace** — Adjacency with a resolution pass beside the other writers: the pass
copies edge pointers, writes `e.To` under no shard lock, calls `ReindexEdge` later.

**NodeIndex** — nodes and the four secondary indexes; replacement moves entries, an
eviction works through its nodes one at a time under all locks. **GraphProofs** proves
its four properties as well. Its specification is `NodeSpec` and its definitions are
named apart from those of Adjacency, because both build on Bucket and their proofs share
one module and the lemmas about buckets.

**FileSync** — files on disk (a version number that is also the mtime), fsnotify's
queue, the watcher (debounce timers, the storm batch, the gap between
`shouldEnterStorm` and `recordInStorm`), and goroutines that work through `indexFile`
in steps: evict, read, add, stat. A read or an extraction may fail, on a file that is
gone (`ReadGone`) or that is there (`PatchFails`). The janitor is another such goroutine:
its walk comes to one file after the other (`WalkFile`), the files it did not meet and
that have an mtime by then are the deleted ones (`ScanDeleted`), and purges and patches
follow. A timer that has fired cannot be stopped; its callback removes the path's pending
entry at the end, whoever put it there. History variables mark files for which two
goroutines had work at once (`raced`), files whose recorded mtime is not that of what was
indexed (`torn`) and files whose latest patch failed (`failed`). Goroutines are numbered
in the order in which they are started; an event starts one at most, and so does a tick,
which bounds them by `MaxEdits + MaxScans`. **FileSyncProofs** proves its three
invariants.

**IncrementalIndex** — a repository's graph as a whole: definitions, calls, which
definition a call resolves to. `indexFile` is three steps: evict, read and add; the
resolver's pass; the stat. A pass holds the resolve mutex and takes its edges one at a
time, each in two steps, the lookup with the write of `e.To` (`Lookup`) and
`ReindexEdge`; evictions, which do not take that mutex, come in between. Patches, storm
drains and the janitor's walk, scan, purges and re-indexing run beside each other.
Snapshots collect mtimes, nodes and edges one after the other; stops, crashes, loading
with pruning; at the warm-up a repository is reconciled or, when its snapshot has no
mtimes, indexed from scratch (`TrackFile` by file, `TrackStat` for all mtimes at the end,
`EndTrack`, `Attach`). `missed` marks files changed while no watcher was attached,
`adrift` files whose mtime no longer tells what was indexed, `cut` calls whose edge went
with its target, `stranded` and `doubled` edges that the resolver has left in a state that
an eviction does not find; a snapshot that is written while files are adrift carries the
mark on to the next start. Two operations that overlap within evict, read and add of one
file are the subject of FileSync and are not repeated here. The unlock of the resolver
and the stat that follows are one step. **IncrementalIndexProofs** proves its five
properties.

**SearchIndex** — the search index beside the graph. One symbol per file, whose version
stands for its node and its document. `RemoveDocs`, `EvictNodes`, `AddNode`, `AddDoc`
are the steps of `indexFile` and `EvictFile`; `StartBuild` to `BuildEnd` are
`IndexCtx` and `IncrementalReindex` with `buildSearchIndex`; `Upgrade*` is the
goroutine of `upgradeSearchToBleve`. `Swap` is two steps, because it closes the old
backend after it has released the lock; a closed Bleve drops what it is given.
**SearchIndexProofs** proves its four properties.

**GitWatcher** — HEAD, the working tree, the debounce timer and the reconciles it
starts, each in steps: rebase check, current SHA, comparison, diff, one change at a
time, record. git writes the working tree before it moves HEAD; events may be lost and
commands may fail. **RepoProofs** proves its two invariants (of `GitSpec`).

**SavingsStore** — processes with one savings file: Open, AddObservation, the flush
(lock, read and merge, write, unlock, each of which may fail), Reset, and the end of a
process at any point. A total is kept as the contributions of each process, so that
"twice" and "lost" can be said. **SavingsStoreProofs** proves its three properties.

**DaemonLifecycle** — processes around one socket, one PID file and one snapshot:
`Start` (dial), `Sweep` (the socket is removed), `ReadPID`, `RemoveStalePID`,
`WritePID`, `Listen`; signal or control shutdown; kill at any point. Snapshots are
written in two blocks through the inode that the writer opened; `Rename` moves
whatever inode is called `.tmp`. **DaemonLifecycleProofs** proves its three properties.

**MultiRepo** — the registry, the nodes of each repository in the graph, the global
configuration and the MultiWatcher. The controller (one call at a time, by its mutex),
the warm-up, the janitor and MCP sessions run `TrackRepoCtx`, `ReconcileRepoCtx`,
`IndexRepo` and `UntrackRepo` in steps. A repository's nodes are told apart only by
their ID scheme, with the prefix or plain. The configuration is a list, and the warm-up
and Reload range over that very slice (`range`): `RemoveRepo` shifts the entries within
the array and `AddRepo` appends in it where there is room (`InPlace`, for the loops in
`live`) or moves to a new one. It is assumed that the decoder makes the array as long as
the list it reads and that the file lists a repository once; a whole `AddRepo` or
`RemoveRepo` is one step, although nothing locks them. The controller's Untrack of an
untracked path removes the entry too. Watchers may fail to be made or to start
(`WatcherFails`, `AttachFails`). **RepoProofs**, the proofs about whole repositories, also
proves its three properties.

**DartScanner** — `scanner.c`, one step per round of a loop, against a declarative
definition of the tokens (`Token`): comments read as pairs, strings as longest runs.

The modules compose by what they share: FileSync and IncrementalIndex look at the same
patches, one step by step for one file, the other file by file for the whole graph;
SearchIndex and MultiRepo take up a patch where FileSync leaves it; DaemonLifecycle is
about the file of the snapshot, IncrementalIndex about its contents. Adjacency and
NodeIndex both use Bucket, and ResolverRace extends Adjacency.

The `MC_*` modules give constants their values.

## Runs

| run | instance | shows |
|---|---|---|
| `shard_locks` | 2 goroutines, 3 shards | every pair of methods; a third shard lets `lockThreeWrite` lock three different ones |
| `adjacency` | 2 nodes, 1 stub, 2 sites, 3 edge objects, retargets onto any identity | sidecars, agreement of the directions, evictions, the refinement of EdgeSet |
| `node_index` | 3 nodes, 2 shards, 2 files, 2 repositories, 2 qualified names | indexes list the live nodes, in the middle of an eviction too |
| `resolver_race` (violation) | 1 site, 2 objects | the write of `e.To` outside the locks leaves a position past the end |
| `file_sync` | 2 files, storm above 1 event; 3 changes, or 2 and a tick with a lost event or a failing patch | the last version wins unless two goroutines met or the patch failed; an undisturbed tick repairs; everything is worked off |
| `incremental_index` | 2 files, 1 name, 2 changes or failing reads, 1 snapshot, 1 stop or crash | definitions on disk, no stale and no dangling edge, no call lost but those cut |
| `search_index` | 1 symbol, 2 indexers, 2 changes, 3 builds, threshold 1 | the index finds what the graph holds, its backend is open, vectors stay |
| `git_watcher` | 1 file, 3 commits, 3 moves, 2 reconciles at once, 1 fault | the last SHA is what is indexed; the watcher gets to HEAD |
| `savings` | 3 processes, flush at 2, 2 observations each, 1 end, 1 reset | nothing counted twice, nothing lost |
| `daemon` | 3 processes, 2 snapshots | the serving daemon owns PID file and socket; the snapshot is whole |
| `multi_repo` | 2 repositories, 1 MCP session, 2 or 3 calls, ticks, events and failures | registry, graph, configuration and watchers agree at rest |
| `dart_scanner` | 18026 texts with valid symbols | every call ends with the right token |

*Bounds.* Three entries are what swap-removal needs to move one that is neither removed
nor next to it; three edge objects also allow a replacement beside a retarget. Three
changes allow create, delete and re-create of a file around a timer or a drain; two are
enough beside a tick to create a file between walk and scan and to change it again. For
IncrementalIndex one stop is enough to write a snapshot amid the first warm-up and to
load it: the second start then indexes over nodes without mtimes. Two files that each
take the content of the other define and call one name, in both directions and within
one file. More stops carry on what the first has left; for them there are the theorems.
The worker slots of FileSync never run out (proved, see `Counted` below). Two shards
make nodes of one file collide and not collide. Symbols do not interact in the search
index, backends do: one symbol, and two indexers with three builds, allow two upgrades
to overtake each other and a build to come between. A file is enough for GitWatcher,
since changes are applied path by path; three commits allow a diff from a commit that is
neither HEAD nor the one before. Three daemons are a running one and two that start at
once. In MultiRepo two repositories make both ID schemes, and a list of two is long
enough for a removal and an addition to hide an entry from a loop; longer lists, where
one removal does, are left to the theorems. The comment texts have up to eight
characters, enough for `/*/**/*/`. Symmetry is used over edge objects, processes,
indexers and repositories where only safety is checked and no definition singles one
out.

*Fairness.* `ShardLocks.FairSpec`: a goroutine inside a call runs on; acquiring is
strongly fair, because `sync.Mutex` hands itself to the longest waiter in starvation
mode and `RWMutex.Unlock` lets the waiting readers in first; entering a call owes
nothing. `FileSync.FairSpec`: the watcher's loop, armed timers and started goroutines
run on; the file system and the janitor's ticker owe nothing. `GitWatcher.GitFairSpec`:
git moves HEAD after it has written the tree; the loop, the timer and the reconciles
run on; no further move is owed, nor that a rebase ends. `DartScanner.Spec`: a call
runs on.

*Deadlock* is checked where the system never stops. It is switched off where all is
quiet once the bounded changes, calls, processes or texts are used up: FileSync,
SearchIndex, GitWatcher, SavingsStore, DaemonLifecycle, MultiRepo, DartScanner.

## The exceptions in the properties

Where the code breaks a guarantee under some interleaving, the property states the
guarantee with that exception, and a history variable records it when it happens. A
passing run then says that, at the granularity of the module's steps and within the
bounds of the run, the guarantee fails in no other way; what the steps leave out is said
with each module and below. Without its exception each of these properties is violated.
The exceptions are the behaviours a reader should know of.

- *Adjacency*, `clashed`: `ReindexEdge` onto an identity that is already in the out list
  leaves two entries of one identity there and a sidecar that knows one of them
  (`graph.go` 439-444); this takes a graph that was loaded and indexed over, or two calls
  on one line. A later removal or eviction of the target finds only the recorded entry,
  so an edge may stay in that out list. The in lists, and the out lists of other nodes,
  are right all the same.
- *FileSync*, `raced`: two goroutines have one path in hand, and the older one ends last.
  The janitor has a file in hand from when its walk found it stale or missing, so a file
  that is created and patched between walk and scan, and purged although it is on disk,
  is one of these. `failed`: a patch evicts, then cannot read or extract, and nothing
  repeats it but the janitor. `torn`: `indexFile` reads, then stats, and a write in between
  counts as indexed; or a failed patch leaves the mtime of the file on disk on record: no
  tick of the janitor picks such a file up.
- *IncrementalIndex*, `cut`: re-indexing a file evicts the edges that lead to it from
  other files, which come back only when those files are indexed; the loader prunes
  edges to stubs. `missed`: changes between the warm-up's scan and its watchers.
  `adrift`: a file was changed between read and stat (in a full index, between its read
  and the stats at the end), could not be read, was purged by a batch whose walk had not
  found it though it is on disk, or came in from a snapshot without an mtime. A stop amid
  the warm-up is the worst case of the last: the repository is not registered yet, so the
  snapshot has its nodes and none of its mtimes (`daemon_state.go` 331); the next start
  finds no mtimes and tracks the repository anew, which adds to the loaded nodes and
  evicts nothing (`TrackRepoCtx`, `IndexCtx`); what a file no longer on disk left there
  then stays through every later restart. `stranded`: the resolver has found the target of
  a call, the target's file is evicted, and `ReindexEdge` then files the edge under a node
  that is gone. `doubled`: the clash of Adjacency, after such an index over a loaded graph;
  the second entry escapes an eviction.
- *SearchIndex*, `torn`: a symbol patched while a bulk load or an upgrade holds an
  older copy. `purged`: `IncrementalReindex` evicts deleted files from the graph and
  leaves their documents. `rewrapped`: a build that finds Bleve in use wraps it in a
  new hybrid, and the swap closes the old hybrid and with it that very Bleve; from
  then on documents are dropped. `crossed`: a swap between another's `Inner` and
  `Swap` puts a retired backend back or drops new vectors.
- *GitWatcher*, `overlap`: the timer does not wait for the reconcile before.
  `torn`: the diff is of commits, the content of the working tree; without a first SHA
  the new commit is recorded as indexed. `late`: a reconcile that gave up, or an
  unheard move, is not repeated.
- *SavingsStore*, `resets`: Reset removes the file without the lock, so a flush amid it
  brings totals back and views of other processes survive; still nothing is counted
  twice.
- *DaemonLifecycle*, `swept`: a second start removes the socket before it sees that
  the daemon is alive, and a late shutdown removes the next daemon's. `raced`: two
  starts read the PID file before either writes it. `shared`: two saves with one
  `.tmp` file (the periodic one and the last one, or two daemons).
- *MultiRepo*, `odd`: nodes with plain IDs, from when the repository was the only one,
  which `EvictRepo` does not find; a repository indexed, scanned or patched while it is
  being untracked; `IndexRepo` that registers again what was untracked meanwhile, or
  fails after it has evicted; two `IndexRepo` calls that choose different ID schemes,
  because a second repository was tracked between them, and of which the older one
  registers last (two MCP sessions; `IndexRepo` holds no lock over the whole call, and
  the proof attempt brought it up); a snapshot's repository that is no longer configured;
  a repository whose entry was moved out of the way of the loop that was to track it.
  For the last, two entries are enough: while the warm-up indexes `a` of `[a, b]`, `a` is
  untracked by its path, which makes the array `[b, b]`; the warm-up registers `a` and
  appends it, `[b, a]`; the loop goes on with the second entry, `a` again, and `b` stays
  configured and untracked (`global.go` 285, 300; `daemon_state.go` 208).
  `loose`: Reload, the MCP tools, and calls during the warm-up change the registry
  without the MultiWatcher; a watcher could not be made or started.

`resolver_race` is the one violation run: here the exception would swallow the
property, so the run shows the defect itself. `PROJECT.json` quotes the sentences of
the repository that it contradicts.

## Proofs

`ShardLocksProofs` proves `Spec => []TypeOK`, `Spec => []NoConflict` and
`Spec => []LockOrder` from `NumShards \in Nat \ {0}` and `None \notin Threads`.
NoConflict and LockOrder are not inductive: nothing in them says why the shards a
goroutine holds are the ones its mutex operations acquired. `IInv` adds, for every
thread, that its plan is ascending and covers what the body touches (`PlanInv`), how
far it is (`CursorInv`), and that the mutexes know it as their holder (`MutexInv`).
The lemmas `PlanTwoCorrect`, `DedupeCorrect`, `PlanThreeCorrect` and `PlanAllCorrect`
establish the first for each helper, one lemma per action preserves `IInv`, and the
two properties follow from it: two holders of one shard would both be its claimant,
or one a reader of a shard that has none.

`SavingsStoreProofs` proves `TypeOK`, `NeverOvercounts` and `NothingLost` for any set
of processes, any flush interval and any number of ends and resets, from `NoProc
\notin Procs` and the constants being naturals. Neither property is inductive, because
what a flush will write is already in `merged`, and what a first flush writes is the
`view`. `CountInv` bounds these two as the file is bounded: the totals of a process
contain its own delta and no other's. `LossInv` says what they are exactly: the holder
of the lock is about to write the file as it is with its delta added, a process that
is down holds no delta, and before there is a file a process knows only of itself.
That the lock has one holder is the last conjunct of `TypeOK`.

`SearchIndexProofs` proves `TypeOK`, `LiveUnlessRewrapped`, `VectorsKept` and
`SearchMatchesGraph` for any symbols, indexers and bounds, from `BM25 \notin Indexers`
and the bounds being naturals. `Types` adds the types of the goroutines' local state
and the bound on edits. `Fresh` says that until its swap nobody knows of an upgrade's
backend: it is not live, not closed, and in no goroutine's hands. `Live` adds to
LiveUnlessRewrapped that nobody is about to close the live backend; a swap keeps it
because of `Fresh`. `Vecs` adds to VectorsKept that no upgrade is about to swap in a
backend without the vectors. SearchMatchesGraph speaks of states at rest, so its
strengthening `Finds` says what the live backend holds at every moment of a patch (no
document between the removal and the insert) and that a difference at other times is a
symbol some build is still to add. `Copies` is what lets a build or an upgrade finish
it: a copied symbol that is not `torn` is still that of the graph and nobody patches
it. `Wraps` says that a build puts back the backend that is live, unless swaps crossed.

`GraphProofs` proves every property of the `adjacency` run and the refinement of
EdgeSet, for any IDs, sites and edge objects, from the assumptions on `None` and
`Unresolved` and `EdgeKey` not being empty. The bucket lemmas come first:
insert-or-replace and swap-with-last removal keep `Mirrors`, and also the weaker
`Located` (every recorded position is that of an entry with that identity), and which
entries they leave. Then the same for one list of a family, then one lemma per action.
An identity is `Sound` if no retarget has clashed at its source or it is that of an edge
to a stub, which no retarget makes. The invariant is `Types` (with the in lists mirrored
by their sidecars, and the sidecars of the out lists right for what they record and with
every sound identity: `Records`), `Owned` (a list holds edges in use that start or end
at its node), `Visits` (where the two loops of an eviction are) and `Agreement`: an edge
of an in list is in the out list of its source, which has a position for its identity,
and an edge with a sound identity in an out list is in the in list of its target
(`Paired`), but for those that an eviction has taken out of one list and not yet of the
other; which these are depends on the loop, on the list it is in and on what is left of
it. The abstract set is what the in lists hold, without the edges of nodes being
evicted: a call of EdgeSet corresponds to one step, an eviction to its first step, and
its other steps change nothing but, at the end, that it is under way. A retarget onto a
taken identity removes one edge of the set and leaves the other.

It also proves the four properties of the node indexes for any IDs, shards,
files, names and repositories, from `Empty` being no key and `ShardOf` being a shard, with
the same bucket lemmas. The invariant `NodeInv` says that a node is under its ID in its
shard, that each of `byFile`, `byName` and `byRepo` lists under a key exactly the nodes
with that key and mirrors its sidecar, that a slot of `byQual` names a node that is
there, and that the nodes an eviction has in hand are still in the graph.

`IncrementalIndexProofs` proves the five properties of `incremental_index` for any
files, names, contents and bounds, from the contents being definitions and calls and
`MaxEdits \in Nat`. The three properties at rest are far from inductive, since a restart
discards all but the snapshot. The argument goes file by file: a file is *right* when
its nodes are its definitions, its edges are calls it makes, and each call has an edge
or is cut. `Working` says that while the daemon is up every file is right, still in the
hands of an event or a batch, or excused. `Trusted`, `Captured` and `Stored` carry this
over restarts: wherever an mtime is kept, in the indexer, in the metadata, in a snapshot
being written and in the one on disk, a file whose recorded mtime is that on disk is
right there; with `Clock` (mtimes only grow) a change makes the record outdated.
`Opened` says the same of a file that was read and whose mtime is about to be taken, by
`indexFile` or at the end of a full index. `Shape` says how far a batch is and that
during the warm-up nobody else works; `Passes`, that who holds the resolve mutex for a
batch is still in it; `Blank`, that the warm-up finds nothing of a file without an mtime
that is not adrift; `Stopped`, that a daemon that is down keeps nothing but the
snapshot. `Tracked` says that the edge being moved, and the stranded and doubled ones,
are edges of the graph with a target, and `Sound` is NoDanglingEdges. The proof attempt
is what showed that files adrift have to be carried by the snapshot.

`FileSyncProofs` proves `TypeOK`, `SyncedUnlessRaced` and `HealedUnlessRacedOrTorn` for
any files, any storm threshold and any bounds, from the threshold and the bounds being
naturals and `NoFile \notin Files`. The two properties speak of states at rest; the
invariant says who is responsible for a file until then.
- `Types`, `Threshold`, `Shapes`, `Timers`: what the loop, the batch, a timer and a
  goroutine hold in each role and at each program point; a pending entry names a timer
  that was not stopped. `Counted`: events still in the queue, workers and the batch
  together are at most the changes and ticks so far, so there is always a free slot.
- `Alone`: a file that is not raced for is in the hands of one goroutine at most, its
  only armed timer is the pending one, and a batched file has no armed timer.
- `LastWord`, as long as no event was lost: while a word on the file is *due* (an event
  in the queue, the batch, an armed timer), the last such word is a deletion only if the
  file is gone; when none is due, the goroutine that has the file is at the version on
  disk (`Phase`), and if there is no such goroutine the file is in sync or its latest
  patch failed. Debounce, storm and drain each replace a word by a later one, which is
  what keeps it.
- `Honest`, for files not torn: a recorded mtime is that of the version in the graph, or
  is not that of the file on disk. This is why the janitor's comparison of mtimes finds
  every wrong file; `Healing` says what it still has in hand, to walk, to scan or to patch,
  and that all else is in sync.

Each step of a goroutine concerns one file, so `Inv` is shown for that file and carried
over for the others by one lemma; then starting a goroutine, the loop, the file system.

`RepoProofs` proves `GitTypeOK` and `IndexIsLastSHA` for any files, commits, histories,
slots and bounds, from the histories being trees of all commits (invariant `GitInv`).
`Knows` says what a reconcile has read at each point, `Alone` that without overlap there
is one and `lastSHA` is still what it read, `Synced` where each file is: at lastSHA
before its change is applied, at the new commit afterwards, and at both if the diff left
it out.

It proves `TypeOK`, `RegistryMatchesGraph` and `TrackedIsWatched` of MultiRepo for any
finite set of repositories, lists of any length, any number of MCP sessions and any
starts, from the daemon's threads being different from each other and from the sessions,
and `None` being neither a repository nor an ID scheme. `Base` (types, `Roles`,
`Making`) says which call takes which thread where, and that the warm-up makes and hands
over the MultiWatcher. `Reg` says for every regular repository (one not in `odd`) who
will put right what does not agree yet: the nodes of an untracked one are about to be
evicted, registered or indexed by the warm-up (`NodesGoing`); those of a tracked one are
its indexer's, or an `IndexRepo` is about to write or register them (`NodesOwned`,
`NodesThere`); whoever writes nodes of a repository that has just been untracked does so
before its eviction (`UntrackedUnder`); and a difference between registry and
configuration is a call between its two writes, or a reload or warm-up that has still to
come to the repository in its slice (`ConfiguredTracked`, `TrackedConfigured`). `Slices`
says that the loops in `live` see the configuration in the first part of their slice,
which is why an entry that a loop has still to visit is lost to it only by a rewriting,
and then recorded. At rest all these excuses are void. `Wat` is the same for watchers,
by how far the warm-up is, with the controller between its two writes as the excuse. The
proof goes action by action, with one lemma for the repositories that a step does not
concern. TLC has checked the invariant on the instance of `multi_repo` and on random
behaviours with two sessions, where the case of the two `IndexRepo` calls shows up; the
run's single session does not reach it.

`DaemonLifecycleProofs` proves `TypeOK`, `ServingIsNamed` and `SnapshotWhole` for any
processes and any number of saves, from `None \notin Procs` and `MaxSaves \in Nat`.
`Lifetimes` ties socket, PID file and last save to how far their process is; `Named`
says that unless starts raced only one process is past the check of the PID file, and
the file names it from the write to the removal; `Reachable` is the same for the socket.
`Inodes` and `Written` follow the temporary file: a save that is writing has the inode
called `.tmp` open alone, has written the blocks it has come to, and nobody has the inode
of the snapshot open any more, unless two saves shared the file.

Model-checked only: liveness (`CallsReturn`, `Settles`, `CatchesUp`, `FindsToken`),
since fairness is out of the prover's reach, and what the Dart scanner returns, a
recursion over the text, besides. `PositionsInRange` of ResolverRace is violated and so
has no theorem. Every invariant, action property and refinement of a passing run is
proved.

## Not modelled

The generated Dart parser (`parser.c`, 196127 lines of tables and a table-driven lexer)
and tree-sitter's vendored headers: data and library code without logic of this
repository. They are nearly all of the repository's C; the program's own logic is in
Go, and the map is of that. The other grammars are libraries.

The extractors (pattern code over syntax trees), contract extraction, query and
analysis algorithms (they read one graph and keep nothing), MCP and HTTP formatting,
the web UI, the semantic providers (external language servers). Within the modelled
parts: the candidate rules for methods, imports and types in the resolver,
`InferImplements`, the event history, corrupt or outdated snapshot and savings files,
sessions and the hand-shake, `IndexAll`, cross-repo resolution and contract edges. Three
consequences of what is modelled that no property covers: `EvictRepo` leaves the
documents of a repository in the search index (SearchIndex has single files); a file that
`IndexFileNoResolve` fails on stays evicted and the git watcher records the commit all
the same (GitWatcher has failing git commands only); a flush that has read the totals before a
Reset writes them back (SavingsStore says only that nothing is counted twice by it).

## Plan

1. The resolver's candidate rules against a reference definition, the cycle search.
2. Contract edges and cross-repo resolution beside MultiRepo.
3. The hand-shake and sessions of the daemon beside DaemonLifecycle.
