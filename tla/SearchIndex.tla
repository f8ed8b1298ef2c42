------------------------------ MODULE SearchIndex ------------------------------
(***************************************************************************)
(* The text search index beside the graph: the Swappable backend that all  *)
(* indexers of a daemon share (internal/search/swappable.go), the hybrid   *)
(* wrapper, the background upgrade from BM25 to Bleve                      *)
(* (upgradeSearchToBleve), the bulk load (buildSearchIndex), and the       *)
(* documents that indexFile, EvictFile and IncrementalReindex keep or      *)
(* leave behind (internal/indexer/indexer.go).                             *)
(*                                                                         *)
(* One searchable symbol per file; a version stands for its node and for   *)
(* the fields of its document, 0 when there is none.  Two patches of one   *)
(* file at once are the business of FileSync.                              *)
(***************************************************************************)
EXTENDS Integers, FiniteSets

CONSTANTS
    Symbols,
    Indexers,   \* one Indexer per repository, or per index_repository call
    BM25,       \* the in-memory backend that every daemon starts with
    Threshold,  \* search.AutoThreshold
    MaxEdits,   \* bound: changes of a symbol
    MaxBuilds   \* bound: runs of IndexCtx and IncrementalReindex

ASSUME BackendsAssumption == BM25 \notin Indexers
ASSUME BoundsAssumption == {Threshold, MaxEdits, MaxBuilds} \subseteq Nat

\* The Bleve backend that the upgrade goroutine of indexer i makes is called i.
Backends == Indexers \cup {BM25}
Versions == 1 .. MaxEdits + 1

VARIABLES
    graph,    \* graph[s]: the version of the symbol's node
    inner,    \* Swappable.inner: text backend, and vec if a hybrid wraps it
    docs,     \* docs[b][s]: the version of the document in backend b
    closed,   \* the Bleve backends that have been closed
    patch,    \* patch[s]: where indexFile or EvictFile is, for the symbol's file
    build,    \* build[i]: where buildSearchIndex is
    upg,      \* upg[i]: where upgradeSearchToBleve is
    once,     \* indexers whose upgradeOnce has been used
    edits, builds,
    torn,     \* history: symbols patched while a copy of the graph held them
    purged,   \* history: symbols whose file IncrementalReindex found deleted
    rewrapped, \* history: a build put a Bleve backend into a new hybrid
    crossed,  \* history: one swap came between the Inner and the Swap of another
    vectors   \* history: a vector index has been installed

vars == <<graph, inner, docs, closed, patch, build, upg, once, edits, builds,
          torn, purged, rewrapped, crossed, vectors>>

NoDocs == [s \in Symbols |-> 0]
Idle == [pc |-> "idle", full |-> FALSE, copy |-> NoDocs, todo |-> {}, text |-> BM25, old |-> BM25]
NotStarted == [pc |-> "idle", vec |-> FALSE, old |-> BM25]

\* One indexer has parsed its repository or loaded the snapshot, perhaps with a
\* vector index (ImportVectorIndex), and is about to build the search index.
Init ==
    /\ graph \in [Symbols -> {0, 1}]
    /\ vectors \in BOOLEAN
    /\ inner = [text |-> BM25, vec |-> vectors]
    /\ docs = [b \in Backends |-> NoDocs]
    /\ closed = {}
    /\ patch = [s \in Symbols |-> "idle"]
    /\ \E i \in Indexers, full \in BOOLEAN :
          build = [[x \in Indexers |-> Idle] EXCEPT ![i].pc = "nodes", ![i].full = full]
    /\ upg = [i \in Indexers |-> NotStarted]
    /\ once = {}
    /\ edits = 0 /\ builds = 1
    /\ torn = {} /\ purged = {}
    /\ rewrapped = FALSE /\ crossed = FALSE

-------------------------------------------------------------------------------
(* The backends.  A closed Bleve index refuses every write, and the wrapper  *)
(* drops the error.                                                          *)

SearchAdd(b, s, v) == IF b \in closed THEN docs ELSE [docs EXCEPT ![b][s] = v]
SearchRemove(b, s) == SearchAdd(b, s, 0)

\* BM25Backend.Close is a no-op.
Closes(b) == closed \cup ({b} \ {BM25})

\* A copy of the graph that is not in the live backend yet: of a build, the
\* symbols left to add; of an upgrade, all of them.
Copying(s) ==
    \/ \E i \in Indexers : build[i].pc = "add" /\ s \in build[i].todo
    \/ \E i \in Indexers : upg[i].pc \in {"inner", "swap"}

-------------------------------------------------------------------------------
(* indexFile and Indexer.EvictFile, for the file of symbol s.                *)

PatchStep(s, from, to) ==
    /\ patch[s] = from
    /\ patch' = [patch EXCEPT ![s] = to]
    /\ torn' = IF Copying(s) THEN torn \cup {s} ELSE torn

\* Mutant of RemoveDocs: the nodes are evicted first and no document is found.
RemoveNoDocs(s) ==
    /\ edits < MaxEdits /\ edits' = edits + 1
    /\ PatchStep(s, "idle", "evict")
    /\ UNCHANGED <<graph, inner, docs, closed, build, upg, once, builds, purged,
                   rewrapped, crossed, vectors>>

\* The documents of the nodes that the graph has for the file are removed.
RemoveDocs(s) ==
    /\ edits < MaxEdits /\ edits' = edits + 1
    /\ PatchStep(s, "idle", "evict")
    /\ docs' = IF graph[s] = 0 THEN docs ELSE SearchRemove(inner.text, s)
    /\ UNCHANGED <<graph, inner, closed, build, upg, once, builds, purged,
                   rewrapped, crossed, vectors>>

\* graph.EvictFile; a deletion, and a file that cannot be read, end here.
EvictNodes(s) ==
    /\ \E next \in {"idle", "node"} : PatchStep(s, "evict", next)
    /\ graph' = [graph EXCEPT ![s] = 0]
    /\ UNCHANGED <<inner, docs, closed, build, upg, once, edits, builds, purged,
                   rewrapped, crossed, vectors>>

AddNode(s) ==
    /\ PatchStep(s, "node", "doc")
    /\ graph' = [graph EXCEPT ![s] = edits + 1]
    /\ UNCHANGED <<inner, docs, closed, build, upg, once, edits, builds, purged,
                   rewrapped, crossed, vectors>>

AddDoc(s) ==
    /\ PatchStep(s, "doc", "idle")
    /\ docs' = SearchAdd(inner.text, s, graph[s])
    /\ purged' = purged \ {s}
    /\ UNCHANGED <<graph, inner, closed, build, upg, once, edits, builds,
                   rewrapped, crossed, vectors>>

-------------------------------------------------------------------------------
(* IndexCtx and IncrementalReindex, up to buildSearchIndex.                  *)

\* changed is what the parse adds or the search for deleted files evicts,
\* in the graph alone.
StartBuild(i, full, changed) ==
    /\ build[i].pc = "idle"
    /\ builds < MaxBuilds /\ builds' = builds + 1
    /\ \A s \in changed : patch[s] = "idle"
    /\ edits + Cardinality(changed) <= MaxEdits
    /\ edits' = edits + Cardinality(changed)
    /\ graph' = [s \in Symbols |-> IF s \notin changed THEN graph[s]
                                   ELSE IF full THEN edits' + 1 ELSE 0]
    /\ torn' = torn \cup {s \in changed : Copying(s)}
    /\ purged' = IF full THEN purged ELSE purged \cup changed
    /\ build' = [build EXCEPT ![i] = [Idle EXCEPT !.pc = "nodes", !.full = full]]
    /\ UNCHANGED <<inner, docs, closed, patch, upg, once, rewrapped, crossed, vectors>>

\* AllNodes; what a patch has in hand at this moment may be copied too early.
BuildNodes(i) ==
    /\ build[i].pc = "nodes"
    /\ build' = [build EXCEPT ![i].pc = "add", ![i].copy = graph,
                              ![i].todo = {s \in Symbols : graph[s] # 0}]
    /\ torn' = torn \cup {s \in Symbols : patch[s] # "idle"}
    /\ UNCHANGED <<graph, inner, docs, closed, patch, upg, once, edits, builds,
                   purged, rewrapped, crossed, vectors>>

BuildAdd(i, s) ==
    /\ build[i].pc = "add" /\ s \in build[i].todo
    /\ docs' = SearchAdd(inner.text, s, build[i].copy[s])
    /\ purged' = purged \ {s}
    /\ build' = [build EXCEPT ![i].todo = @ \ {s}]
    /\ UNCHANGED <<graph, inner, closed, patch, upg, once, edits, builds,
                   torn, rewrapped, crossed, vectors>>

\* No embedder, nothing to embed, too much to embed, or a chunk that failed.
BuildTextOnly(i) ==
    /\ build[i].pc = "add" /\ build[i].todo = {}
    /\ build' = [build EXCEPT ![i].pc = "end", ![i].copy = NoDocs]
    /\ UNCHANGED <<graph, inner, docs, closed, patch, upg, once, edits, builds,
                   torn, purged, rewrapped, crossed, vectors>>

\* The vectors are there: Inner, unwrapped to its text side.
BuildInner(i) ==
    /\ build[i].pc = "add" /\ build[i].todo = {} /\ build[i].copy # NoDocs
    /\ build' = [build EXCEPT ![i].pc = "swap", ![i].copy = NoDocs,
                              ![i].text = inner.text]
    /\ UNCHANGED <<graph, inner, docs, closed, patch, upg, once, edits, builds,
                   torn, purged, rewrapped, crossed, vectors>>

\* Some other goroutine is between its Inner and its Swap.
Crosses(i) ==
    \/ \E j \in Indexers \ {i} : build[j].pc = "swap" \/ upg[j].pc = "swap"
    \/ build[i].pc = "swap" /\ upg[i].pc = "swap"

BuildSwap(i) ==
    /\ build[i].pc = "swap"
    /\ inner' = [text |-> build[i].text, vec |-> TRUE]
    /\ build' = [build EXCEPT ![i].pc = "close", ![i].text = BM25,
                              ![i].old = inner.text]
    /\ rewrapped' = (rewrapped \/ build[i].text # BM25)
    /\ crossed' = (crossed \/ Crosses(i))
    /\ vectors' = TRUE
    /\ UNCHANGED <<graph, docs, closed, patch, upg, once, edits, builds, torn, purged>>

\* Swap closes the old backend, a hybrid by way of its text side, after it has
\* released the lock.
BuildClose(i) ==
    /\ build[i].pc = "close"
    /\ closed' = Closes(build[i].old)
    /\ build' = [build EXCEPT ![i].pc = "end"]
    /\ UNCHANGED <<graph, inner, docs, patch, upg, once, edits, builds, torn,
                   purged, rewrapped, crossed, vectors>>

Count(b) == Cardinality({s \in Symbols : docs[b][s] # 0})

\* IndexCtx schedules the upgrade, once per indexer.
BuildEnd(i) ==
    LET spawn == build[i].full /\ Count(inner.text) >= Threshold /\ i \notin once
    IN  /\ build[i].pc = "end"
        /\ build' = [build EXCEPT ![i] = Idle]
        /\ once' = IF spawn THEN once \cup {i} ELSE once
        /\ upg' = IF spawn THEN [upg EXCEPT ![i].pc = "check"] ELSE upg
        /\ UNCHANGED <<graph, inner, docs, closed, patch, edits, builds, torn,
                       purged, rewrapped, crossed, vectors>>

-------------------------------------------------------------------------------
(* upgradeSearchToBleve, in a goroutine of its own.                          *)

\* Bleve already, or NewBleve failed.
UpgradeNot(i) ==
    /\ upg[i].pc = "check"
    /\ upg' = [upg EXCEPT ![i].pc = "done"]
    /\ UNCHANGED <<graph, inner, docs, closed, patch, build, once, edits, builds,
                   torn, purged, rewrapped, crossed, vectors>>

\* Mutant of UpgradeCopy: the new backend goes live while it is being filled.
UpgradeCopyLive(i) ==
    /\ upg[i].pc = "check" /\ inner.text = BM25
    /\ inner' = [inner EXCEPT !.text = i]
    /\ docs' = [docs EXCEPT ![i] = graph]
    /\ upg' = [upg EXCEPT ![i].pc = "inner"]
    /\ UNCHANGED <<graph, closed, patch, build, once, edits, builds, torn,
                   purged, rewrapped, crossed, vectors>>

\* AllNodes, copied into the new backend, which nobody else sees yet.
UpgradeCopy(i) ==
    /\ upg[i].pc = "check" /\ inner.text = BM25
    /\ docs' = [docs EXCEPT ![i] = graph]
    /\ torn' = torn \cup {s \in Symbols : patch[s] # "idle"}
    /\ upg' = [upg EXCEPT ![i].pc = "inner"]
    /\ UNCHANGED <<graph, inner, closed, patch, build, once, edits, builds,
                   purged, rewrapped, crossed, vectors>>

\* Mutant of UpgradeInner: the vectors are not taken over.
UpgradeInnerRaw(i) ==
    /\ upg[i].pc = "inner"
    /\ upg' = [upg EXCEPT ![i].pc = "swap", ![i].vec = FALSE]
    /\ UNCHANGED <<graph, inner, docs, closed, patch, build, once, edits, builds,
                   torn, purged, rewrapped, crossed, vectors>>

\* Inner: the vectors of a hybrid go into the replacement.
UpgradeInner(i) ==
    /\ upg[i].pc = "inner"
    /\ upg' = [upg EXCEPT ![i].pc = "swap", ![i].vec = inner.vec]
    /\ UNCHANGED <<graph, inner, docs, closed, patch, build, once, edits, builds,
                   torn, purged, rewrapped, crossed, vectors>>

UpgradeSwap(i) ==
    /\ upg[i].pc = "swap"
    /\ inner' = [text |-> i, vec |-> upg[i].vec]
    /\ upg' = [upg EXCEPT ![i].pc = "close", ![i].old = inner.text]
    /\ crossed' = (crossed \/ Crosses(i))
    /\ UNCHANGED <<graph, docs, closed, patch, build, once, edits, builds, torn,
                   purged, rewrapped, vectors>>

\* Mutant of UpgradeClose: the new backend is closed with the old one.
UpgradeCloseNew(i) ==
    /\ upg[i].pc = "close"
    /\ closed' = Closes(i)
    /\ upg' = [upg EXCEPT ![i] = [NotStarted EXCEPT !.pc = "done"]]
    /\ UNCHANGED <<graph, inner, docs, patch, build, once, edits, builds, torn,
                   purged, rewrapped, crossed, vectors>>

UpgradeClose(i) ==
    /\ upg[i].pc = "close"
    /\ closed' = Closes(upg[i].old)
    /\ upg' = [upg EXCEPT ![i] = [NotStarted EXCEPT !.pc = "done"]]
    /\ UNCHANGED <<graph, inner, docs, patch, build, once, edits, builds, torn,
                   purged, rewrapped, crossed, vectors>>

-------------------------------------------------------------------------------
Patch(s) == RemoveDocs(s) \/ EvictNodes(s) \/ AddNode(s) \/ AddDoc(s)

Build(i) ==
    \/ \E full \in BOOLEAN, s \in Symbols :
          StartBuild(i, full, {}) \/ StartBuild(i, full, {s})
    \/ BuildNodes(i)
    \/ \E s \in Symbols : BuildAdd(i, s)
    \/ BuildTextOnly(i) \/ BuildInner(i) \/ BuildSwap(i) \/ BuildClose(i)
    \/ BuildEnd(i)

Upgrade(i) ==
    \/ UpgradeNot(i) \/ UpgradeCopy(i) \/ UpgradeInner(i)
    \/ UpgradeSwap(i) \/ UpgradeClose(i)

Next ==
    \/ \E s \in Symbols : Patch(s)
    \/ \E i \in Indexers : Build(i) \/ Upgrade(i)

Spec == Init /\ [][Next]_vars

-------------------------------------------------------------------------------
\* The variables have the types the code gives them; a Bleve backend is live or
\* closed only after its upgrade made it.
TypeOK ==
    /\ graph \in [Symbols -> Versions \cup {0}]
    /\ inner \in [text : Backends, vec : BOOLEAN]
    /\ docs \in [Backends -> [Symbols -> Versions \cup {0}]]
    /\ patch \in [Symbols -> {"idle", "evict", "node", "doc"}]
    /\ closed \cup ({inner.text} \ {BM25})
          \subseteq {i \in once : upg[i].pc \in {"close", "done"}}
    /\ torn \subseteq Symbols /\ purged \subseteq Symbols

\* No patch, build or upgrade is under way.
AtRest ==
    /\ \A s \in Symbols : patch[s] = "idle"
    /\ \A i \in Indexers : build[i].pc = "idle" /\ upg[i].pc \in {"idle", "done"}

\* At rest a live index that is open finds every symbol of the graph, as it is
\* now, and nothing else; except for symbols patched while a bulk load or an
\* upgrade held an older copy of them, those of files that IncrementalReindex
\* found deleted, and swaps that crossed (indexFile, EvictFile,
\* buildSearchIndex, upgradeSearchToBleve: "nothing observes a half-built
\* Bleve", IndexCtx).
SearchMatchesGraph ==
    AtRest /\ inner.text \notin closed /\ ~crossed =>
        \A s \in Symbols \ (torn \cup purged) : docs[inner.text][s] = graph[s]

\* The live text backend is never closed, by an upgrade, by two upgrades that
\* overtake each other, or by a build, unless a build has put a Bleve backend
\* into a new hybrid: the swap then closes the old wrapper and with it the
\* backend that stays in use (Swappable.Swap, buildSearchIndex).
LiveUnlessRewrapped == ~rewrapped => inner.text \notin closed

\* Once there is a vector index it stays in use, whatever upgrades follow, unless
\* two swaps crossed: the upgrade must not let "every downstream
\* hybrid/semantic query silently degrade" (upgradeSearchToBleve).
VectorsKept == vectors /\ ~crossed => inner.vec
===============================================================================
