--------------------------- MODULE SearchIndexProofs ---------------------------
(***************************************************************************)
(* Proofs about SearchIndex, for any symbols and indexers: the live text   *)
(* backend is open until a build wraps a Bleve backend anew, vectors stay  *)
(* in use unless two swaps cross, and at rest the index finds what the     *)
(* graph holds.                                                            *)
(***************************************************************************)
EXTENDS SearchIndex, FiniteSetTheorems, TLAPS

Entries == [Symbols -> Versions \cup {0}]
BuildState ==
    [pc : {"idle", "nodes", "add", "swap", "close", "end"}, full : BOOLEAN,
     copy : Entries, todo : SUBSET Symbols, text : Backends, old : Backends]
UpgradeState ==
    [pc : {"idle", "check", "inner", "swap", "close", "done"},
     vec : BOOLEAN, old : Backends]

\* The types of what TypeOK leaves out, and the bound on edits.
Types ==
    /\ graph \in Entries
    /\ inner \in [text : Backends, vec : BOOLEAN]
    /\ docs \in [Backends -> Entries]
    /\ patch \in [Symbols -> {"idle", "evict", "node", "doc"}]
    /\ torn \subseteq Symbols /\ purged \subseteq Symbols
    /\ closed \subseteq Indexers
    /\ once \subseteq Indexers
    /\ edits \in 0 .. MaxEdits
    /\ build \in [Indexers -> BuildState]
    /\ upg \in [Indexers -> UpgradeState]

\* An upgrade runs once, and until its swap nobody knows of its backend.
Fresh ==
    \A i \in Indexers :
        /\ upg[i].pc # "idle" => i \in once
        /\ upg[i].pc \notin {"close", "done"} =>
              /\ i \notin closed /\ inner.text # i
              /\ \A j \in Indexers : build[j].text # i /\ build[j].old # i /\ upg[j].old # i

\* The live backend is open, and nobody is about to close it.
Live ==
    ~rewrapped =>
        /\ inner.text \notin closed
        /\ \A j \in Indexers :
              /\ build[j].pc = "close" => build[j].old = BM25 \/ build[j].old # inner.text
              /\ upg[j].pc = "close" => upg[j].old = BM25 \/ upg[j].old # inner.text

\* The vectors are live, and no upgrade is about to drop them.
Vecs ==
    vectors /\ ~crossed =>
        /\ inner.vec
        /\ \A i \in Indexers : upg[i].pc = "swap" => upg[i].vec

\* A copy of a symbol that no patch has touched is still the symbol of the graph.
Copies ==
    \A i \in Indexers, s \in Symbols \ torn :
        /\ upg[i].pc \in {"inner", "swap"} => patch[s] = "idle" /\ docs[i][s] = graph[s]
        /\ build[i].pc = "add" /\ s \in build[i].todo =>
              patch[s] = "idle" /\ build[i].copy[s] = graph[s]

\* A build that is about to swap wraps the live backend.
Wraps == ~crossed => \A i \in Indexers : build[i].pc = "swap" => build[i].text = inner.text

\* A build will add symbol s, if the graph has it.
Pending(s) ==
    \E i \in Indexers : \/ build[i].pc = "nodes"
                        \/ build[i].pc = "add" /\ s \in build[i].todo

\* The document that the live backend has for symbol s, given how far a patch is:
\* between the removal of the old one and the insert of the new one there is none.
Found(s) ==
    /\ patch[s] = "idle" => \/ docs[inner.text][s] = graph[s]
                            \/ Pending(s) /\ graph[s] # 0
    /\ patch[s] # "idle" => docs[inner.text][s] = 0
    /\ patch[s] = "node" => graph[s] = 0

Finds ==
    inner.text \notin closed /\ ~crossed =>
        \A s \in Symbols \ (torn \cup purged) : Found(s)

-------------------------------------------------------------------------------
\* The empty records and functions of the module have their types.
LEMMA Constants ==
    /\ NoDocs \in Entries
    /\ BM25 \in Backends /\ Indexers \subseteq Backends
    /\ Idle.pc = "idle" /\ Idle.text = BM25 /\ Idle.old = BM25
    /\ Idle \in [pc : {"idle"}, full : BOOLEAN, copy : Entries, todo : SUBSET Symbols,
                 text : Backends, old : Backends]
    /\ NotStarted = [pc |-> "idle", vec |-> FALSE, old |-> BM25]
BY BoundsAssumption DEF NoDocs, Entries, Backends, Idle, NotStarted, Versions

\* What a backend's Add returns has the type of docs.
LEMMA AddType ==
    ASSUME Types, NEW b \in Backends, NEW s \in Symbols, NEW v \in Versions \cup {0}
    PROVE  SearchAdd(b, s, v) \in [Backends -> Entries]
BY DEF Types, SearchAdd, Entries

\* A version number that an edit makes is in range.
LEMMA VersionType == ASSUME NEW n \in 0 .. MaxEdits PROVE n + 1 \in Versions
BY BoundsAssumption DEF Versions

\* The initial state has the types.
LEMMA TypesInit == Init => Types
<1> SUFFICES ASSUME Init PROVE Types
  OBVIOUS
<1>1. graph \in Entries
  BY BoundsAssumption DEF Init, Entries, Versions
<1>2. PICK i \in Indexers, full \in BOOLEAN :
          build = [[x \in Indexers |-> Idle] EXCEPT ![i].pc = "nodes", ![i].full = full]
  BY DEF Init
<1>3. build \in [Indexers -> BuildState]
  BY <1>2, Constants DEF BuildState
<1>4. upg \in [Indexers -> UpgradeState]
  BY Constants DEF Init, UpgradeState
<1>5. docs \in [Backends -> Entries]
  BY Constants DEF Init
<1>6. inner \in [text : Backends, vec : BOOLEAN]
  BY Constants DEF Init
<1> QED BY <1>1, <1>3, <1>4, <1>5, <1>6, BoundsAssumption DEF Init, Types

\* Every step keeps the types.
LEMMA TypesNext == Types /\ [Next]_vars => Types'
<1> SUFFICES ASSUME Types, [Next]_vars PROVE Types'
  OBVIOUS
<1> USE Constants
<1>1. CASE UNCHANGED vars
  BY <1>1 DEF vars, Types
<1>2. ASSUME NEW s \in Symbols, Patch(s) PROVE Types'
  <2>1. CASE RemoveDocs(s)
    <3>1. docs' \in [Backends -> Entries]
      BY <2>1, AddType DEF RemoveDocs, SearchRemove, Types
    <3> QED BY <2>1, <3>1, BoundsAssumption DEF RemoveDocs, PatchStep, Types
  <2>2. CASE EvictNodes(s)
    BY <2>2 DEF EvictNodes, PatchStep, Types, Entries
  <2>3. CASE AddNode(s)
    <3>1. edits + 1 \in Versions
      BY VersionType DEF Types
    <3> QED BY <2>3, <3>1 DEF AddNode, PatchStep, Types, Entries
  <2>4. CASE AddDoc(s)
    <3>1. docs' \in [Backends -> Entries]
      BY <2>4, AddType DEF AddDoc, Types, Entries
    <3> QED BY <2>4, <3>1 DEF AddDoc, PatchStep, Types
  <2> QED BY <1>2, <2>1, <2>2, <2>3, <2>4 DEF Patch
<1>3. ASSUME NEW i \in Indexers, NEW full \in BOOLEAN, NEW changed \in SUBSET Symbols,
             IsFiniteSet(changed), StartBuild(i, full, changed)
      PROVE  Types'
  <2>1. edits' \in 0 .. MaxEdits
    BY <1>3, BoundsAssumption, FS_CardinalityType DEF StartBuild, Types
  <2>2. edits' + 1 \in Versions
    BY <2>1, VersionType
  <2>3. graph' \in Entries
    BY <1>3, <2>2 DEF StartBuild, Types, Entries
  <2>4. build' \in [Indexers -> BuildState]
    BY <1>3 DEF StartBuild, Types, BuildState
  <2> QED BY <1>3, <2>1, <2>3, <2>4 DEF StartBuild, Types
<1>4. ASSUME NEW i \in Indexers, Build(i) PROVE Types'
  <2>0. build[i] \in BuildState /\ upg[i] \in UpgradeState
    BY DEF Types
  <2>1. CASE \E full \in BOOLEAN, s \in Symbols :
                StartBuild(i, full, {}) \/ StartBuild(i, full, {s})
    <3>1. PICK full \in BOOLEAN, s \in Symbols :
              StartBuild(i, full, {}) \/ StartBuild(i, full, {s})
      BY <2>1
    <3>2. CASE StartBuild(i, full, {})
      <4>1. {} \in SUBSET Symbols /\ IsFiniteSet({})
        BY FS_EmptySet
      <4> QED BY <1>3, <3>2, <4>1
    <3>3. CASE StartBuild(i, full, {s})
      <4>1. {s} \in SUBSET Symbols /\ IsFiniteSet({s})
        BY FS_Singleton
      <4> QED BY <1>3, <3>3, <4>1
    <3> QED BY <3>1, <3>2, <3>3
  <2>2. CASE BuildNodes(i)
    <3>1. build' \in [Indexers -> BuildState]
      <4>1. [build[i] EXCEPT !.pc = "add", !.copy = graph,
                             !.todo = {s \in Symbols : graph[s] # 0}] \in BuildState
        BY <2>0 DEF BuildState, Types
      <4> QED BY <2>2, <4>1 DEF BuildNodes, Types
    <3> QED BY <2>2, <3>1 DEF BuildNodes, Types
  <2>3. ASSUME NEW s \in Symbols, BuildAdd(i, s) PROVE Types'
    <3>1. docs' \in [Backends -> Entries]
      BY <2>3, <2>0, AddType DEF BuildAdd, Types, Entries, BuildState
    <3>2. build' \in [Indexers -> BuildState]
      BY <2>3, <2>0 DEF BuildAdd, Types, BuildState
    <3> QED BY <2>3, <3>1, <3>2 DEF BuildAdd, Types
  <2>4. CASE BuildTextOnly(i)
    <3>1. build' \in [Indexers -> BuildState]
      BY <2>4, <2>0 DEF BuildTextOnly, Types, BuildState
    <3> QED BY <2>4, <3>1 DEF BuildTextOnly, Types
  <2>5. CASE BuildInner(i)
    <3>1. build' \in [Indexers -> BuildState]
      <4>1. [build[i] EXCEPT !.pc = "swap", !.copy = NoDocs, !.text = inner.text] \in BuildState
        BY <2>0 DEF BuildState, Types
      <4> QED BY <2>5, <4>1 DEF BuildInner, Types
    <3> QED BY <2>5, <3>1 DEF BuildInner, Types
  <2>6. CASE BuildSwap(i)
    <3>1. build' \in [Indexers -> BuildState]
      <4>1. [build[i] EXCEPT !.pc = "close", !.text = BM25, !.old = inner.text] \in BuildState
        BY <2>0 DEF BuildState, Types
      <4> QED BY <2>6, <4>1 DEF BuildSwap, Types
    <3>2. inner' \in [text : Backends, vec : BOOLEAN]
      BY <2>6, <2>0 DEF BuildSwap, BuildState
    <3> QED BY <2>6, <3>1, <3>2 DEF BuildSwap, Types
  <2>7. CASE BuildClose(i)
    <3>1. build' \in [Indexers -> BuildState]
      BY <2>7, <2>0 DEF BuildClose, Types, BuildState
    <3>2. closed' \subseteq Indexers
      BY <2>7, <2>0 DEF BuildClose, Closes, Types, Backends, BuildState
    <3> QED BY <2>7, <3>1, <3>2 DEF BuildClose, Types
  <2>8. CASE BuildEnd(i)
    <3>1. build' \in [Indexers -> BuildState]
      BY <2>8 DEF BuildEnd, Types, BuildState
    <3>2. upg' \in [Indexers -> UpgradeState]
      BY <2>8, <2>0 DEF BuildEnd, Types, UpgradeState
    <3> QED BY <2>8, <3>1, <3>2 DEF BuildEnd, Types
  <2> QED BY <1>4, <2>1, <2>2, <2>3, <2>4, <2>5, <2>6, <2>7, <2>8 DEF Build
<1>5. ASSUME NEW i \in Indexers, Upgrade(i) PROVE Types'
  <2>0. upg[i] \in UpgradeState
    BY DEF Types
  <2>1. CASE UpgradeNot(i)
    <3>1. upg' \in [Indexers -> UpgradeState]
      BY <2>1, <2>0 DEF UpgradeNot, Types, UpgradeState
    <3> QED BY <2>1, <3>1 DEF UpgradeNot, Types
  <2>2. CASE UpgradeCopy(i)
    <3>1. upg' \in [Indexers -> UpgradeState]
      BY <2>2, <2>0 DEF UpgradeCopy, Types, UpgradeState
    <3> QED BY <2>2, <3>1 DEF UpgradeCopy, Types
  <2>3. CASE UpgradeInner(i)
    <3>1. upg' \in [Indexers -> UpgradeState]
      <4>1. [upg[i] EXCEPT !.pc = "swap", !.vec = inner.vec] \in UpgradeState
        BY <2>0 DEF Types, UpgradeState
      <4> QED BY <2>3, <4>1 DEF UpgradeInner, Types
    <3> QED BY <2>3, <3>1 DEF UpgradeInner, Types
  <2>4. CASE UpgradeSwap(i)
    <3>1. upg' \in [Indexers -> UpgradeState]
      <4>1. [upg[i] EXCEPT !.pc = "close", !.old = inner.text] \in UpgradeState
        BY <2>0 DEF Types, UpgradeState
      <4> QED BY <2>4, <4>1 DEF UpgradeSwap, Types
    <3>2. inner' \in [text : Backends, vec : BOOLEAN]
      BY <2>4, <2>0 DEF UpgradeSwap, UpgradeState
    <3> QED BY <2>4, <3>1, <3>2 DEF UpgradeSwap, Types
  <2>5. CASE UpgradeClose(i)
    <3>1. upg' \in [Indexers -> UpgradeState]
      BY <2>5, <2>0 DEF UpgradeClose, Types, UpgradeState
    <3>2. closed' \subseteq Indexers
      BY <2>5, <2>0 DEF UpgradeClose, Closes, Types, Backends, UpgradeState
    <3> QED BY <2>5, <3>1, <3>2 DEF UpgradeClose, Types
  <2> QED BY <1>5, <2>1, <2>2, <2>3, <2>4, <2>5 DEF Upgrade
<1> QED BY <1>1, <1>2, <1>4, <1>5 DEF Next

-------------------------------------------------------------------------------
\* Nothing has been upgraded or swapped in the initial state.
LEMMA InvInit == Init => Fresh /\ Live /\ Vecs /\ Copies /\ Wraps /\ Finds
<1> SUFFICES ASSUME Init PROVE Fresh /\ Live /\ Vecs /\ Copies /\ Wraps /\ Finds
  OBVIOUS
<1>1. Fresh /\ Live /\ Vecs
  BY Constants, BackendsAssumption DEF Init, Fresh, Live, Vecs, Idle, NotStarted
<1>2. PICK i \in Indexers, full \in BOOLEAN :
          build = [[x \in Indexers |-> Idle] EXCEPT ![i].pc = "nodes", ![i].full = full]
  BY DEF Init
<1>3. \A j \in Indexers : build[j].pc \in {"nodes", "idle"}
  BY <1>2, Constants
<1>4. build[i].pc = "nodes"
  BY <1>2, Constants
<1>5. Copies
  BY <1>3 DEF Init, Copies, NotStarted
<1>6. Wraps
  BY <1>3 DEF Wraps
<1>7. Finds
  <2>1. \A s \in Symbols : /\ docs[inner.text][s] = 0 /\ patch[s] = "idle"
                           /\ Pending(s)
    BY <1>4, Constants DEF Init, NoDocs, Pending
  <2> QED BY <2>1 DEF Finds, Found
<1> QED BY <1>1, <1>5, <1>6, <1>7

\* A backend is known to others only after its swap.
LEMMA FreshNext == Types /\ Fresh /\ [Next]_vars => Fresh'
<1> SUFFICES ASSUME Types, Fresh, [Next]_vars PROVE Fresh'
  OBVIOUS
<1> USE DEF Fresh
<1>1. CASE UNCHANGED vars
  BY <1>1 DEF vars
<1>2. ASSUME NEW s \in Symbols, Patch(s) PROVE Fresh'
  BY <1>2 DEF Patch, RemoveDocs, EvictNodes, AddNode, AddDoc, PatchStep
<1>3. ASSUME NEW i \in Indexers, Build(i) PROVE Fresh'
  <2>0. build[i] \in BuildState /\ upg[i] \in UpgradeState
    BY DEF Types
  <2>1. ASSUME NEW full \in BOOLEAN, NEW changed, StartBuild(i, full, changed) PROVE Fresh'
    <3>1. \A j \in Indexers : /\ build'[j].text \in {build[j].text, BM25}
                             /\ build'[j].old \in {build[j].old, BM25}
      BY <2>1, Constants DEF StartBuild, Types
    <3> QED BY <2>1, <3>1, BackendsAssumption DEF StartBuild
  <2>2. ASSUME NEW s \in Symbols, BuildAdd(i, s) PROVE Fresh'
    BY <2>2 DEF BuildAdd
  <2>3. CASE BuildNodes(i)
    BY <2>3 DEF BuildNodes, Types
  <2>4. CASE BuildTextOnly(i)
    BY <2>4 DEF BuildTextOnly, Types
  <2>5. CASE BuildInner(i)
    BY <2>5 DEF BuildInner, Types
  <2>6. CASE BuildSwap(i)
    BY <2>6, BackendsAssumption DEF BuildSwap, Types
  <2>7. CASE BuildClose(i)
    BY <2>7 DEF BuildClose, Closes
  <2>8. CASE BuildEnd(i)
    <3>1. \A j \in Indexers : /\ build'[j].text \in {build[j].text, BM25}
                             /\ build'[j].old \in {build[j].old, BM25}
      BY <2>8, Constants DEF BuildEnd, Types
    <3>2. \A j \in Indexers : upg'[j].old = upg[j].old
      BY <2>8, <2>0 DEF BuildEnd, Types, UpgradeState
    <3>3. \A j \in Indexers : /\ upg'[j].pc # "idle" => j \in once'
                             /\ upg'[j].pc \notin {"close", "done"} =>
                                   upg[j].pc \notin {"close", "done"}
      BY <2>8, <2>0 DEF BuildEnd, Types, UpgradeState
    <3> QED BY <2>8, <3>1, <3>2, <3>3, BackendsAssumption DEF BuildEnd
  <2> QED BY <1>3, <2>1, <2>2, <2>3, <2>4, <2>5, <2>6, <2>7, <2>8 DEF Build
<1>4. ASSUME NEW i \in Indexers, Upgrade(i) PROVE Fresh'
  <2>1. CASE UpgradeNot(i)
    BY <2>1 DEF UpgradeNot
  <2>2. CASE UpgradeCopy(i)
    BY <2>2 DEF UpgradeCopy
  <2>3. CASE UpgradeInner(i)
    BY <2>3 DEF UpgradeInner, Types
  <2>4. CASE UpgradeSwap(i)
    BY <2>4 DEF UpgradeSwap, Types
  <2>5. CASE UpgradeClose(i)
    BY <2>5, Constants, BackendsAssumption DEF UpgradeClose, Closes, Backends, Types
  <2> QED BY <1>4, <2>1, <2>2, <2>3, <2>4, <2>5 DEF Upgrade
<1> QED BY <1>1, <1>2, <1>3, <1>4 DEF Next

\* A swap retires the backend it closes, unless a build rewraps it.
LEMMA LiveNext == Types /\ Fresh /\ Live /\ [Next]_vars => Live'
<1> SUFFICES ASSUME Types, Fresh, Live, [Next]_vars PROVE Live'
  OBVIOUS
<1> USE DEF Live
<1>1. CASE UNCHANGED vars
  BY <1>1 DEF vars
<1>2. ASSUME NEW s \in Symbols, Patch(s) PROVE Live'
  BY <1>2 DEF Patch, RemoveDocs, EvictNodes, AddNode, AddDoc, PatchStep
<1>3. ASSUME NEW i \in Indexers, Build(i) PROVE Live'
  <2>1. ASSUME NEW full \in BOOLEAN, NEW changed, StartBuild(i, full, changed) PROVE Live'
    BY <2>1 DEF StartBuild
  <2>2. ASSUME NEW s \in Symbols, BuildAdd(i, s) PROVE Live'
    BY <2>2 DEF BuildAdd
  <2>3. CASE BuildNodes(i)
    BY <2>3 DEF BuildNodes, Types
  <2>4. CASE BuildTextOnly(i)
    BY <2>4 DEF BuildTextOnly, Types
  <2>5. CASE BuildInner(i)
    BY <2>5 DEF BuildInner, Types
  <2>6. CASE BuildSwap(i)
    BY <2>6, BackendsAssumption DEF BuildSwap, Types
  <2>7. CASE BuildClose(i)
    BY <2>7 DEF BuildClose, Closes
  <2>8. CASE BuildEnd(i)
    BY <2>8, Constants DEF BuildEnd, Types
  <2> QED BY <1>3, <2>1, <2>2, <2>3, <2>4, <2>5, <2>6, <2>7, <2>8 DEF Build
<1>4. ASSUME NEW i \in Indexers, Upgrade(i) PROVE Live'
  <2>0. build[i] \in BuildState /\ upg[i] \in UpgradeState
    BY DEF Types
  <2>1. CASE UpgradeNot(i)
    BY <2>1 DEF UpgradeNot
  <2>2. CASE UpgradeCopy(i)
    BY <2>2 DEF UpgradeCopy
  <2>3. CASE UpgradeInner(i)
    BY <2>3 DEF UpgradeInner, Types
  <2>4. CASE UpgradeSwap(i)
    <3>1. i \notin closed /\ inner.text # i /\ inner'.text = i
      BY <2>4 DEF UpgradeSwap, Fresh
    <3>2. \A j \in Indexers : build[j].old # i /\ upg[j].old # i
      BY <2>4 DEF UpgradeSwap, Fresh
    <3>3. \A j \in Indexers : upg'[j].old # i
      BY <2>4, <2>0, <3>1, <3>2 DEF UpgradeSwap, Types, UpgradeState
    <3> QED BY <2>4, <3>1, <3>2, <3>3 DEF UpgradeSwap
  <2>5. CASE UpgradeClose(i)
    BY <2>5 DEF UpgradeClose, Closes
  <2> QED BY <1>4, <2>1, <2>2, <2>3, <2>4, <2>5 DEF Upgrade
<1> QED BY <1>1, <1>2, <1>3, <1>4 DEF Next

\* An upgrade takes the vectors over, unless a swap comes between.
LEMMA VecsNext == Types /\ Vecs /\ [Next]_vars => Vecs'
<1> SUFFICES ASSUME Types, Vecs, [Next]_vars PROVE Vecs'
  OBVIOUS
<1> USE DEF Vecs
<1>1. CASE UNCHANGED vars
  BY <1>1 DEF vars
<1>2. ASSUME NEW s \in Symbols, Patch(s) PROVE Vecs'
  BY <1>2 DEF Patch, RemoveDocs, EvictNodes, AddNode, AddDoc, PatchStep
<1>3. ASSUME NEW i \in Indexers, Build(i) PROVE Vecs'
  <2>1. ASSUME NEW full \in BOOLEAN, NEW changed, StartBuild(i, full, changed) PROVE Vecs'
    BY <2>1 DEF StartBuild
  <2>2. ASSUME NEW s \in Symbols, BuildAdd(i, s) PROVE Vecs'
    BY <2>2 DEF BuildAdd
  <2>3. CASE BuildNodes(i)
    BY <2>3 DEF BuildNodes
  <2>4. CASE BuildTextOnly(i)
    BY <2>4 DEF BuildTextOnly
  <2>5. CASE BuildInner(i)
    BY <2>5 DEF BuildInner
  <2>6. CASE BuildSwap(i)
    BY <2>6 DEF BuildSwap, Crosses
  <2>7. CASE BuildClose(i)
    BY <2>7 DEF BuildClose, Closes
  <2>8. CASE BuildEnd(i)
    BY <2>8 DEF BuildEnd
  <2> QED BY <1>3, <2>1, <2>2, <2>3, <2>4, <2>5, <2>6, <2>7, <2>8 DEF Build
<1>4. ASSUME NEW i \in Indexers, Upgrade(i) PROVE Vecs'
  <2>0. build[i] \in BuildState /\ upg[i] \in UpgradeState
    BY DEF Types
  <2>1. CASE UpgradeNot(i)
    BY <2>1 DEF UpgradeNot
  <2>2. CASE UpgradeCopy(i)
    BY <2>2 DEF UpgradeCopy
  <2>3. CASE UpgradeInner(i)
    BY <2>3 DEF UpgradeInner, Types
  <2>4. CASE UpgradeSwap(i)
    BY <2>4, <2>0 DEF UpgradeSwap, Crosses, Types, BuildState, UpgradeState
  <2>5. CASE UpgradeClose(i)
    BY <2>5 DEF UpgradeClose, Closes
  <2> QED BY <1>4, <2>1, <2>2, <2>3, <2>4, <2>5 DEF Upgrade
<1> QED BY <1>1, <1>2, <1>3, <1>4 DEF Next

\* A patch of a symbol, and a build that changes it, tear the copies of it.
LEMMA CopiesNext == Types /\ Fresh /\ Copies /\ [Next]_vars => Copies'
<1> SUFFICES ASSUME Types, Fresh, Copies, [Next]_vars,
                    NEW i \in Indexers', NEW s \in (Symbols \ torn)'
             PROVE  /\ upg'[i].pc \in {"inner", "swap"} =>
                          patch'[s] = "idle" /\ docs'[i][s] = graph'[s]
                    /\ build'[i].pc = "add" /\ s \in build'[i].todo =>
                          patch'[s] = "idle" /\ build'[i].copy[s] = graph'[s]
  BY DEF Copies
<1> DEFINE Goal == /\ upg'[i].pc \in {"inner", "swap"} =>
                         patch'[s] = "idle" /\ docs'[i][s] = graph'[s]
                   /\ build'[i].pc = "add" /\ s \in build'[i].todo =>
                         patch'[s] = "idle" /\ build'[i].copy[s] = graph'[s]
<1>0. /\ s \in Symbols /\ i \in Indexers /\ i \in Backends /\ inner.text \in Backends
      /\ upg[i].pc \in {"inner", "swap"} => inner.text # i
      /\ build[i] \in BuildState /\ upg[i] \in UpgradeState
  BY Constants DEF Types, Fresh
<1>1. s \notin torn =>
         /\ upg[i].pc \in {"inner", "swap"} => patch[s] = "idle" /\ docs[i][s] = graph[s]
         /\ build[i].pc = "add" /\ s \in build[i].todo =>
               patch[s] = "idle" /\ build[i].copy[s] = graph[s]
  BY <1>0 DEF Copies
<1>2. ASSUME NEW b \in Backends, NEW x \in Symbols, NEW v, b # i
      PROVE  SearchAdd(b, x, v)[i] = docs[i]
  BY <1>0, <1>2 DEF SearchAdd, Types
<1>3. CASE UNCHANGED vars
  BY <1>1, <1>3 DEF vars
<1>4. ASSUME NEW x \in Symbols, Patch(x) PROVE Goal
  <2>1. /\ torn' = IF Copying(x) THEN torn \cup {x} ELSE torn
        /\ build' = build /\ upg' = upg
        /\ \A y \in Symbols : y # x => patch'[y] = patch[y] /\ graph'[y] = graph[y]
    BY <1>4 DEF Patch, RemoveDocs, EvictNodes, AddNode, AddDoc, PatchStep, Types, Entries
  <2>2. upg[i].pc \in {"inner", "swap"} => docs'[i] = docs[i]
    BY <1>0, <1>2, <1>4 DEF Patch, RemoveDocs, EvictNodes, AddNode, AddDoc, SearchRemove
  <2>3. s \notin torn
    BY <2>1
  <2>4. CASE s = x
    <3>1. ~Copying(s)
      BY <2>1, <2>4
    <3> QED BY <2>1, <3>1, <1>0 DEF Copying
  <2>5. CASE s # x
    BY <2>1, <2>2, <2>3, <2>5, <1>0, <1>1
  <2> QED BY <2>4, <2>5
<1>5. ASSUME NEW j \in Indexers, Build(j) PROVE Goal
  <2>0. build[j] \in BuildState
    BY DEF Types
  <2>1. ASSUME NEW full \in BOOLEAN, NEW changed \in SUBSET Symbols, StartBuild(j, full, changed)
        PROVE  Goal
    <3>1. s \notin torn /\ (s \in changed => ~Copying(s))
      BY <2>1, <1>0 DEF StartBuild
    <3>2. /\ docs' = docs /\ upg' = upg /\ patch' = patch
          /\ s \notin changed => graph'[s] = graph[s]
      BY <2>1, <1>0 DEF StartBuild
    <3>3. build'[i] = build[i] \/ build'[i].pc = "nodes"
      BY <2>1, <1>0, Constants DEF StartBuild, Types
    <3>4. CASE s \in changed
      BY <3>1, <3>2, <3>3, <3>4, <1>0 DEF Copying
    <3> QED BY <3>1, <3>2, <3>3, <3>4, <1>1
  <2>2. CASE BuildNodes(j)
    <3>1. s \notin torn /\ patch[s] = "idle"
      BY <2>2, <1>0 DEF BuildNodes
    <3>2. build'[i] = build[i] \/ build'[i].copy = graph
      BY <2>2, <1>0, <2>0 DEF BuildNodes, Types, BuildState
    <3> QED BY <2>2, <3>1, <3>2, <1>1 DEF BuildNodes
  <2>3. ASSUME NEW x \in Symbols, BuildAdd(j, x) PROVE Goal
    <3>1. upg[i].pc \in {"inner", "swap"} => docs'[i] = docs[i]
      BY <2>3, <1>0, <1>2 DEF BuildAdd
    <3>2. /\ build'[i].pc = build[i].pc /\ build'[i].copy = build[i].copy
          /\ build'[i].todo \subseteq build[i].todo
      BY <2>3, <1>0, <2>0 DEF BuildAdd, Types, BuildState
    <3> QED BY <2>3, <3>1, <3>2, <1>1 DEF BuildAdd
  <2>4. CASE BuildTextOnly(j)
    BY <2>4, <1>0, <1>1 DEF BuildTextOnly, Types, BuildState
  <2>5. CASE BuildInner(j)
    BY <2>5, <1>0, <1>1 DEF BuildInner, Types, BuildState
  <2>6. CASE BuildSwap(j)
    BY <2>6, <1>0, <1>1 DEF BuildSwap, Types, BuildState
  <2>7. CASE BuildClose(j)
    BY <2>7, <1>0, <1>1 DEF BuildClose, Types, BuildState
  <2>8. CASE BuildEnd(j)
    <3>1. build'[i] = build[i] \/ build'[i].pc = "idle"
      BY <2>8, <1>0, Constants DEF BuildEnd, Types
    <3>2. upg'[i].pc \in {upg[i].pc, "check"}
      BY <2>8, <1>0 DEF BuildEnd, Types, UpgradeState
    <3> QED BY <2>8, <3>1, <3>2, <1>1 DEF BuildEnd
  <2>9. \A x \in Symbols : {} \in SUBSET Symbols /\ {x} \in SUBSET Symbols
    OBVIOUS
  <2> QED BY <1>5, <2>1, <2>2, <2>3, <2>4, <2>5, <2>6, <2>7, <2>8, <2>9 DEF Build
<1>6. ASSUME NEW j \in Indexers, Upgrade(j) PROVE Goal
  <2>1. CASE UpgradeNot(j)
    BY <2>1, <1>0, <1>1 DEF UpgradeNot, Types, UpgradeState
  <2>2. CASE UpgradeCopy(j)
    <3>1. s \notin torn /\ patch[s] = "idle"
      BY <2>2, <1>0 DEF UpgradeCopy
    <3>2. docs'[i] = IF i = j THEN graph ELSE docs[i]
      BY <2>2, <1>0 DEF UpgradeCopy, Types
    <3>3. i # j => upg'[i] = upg[i]
      BY <2>2, <1>0 DEF UpgradeCopy, Types
    <3> QED BY <2>2, <3>1, <3>2, <3>3, <1>1 DEF UpgradeCopy
  <2>3. CASE UpgradeInner(j)
    BY <2>3, <1>0, <1>1 DEF UpgradeInner, Types, UpgradeState
  <2>4. CASE UpgradeSwap(j)
    BY <2>4, <1>0, <1>1 DEF UpgradeSwap, Types, UpgradeState
  <2>5. CASE UpgradeClose(j)
    BY <2>5, <1>0, <1>1, Constants DEF UpgradeClose, Types, UpgradeState
  <2> QED BY <1>6, <2>1, <2>2, <2>3, <2>4, <2>5 DEF Upgrade
<1> QED BY <1>3, <1>4, <1>5, <1>6 DEF Next

\* Another swap between the Inner and the Swap of a build crosses it.
LEMMA WrapsNext == Types /\ Wraps /\ [Next]_vars => Wraps'
<1> SUFFICES ASSUME Types, Wraps, [Next]_vars PROVE Wraps'
  OBVIOUS
<1> USE DEF Wraps
<1>1. CASE UNCHANGED vars
  BY <1>1 DEF vars
<1>2. ASSUME NEW s \in Symbols, Patch(s) PROVE Wraps'
  BY <1>2 DEF Patch, RemoveDocs, EvictNodes, AddNode, AddDoc, PatchStep
<1>3. ASSUME NEW i \in Indexers, Build(i) PROVE Wraps'
  <2>0. build[i] \in BuildState
    BY DEF Types
  <2>1. ASSUME NEW full \in BOOLEAN, NEW changed, StartBuild(i, full, changed) PROVE Wraps'
    <3>1. \A j \in Indexers : build'[j] = build[j] \/ build'[j].pc = "nodes"
      BY <2>1, Constants DEF StartBuild, Types
    <3> QED BY <2>1, <3>1 DEF StartBuild
  <2>2. ASSUME NEW s \in Symbols, BuildAdd(i, s) PROVE Wraps'
    BY <2>2 DEF BuildAdd
  <2>3. CASE BuildNodes(i)
    BY <2>3 DEF BuildNodes, Types
  <2>4. CASE BuildTextOnly(i)
    BY <2>4 DEF BuildTextOnly, Types
  <2>5. CASE BuildInner(i)
    BY <2>5, <2>0 DEF BuildInner, Types, BuildState
  <2>6. CASE BuildSwap(i)
    BY <2>6, <2>0 DEF BuildSwap, Types, Crosses, BuildState
  <2>7. CASE BuildClose(i)
    BY <2>7 DEF BuildClose, Types
  <2>8. CASE BuildEnd(i)
    <3>1. \A j \in Indexers : build'[j] = build[j] \/ build'[j].pc = "idle"
      BY <2>8, Constants DEF BuildEnd, Types
    <3> QED BY <2>8, <3>1 DEF BuildEnd
  <2> QED BY <1>3, <2>1, <2>2, <2>3, <2>4, <2>5, <2>6, <2>7, <2>8 DEF Build
<1>4. ASSUME NEW i \in Indexers, Upgrade(i) PROVE Wraps'
  BY <1>4 DEF Upgrade, UpgradeNot, UpgradeCopy, UpgradeInner, UpgradeSwap, UpgradeClose, Crosses
<1> QED BY <1>1, <1>2, <1>3, <1>4 DEF Next

\* Patches, builds and upgrades keep the live backend in step with the graph, for
\* the symbols that none of them had a copy of when another changed them.
LEMMA FindsNext == Types /\ Fresh /\ Copies /\ Wraps /\ Finds /\ [Next]_vars => Finds'
<1> SUFFICES ASSUME Types, Fresh, Copies, Wraps, Finds, [Next]_vars,
                    inner'.text \notin closed', ~crossed',
                    NEW s \in (Symbols \ (torn \cup purged))'
             PROVE  Found(s)'
  BY DEF Finds
<1>0. s \in Symbols /\ s \notin torn' /\ s \notin purged' /\ inner.text \in Backends
  BY DEF Types
<1>1. s \notin torn /\ s \notin purged /\ inner.text \notin closed /\ ~crossed => Found(s)
  BY <1>0 DEF Finds
<1>2. ASSUME NEW b \in Backends, b \notin closed, NEW x \in Symbols, NEW v
      PROVE  /\ SearchAdd(b, x, v)[b][x] = v
             /\ \A y \in Symbols : y # x => SearchAdd(b, x, v)[b][y] = docs[b][y]
  BY <1>2 DEF SearchAdd, Types, Entries
<1>3. CASE UNCHANGED vars
  BY <1>1, <1>0, <1>3 DEF vars, Found, Pending
<1>4. ASSUME NEW x \in Symbols, Patch(x) PROVE Found(s)'
  <2>1. /\ inner' = inner /\ closed' = closed /\ crossed' = crossed /\ build' = build
        /\ s \notin torn /\ inner.text \notin closed /\ ~crossed
    BY <1>4, <1>0 DEF Patch, RemoveDocs, EvictNodes, AddNode, AddDoc, PatchStep
  <2>2. Pending(s)' <=> Pending(s)
    BY <2>1 DEF Pending
  <2>3. CASE s # x
    <3>1. patch'[s] = patch[s] /\ graph'[s] = graph[s] /\ s \notin purged
      BY <1>4, <1>0, <2>3 DEF Patch, RemoveDocs, EvictNodes, AddNode, AddDoc, PatchStep, Types, Entries
    <3>2. docs'[inner.text][s] = docs[inner.text][s]
      BY <1>4, <1>0, <1>2, <2>1, <2>3
         DEF Patch, RemoveDocs, EvictNodes, AddNode, AddDoc, SearchRemove
    <3> QED BY <1>1, <2>1, <2>2, <3>1, <3>2 DEF Found
  <2>4. CASE s = x
    <3>1. CASE RemoveDocs(s)
      <4>1. Found(s) /\ patch[s] = "idle" /\ patch'[s] = "evict" /\ graph' = graph
        BY <1>0, <1>1, <2>1, <3>1 DEF RemoveDocs, PatchStep, Types
      <4>2. docs'[inner.text][s] = 0
        BY <1>0, <1>2, <2>1, <3>1, <4>1 DEF RemoveDocs, SearchRemove, Found
      <4> QED BY <2>1, <4>1, <4>2 DEF Found
    <3>2. CASE EvictNodes(s)
      <4>1. Found(s) /\ patch[s] = "evict" /\ patch'[s] \in {"idle", "node"}
            /\ graph'[s] = 0 /\ docs' = docs
        BY <1>0, <1>1, <2>1, <3>2 DEF EvictNodes, PatchStep, Types, Entries
      <4> QED BY <2>1, <4>1 DEF Found
    <3>3. CASE AddNode(s)
      <4>1. Found(s) /\ patch[s] = "node" /\ patch'[s] = "doc" /\ docs' = docs
        BY <1>0, <1>1, <2>1, <3>3 DEF AddNode, PatchStep, Types
      <4> QED BY <2>1, <4>1 DEF Found
    <3>4. CASE AddDoc(s)
      <4>1. patch'[s] = "idle" /\ graph' = graph /\ docs'[inner.text][s] = graph[s]
        BY <1>0, <1>2, <2>1, <3>4 DEF AddDoc, PatchStep, Types
      <4> QED BY <2>1, <4>1 DEF Found
    <3> QED BY <1>4, <2>4, <3>1, <3>2, <3>3, <3>4 DEF Patch
  <2> QED BY <2>3, <2>4
<1>5. ASSUME NEW i \in Indexers, Build(i) PROVE Found(s)'
  <2>0. build[i] \in BuildState /\ patch' = patch
    BY <1>5 DEF Types, Build, StartBuild, BuildNodes, BuildAdd, BuildTextOnly, BuildInner,
                BuildSwap, BuildClose, BuildEnd
  <2>1. ASSUME NEW full \in BOOLEAN, NEW changed \in SUBSET Symbols, IsFiniteSet(changed),
               StartBuild(i, full, changed)
        PROVE  Found(s)'
    <3>1. /\ inner' = inner /\ docs' = docs /\ Found(s)
          /\ s \in changed => full /\ patch[s] = "idle"
      BY <2>1, <1>0, <1>1 DEF StartBuild
    <3>2. edits' + 1 # 0
      BY <2>1, FS_CardinalityType DEF StartBuild, Types
    <3>3. graph'[s] = graph[s] \/ (graph'[s] # 0 /\ patch[s] = "idle")
      BY <2>1, <1>0, <3>1, <3>2 DEF StartBuild
    <3>4. Pending(s)'
      BY <2>1, Constants DEF StartBuild, Types, Pending
    <3>5. s \notin changed => graph'[s] = graph[s]
      BY <2>1, <1>0 DEF StartBuild
    <3> QED BY <2>0, <3>1, <3>3, <3>4, <3>5 DEF Found
  <2>2. CASE BuildNodes(i)
    <3>1. inner' = inner /\ docs' = docs /\ graph' = graph /\ Found(s)
      BY <2>2, <1>0, <1>1 DEF BuildNodes
    <3>2. graph[s] # 0 => Pending(s)'
      BY <2>2, <2>0, <1>0 DEF BuildNodes, Pending, Types, BuildState
    <3> QED BY <2>0, <3>1, <3>2 DEF Found
  <2>3. ASSUME NEW x \in Symbols, BuildAdd(i, x) PROVE Found(s)'
    <3>1. /\ inner' = inner /\ closed' = closed /\ graph' = graph
          /\ inner.text \notin closed /\ s \notin torn /\ ~crossed
      BY <2>3, <1>0 DEF BuildAdd
    <3>2. CASE s = x
      <4>1. patch[s] = "idle" /\ build[i].copy[s] = graph[s]
        BY <2>3, <3>1, <3>2, <1>0 DEF BuildAdd, Copies
      <4>2. docs'[inner.text][s] = graph[s]
        BY <2>3, <3>1, <3>2, <4>1, <1>0, <1>2 DEF BuildAdd
      <4> QED BY <2>0, <3>1, <4>1, <4>2 DEF Found
    <3>3. CASE s # x
      <4>1. Found(s) /\ docs'[inner.text][s] = docs[inner.text][s]
        BY <2>3, <3>1, <3>3, <1>0, <1>1, <1>2 DEF BuildAdd
      <4>2. Pending(s) => Pending(s)'
        BY <2>3, <2>0, <3>3 DEF BuildAdd, Pending, Types, BuildState
      <4> QED BY <2>0, <3>1, <4>1, <4>2 DEF Found
    <3> QED BY <3>2, <3>3
  <2>4. ASSUME inner'.text = inner.text, docs' = docs, graph' = graph,
               torn' = torn, purged' = purged, closed \subseteq closed', crossed => crossed',
               \A j \in Indexers \ {i} : build'[j] = build[j],
               build[i].pc # "nodes", build[i].pc = "add" => build[i].todo = {}
        PROVE  Found(s)'
    <3>1. Found(s)
      BY <2>4, <1>0, <1>1
    <3>2. Pending(s) => Pending(s)'
      BY <2>4 DEF Pending
    <3> QED BY <2>0, <2>4, <3>1, <3>2 DEF Found
  <2>5. CASE BuildTextOnly(i)
    BY <2>4, <2>5 DEF BuildTextOnly, Types
  <2>6. CASE BuildInner(i)
    BY <2>4, <2>6 DEF BuildInner, Types
  <2>7. CASE BuildSwap(i)
    <3>1. crossed => crossed'
      BY <2>7, Zenon DEF BuildSwap
    <3>2. inner'.text = inner.text
      BY <2>7, <3>1 DEF BuildSwap, Wraps
    <3>3. \A j \in Indexers \ {i} : build'[j] = build[j]
      BY <2>7 DEF BuildSwap, Types
    <3> QED BY <2>4, <2>7, <3>1, <3>2, <3>3 DEF BuildSwap
  <2>8. CASE BuildClose(i)
    <3>1. \A j \in Indexers \ {i} : build'[j] = build[j]
      BY <2>8 DEF BuildClose, Types
    <3> QED BY <2>4, <2>8, <3>1 DEF BuildClose, Closes
  <2>9. CASE BuildEnd(i)
    <3>1. \A j \in Indexers \ {i} : build'[j] = build[j]
      BY <2>9 DEF BuildEnd, Types
    <3> QED BY <2>4, <2>9, <3>1 DEF BuildEnd
  <2>10. \A x \in Symbols : /\ {} \in SUBSET Symbols /\ IsFiniteSet({})
                            /\ {x} \in SUBSET Symbols /\ IsFiniteSet({x})
    BY FS_EmptySet, FS_Singleton
  <2> QED BY <1>5, <2>1, <2>2, <2>3, <2>5, <2>6, <2>7, <2>8, <2>9, <2>10 DEF Build
<1>6. ASSUME NEW i \in Indexers, Upgrade(i) PROVE Found(s)'
  <2>0. patch' = patch /\ graph' = graph /\ build' = build /\ purged' = purged
    BY <1>6 DEF Upgrade, UpgradeNot, UpgradeCopy, UpgradeInner, UpgradeSwap, UpgradeClose
  <2>1. Pending(s)' <=> Pending(s)
    BY <2>0 DEF Pending
  <2>2. ASSUME inner' = inner, docs'[inner.text] = docs[inner.text], torn \subseteq torn',
               closed \subseteq closed', crossed' = crossed
        PROVE  Found(s)'
    BY <2>0, <2>1, <2>2, <1>0, <1>1 DEF Found
  <2>3. CASE UpgradeNot(i)
    BY <2>2, <2>3 DEF UpgradeNot
  <2>4. CASE UpgradeCopy(i)
    <3>1. inner.text # i
      BY <2>4 DEF UpgradeCopy, Fresh
    <3> QED BY <2>2, <2>4, <3>1, <1>0 DEF UpgradeCopy, Types
  <2>5. CASE UpgradeInner(i)
    BY <2>2, <2>5 DEF UpgradeInner
  <2>6. CASE UpgradeSwap(i)
    <3>1. inner'.text = i /\ docs' = docs /\ s \notin torn
      BY <2>6, <1>0 DEF UpgradeSwap
    <3>2. patch[s] = "idle" /\ docs[i][s] = graph[s]
      BY <2>6, <3>1, <1>0 DEF UpgradeSwap, Copies
    <3> QED BY <2>0, <3>1, <3>2 DEF Found
  <2>7. CASE UpgradeClose(i)
    BY <2>2, <2>7 DEF UpgradeClose, Closes
  <2> QED BY <1>6, <2>3, <2>4, <2>5, <2>6, <2>7 DEF Upgrade
<1> QED BY <1>3, <1>4, <1>5, <1>6 DEF Next

-------------------------------------------------------------------------------
Inv == Types /\ Fresh /\ Live /\ Vecs /\ Copies /\ Wraps /\ Finds

\* SearchIndex keeps its invariant.
LEMMA Inductive == Spec => []Inv
<1>1. Init => Inv
  BY TypesInit, InvInit DEF Inv
<1>2. Inv /\ [Next]_vars => Inv'
  BY TypesNext, FreshNext, LiveNext, VecsNext, CopiesNext, WrapsNext, FindsNext DEF Inv
<1> QED BY <1>1, <1>2, PTL DEF Spec

\* The variables keep their types, and a Bleve backend is live or closed only
\* after its upgrade has swapped it in.
THEOREM TypeCorrect == Spec => []TypeOK
<1>1. Inv => TypeOK
  <2> SUFFICES ASSUME Types, Fresh PROVE TypeOK
    BY DEF Inv
  <2>1. closed \cup ({inner.text} \ {BM25})
           \subseteq {i \in once : upg[i].pc \in {"close", "done"}}
    BY Constants DEF Types, Fresh, Backends
  <2> QED BY <2>1 DEF Types, TypeOK, Entries
<1> QED BY <1>1, Inductive, PTL

\* The text backend in use is open as long as no build wraps a Bleve backend
\* anew, whatever upgrades and builds overtake each other (Swappable.Swap).
THEOREM StaysOpen == Spec => []LiveUnlessRewrapped
<1>1. Inv => LiveUnlessRewrapped
  BY DEF Inv, Live, LiveUnlessRewrapped
<1> QED BY <1>1, Inductive, PTL

\* Vectors stay in use unless two swaps cross (upgradeSearchToBleve).
THEOREM VectorsStay == Spec => []VectorsKept
<1>1. Inv => VectorsKept
  BY DEF Inv, Vecs, VectorsKept
<1> QED BY <1>1, Inductive, PTL

\* At rest an open search index finds every symbol of the graph as it is now and
\* nothing else, with the exceptions that the history variables name (indexFile,
\* EvictFile, buildSearchIndex, upgradeSearchToBleve).
THEOREM SearchRight == Spec => []SearchMatchesGraph
<1>1. Inv => SearchMatchesGraph
  <2> SUFFICES ASSUME Inv, AtRest, inner.text \notin closed, ~crossed,
                      NEW s \in Symbols \ (torn \cup purged)
               PROVE  docs[inner.text][s] = graph[s]
    BY DEF SearchMatchesGraph
  <2>1. Found(s)
    BY DEF Inv, Finds
  <2>2. patch[s] = "idle" /\ ~Pending(s)
    BY DEF AtRest, Pending
  <2> QED BY <2>1, <2>2 DEF Found
<1> QED BY <1>1, Inductive, PTL
===============================================================================
