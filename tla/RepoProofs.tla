------------------------------ MODULE RepoProofs ------------------------------
(***************************************************************************)
(* Proofs about what keeps the repositories of the daemon up to date.      *)
(*                                                                         *)
(* GitWatcher, for any repository and any number of reconciles: while they *)
(* do not overlap, lastSHA names the commit whose files the index holds.   *)
(* MultiRepo, for any number of repositories and MCP clients: the          *)
(* registry, the configuration, the graph and the watchers agree about     *)
(* every repository on which nothing is under way.                         *)
(***************************************************************************)
EXTENDS GitWatcher, MultiRepo, FiniteSetTheorems, TLAPS

-------------------------------------------------------------------------------
(* GitWatcher                                                                *)

GitStates == {"free", "rebase", "sha", "old", "diff", "apply"}

RecState == [pc : GitStates, old : Commits \cup {NoCommit},
             new : Commits \cup {NoCommit}, todo : SUBSET Files]

\* The types of the variables that the watcher reads and writes.
GitTypes ==
    /\ tree \in Histories
    /\ head \in Commits
    /\ wt \in Commits
    /\ last \in Commits \cup {NoCommit}
    /\ rec \in [Slots -> RecState]
    /\ DOMAIN index = Files
    /\ torn \in SUBSET Files
    /\ overlap \in BOOLEAN

\* A reconcile knows HEAD once it has read it, and diffs two commits.
Knows ==
    \A r \in Slots :
        /\ rec[r].pc = "free" => rec[r] = Free
        /\ rec[r].pc \in {"old", "diff", "apply"} => rec[r].new \in Commits
        /\ rec[r].pc \in {"diff", "apply"} =>
              rec[r].old \in Commits /\ rec[r].old # rec[r].new

\* Without overlap one reconcile runs at a time, so that what it has read of
\* lastSHA is still there when it uses it.
Alone ==
    ~overlap =>
        /\ \A q, r \in Slots : rec[q].pc # "free" /\ rec[r].pc # "free" => q = r
        /\ \A r \in Slots : rec[r].pc \in {"diff", "apply"} => rec[r].old = last

\* A file is at lastSHA until a reconcile applies its change, and at the new
\* commit from then on; a file that the diff leaves out is at both.
Synced ==
    ~overlap /\ last # NoCommit => \A f \in Files \ torn :
        /\ (\A r \in Slots : rec[r].pc # "apply") => index[f] = tree[last][f]
        /\ \A r \in Slots : rec[r].pc = "apply" =>
              index[f] = tree[IF f \in rec[r].todo THEN rec[r].old ELSE rec[r].new][f]

GitInv == GitTypes /\ Knows /\ Alone /\ Synced

-------------------------------------------------------------------------------
\* GitInit satisfies the inductive invariant.
LEMMA GitInvInit == GitInit => GitInv
<1> SUFFICES ASSUME GitInit PROVE GitInv
  OBVIOUS
<1>1. GitTypes
  <2>1. Free \in RecState
    BY DEF Free, RecState, GitStates
  <2>2. rec \in [Slots -> RecState]
    BY <2>1 DEF GitInit
  <2>3. DOMAIN index = Files
    BY HistoriesAssumption DEF GitInit
  <2>4. QED
    BY <2>2, <2>3 DEF GitInit, GitTypes
<1>2. Knows /\ Alone
  BY DEF GitInit, Knows, Alone, Free
<1>3. Synced
  BY DEF GitInit, Synced, Free
<1>4. QED
  BY <1>1, <1>2, <1>3 DEF GitInv

\* Every step keeps the types.
LEMMA TypesNext == GitTypes /\ [GitNext]_gitVars => GitTypes'
<1> SUFFICES ASSUME GitTypes, [GitNext]_gitVars PROVE GitTypes'
  OBVIOUS
<1>1. CASE UNCHANGED gitVars
  BY <1>1 DEF gitVars, GitTypes
<1>2. ASSUME NEW c \in Commits, WriteTree(c) PROVE GitTypes'
  BY <1>2 DEF WriteTree, GitTypes
<1>3. CASE MoveHead
  BY <1>3 DEF MoveHead, GitTypes
<1>4. CASE Rebase
  BY <1>4 DEF Rebase, GitTypes
<1>5. CASE ScheduleReconcile
  BY <1>5 DEF ScheduleReconcile, GitTypes
<1>6. CASE Stop
  BY <1>6 DEF Stop, GitTypes
<1>7. ASSUME NEW r \in Slots, Fire(r) \/ Reconcile(r) PROVE GitTypes'
  <2>1. CASE Fire(r)
    <3>1. [rec[r] EXCEPT !.pc = "rebase"] \in RecState
      BY DEF GitTypes, RecState, GitStates
    <3>2. rec' \in [Slots -> RecState]
      BY <2>1, <3>1 DEF Fire, GitTypes
    <3>3. QED
      BY <2>1, <3>2 DEF Fire, GitTypes
  <2>2. CASE RebaseInProgress(r)
    <3>1. Free \in RecState
      BY DEF Free, RecState, GitStates
    <3>2. [rec[r] EXCEPT !.pc = "sha"] \in RecState
      BY DEF GitTypes, RecState, GitStates
    <3>3. rec' \in [Slots -> RecState]
      BY <2>2, <3>1, <3>2 DEF RebaseInProgress, GiveUp, GitTypes
    <3>4. QED
      BY <2>2, <3>3 DEF RebaseInProgress, GitTypes
  <2>3. CASE CurrentSHA(r)
    <3>1. Free \in RecState
      BY DEF Free, RecState, GitStates
    <3>2. [rec[r] EXCEPT !.pc = "old", !.new = head] \in RecState
      BY DEF GitTypes, RecState, GitStates
    <3>3. rec' \in [Slots -> RecState]
      BY <2>3, <3>1, <3>2 DEF CurrentSHA, GiveUp, GitTypes
    <3>4. QED
      BY <2>3, <3>3 DEF CurrentSHA, GitTypes
  <2>4. CASE Compare(r)
    <3>1. Free \in RecState
      BY DEF Free, RecState, GitStates
    <3>2. [rec[r] EXCEPT !.pc = "diff", !.old = last] \in RecState
      BY DEF GitTypes, RecState, GitStates
    <3>3. rec' \in [Slots -> RecState]
      BY <2>4, <3>1, <3>2 DEF Compare, GitTypes
    <3>4. QED
      BY <2>4, <3>3 DEF Compare, GitTypes, RecState
  <2>5. CASE DiffFailed(r)
    <3>1. Free \in RecState
      BY DEF Free, RecState, GitStates
    <3>2. rec' \in [Slots -> RecState]
      BY <2>5, <3>1 DEF DiffFailed, GiveUp, GitTypes
    <3>3. QED
      BY <2>5, <3>2 DEF DiffFailed, GitTypes
  <2>6. CASE DiffNameStatus(r)
    <3>1. [rec[r] EXCEPT !.pc = "apply", !.todo = Diff(rec[r].old, rec[r].new)] \in RecState
      BY DEF GitTypes, RecState, GitStates, Diff
    <3>2. rec' \in [Slots -> RecState]
      BY <2>6, <3>1 DEF DiffNameStatus, GitTypes
    <3>3. QED
      BY <2>6, <3>2 DEF DiffNameStatus, GitTypes
  <2>7. ASSUME NEW f \in Files, ApplyChange(r, f) PROVE GitTypes'
    <3>1. [rec[r] EXCEPT !.todo = rec[r].todo \ {f}] \in RecState
      BY DEF GitTypes, RecState
    <3>2. rec' \in [Slots -> RecState]
      BY <2>7, <3>1 DEF ApplyChange, GitTypes
    <3>3. QED
      BY <2>7, <3>2 DEF ApplyChange, GitTypes
  <2>8. CASE Record(r)
    <3>1. Free \in RecState
      BY DEF Free, RecState, GitStates
    <3>2. QED
      BY <2>8, <3>1 DEF Record, GitTypes, RecState
  <2>9. QED
    BY <1>7, <2>1, <2>2, <2>3, <2>4, <2>5, <2>6, <2>7, <2>8 DEF Reconcile
<1>8. QED
  BY <1>1, <1>2, <1>3, <1>4, <1>5, <1>6, <1>7 DEF GitNext

\* Every step keeps what a reconcile knows.
LEMMA KnowsNext == GitTypes /\ Knows /\ [GitNext]_gitVars => Knows'
<1> SUFFICES ASSUME GitTypes, Knows, [GitNext]_gitVars PROVE Knows'
  OBVIOUS
<1>1. CASE UNCHANGED gitVars
  BY <1>1 DEF gitVars, Knows
<1>2. ASSUME NEW c \in Commits, WriteTree(c) PROVE Knows'
  BY <1>2 DEF WriteTree, Knows
<1>3. CASE MoveHead
  BY <1>3 DEF MoveHead, Knows
<1>4. CASE Rebase
  BY <1>4 DEF Rebase, Knows
<1>5. CASE ScheduleReconcile
  BY <1>5 DEF ScheduleReconcile, Knows
<1>6. CASE Stop
  BY <1>6 DEF Stop, Knows
<1>7. ASSUME NEW r \in Slots, Fire(r) \/ Reconcile(r) PROVE Knows'
  <2>1. CASE Fire(r)
    BY <2>1 DEF Fire, Knows
  <2>2. CASE RebaseInProgress(r)
    <3>1. rec' = [rec EXCEPT ![r] = Free] \/ rec' = [rec EXCEPT ![r].pc = "sha"]
      BY <2>2 DEF RebaseInProgress, GiveUp
    <3>2. CASE rec' = [rec EXCEPT ![r] = Free]
      BY <3>2 DEF GitTypes, Knows, Free
    <3>3. CASE rec' = [rec EXCEPT ![r].pc = "sha"]
      BY <3>3 DEF Knows
    <3>4. QED
      BY <3>1, <3>2, <3>3
  <2>3. CASE CurrentSHA(r)
    <3>1. rec' = [rec EXCEPT ![r] = Free] \/ rec' = [rec EXCEPT ![r].pc = "old", ![r].new = head]
      BY <2>3 DEF CurrentSHA, GiveUp
    <3>2. CASE rec' = [rec EXCEPT ![r] = Free]
      BY <3>2 DEF GitTypes, Knows, Free
    <3>3. CASE rec' = [rec EXCEPT ![r].pc = "old", ![r].new = head]
      BY <3>3 DEF GitTypes, Knows
    <3>4. QED
      BY <3>1, <3>2, <3>3
  <2>4. CASE Compare(r)
    BY <2>4, NamesAssumption DEF Compare, GitTypes, RecState, GitStates, Knows, Free
  <2>5. CASE DiffFailed(r)
    BY <2>5 DEF DiffFailed, GiveUp, GitTypes, Knows, Free
  <2>6. CASE DiffNameStatus(r)
    BY <2>6, NamesAssumption DEF DiffNameStatus, Diff, GitTypes, RecState, GitStates, Knows, Free
  <2>7. ASSUME NEW f \in Files, ApplyChange(r, f) PROVE Knows'
    BY <2>7, NamesAssumption DEF ApplyChange, GitTypes, RecState, GitStates, Knows, Free
  <2>8. CASE Record(r)
    BY <2>8 DEF Record, GitTypes, Knows, Free
  <2>9. QED
    BY <1>7, <2>1, <2>2, <2>3, <2>4, <2>5, <2>6, <2>7, <2>8 DEF Reconcile
<1>8. QED
  BY <1>1, <1>2, <1>3, <1>4, <1>5, <1>6, <1>7 DEF GitNext

\* Every step keeps reconciles that do not overlap apart, and lastSHA with the one
\* that has read it.
LEMMA AloneNext == GitTypes /\ Knows /\ Alone /\ [GitNext]_gitVars => Alone'
<1> SUFFICES ASSUME GitTypes, Knows, Alone, [GitNext]_gitVars PROVE Alone'
  OBVIOUS
<1>1. CASE UNCHANGED gitVars
  BY <1>1 DEF gitVars, Alone
<1>2. ASSUME NEW c \in Commits, WriteTree(c) PROVE Alone'
  BY <1>2 DEF WriteTree, Alone
<1>3. CASE MoveHead
  BY <1>3 DEF MoveHead, Alone
<1>4. CASE Rebase
  BY <1>4 DEF Rebase, Alone
<1>5. CASE ScheduleReconcile
  BY <1>5 DEF ScheduleReconcile, Alone
<1>6. CASE Stop
  BY <1>6 DEF Stop, Alone
<1>7. ASSUME NEW r \in Slots, Fire(r) \/ Reconcile(r) PROVE Alone'
  <2>1. CASE Fire(r)
    <3>1. ~overlap' => ~overlap /\ \A q \in Slots : rec[q] = Free
      BY <2>1, Zenon DEF Fire
    <3>2. QED
      BY <2>1, <3>1 DEF Fire, Alone
  <2>2. CASE RebaseInProgress(r)
    BY <2>2 DEF RebaseInProgress, GiveUp, GitTypes, RecState, Alone, Free
  <2>3. CASE CurrentSHA(r)
    BY <2>3 DEF CurrentSHA, GiveUp, GitTypes, RecState, Alone, Free
  <2>4. CASE Compare(r)
    BY <2>4 DEF Compare, GitTypes, Alone, Free
  <2>5. CASE DiffFailed(r)
    BY <2>5 DEF DiffFailed, GiveUp, Alone, Free
  <2>6. CASE DiffNameStatus(r)
    BY <2>6 DEF DiffNameStatus, GitTypes, RecState, Alone
  <2>7. ASSUME NEW f \in Files, ApplyChange(r, f) PROVE Alone'
    BY <2>7 DEF ApplyChange, Alone
  <2>8. CASE Record(r)
    BY <2>8 DEF Record, GitTypes, Alone, Free
  <2>9. QED
    BY <1>7, <2>1, <2>2, <2>3, <2>4, <2>5, <2>6, <2>7, <2>8 DEF Reconcile
<1>8. QED
  BY <1>1, <1>2, <1>3, <1>4, <1>5, <1>6, <1>7 DEF GitNext

\* Every step keeps each file where lastSHA or the reconcile at work has it.
LEMMA SyncedNext == GitTypes /\ Knows /\ Alone /\ Synced /\ [GitNext]_gitVars => Synced'
<1> SUFFICES ASSUME GitTypes, Knows, Alone, Synced, [GitNext]_gitVars PROVE Synced'
  OBVIOUS
<1>1. CASE UNCHANGED gitVars
  BY <1>1 DEF gitVars, Synced
<1>2. ASSUME NEW c \in Commits, WriteTree(c) PROVE Synced'
  BY <1>2 DEF WriteTree, Synced
<1>3. CASE MoveHead
  BY <1>3 DEF MoveHead, Synced
<1>4. CASE Rebase
  BY <1>4 DEF Rebase, Synced
<1>5. CASE ScheduleReconcile
  BY <1>5 DEF ScheduleReconcile, Synced
<1>6. CASE Stop
  BY <1>6 DEF Stop, Synced
<1>7. ASSUME NEW r \in Slots, Fire(r) \/ Reconcile(r) PROVE Synced'
  <2>1. CASE Fire(r)
    <3>1. ~overlap' => ~overlap
      BY <2>1, Zenon DEF Fire
    <3>2. QED
      BY <2>1, <3>1 DEF Fire, Synced, Free
  <2>2. CASE RebaseInProgress(r)
    BY <2>2 DEF RebaseInProgress, GiveUp, GitTypes, RecState, Synced, Free
  <2>3. CASE CurrentSHA(r)
    BY <2>3 DEF CurrentSHA, GiveUp, GitTypes, RecState, Synced, Free
  <2>4. CASE Compare(r)
    BY <2>4 DEF Compare, GitTypes, Synced, Free
  <2>5. CASE DiffFailed(r)
    BY <2>5 DEF DiffFailed, GiveUp, Synced, Free
  <2>6. CASE DiffNameStatus(r)
    BY <2>6 DEF DiffNameStatus, Diff, GitTypes, Alone, Synced
  <2>7. ASSUME NEW f \in Files, ApplyChange(r, f) PROVE Synced'
    BY <2>7 DEF ApplyChange, GitTypes, Alone, Synced
  <2>8. CASE Record(r)
    BY <2>8, NamesAssumption DEF Record, Knows, Alone, Synced, Free
  <2>9. QED
    BY <1>7, <2>1, <2>2, <2>3, <2>4, <2>5, <2>6, <2>7, <2>8 DEF Reconcile
<1>8. QED
  BY <1>1, <1>2, <1>3, <1>4, <1>5, <1>6, <1>7 DEF GitNext

\* The inductive invariant holds in every reachable state.
LEMMA GitInductive == GitSpec => []GitInv
<1>1. GitInv /\ [GitNext]_gitVars => GitInv'
  BY TypesNext, KnowsNext, AloneNext, SyncedNext DEF GitInv
<1>2. QED
  BY GitInvInit, <1>1, PTL DEF GitSpec

-------------------------------------------------------------------------------
\* The variables keep the types the code gives them, and a reconcile diffs two
\* different commits.
THEOREM GitTypeCorrect == GitSpec => []GitTypeOK
<1>1. GitInv => GitTypeOK
  BY DEF GitInv, GitTypes, RecState, GitStates, Knows, GitTypeOK
<1>2. QED
  BY <1>1, GitInductive, PTL

\* For every history of a repository and every sequence of moves, rebases, lost
\* events and failing git commands, the next diff starts from the commit whose
\* files the index holds, with the exemptions of IndexIsLastSHA (reconcile,
\* applyChanges).
THEOREM IndexAtLastSHA == GitSpec => []IndexIsLastSHA
<1>1. GitInv => IndexIsLastSHA
  BY DEF GitInv, Synced, IndexIsLastSHA, Quiet, Free
<1>2. QED
  BY <1>1, GitInductive, PTL

-------------------------------------------------------------------------------
(* MultiRepo                                                                 *)

States == {"idle", "next", "check", "index", "register", "add", "attach", "read", "reindex",
           "replace", "detach", "delete", "evict", "remove", "scan", "start", "hand", "done"}

Kinds == {"none", "track", "untrack", "index", "warm", "reload", "drop", "janitor"}

\* Where a thread has a repository in hand.
Working == States \ {"idle", "next", "start", "hand", "done"}

Thread == [pc : States, kind : Kinds, repo : Repos \cup {None}, as : Schemes \cup {None},
           todo : SUBSET Repos, want : SUBSET Repos]

\* The types of the variables.
Types ==
    /\ repos \in [Repos -> Schemes \cup {None}]
    /\ nodes \in [Repos -> SUBSET Schemes]
    /\ config \in Seq(Repos)
    /\ range \in [Threads -> [list : Seq(Repos), at : Nat \ {0}]]
    /\ live \in SUBSET Threads
    /\ patch \in [Repos -> Schemes \cup {None}]
    /\ watch \in [Repos -> [st : {"none", "created", "failed", "started"}, as : Schemes \cup {None}]]
    /\ listed \in BOOLEAN /\ attached \in BOOLEAN
    /\ th \in [Threads -> Thread]
    /\ left \in Nat
    /\ odd \in SUBSET Repos /\ loose \in SUBSET Repos

\* The calls that a thread makes, and where each of them takes it.
Role(t) ==
    /\ th[t].pc \in Working => th[t].repo \in Repos
    /\ th[t].pc \in {"index", "register", "replace"} => th[t].as \in Schemes
    /\ th[t].kind = "none" <=> th[t].pc = "idle"
    /\ th[t].pc = "idle" => th[t] = Idle
    /\ th[t].pc = "next" => th[t].repo = None
    /\ th[t].kind = "warm" <=> t = Warmup
    /\ th[t].kind = "janitor" => t = Janitor
    /\ th[t].kind = "index" => t \in Clients
    /\ th[t].kind \in {"reload", "drop"} => t = Controller
    /\ th[t].kind = "track" => th[t].pc \in {"check", "index", "register", "add", "attach"}
    /\ th[t].kind = "untrack" => th[t].pc \in {"detach", "delete", "evict", "remove"}
    /\ th[t].kind = "index" =>
          th[t].pc \in {"check", "index", "register", "add", "read", "reindex", "replace"}
    /\ th[t].kind = "warm" =>
          th[t].pc \in {"next", "check", "index", "register", "add", "start", "hand", "done"}
    /\ th[t].kind = "reload" => th[t].pc \in {"next", "check", "index", "register", "add"}
    /\ th[t].kind = "drop" => th[t].pc \in {"next", "delete", "evict", "remove"}
    /\ th[t].kind = "janitor" => th[t].pc \in {"next", "scan", "index"}
    /\ th[t].kind \notin {"drop", "janitor"} => th[t].todo = {}
    /\ th[t].pc \in {"start", "hand", "done"} => th[t].repo = None
    /\ th[t].pc \in {"detach", "attach"} => t = Controller
    /\ th[t].pc = "attach" => attached

Roles == \A t \in Threads : Role(t)

\* The MultiWatcher is made and handed over by the warm-up.
Making ==
    /\ listed <=> th[Warmup].pc \in {"start", "hand", "done"}
    /\ attached <=> th[Warmup].pc = "done"
    /\ ~listed => \A r \in Repos : watch[r] = Unwatched
    /\ \A r \in Repos : watch[r].st # "none" => watch[r].as # None

Base == Types /\ Roles /\ Making

\* The slices in the array of the configuration show it as far as it reaches.
Slices ==
    /\ Distinct(config)
    /\ \A t \in live : /\ t \in {Warmup, Controller}
                       /\ Len(config) <= Len(range[t].list)
                       /\ \A i \in 1..Len(config) : range[t].list[i] = config[i]

On(t, r, S) == th[t].repo = r /\ th[t].pc \in S
Some(r, S) == \E t \in Threads : On(t, r, S)

\* The warm-up will index r, of which the graph has the snapshot's nodes.
Warming(r) ==
    /\ r \in th[Warmup].want
    /\ r \in Rest(Warmup) \/ On(Warmup, r, {"check", "index"})

\* The warm-up or a reload will track r.
Wanted(t, r) ==
    /\ th[t].kind \in {"warm", "reload"}
    /\ r \in Rest(t) \/ On(t, r, {"check", "index", "register"})

\* A reload will untrack r.
Unwanted(t, r) ==
    \/ th[t].kind = "reload" /\ r \notin th[t].want \cup Rest(t)
    \/ th[t].kind = "drop" /\ (r \in th[t].todo \/ On(t, r, {"delete"}))

\* The janitor writes what it finds changed of r.
Patching(t, r) == th[t].kind = "janitor" /\ On(t, r, {"index"})

\* The nodes of an untracked repository are about to go, or to be tracked.
NodesGoing(r) ==
    repos[r] = None => nodes[r] = {} \/ Some(r, {"evict", "register"}) \/ Warming(r)

\* The nodes of a tracked one are its indexer's, or about to be.
NodesOwned(r) ==
    repos[r] # None => \/ nodes[r] = {repos[r]}
                       \/ Some(r, {"reindex"})
                       \/ \E t \in Threads : On(t, r, {"replace"}) /\ nodes[r] = {th[t].as}

\* Who registers has written nodes.
NodesThere(r) ==
    (Warming(r) \/ Some(r, {"register"})) /\ nodes[r] = {} => Some(r, {"reindex"})

\* Who indexes again what has been untracked meanwhile, does so before the eviction.
UntrackedUnder(r) ==
    \A t \in Threads :
        /\ On(t, r, {"reindex", "replace"}) \/ Patching(t, r)
        /\ repos[r] = None
        => Some(r, {"evict"})

ConfiguredTracked(r) ==
    repos[r] = None /\ r \in Configured =>
        Some(r, {"evict", "remove"}) \/ \E t \in Threads : Wanted(t, r)

TrackedConfigured(r) ==
    repos[r] # None /\ r \notin Configured =>
        Some(r, {"add"}) \/ \E t \in Threads : Unwanted(t, r)

Regular(r) ==
    /\ NodesGoing(r) /\ NodesOwned(r) /\ NodesThere(r)
    /\ UntrackedUnder(r) /\ ConfiguredTracked(r) /\ TrackedConfigured(r)

Reg == \A r \in Repos : r \notin odd => Regular(r)

Started(r) == watch[r].st = "started"

\* The controller has taken r from the MultiWatcher and not from the registry yet.
Detached(r) == th[Controller].kind = "untrack" /\ On(Controller, r, {"delete"})

Followed(r) ==
   /\ th[Warmup].pc = "start" => watch[r].st = (IF repos[r] = None THEN "none" ELSE "created")
   /\ th[Warmup].pc \in {"hand", "done"} => watch[r].st \notin {"created", "failed"}
   /\ th[Warmup].pc = "hand" => (Started(r) <=> repos[r] # None)
   /\ th[Warmup].pc = "done" =>
        \/ Started(r) <=> repos[r] # None
        \/ th[Controller].kind = "track" /\ On(Controller, r, {"add", "attach"}) /\ repos[r] # None
        \/ Detached(r)
   /\ th[Warmup].pc = "done" /\ Detached(r) => ~Started(r)

Wat == \A r \in Repos : r \notin loose => Followed(r)

Inv == Base /\ Slices /\ Reg /\ Wat

-------------------------------------------------------------------------------
(* The types of the threads, and what a step leaves alone                    *)

ThreadStep(t) ==
    \/ \E r \in Repos : Track(t, r) \/ Untrack(t, r) \/ Reindex(t, r) \/ LoopNext(t, r)
    \/ RangeNext(t) \/ LoopEnd(t) \/ Check(t) \/ Index(t) \/ IndexFails(t) \/ Register(t) \/ AddRepo(t)
    \/ Read(t) \/ WriteReindex(t) \/ Replace(t)
    \/ Detach(t) \/ Delete(t) \/ Evict(t) \/ Remove(t)
    \/ Attach(t) \/ AttachFails(t) \/ Scan(t)

\* The threads other than t.
Others(t) == \A u \in Threads : u # t => th'[u] = th[u]

\* A thread that does nothing.
LEMMA IdleType == Idle \in Thread
  BY DEF Idle, Thread, States, Kinds

\* t goes to p; t goes on with its loop or returns; t does either or reads.
Gone(t, p) ==
    /\ th'[t].pc = p /\ th'[t].kind = th[t].kind /\ th'[t].repo = th[t].repo
    /\ th'[t].as = th[t].as /\ th'[t].todo = th[t].todo /\ th'[t].want = th[t].want

Looped(t) ==
    /\ th'[t].pc = "next" /\ th'[t].kind = th[t].kind
    /\ th'[t].repo = None /\ th'[t].as = None
    /\ th'[t].todo = th[t].todo /\ th'[t].want = th[t].want

Returned(t) ==
    IF th[t].kind \in {"warm", "reload", "drop", "janitor"} THEN Looped(t) ELSE th'[t] = Idle

\* Leave: the loop of t goes on, or its call returns.
LEMMA LeaveType ==
    ASSUME Types, NEW t \in Threads, Leave(t)
    PROVE  th' \in [Threads -> Thread] /\ Others(t) /\ Returned(t)
  <1>0. th[t] \in Thread  BY DEF Types
  <1>1. [th[t] EXCEPT !.pc = "next", !.repo = None, !.as = None] \in Thread
    BY <1>0 DEF Thread, States
  <1>2. th' \in [Threads -> Thread] /\ Others(t)
    BY <1>1, IdleType DEF Leave, Types, Others
  <1>3. th'[t] = IF th[t].kind \in {"warm", "reload", "drop", "janitor"}
                 THEN [th[t] EXCEPT !.pc = "next", !.repo = None, !.as = None] ELSE Idle
    BY DEF Leave, Types
  <1>4. th[t] \in Thread  BY DEF Types
  <1> QED  BY <1>2, <1>3, <1>4 DEF Returned, Looped, Thread

\* Go: t goes on to p with the same call.
LEMMA GoType ==
    ASSUME Types, NEW t \in Threads, NEW p \in States, Go(t, p)
    PROVE  th' \in [Threads -> Thread] /\ Others(t) /\ Gone(t, p)
  <1>1. [th[t] EXCEPT !.pc = p] \in Thread
    BY DEF Types, Thread
  <1>2. th' \in [Threads -> Thread] /\ Others(t)
    BY <1>1 DEF Go, Types, Others
  <1>3. th[t] \in Thread /\ th'[t] = [th[t] EXCEPT !.pc = p]
    BY DEF Go, Types
  <1> QED  BY <1>2, <1>3 DEF Gone, Thread

\* After: an index_repository call goes on to IndexRepo, any other one leaves.
LEMMA AfterType ==
    ASSUME Types, NEW t \in Threads, After(t)
    PROVE  /\ th' \in [Threads -> Thread] /\ Others(t)
           /\ IF th[t].kind = "index" /\ repos[th[t].repo] # None
              THEN Gone(t, "read") ELSE Returned(t)
  <1>1. "read" \in States  BY DEF States
  <1> QED  BY <1>1, LeaveType, GoType DEF After

\* A thread's steps change nobody else's state.
LEMMA ThreadTypes ==
    ASSUME Base, NEW t \in Threads, ThreadStep(t)
    PROVE  th' \in [Threads -> Thread] /\ Others(t)
  <1> USE DEF Base
  <1>0. th \in [Threads -> Thread] /\ th[t] \in Thread  BY DEF Types
  <1>1. ASSUME NEW r \in Repos, NEW k \in Kinds, NEW p \in States, Call(t, k, r, p)
        PROVE  th' \in [Threads -> Thread] /\ Others(t)
    <2>1. [Idle EXCEPT !.pc = p, !.kind = k, !.repo = r] \in Thread
      BY IdleType DEF Thread
    <2> QED  BY <1>0, <1>1, <2>1 DEF Call, Others
  <1>2. CASE \E r \in Repos : Track(t, r) \/ Untrack(t, r) \/ Reindex(t, r)
    BY <1>1, <1>2 DEF Track, Untrack, Reindex, Kinds, States
  <1>3. CASE \E r \in Repos : LoopNext(t, r)
    <2>1. PICK r \in Repos : LoopNext(t, r)  BY <1>3
    <2>2. PICK p \in States : th' = [th EXCEPT ![t].pc = p, ![t].repo = r, ![t].todo = @ \ {r}]
      BY <2>1 DEF LoopNext, States
    <2>3. [th[t] EXCEPT !.pc = p, !.repo = r, !.todo = @ \ {r}] \in Thread
      BY <1>0 DEF Thread
    <2>4. th' = [th EXCEPT ![t] = [th[t] EXCEPT !.pc = p, !.repo = r, !.todo = @ \ {r}]]
      BY <2>2, <1>0
    <2> QED  BY <2>3, <2>4, <1>0 DEF Others
  <1>16. CASE RangeNext(t)
    <2>1. PICK r \in Repos, want \in SUBSET Repos :
             th' = [th EXCEPT ![t].pc = "check", ![t].repo = r, ![t].want = want]
      <3>1. range[t].list[range[t].at] \in Repos /\ th[t].want \in SUBSET Repos
        BY <1>0, <1>16 DEF RangeNext, Thread, Base, Types
      <3> QED  BY <1>0, <1>16, <3>1 DEF RangeNext
    <2>2. [th[t] EXCEPT !.pc = "check", !.repo = r, !.want = want] \in Thread
      BY <1>0 DEF Thread, States
    <2>3. th' = [th EXCEPT ![t] = [th[t] EXCEPT !.pc = "check", !.repo = r, !.want = want]]
      BY <2>1, <1>0
    <2> QED  BY <2>2, <2>3, <1>0 DEF Others
  <1>4. CASE LoopEnd(t)
    <2>1. [th[t] EXCEPT !.kind = "drop", !.todo = Tracked \ th[t].want] \in Thread
      BY <1>0 DEF Thread, Kinds, Tracked
    <2>2. [th[t] EXCEPT !.pc = "start"] \in Thread
      BY <1>0 DEF Thread, States
    <2> QED  BY <2>1, <2>2, <1>0, <1>4, IdleType DEF LoopEnd, Others
  <1>5. CASE Check(t)
    <2>1. PICK s \in Schemes : After(t) \/ th' = [th EXCEPT ![t].pc = "index", ![t].as = s]
      BY <1>5 DEF Check, Schemes
    <2>2. [th[t] EXCEPT !.pc = "index", !.as = s] \in Thread
      BY <1>0 DEF Thread, States
    <2> QED  BY <2>1, <2>2, <1>0, AfterType DEF Others
  <1>6. CASE Index(t)
    <2>1. "register" \in States  BY DEF States
    <2> QED  BY <1>6, <2>1, AfterType, GoType DEF Index
  <1>7. CASE IndexFails(t)
    BY <1>7, LeaveType DEF IndexFails
  <1>8. CASE Register(t)
    <2>1. "add" \in States  BY DEF States
    <2> QED  BY <1>8, <2>1, GoType DEF Register
  <1>9. CASE AddRepo(t)
    <2>1. "attach" \in States  BY DEF States
    <2> QED  BY <1>9, <2>1, GoType, AfterType DEF AddRepo
  <1>10. CASE Read(t)
    <2>1. "reindex" \in States  BY DEF States
    <2>2. CASE th' = [th EXCEPT ![t] = Idle]
      BY <2>2, <1>0, IdleType DEF Others
    <2>3. CASE Go(t, "reindex")
      BY <2>3, <2>1, GoType
    <2> QED  BY <1>10, <2>2, <2>3 DEF Read
  <1>11. CASE WriteReindex(t)
    <2>1. PICK s \in Schemes : th' = [th EXCEPT ![t].pc = "replace", ![t].as = s]
      BY <1>11 DEF WriteReindex, Schemes
    <2>2. [th[t] EXCEPT !.pc = "replace", !.as = s] \in Thread
      BY <1>0 DEF Thread, States
    <2> QED  BY <2>1, <2>2, <1>0 DEF Others
  <1>12. CASE Replace(t) \/ Attach(t) \/ AttachFails(t)
    BY <1>12, <1>0, IdleType DEF Replace, Attach, AttachFails, Others
  <1>13. CASE Detach(t) \/ Delete(t)
    <2>1. "delete" \in States /\ "evict" \in States  BY DEF States
    <2> QED  BY <1>13, <2>1, GoType, AfterType DEF Detach, Delete
  <1>14. CASE Evict(t) \/ Remove(t)
    <2>1. "remove" \in States  BY DEF States
    <2> QED  BY <1>14, <2>1, GoType, AfterType DEF Evict, Remove
  <1>15. CASE Scan(t)
    <2>1. CASE After(t)  BY <2>1, AfterType
    <2>2. CASE ~After(t)
      <3>1. th[t].repo \in Repos
        BY <1>15 DEF Scan, Roles, Role, Working, States
      <3>2. repos[th[t].repo] \in Schemes \cup {None}
        BY <3>1 DEF Types
      <3>3. [th[t] EXCEPT !.pc = "index", !.as = repos[th[t].repo]] \in Thread
        BY <1>0, <3>2 DEF Thread, States
      <3> QED  BY <3>3, <2>2, <1>0, <1>15 DEF Scan, Others
    <2> QED  BY <2>1, <2>2
  <1> QED
    BY <1>2, <1>3, <1>4, <1>5, <1>6, <1>7, <1>8, <1>9, <1>10, <1>11, <1>12, <1>13, <1>14, <1>15,
       <1>16 DEF ThreadStep

\* The controller, the warm-up and the janitor are three threads, and no client
\* is one of them.
LEMMA ThreadsFacts ==
    /\ Controller \in Threads /\ Warmup \in Threads /\ Janitor \in Threads
    /\ Controller # Warmup /\ Controller # Janitor /\ Warmup # Janitor
    /\ \A t \in Clients : t \in Threads /\ t # Controller /\ t # Warmup /\ t # Janitor
    /\ None \notin Repos /\ None \notin Schemes
  BY ThreadsAssumption, NoneAssumption DEF Threads, Schemes

\* A step of t keeps the roles of the others.
LEMMA RolesFrame ==
    ASSUME Base, NEW t \in Threads, Others(t), attached => attached', Role(t)'
    PROVE  Roles'
  BY DEF Base, Roles, Role, Others

\* A step that does not concern the watchers.
LEMMA MakingFrame ==
    ASSUME Base, NEW t \in Threads, Others(t), watch' = watch, listed' = listed,
           attached' = attached,
           t = Warmup => /\ th[t].pc \notin {"start", "hand", "done"}
                         /\ th'[t].pc \notin {"start", "hand", "done"}
    PROVE  Making'
  BY ThreadsFacts DEF Base, Making, Others

\* t does nothing to the nodes, the registration and the configuration of r.
Neutral(t, r) ==
    ~On(t, r, {"register", "add", "reindex", "replace", "evict", "remove"})

\* Nor does t become due to register, to configure, to write or to evict r.
Settled(t, r) == ~On(t, r, {"register", "add", "reindex", "replace", "evict"})

\* The loop of t gets no new entry of r, and loses none that r depends on.
Reach(t, r) ==
    /\ r \in Rest(t)' => r \in Rest(t)
    /\ repos[r] = None /\ (r \in Configured' \/ nodes[r] # {}) /\ r \in Rest(t) => r \in Rest(t)'

\* A step that edits neither the configuration nor the slices.
LEMMA SameLists ==
    ASSUME UNCHANGED lists
    PROVE  /\ Configured' = Configured
           /\ \A u \in Threads : Rest(u)' = Rest(u)
           /\ \A u \in Threads, r \in Repos : Reach(u, r)
           /\ Slices => Slices'
  <1>1. config' = config /\ range' = range /\ live' = live  BY DEF lists
  <1>2. Configured' = Configured  BY <1>1 DEF Configured
  <1>3. \A u \in Threads : Rest(u)' = Rest(u)  BY <1>1 DEF Rest
  <1>4. Slices => Slices'  BY <1>1 DEF Slices, Distinct
  <1> QED  BY <1>2, <1>3, <1>4 DEF Reach

\* A step of no thread that edits no list changes nobody's obligations.
LEMMA SameWork ==
    ASSUME NEW r \in Repos, UNCHANGED <<lists, th>>
    PROVE  /\ \A S : Some(r, S)' <=> Some(r, S)
           /\ \A u \in Threads : \A S : On(u, r, S)' <=> On(u, r, S)
           /\ Warming(r)' <=> Warming(r)
           /\ \A u \in Threads :
               /\ Wanted(u, r)' <=> Wanted(u, r)
               /\ Unwanted(u, r)' <=> Unwanted(u, r)
               /\ Patching(u, r)' <=> Patching(u, r)
  <1>1. th' = th /\ \A u \in Threads : Rest(u)' = Rest(u)
    <2>1. UNCHANGED lists  OBVIOUS
    <2> QED  BY <2>1, SameLists
  <1>2. \A u \in Threads : \A S : On(u, r, S)' <=> On(u, r, S)  BY <1>1 DEF On
  <1>3. \A S : Some(r, S)' <=> Some(r, S)  BY <1>2 DEF Some
  <1>4. Warming(r)' <=> Warming(r)  BY <1>1, ThreadsFacts DEF Warming, On
  <1>5. \A u \in Threads :
               /\ Wanted(u, r)' <=> Wanted(u, r)
               /\ Unwanted(u, r)' <=> Unwanted(u, r)
               /\ Patching(u, r)' <=> Patching(u, r)
    BY <1>1 DEF Wanted, Unwanted, Patching, On
  <1> QED  BY <1>2, <1>3, <1>4, <1>5

\* Nor does one that leaves the nodes and the registration of r alone disturb r.
LEMMA SameRegular ==
    ASSUME NEW r \in Repos, UNCHANGED <<lists, th>>, Regular(r),
           repos'[r] = repos[r], nodes'[r] = nodes[r]
    PROVE  Regular(r)'
  <1>1. /\ \A S : Some(r, S)' <=> Some(r, S)
        /\ \A u \in Threads : \A S : On(u, r, S)' <=> On(u, r, S)
        /\ Warming(r)' <=> Warming(r)
        /\ \A u \in Threads :
               /\ Wanted(u, r)' <=> Wanted(u, r)
               /\ Unwanted(u, r)' <=> Unwanted(u, r)
               /\ Patching(u, r)' <=> Patching(u, r)
    BY SameWork
  <1>2. th' = th /\ Configured' = Configured
    <2>1. UNCHANGED lists  OBVIOUS
    <2> QED  BY <2>1, SameLists
  <1>3. NodesGoing(r)' /\ NodesThere(r)'  BY <1>1 DEF Regular, NodesGoing, NodesThere
  <1>4. NodesOwned(r)'  BY <1>1, <1>2 DEF Regular, NodesOwned
  <1>5. UntrackedUnder(r)'  BY <1>1 DEF Regular, UntrackedUnder
  <1>6. ConfiguredTracked(r)' /\ TrackedConfigured(r)'
    BY <1>1, <1>2 DEF Regular, ConfiguredTracked, TrackedConfigured
  <1> QED  BY <1>3, <1>4, <1>5, <1>6 DEF Regular

\* A step of t that changes nothing of r and gives up no obligation.
LEMMA QuietFrame ==
    ASSUME NEW t \in Threads, NEW r \in Repos, Others(t), Regular(r),
           repos'[r] = repos[r], nodes'[r] = nodes[r], r \in Configured' <=> r \in Configured,
           Neutral(t, r), Settled(t, r)', Patching(t, r)' => repos[r] # None \/ Patching(t, r),
           \A u \in Threads : u # t => Reach(u, r),
           Warming(r)' => Warming(r),
           repos[r] = None /\ nodes[r] # {} /\ Warming(r) => Warming(r)',
           repos[r] = None /\ r \in Configured /\ Wanted(t, r) => Wanted(t, r)',
           repos[r] # None /\ Unwanted(t, r) => Unwanted(t, r)'
    PROVE  Regular(r)'
  <1>1. \A u \in Threads : (u = t /\ Neutral(u, r) /\ Settled(u, r)') \/ (u # t /\ th'[u] = th[u])
    BY DEF Others
  <1>2. /\ Some(r, {"evict", "register"})' <=> Some(r, {"evict", "register"})
        /\ Some(r, {"register"})' <=> Some(r, {"register"})
        /\ Some(r, {"reindex"})' <=> Some(r, {"reindex"})
        /\ Some(r, {"evict"})' <=> Some(r, {"evict"})
        /\ Some(r, {"evict", "remove"}) => Some(r, {"evict", "remove"})'
        /\ Some(r, {"add"})' <=> Some(r, {"add"})
    BY <1>1 DEF Some, On, Neutral, Settled
  <1>3. NodesGoing(r)' /\ NodesThere(r)'
    BY <1>2 DEF Regular, NodesGoing, NodesThere
  <1>4. NodesOwned(r)'
    BY <1>1, <1>2 DEF Regular, NodesOwned, On, Neutral, Settled
  <1>5. UntrackedUnder(r)'
    BY <1>1, <1>2 DEF Regular, UntrackedUnder, On, Neutral, Settled, Patching
  <1>6. ConfiguredTracked(r)'
    <2>1. \A u \in Threads : u # t /\ repos[r] = None /\ r \in Configured /\ Wanted(u, r) => Wanted(u, r)'
      BY DEF Wanted, On, Others, Reach
    <2> QED  BY <1>2, <2>1 DEF Regular, ConfiguredTracked
  <1>7. TrackedConfigured(r)'
    <2>1. \A u \in Threads : u # t /\ Unwanted(u, r) => Unwanted(u, r)'
      BY DEF Unwanted, On, Others, Reach
    <2> QED  BY <1>2, <2>1 DEF Regular, TrackedConfigured
  <1> QED  BY <1>3, <1>4, <1>5, <1>6, <1>7 DEF Regular

\* The usual case: t does not begin to work on r.
LEMMA RegFrame ==
    ASSUME NEW t \in Threads, NEW r \in Repos, Others(t), Regular(r),
           repos'[r] = repos[r], nodes'[r] = nodes[r], UNCHANGED lists,
           Neutral(t, r), Neutral(t, r)', Patching(t, r)' => repos[r] # None \/ Patching(t, r),
           Warming(r)' => Warming(r),
           repos[r] = None /\ Warming(r) => Warming(r)',
           repos[r] = None /\ Wanted(t, r) => Wanted(t, r)',
           repos[r] # None /\ Unwanted(t, r) => Unwanted(t, r)'
    PROVE  Regular(r)'
  <1>1. Settled(t, r)'  BY DEF Neutral, Settled, On
  <1> QED  BY <1>1, SameLists, QuietFrame

\* A step of t that leaves the registry and the watcher of r alone.
LEMMA WatFrame ==
    ASSUME Base, NEW t \in Threads, NEW r \in Repos, Others(t), Followed(r),
           repos'[r] = repos[r], watch'[r] = watch[r], 
           t = Warmup => /\ th[t].pc \notin {"start", "hand", "done"}
                         /\ th'[t].pc \notin {"start", "hand", "done"},
           t = Controller =>
              /\ ~On(t, r, {"add", "attach", "delete"})
              /\ ~Detached(r)'
    PROVE  Followed(r)'
  BY ThreadsFacts DEF Followed, Started, Detached, On, Others

-------------------------------------------------------------------------------
(* Calls and loops                                                           *)

\* TrackRepo, UntrackRepo or IndexRepo is called.
LEMMA CallKeeps ==
    ASSUME Inv, NEW t \in Threads, NEW q \in Repos, NEW k \in {"track", "untrack", "index"},
           NEW p \in {"check", "detach", "delete", "read", "remove"},
           Call(t, k, q, p),
           k = "track" => p = "check", k = "untrack" => p \in {"detach", "delete", "remove"},
           k = "index" => p \in {"check", "read"} /\ t \in Clients,
           p \in {"detach", "remove"} => k = "untrack" /\ t = Controller, p = "delete" => t \in Clients,
           UNCHANGED <<repos, nodes, lists, watching, patch, odd>>,
           th' \in [Threads -> Thread], Others(t)
    PROVE  Inv'
  <1>1. /\ th[t] = Idle /\ t # Warmup
        /\ th'[t] = [pc |-> p, kind |-> k, repo |-> q, as |-> None, todo |-> {}, want |-> {}]
        /\ left' \in Nat
    <2>1. th[t] = Idle  BY DEF Inv, Base, Roles, Role, Call
    <2>2. t # Warmup
      <3>1. th[t].kind = "none"  BY <2>1 DEF Idle
      <3> QED  BY <3>1 DEF Inv, Base, Roles, Role
    <2>3. th'[t] = [pc |-> p, kind |-> k, repo |-> q, as |-> None, todo |-> {}, want |-> {}]
      BY DEF Inv, Base, Types, Call, Idle
    <2>4. left' \in Nat  BY DEF Inv, Base, Types, Call, Counted
    <2> QED  BY <2>1, <2>2, <2>3, <2>4
  <1>2. Base'
    <2>1. Types'  BY <1>1 DEF Inv, Base, Types, lists, watching
    <2>2. Role(t)'  BY <1>1, ThreadsFacts DEF Role, Working, States
    <2>3. Roles'  BY <2>2, RolesFrame DEF Inv, watching
    <2>4. Making'  BY <1>1, MakingFrame DEF Inv, watching
    <2> QED  BY <2>1, <2>3, <2>4 DEF Base
  <1>3. ASSUME NEW r \in Repos, Regular(r) PROVE Regular(r)'
    <2>1. Neutral(t, r) /\ Settled(t, r)' /\ ~Patching(t, r)'
      BY <1>1, ThreadsFacts DEF Neutral, Settled, Patching, On, Idle
    <2>2. Warming(r)' <=> Warming(r)  BY <1>1, SameLists, ThreadsFacts DEF Warming, On, Others
    <2>3. ~Wanted(t, r) /\ ~Unwanted(t, r)  BY <1>1 DEF Wanted, Unwanted, Idle
    <2> QED  BY <1>3, <2>1, <2>2, <2>3, SameLists, QuietFrame
  <1>4. ASSUME NEW r \in Repos, Followed(r) PROVE Followed(r)'
    <2>1. ~On(t, r, {"add", "attach", "delete"})  BY <1>1 DEF On, Idle
    <2>2. t = Controller => ~Detached(r)'  BY <1>1, ThreadsFacts DEF Detached, On
    <2> QED  BY <1>1, <1>4, <2>1, <2>2, WatFrame DEF Inv, watching
  <1> QED  BY <1>2, <1>3, <1>4, SameLists DEF Inv, Reg, Wat, watching

\* A loop takes its next repository, which it still owes.
LEMMA LoopNextKeeps ==
    ASSUME Inv, NEW t \in Threads, NEW q \in Repos, LoopNext(t, q),
           th' \in [Threads -> Thread], Others(t)
    PROVE  Inv'
  <1>0. th[t].pc = "next" /\ q \in th[t].todo /\ th[t].repo = None
    BY DEF LoopNext, Inv, Base, Roles, Role
  <1>1. /\ th'[t].pc = (IF th[t].kind = "drop" THEN "delete" ELSE "scan")
        /\ th'[t].repo = q /\ th'[t].kind = th[t].kind /\ th'[t].as = th[t].as
        /\ th'[t].todo = th[t].todo \ {q} /\ th'[t].want = th[t].want
    <2>1. th[t] \in Thread /\ th \in [Threads -> Thread]  BY DEF Inv, Base, Types
    <2> QED  BY <2>1 DEF LoopNext, Thread
  <1>2. th[t].kind \in {"drop", "janitor"} /\ t # Warmup
    <2>1. Role(t) /\ th[t] \in Thread  BY DEF Inv, Base, Roles, Types
    <2> QED  BY <1>0, <2>1, ThreadsFacts DEF Role, Thread, Kinds
  <1>3. Base'
    <2>1. Types'  BY DEF Inv, Base, Types, lists, watching, LoopNext
    <2>2. Role(t)'  BY <1>0, <1>1, <1>2, ThreadsFacts DEF Inv, Base, Roles, Role, Working, States
    <2>3. Roles'  BY <2>2, RolesFrame DEF Inv, watching, LoopNext
    <2>4. Making'  BY <1>0, <1>1, <1>2, MakingFrame DEF Inv, watching, LoopNext
    <2> QED  BY <2>1, <2>3, <2>4 DEF Base
  <1>6. UNCHANGED lists  BY DEF LoopNext
  <1>4. ASSUME NEW r \in Repos, Regular(r) PROVE Regular(r)'
    <2>1. Neutral(t, r) /\ Neutral(t, r)' /\ ~Patching(t, r)'
      BY <1>0, <1>1, <1>2 DEF Neutral, Patching, On
    <2>2. Warming(r)' <=> Warming(r)
      BY <1>2, <1>6, SameLists, ThreadsFacts DEF Warming, On, Others
    <2>3. Wanted(t, r) => Wanted(t, r)'  BY <1>2 DEF Wanted
    <2>4. Unwanted(t, r) => Unwanted(t, r)'  BY <1>0, <1>1, <1>2 DEF Unwanted, On
    <2> QED  BY <1>4, <2>1, <2>2, <2>3, <2>4, <1>6, RegFrame DEF LoopNext
  <1>5. ASSUME NEW r \in Repos, Followed(r) PROVE Followed(r)'
    <2>1. ~On(t, r, {"add", "attach", "delete"})  BY <1>0 DEF On
    <2>2. t = Controller => ~Detached(r)'  BY <1>1, <1>2 DEF Detached
    <2> QED  BY <1>0, <1>1, <1>2, <1>5, <2>1, <2>2, WatFrame DEF Inv, watching, LoopNext
  <1> QED  BY <1>3, <1>4, <1>5, <1>6, SameLists DEF Inv, Reg, Wat, watching, LoopNext

\* A loop over the configuration takes the next entry of its slice, which it
\* still owes; Reload takes note that it is wanted.
LEMMA RangeNextKeeps ==
    ASSUME Inv, NEW t \in Threads, RangeNext(t),
           th' \in [Threads -> Thread], Others(t)
    PROVE  Inv'
  <1>0. /\ th[t].pc = "next" /\ th[t].repo = None /\ th[t] \in Thread /\ Role(t)
        /\ th[t].kind \in {"warm", "reload"}
    BY DEF RangeNext, Inv, Base, Types, Roles, Role
  <1> DEFINE q == range[t].list[range[t].at]
  <1>1. /\ range[t].list \in Seq(Repos) /\ range[t].at \in Nat \ {0}
        /\ range[t].at <= Len(range[t].list) /\ q \in Repos
    BY DEF RangeNext, Inv, Base, Types
  <1>2. /\ range' \in [Threads -> [list : Seq(Repos), at : Nat \ {0}]]
        /\ range'[t].list = range[t].list /\ range'[t].at = range[t].at + 1
        /\ \A u \in Threads : u # t => range'[u] = range[u]
        /\ \A u \in Threads : range'[u].list = range[u].list
    <2> DEFINE after == [range[t] EXCEPT !.at = @ + 1]
    <2>1. range \in [Threads -> [list : Seq(Repos), at : Nat \ {0}]]  BY DEF Inv, Base, Types
    <2>2. range' = [range EXCEPT ![t] = after]  BY <2>1 DEF RangeNext
    <2>3. range[t] \in [list : Seq(Repos), at : Nat \ {0}]  BY <2>1
    <2>4. range[t].at + 1 \in Nat \ {0}  BY <1>1
    <2>5. /\ after \in [list : Seq(Repos), at : Nat \ {0}]
          /\ after.list = range[t].list /\ after.at = range[t].at + 1
      BY <2>3, <2>4
    <2> HIDE DEF after
    <2> QED  BY <2>1, <2>2, <2>5
  <1>3. /\ th'[t].pc = "check" /\ th'[t].repo = q /\ th'[t].kind = th[t].kind
        /\ th'[t].as = th[t].as /\ th'[t].todo = th[t].todo
        /\ th'[t].want = IF th[t].kind = "reload" THEN th[t].want \cup {q} ELSE th[t].want
    BY <1>0 DEF RangeNext, Thread, Inv, Base, Types
  <1>4. UNCHANGED <<repos, nodes, config, live, watch, listed, attached, loose, patch, left, odd>>
    BY DEF RangeNext, watching
  <1>5. t = Warmup <=> th[t].kind = "warm"  BY <1>0 DEF Role
  <1>6. Base'
    <2>1. Types'  BY <1>2, <1>4 DEF Inv, Base, Types
    <2>2. Role(t)'
      BY <1>0, <1>1, <1>3, ThreadsFacts DEF Role, Working, States
    <2>3. Roles'  BY <1>4, <2>2, RolesFrame DEF Inv
    <2>4. Making'  BY <1>0, <1>3, <1>4, MakingFrame DEF Inv
    <2> QED  BY <2>1, <2>3, <2>4 DEF Base
  <1>7. Slices'
    <2>1. live \subseteq Threads  BY DEF Inv, Base, Types
    <2>2. Slices  BY DEF Inv
    <2> QED  BY <1>2, <1>4, <2>1, <2>2 DEF Slices, Distinct
  <1>8. Rest(t) = Rest(t)' \cup {q} /\ \A u \in Threads : u # t => Rest(u)' = Rest(u)
    <2>1. range[t].at .. Len(range[t].list)
             = {range[t].at} \cup (range[t].at + 1 .. Len(range[t].list))
      BY <1>1
    <2>2. Rest(t)' = {range[t].list[i] : i \in range[t].at + 1 .. Len(range[t].list)}
      BY <1>2 DEF Rest
    <2>3. Rest(t) = {range[t].list[i] : i \in {range[t].at} \cup (range[t].at + 1 .. Len(range[t].list))}
      BY <2>1 DEF Rest
    <2>4. Rest(t) = Rest(t)' \cup {q}  BY <2>2, <2>3
    <2>5. \A u \in Threads : u # t => Rest(u)' = Rest(u)  BY <1>2 DEF Rest
    <2> QED  BY <2>4, <2>5
  <1>9. ASSUME NEW r \in Repos, Regular(r) PROVE Regular(r)'
    <2>1. Neutral(t, r) /\ Settled(t, r)' /\ ~Patching(t, r)'
      BY <1>0, <1>3 DEF Neutral, Settled, Patching, On
    <2>2. Warming(r)' <=> Warming(r)
      BY <1>0, <1>3, <1>5, <1>8, ThreadsFacts DEF Warming, On, Others
    <2>3. Wanted(t, r) => Wanted(t, r)'  BY <1>0, <1>3, <1>8 DEF Wanted, On
    <2>4. Unwanted(t, r) => Unwanted(t, r)'  BY <1>0, <1>3, <1>8 DEF Unwanted
    <2>5. \A u \in Threads : u # t => Reach(u, r)  BY <1>8 DEF Reach
    <2>6. Configured' = Configured  BY <1>4 DEF Configured
    <2> QED  BY <1>4, <1>9, <2>1, <2>2, <2>3, <2>4, <2>5, <2>6, QuietFrame
  <1>10. ASSUME NEW r \in Repos, Followed(r) PROVE Followed(r)'
    <2>1. ~On(t, r, {"add", "attach", "delete"})  BY <1>0 DEF On
    <2>2. t = Controller => ~Detached(r)'  BY <1>3 DEF Detached, On
    <2> QED  BY <1>0, <1>3, <1>4, <1>10, <2>1, <2>2, WatFrame DEF Inv
  <1> QED  BY <1>4, <1>6, <1>7, <1>9, <1>10 DEF Inv, Reg, Wat

\* A loop ends: a reload goes on to what it untracks, the warm-up makes the
\* watchers of what is tracked, the janitor is done.
LEMMA LoopEndKeeps ==
    ASSUME Inv, NEW t \in Threads, LoopEnd(t),
           th' \in [Threads -> Thread], Others(t)
    PROVE  Inv'
  <1>0. th[t].pc = "next" /\ th[t].todo = {} /\ th[t].repo = None /\ th[t] \in Thread
    BY DEF LoopEnd, Inv, Base, Roles, Role, Types
  <1>1. th[t].kind \in {"warm", "reload", "drop", "janitor"}
    <2>1. Role(t)  BY DEF Inv, Base, Roles
    <2> QED  BY <1>0, <2>1 DEF Role, Thread, Kinds
  <1>2. /\ t = Warmup <=> th[t].kind = "warm"
        /\ t = Controller <=> th[t].kind \in {"reload", "drop"}
        /\ t = Janitor <=> th[t].kind = "janitor"
    BY <1>1, ThreadsFacts DEF Inv, Base, Roles, Role
  <1>3. /\ th[t].kind = "reload" =>
              /\ th'[t].pc = "next" /\ th'[t].kind = "drop" /\ th'[t].repo = None
              /\ th'[t].todo = Tracked \ th[t].want /\ th'[t].as = th[t].as
              /\ th'[t].want = th[t].want
        /\ th[t].kind = "warm" =>
              /\ th'[t].pc = "start" /\ th'[t].kind = "warm" /\ th'[t].repo = None
              /\ th'[t].todo = {} /\ th'[t].as = th[t].as /\ th'[t].want = th[t].want
        /\ th[t].kind \notin {"reload", "warm"} => th'[t] = Idle
    <2>1. th \in [Threads -> Thread]  BY DEF Inv, Base, Types
    <2> QED  BY <1>0, <2>1 DEF LoopEnd, Thread
  <1>7. /\ range' = [range EXCEPT ![t] = Nothing] /\ live' = live \ {t} /\ config' = config
        /\ range[t].at > Len(range[t].list)
    BY DEF LoopEnd
  <1>8. /\ range' \in [Threads -> [list : Seq(Repos), at : Nat \ {0}]]
        /\ \A u \in Threads : u # t => range'[u] = range[u]
        /\ range'[t] = Nothing
    BY <1>7 DEF Inv, Base, Types, Nothing
  <1>9. Rest(t) = {} /\ Rest(t)' = {} /\ \A u \in Threads : u # t => Rest(u)' = Rest(u)
    <2>1. range[t].list \in Seq(Repos) /\ range[t].at \in Nat  BY DEF Inv, Base, Types
    <2>2. range[t].at .. Len(range[t].list) = {}  BY <1>7, <2>1
    <2>3. range'[t].at .. Len(range'[t].list) = {}  BY <1>8 DEF Nothing
    <2> QED  BY <1>8, <2>2, <2>3 DEF Rest
  <1>10. Slices'  BY <1>7, <1>8 DEF Inv, Slices, Distinct
  <1>4. Base'
    <2>1. Types'
      <3>1. watch' \in [Repos -> [st : {"none", "created", "failed", "started"}, as : Schemes \cup {None}]]
        BY DEF Inv, Base, Types, LoopEnd, Unwatched
      <3>2. listed' \in BOOLEAN
        <4>1. listed' = (listed \/ th[t].kind = "warm")  BY DEF LoopEnd
        <4> QED  BY <4>1, Zenon
      <3> QED  BY <1>7, <1>8, <3>1, <3>2 DEF Inv, Base, Types, LoopEnd
    <2>2. Role(t)'
      <3>1. Role(t) BY DEF Inv, Base, Roles
      <3>2. CASE th[t].kind = "reload"
        BY <1>0, <1>2, <1>3, <3>1, <3>2, ThreadsFacts DEF Role, Working, States
      <3>3. CASE th[t].kind = "warm"
        BY <1>0, <1>2, <1>3, <3>1, <3>3, ThreadsFacts DEF Role, Working, States
      <3>4. CASE th[t].kind \notin {"reload", "warm"}
        BY <1>0, <1>2, <1>3, <3>1, <3>4, ThreadsFacts DEF Role, Working, States, Idle
      <3> QED  BY <3>2, <3>3, <3>4
    <2>3. Roles'  BY <2>2, RolesFrame DEF Inv, LoopEnd
    <2>4. Making'
      <3>1. CASE t = Warmup
        <4>1. listed' /\ ~attached /\ attached' = attached
          BY <1>0, <1>2, <3>1 DEF Inv, Base, Making, LoopEnd
        <4>2. \A r \in Repos : watch'[r] = IF repos[r] = None THEN Unwatched
                                           ELSE [st |-> "created", as |-> repos[r]]
          BY <1>2, <3>1 DEF LoopEnd
        <4>3. th'[Warmup].pc = "start"  BY <1>2, <1>3, <3>1
        <4>4. ASSUME NEW r \in Repos, watch'[r].st # "none" PROVE watch'[r].as # None
          <5>1. repos[r] # None
            <6>1. repos[r] = None => watch'[r] = Unwatched  BY <4>2
            <6> QED  BY <4>4, <6>1 DEF Unwatched
          <5>2. watch'[r] = [st |-> "created", as |-> repos[r]]  BY <4>2, <5>1
          <5> QED  BY <5>1, <5>2
        <4> QED  BY <4>1, <4>3, <4>4 DEF Making
      <3>2. CASE t # Warmup
        BY <1>2, <3>2, MakingFrame DEF Inv, LoopEnd, Base, Types
      <3> QED  BY <3>1, <3>2
    <2> QED  BY <2>1, <2>3, <2>4 DEF Base
  <1>5. ASSUME NEW r \in Repos, Regular(r) PROVE Regular(r)'
    <2>1. Neutral(t, r) /\ Settled(t, r)' /\ ~Patching(t, r)'
      BY <1>0, <1>1, <1>3, ThreadsFacts DEF Neutral, Settled, Patching, On, Idle
    <2>2. Warming(r)' <=> Warming(r)
      BY <1>0, <1>2, <1>3, <1>9, ThreadsFacts DEF Warming, On, Others
    <2>3. Wanted(t, r) => Wanted(t, r)'  BY <1>0, <1>9 DEF Wanted, On
    <2>4. repos[r] # None /\ Unwanted(t, r) => Unwanted(t, r)'
      BY <1>0, <1>1, <1>3, <1>9 DEF Unwanted, On, Tracked
    <2>5. \A u \in Threads : u # t => Reach(u, r)  BY <1>9 DEF Reach
    <2>6. Configured' = Configured  BY <1>7 DEF Configured
    <2> QED  BY <1>5, <2>1, <2>2, <2>3, <2>4, <2>5, <2>6, QuietFrame DEF LoopEnd
  <1>6. ASSUME NEW r \in Repos, Followed(r) PROVE Followed(r)'
    <2>1. CASE t = Warmup
      <3>1. watch'[r] = IF repos[r] = None THEN Unwatched
                        ELSE [st |-> "created", as |-> repos[r]]
        BY <1>2, <2>1 DEF LoopEnd
      <3>2. repos' = repos  BY DEF LoopEnd
      <3> QED  BY <1>2, <1>3, <2>1, <3>1, <3>2 DEF Followed, Unwatched
    <2>2. CASE t # Warmup
      <3>1. ~On(t, r, {"add", "attach", "delete"})  BY <1>0 DEF On
      <3>2. t = Controller => ~Detached(r)'
        BY <1>1, <1>3, ThreadsFacts DEF Detached, On, Idle
      <3> QED  BY <1>2, <1>6, <2>2, <3>1, <3>2, WatFrame DEF Inv, LoopEnd
    <2> QED  BY <2>1, <2>2
  <1> QED  BY <1>4, <1>5, <1>6, <1>10 DEF Inv, Reg, Wat, LoopEnd

-------------------------------------------------------------------------------
(* The steps of a call                                                       *)

\* What t has in hand, at one of its working steps.
LEMMA InHandFacts ==
    ASSUME Inv, NEW t \in Threads, th[t].pc \in Working
    PROVE  /\ th[t].repo \in Repos /\ th[t] \in Thread /\ Role(t)
           /\ t = Warmup => th[t].pc \notin {"start", "hand", "done"}
           /\ th[t].repo # None
  BY ThreadsFacts DEF Inv, Base, Types, Roles, Role, Working

\* A return keeps the role of t.
LEMMA ReturnedRole ==
    ASSUME Inv, NEW t \in Threads, Returned(t), th[t].pc \in Working
    PROVE  /\ Role(t)'
           /\ t = Warmup => th'[t].pc = "next"
           /\ th'[t].repo = None
           /\ th'[t].pc \in {"next", "idle"}
           /\ t = Warmup => th'[t].want = th[t].want
           /\ \A r \in Repos : /\ Neutral(t, r)' /\ ~Patching(t, r)'
                               /\ ~On(t, r, {"delete"}) /\ Unwanted(t, r)
                                  /\ (r \in Rest(t)' => r \in Rest(t)) => Unwanted(t, r)'
  <1>1. th[t].kind = "warm" <=> t = Warmup  BY InHandFacts DEF Role
  <1>2. CASE th[t].kind \in {"warm", "reload", "drop", "janitor"}
    <2>1. Looped(t)  BY <1>2 DEF Returned
    <2>2. Role(t)'
      BY <1>2, <2>1, InHandFacts, ThreadsFacts DEF Looped, Role, Working, States
    <2> QED  BY <1>1, <1>2, <2>1, <2>2, ThreadsFacts DEF Looped, Neutral, Patching, On, Wanted, Unwanted
  <1>3. CASE th[t].kind \notin {"warm", "reload", "drop", "janitor"}
    <2>1. th'[t] = Idle  BY <1>3 DEF Returned
    <2>2. Role(t)'
      BY <1>1, <1>3, <2>1, ThreadsFacts DEF Idle, Role, Working, States
    <2> QED  BY <1>1, <1>3, <2>1, <2>2, ThreadsFacts DEF Idle, Neutral, Patching, On, Wanted, Unwanted
  <1> QED  BY <1>2, <1>3

\* After keeps the role of t.
LEMMA AfterRole ==
    ASSUME Inv, NEW t \in Threads, After(t), th[t].pc \in Working,
           th[t].pc \in {"check", "scan", "add", "delete", "remove", "index"}
    PROVE  /\ Role(t)'
           /\ t = Warmup => th'[t].pc = "next"
           /\ th'[t].pc \in {"next", "idle", "read"}
           /\ t = Warmup => th'[t].want = th[t].want
           /\ t = Warmup => th'[t].repo = None
           /\ \A r \in Repos : /\ Neutral(t, r)' /\ ~Patching(t, r)'
                               /\ ~On(t, r, {"delete"}) /\ Unwanted(t, r)
                                  /\ (r \in Rest(t)' => r \in Rest(t)) => Unwanted(t, r)'
  <1>1. CASE th[t].kind = "index" /\ repos[th[t].repo] # None
    <2>1. Gone(t, "read")  BY <1>1, AfterType DEF Inv, Base
    <2>2. Role(t)'
      BY <1>1, <2>1, InHandFacts, ThreadsFacts DEF Gone, Role, Working, States
    <2>3. t # Warmup  BY <1>1, InHandFacts DEF Role
    <2> QED  BY <1>1, <2>1, <2>2, <2>3 DEF Gone, Neutral, Patching, On, Wanted, Unwanted
  <1>2. CASE ~(th[t].kind = "index" /\ repos[th[t].repo] # None)
    <2>1. Returned(t)  BY <1>2, AfterType DEF Inv, Base
    <2> QED  BY <2>1, ReturnedRole
  <1> QED  BY <1>1, <1>2

\* t stays with its repository or lets it go, and with its loop.
KeepsLoop(t) ==
    /\ th'[t].repo \in {th[t].repo, None}
    /\ \/ /\ th'[t].kind = th[t].kind
          /\ th'[t].todo = th[t].todo /\ th'[t].want = th[t].want
       \/ t # Warmup /\ th[t].kind \in {"track", "untrack", "index"} /\ th'[t].kind = "none"

\* The ways in which a working step ends leave the loop of t what it was.
LEMMA KeepsLoopCases ==
    ASSUME Inv, NEW t \in Threads, th[t].pc \in Working
    PROVE  /\ \A p : Gone(t, p) => KeepsLoop(t)
           /\ Returned(t) \/ After(t) => KeepsLoop(t)
           /\ th'[t] = Idle /\ th[t].kind \in {"track", "untrack", "index"} => KeepsLoop(t)
  <1>0. Role(t) /\ th[t] \in Thread  BY InHandFacts
  <1>1. \A p : Gone(t, p) => KeepsLoop(t)  BY DEF Gone, KeepsLoop
  <1>2. th'[t] = Idle /\ th[t].kind \in {"track", "untrack", "index"} => KeepsLoop(t)
    BY <1>0 DEF Role, Idle, KeepsLoop
  <1>3. Returned(t) => KeepsLoop(t)
    <2>1. CASE th[t].kind \in {"warm", "reload", "drop", "janitor"}
      BY <2>1 DEF Returned, Looped, KeepsLoop
    <2>2. CASE th[t].kind \notin {"warm", "reload", "drop", "janitor"}
      <3>1. th[t].kind \in {"track", "untrack", "index"}
        BY <1>0, <2>2 DEF Role, Thread, Kinds, Working
      <3> QED  BY <1>2, <2>2, <3>1 DEF Returned
    <2> QED  BY <2>1, <2>2
  <1>4. After(t) => KeepsLoop(t)
    BY <1>1, <1>3, AfterType DEF Inv, Base
  <1> QED  BY <1>1, <1>2, <1>3, <1>4

\* The repositories that t does not have in hand.
LEMMA Elsewhere ==
    ASSUME Inv, NEW t \in Threads, th[t].pc \in Working, Others(t), KeepsLoop(t),
           NEW r \in Repos, r # th[t].repo, Regular(r),
           repos'[r] = repos[r], nodes'[r] = nodes[r], r \in Configured' <=> r \in Configured,
           \A u \in Threads : Reach(u, r)
    PROVE  Regular(r)'
  <1>1. th[t].repo # r /\ th'[t].repo # r  BY ThreadsFacts DEF KeepsLoop
  <1>2. Neutral(t, r) /\ Settled(t, r)' /\ ~Patching(t, r)'
    BY <1>1 DEF Neutral, Settled, Patching, On
  <1>3. /\ Warming(r)' => Warming(r)
        /\ repos[r] = None /\ nodes[r] # {} /\ Warming(r) => Warming(r)'
    BY <1>1, ThreadsFacts DEF Warming, On, Others, KeepsLoop, Reach
  <1>4. /\ repos[r] = None /\ r \in Configured /\ Wanted(t, r) => Wanted(t, r)'
        /\ Unwanted(t, r) => Unwanted(t, r)'
    BY <1>1 DEF Wanted, Unwanted, On, KeepsLoop, Reach
  <1> QED  BY <1>2, <1>3, <1>4, QuietFrame

\* What a working step has to show of its thread and its repository.
LEMMA WorkingStep ==
    ASSUME Inv, NEW t \in Threads, th[t].pc \in Working, Others(t), KeepsLoop(t), Types',
           NEW q \in Repos, q = th[t].repo,
           Role(t)', th'[t].pc \notin {"start", "hand", "done"},
           attached' = attached, listed' = listed,
           odd \subseteq odd', loose \subseteq loose',
           \A r \in Repos : r # q => /\ repos'[r] = repos[r] /\ nodes'[r] = nodes[r]
                                     /\ watch'[r] = watch[r],
           \/ UNCHANGED lists
           \/ /\ Slices'
              /\ \A r \in Repos : r # q /\ r \notin odd' =>
                    (r \in Configured' <=> r \in Configured) /\ \A u \in Threads : Reach(u, r),
           watch' = watch \/ Making',
           q \notin odd' => Regular(q)',
           q \notin loose' => Followed(q)'
    PROVE  Inv'
  <1>1. Roles'  BY RolesFrame DEF Inv
  <1>2. Making'
    <2>1. t = Warmup => th[t].pc \notin {"start", "hand", "done"}  BY InHandFacts
    <2> QED  BY <2>1, MakingFrame DEF Inv
  <1>3. ASSUME NEW r \in Repos, r \notin odd' PROVE Regular(r)'
    <2>1. Regular(r)  BY <1>3 DEF Inv, Reg
    <2>2. CASE r # q
      <3>1. /\ repos'[r] = repos[r] /\ nodes'[r] = nodes[r]
            /\ r \in Configured' <=> r \in Configured
            /\ \A u \in Threads : Reach(u, r)
        BY <1>3, <2>2, SameLists
      <3> QED  BY <2>1, <2>2, <3>1, Elsewhere
    <2> QED  BY <1>3, <2>2
  <1>4. ASSUME NEW r \in Repos, r \notin loose' PROVE Followed(r)'
    <2>1. Followed(r)  BY <1>4 DEF Inv, Wat
    <2>2. CASE r # q
      <3>1. ~On(t, r, {"add", "attach", "delete"})  BY <2>2 DEF On
      <3>2. t = Controller => ~Detached(r)'
        BY <2>2, ThreadsFacts DEF Detached, On, KeepsLoop
      <3>3. t = Warmup => th[t].pc \notin {"start", "hand", "done"}  BY InHandFacts
      <3>4. repos'[r] = repos[r] /\ watch'[r] = watch[r]  BY <2>2
      <3> QED  BY <2>1, <3>1, <3>2, <3>3, <3>4, WatFrame DEF Inv
    <2> QED  BY <1>4, <2>2
  <1>5. Slices'  BY SameLists DEF Inv
  <1> QED  BY <1>1, <1>2, <1>3, <1>4, <1>5 DEF Inv, Base, Reg, Wat

\* TrackRepoCtx finds r tracked, or is going to index it.
LEMMA CheckKeeps ==
    ASSUME Inv, NEW t \in Threads, Check(t), th' \in [Threads -> Thread], Others(t)
    PROVE  Inv'
  <1>0. th[t].pc = "check" /\ th[t].pc \in Working  BY DEF Check, Working, States
  <1>1. PICK q \in Repos : q = th[t].repo  BY <1>0, InHandFacts
  <1>2. \/ repos[q] # None /\ After(t)
        \/ /\ repos[q] = None
           /\ th'[t].pc = "index" /\ th'[t].as \in Schemes /\ th'[t].kind = th[t].kind
           /\ th'[t].repo = q /\ th'[t].todo = th[t].todo /\ th'[t].want = th[t].want
    <2>1. th[t] \in Thread /\ th \in [Threads -> Thread]  BY DEF Inv, Base, Types
    <2> QED  BY <1>1, <2>1 DEF Check, Thread, Schemes
  <1>3. Role(t)' /\ KeepsLoop(t) /\ th'[t].pc \notin {"start", "hand", "done", "delete"}
    <2>1. CASE After(t)  BY <1>0, <2>1, AfterRole, KeepsLoopCases
    <2>2. CASE ~After(t)
      BY <1>0, <1>1, <1>2, <2>2, InHandFacts, ThreadsFacts DEF Role, Working, States, KeepsLoop
    <2> QED  BY <2>1, <2>2
  <1>4. UNCHANGED <<repos, nodes, lists, watch, listed, attached, loose, patch, left, odd>>
    BY DEF Check, watching
  <1>5. Types'  BY <1>4 DEF Inv, Base, Types, lists
  <1>6. q \notin odd' => Regular(q)'
    <2>1. Neutral(t, q)  BY <1>0 DEF Neutral, On
    <2>2. CASE repos[q] # None
      <3>1. Neutral(t, q)' /\ ~Patching(t, q)'  BY <1>0, <1>2, <2>2, AfterRole
      <3>2. Warming(q)' => Warming(q)
        BY <1>0, <1>2, <2>2, AfterRole, ThreadsFacts, <1>4, SameLists DEF Warming, On, Others
      <3>3. Unwanted(t, q) => Unwanted(t, q)'
        BY <1>0, <1>2, <1>4, <2>2, AfterRole, SameLists DEF On
      <3> QED  BY <1>4, <2>1, <2>2, <3>1, <3>2, <3>3, RegFrame DEF Inv, Reg
    <2>3. CASE repos[q] = None
      <3>1. Neutral(t, q)' /\ ~Patching(t, q)'
        <4>1. th[t].kind # "janitor"  BY <1>0, InHandFacts DEF Role
        <4> QED  BY <1>2, <2>3, <4>1 DEF Neutral, Patching, On
      <3>2. Warming(q)' <=> Warming(q)
        BY <1>0, <1>1, <1>2, <2>3, ThreadsFacts, <1>4, SameLists DEF Warming, On, Others
      <3>3. Wanted(t, q) => Wanted(t, q)'
        BY <1>0, <1>1, <1>2, <2>3, <1>4, SameLists DEF Wanted, On
      <3> QED  BY <1>4, <2>1, <2>3, <3>1, <3>2, <3>3, RegFrame DEF Inv, Reg
    <2> QED  BY <2>2, <2>3
  <1>7. q \notin loose' => Followed(q)'
    <2>1. ~On(t, q, {"add", "attach", "delete"}) /\ (t = Controller => ~Detached(q)')
      BY <1>0, <1>3 DEF On, Detached
    <2> QED  BY <1>0, <1>3, <1>4, <2>1, InHandFacts, WatFrame DEF Inv, Wat
  <1> QED  BY <1>0, <1>1, <1>3, <1>4, <1>5, <1>6, <1>7, WorkingStep

\* The janitor finds r untracked, or is going to look for changes.
LEMMA ScanKeeps ==
    ASSUME Inv, NEW t \in Threads, Scan(t), th' \in [Threads -> Thread], Others(t)
    PROVE  Inv'
  <1>0. th[t].pc = "scan" /\ th[t].pc \in Working  BY DEF Scan, Working, States
  <1>1. PICK q \in Repos : q = th[t].repo  BY <1>0, InHandFacts
  <1>2. th[t].kind = "janitor" /\ t = Janitor
    BY <1>0, InHandFacts DEF Role, Thread, Kinds
  <1>3. \/ repos[q] = None /\ After(t)
        \/ /\ repos[q] # None
           /\ th'[t].pc = "index" /\ th'[t].as \in Schemes /\ th'[t].kind = th[t].kind
           /\ th'[t].repo = q /\ th'[t].todo = th[t].todo /\ th'[t].want = th[t].want
    <2>1. th[t] \in Thread /\ th \in [Threads -> Thread] /\ repos[q] \in Schemes \cup {None}
      BY DEF Inv, Base, Types
    <2> QED  BY <1>1, <2>1 DEF Scan, Thread
  <1>4. Role(t)' /\ KeepsLoop(t) /\ th'[t].pc \notin {"start", "hand", "done", "delete"}
    <2>1. CASE After(t)  BY <1>0, <2>1, AfterRole, KeepsLoopCases
    <2>2. CASE ~After(t)
      BY <1>0, <1>1, <1>2, <1>3, <2>2, InHandFacts, ThreadsFacts DEF Role, Working, States, KeepsLoop
    <2> QED  BY <2>1, <2>2
  <1>5. UNCHANGED <<repos, nodes, lists, watch, listed, attached, loose, patch, left, odd>>
    BY DEF Scan, watching
  <1>6. Types'  BY <1>5 DEF Inv, Base, Types, lists
  <1>7. q \notin odd' => Regular(q)'
    <2>1. Neutral(t, q)  BY <1>0 DEF Neutral, On
    <2>2. Neutral(t, q)' /\ (Patching(t, q)' => repos[q] # None)
      <3>1. CASE After(t)  BY <1>0, <3>1, AfterRole
      <3>2. CASE ~After(t)  BY <1>3, <3>2 DEF Neutral, On
      <3> QED  BY <3>1, <3>2
    <2>3. Warming(q)' <=> Warming(q)
      BY <1>2, ThreadsFacts, <1>5, SameLists DEF Warming, On, Others
    <2>4. ~Wanted(t, q) /\ ~Unwanted(t, q)  BY <1>2, <1>5, SameLists DEF Wanted, Unwanted
    <2> QED  BY <1>5, <2>1, <2>2, <2>3, <2>4, RegFrame DEF Inv, Reg
  <1>8. q \notin loose' => Followed(q)'
    <2>1. t # Controller /\ t # Warmup  BY <1>2, ThreadsFacts
    <2> QED  BY <1>5, <2>1, WatFrame DEF Inv, Wat
  <1> QED  BY <1>0, <1>1, <1>4, <1>5, <1>6, <1>7, <1>8, WorkingStep

\* IndexRepo evicts the nodes that it is going to write again.
LEMMA ReadKeeps ==
    ASSUME Inv, NEW t \in Threads, Read(t), th' \in [Threads -> Thread], Others(t)
    PROVE  Inv'
  <1>0. th[t].pc = "read" /\ th[t].pc \in Working  BY DEF Read, Working, States
  <1>1. PICK q \in Repos : q = th[t].repo  BY <1>0, InHandFacts
  <1>2. th[t].kind = "index" /\ t # Warmup /\ t # Controller
    BY <1>0, InHandFacts, ThreadsFacts DEF Role, Thread, Kinds
  <1>3. \/ repos[q] = None /\ th'[t] = Idle /\ nodes' = nodes
        \/ /\ repos[q] # None /\ Gone(t, "reindex")
           /\ nodes' \in {nodes, Evicted(q)}
    <2>1. "reindex" \in States /\ th \in [Threads -> Thread]  BY DEF States, Inv, Base, Types
    <2>2. CASE repos[q] = None  BY <1>1, <2>1, <2>2 DEF Read
    <2>3. CASE repos[q] # None
      <3>1. Go(t, "reindex")  BY <1>1, <2>3 DEF Read
      <3> QED  BY <1>1, <2>1, <2>3, <3>1, GoType DEF Read, Inv, Base
    <2> QED  BY <2>2, <2>3
  <1>4. Role(t)' /\ KeepsLoop(t) /\ th'[t].pc \notin {"start", "hand", "done"}
    <2>1. CASE th'[t] = Idle
      BY <1>0, <1>2, <2>1, KeepsLoopCases, InHandFacts, ThreadsFacts DEF Role, Idle, Working, States
    <2>2. CASE Gone(t, "reindex")
      BY <1>0, <1>2, <2>2, KeepsLoopCases, InHandFacts, ThreadsFacts DEF Role, Gone, Working, States
    <2> QED  BY <1>3, <2>1, <2>2
  <1>5. UNCHANGED <<repos, lists, watch, listed, attached, loose, patch, left, odd>>
    BY DEF Read, watching
  <1>6. nodes' \in [Repos -> SUBSET Schemes] /\ \A r \in Repos : r # q => nodes'[r] = nodes[r]
    BY <1>3 DEF Evicted, Inv, Base, Types
  <1>7. Types'  BY <1>5, <1>6 DEF Inv, Base, Types, lists
  <1>8. q \notin odd' => Regular(q)'
    <2>1. SUFFICES ASSUME Regular(q) PROVE Regular(q)'  BY <1>5 DEF Inv, Reg
    <2>2. CASE repos[q] = None
      <3>1. Neutral(t, q) /\ Neutral(t, q)' /\ ~Patching(t, q)'
        BY <1>0, <1>3, <2>2 DEF Neutral, Patching, On, Idle
      <3>2. Warming(q)' <=> Warming(q)
        BY <1>2, ThreadsFacts, <1>5, SameLists DEF Warming, On, Others
      <3>3. ~Wanted(t, q) /\ ~Unwanted(t, q)  BY <1>2, <1>5, SameLists DEF Wanted, Unwanted
      <3> QED  BY <1>3, <1>5, <2>1, <2>2, <3>1, <3>2, <3>3, RegFrame
    <2>3. CASE repos[q] # None
      <3>1. Some(q, {"reindex"})'  BY <1>1, <1>3, <2>3 DEF Some, On, Gone
      <3>2. NodesGoing(q)' /\ NodesOwned(q)' /\ NodesThere(q)' /\ UntrackedUnder(q)'
            /\ ConfiguredTracked(q)'
        BY <1>5, <2>3, <3>1
           DEF NodesGoing, NodesOwned, NodesThere, UntrackedUnder, ConfiguredTracked
      <3>3. TrackedConfigured(q)'
        BY <1>0, <1>2, <1>5, <2>1, SameLists
           DEF Regular, TrackedConfigured, Some, On, Unwanted, Others
      <3> QED  BY <3>2, <3>3 DEF Regular
    <2> QED  BY <2>2, <2>3
  <1>9. q \notin loose' => Followed(q)'
    BY <1>2, <1>5, WatFrame DEF Inv, Wat
  <1> QED  BY <1>0, <1>1, <1>4, <1>5, <1>6, <1>7, <1>8, <1>9, WorkingStep

\* IndexRepo writes the nodes under the scheme that it has read last.
LEMMA WriteReindexKeeps ==
    ASSUME Inv, NEW t \in Threads, WriteReindex(t), th' \in [Threads -> Thread], Others(t)
    PROVE  Inv'
  <1>0. th[t].pc = "reindex" /\ th[t].pc \in Working  BY DEF WriteReindex, Working, States
  <1>1. PICK q \in Repos : q = th[t].repo  BY <1>0, InHandFacts
  <1>2. th[t].kind = "index" /\ t # Warmup /\ t # Controller
    BY <1>0, InHandFacts, ThreadsFacts DEF Role, Thread, Kinds
  <1>3. PICK s \in Schemes :
           /\ nodes' = [nodes EXCEPT ![q] = @ \cup {s}]
           /\ odd' = IF nodes[q] \ {s} # {} THEN odd \cup {q} ELSE odd
           /\ th' = [th EXCEPT ![t].pc = "replace", ![t].as = s]
    BY <1>1 DEF WriteReindex, Schemes, Exempt
  <1>4. /\ th'[t].pc = "replace" /\ th'[t].as = s /\ th'[t].kind = th[t].kind
        /\ th'[t].repo = q /\ th'[t].todo = th[t].todo /\ th'[t].want = th[t].want
    BY <1>1, <1>3 DEF Inv, Base, Types, Thread
  <1>5. Role(t)' /\ KeepsLoop(t) /\ th'[t].pc \notin {"start", "hand", "done"}
    BY <1>0, <1>1, <1>2, <1>4, InHandFacts, ThreadsFacts DEF Role, Working, States, KeepsLoop
  <1>6. UNCHANGED <<repos, lists, watch, listed, attached, loose, patch, left>>
    BY DEF WriteReindex, watching
  <1>7. /\ nodes' \in [Repos -> SUBSET Schemes] /\ \A r \in Repos : r # q => nodes'[r] = nodes[r]
        /\ nodes'[q] = nodes[q] \cup {s}
        /\ odd \subseteq odd' /\ odd' \subseteq Repos
    BY <1>3 DEF Inv, Base, Types
  <1>8. Types'  BY <1>6, <1>7 DEF Inv, Base, Types, lists
  <1>9. q \notin odd' => Regular(q)'
    <2>1. SUFFICES ASSUME Regular(q), nodes'[q] = {s} PROVE Regular(q)'
      BY <1>3, <1>7 DEF Inv, Reg
    <2>2. repos[q] = None => Some(q, {"evict"}) /\ Some(q, {"evict"})'
      BY <1>0, <1>1, <2>1 DEF Regular, UntrackedUnder, Some, On, Others
    <2>3. NodesGoing(q)'  BY <1>6, <2>2 DEF NodesGoing, Some, On
    <2>4. NodesOwned(q)'  BY <1>4, <2>1 DEF NodesOwned, On
    <2>5. NodesThere(q)'  BY <2>1 DEF NodesThere
    <2>6. UntrackedUnder(q)'  BY <1>6, <2>2 DEF UntrackedUnder
    <2>7. ConfiguredTracked(q)'
      BY <1>6, <2>2 DEF ConfiguredTracked, Some, On
    <2>8. TrackedConfigured(q)'
      BY <1>0, <1>2, <1>6, <2>1, SameLists DEF Regular, TrackedConfigured, Some, On, Unwanted, Others
    <2> QED  BY <2>3, <2>4, <2>5, <2>6, <2>7, <2>8 DEF Regular
  <1>10. q \notin loose' => Followed(q)'
    BY <1>2, <1>6, WatFrame DEF Inv, Wat
  <1> QED  BY <1>0, <1>1, <1>5, <1>6, <1>7, <1>8, <1>9, <1>10, WorkingStep

\* IndexRepo registers its indexer.
LEMMA ReplaceKeeps ==
    ASSUME Inv, NEW t \in Threads, Replace(t), th' \in [Threads -> Thread], Others(t)
    PROVE  Inv'
  <1>0. th[t].pc = "replace" /\ th[t].pc \in Working  BY DEF Replace, Working, States
  <1>1. PICK q \in Repos : q = th[t].repo  BY <1>0, InHandFacts
  <1>2. th[t].kind = "index" /\ t # Warmup /\ t # Controller /\ th[t].as \in Schemes
    BY <1>0, InHandFacts, ThreadsFacts DEF Role, Thread, Kinds
  <1>3. /\ repos' = [repos EXCEPT ![q] = th[t].as]
        /\ odd' = IF repos[q] = None \/ nodes[q] \ {th[t].as} # {} THEN odd \cup {q} ELSE odd
        /\ loose' = IF repos[q] = None THEN loose \cup {q} ELSE loose
        /\ th'[t] = Idle
    BY <1>1 DEF Replace, Exempt, Inv, Base, Types
  <1>4. Role(t)' /\ KeepsLoop(t) /\ th'[t].pc \notin {"start", "hand", "done"}
    BY <1>0, <1>2, <1>3, KeepsLoopCases, InHandFacts, ThreadsFacts
       DEF Role, Working, States, Idle
  <1>5. UNCHANGED <<nodes, lists, watch, listed, attached, patch, left>>
    BY DEF Replace
  <1>6. /\ repos' \in [Repos -> Schemes \cup {None}]
        /\ \A r \in Repos : r # q => repos'[r] = repos[r]
        /\ repos'[q] = th[t].as /\ repos'[q] # None
        /\ odd \subseteq odd' /\ odd' \subseteq Repos
        /\ loose \subseteq loose' /\ loose' \subseteq Repos
    BY <1>2, <1>3, ThreadsFacts DEF Inv, Base, Types
  <1>7. Types'  BY <1>5, <1>6 DEF Inv, Base, Types, lists
  <1>8. q \notin odd' => Regular(q)'
    <2>1. SUFFICES ASSUME Regular(q), repos[q] # None, nodes[q] \subseteq {th[t].as}
                   PROVE  Regular(q)'
      BY <1>3 DEF Inv, Reg
    <2>2. Some(q, {"reindex"}) => Some(q, {"reindex"})'
      BY <1>0 DEF Some, On, Others
    <2>3. NodesOwned(q)'
      <3>1. nodes[q] = {th[t].as} \/ Some(q, {"reindex"})
        BY <2>1 DEF Regular, NodesOwned
      <3> QED  BY <1>5, <1>6, <2>2, <3>1 DEF NodesOwned
    <2>4. NodesThere(q)'
      <3>1. (Warming(q)' => Warming(q)) /\ (Some(q, {"register"})' => Some(q, {"register"}))
        BY <1>2, <1>3, ThreadsFacts, <1>5, SameLists DEF Warming, Some, On, Others, Idle
      <3> QED  BY <1>5, <2>1, <2>2, <3>1 DEF Regular, NodesThere
    <2>5. NodesGoing(q)' /\ UntrackedUnder(q)' /\ ConfiguredTracked(q)'
      BY <1>6 DEF NodesGoing, UntrackedUnder, ConfiguredTracked
    <2>6. TrackedConfigured(q)'
      BY <1>0, <1>2, <1>5, <2>1, SameLists DEF Regular, TrackedConfigured, Some, On, Unwanted, Others
    <2> QED  BY <2>3, <2>4, <2>5, <2>6 DEF Regular
  <1>9. q \notin loose' => Followed(q)'
    BY <1>2, <1>3, <1>5, <1>6, ThreadsFacts DEF Inv, Wat, Followed, Started, Detached, On, Others
  <1> QED  BY <1>0, <1>1, <1>4, <1>5, <1>6, <1>7, <1>8, <1>9, WorkingStep

\* The nodes are written before the registration: an untracked repository has
\* nodes while somebody is going to register it.
LEMMA IndexKeeps ==
    ASSUME Inv, NEW t \in Threads, Index(t), th' \in [Threads -> Thread], Others(t)
    PROVE  Inv'
  <1>0. th[t].pc = "index" /\ th[t].pc \in Working  BY DEF Index, Working, States
  <1>1. PICK q \in Repos : q = th[t].repo  BY <1>0, InHandFacts
  <1> DEFINE s == th[t].as
  <1>2. s \in Schemes /\ Role(t)  BY <1>0, InHandFacts DEF Role
  <1>3. /\ nodes' = [nodes EXCEPT ![q] = @ \cup {s}] \/ (Partial(t) /\ nodes' = nodes)
        /\ odd' = IF nodes[q] \ {s} # {} THEN odd \cup {q} ELSE odd
    BY <1>1 DEF Index, Exempt
  <1>4. \/ th[t].kind = "janitor" /\ After(t)
        \/ th[t].kind # "janitor" /\ Gone(t, "register")
    <2>1. "register" \in States  BY DEF States
    <2> QED  BY <2>1, GoType DEF Index, Inv, Base
  <1>5. Role(t)' /\ KeepsLoop(t) /\ th'[t].pc \notin {"start", "hand", "done", "delete"}
    <2>1. CASE After(t)  BY <1>0, <2>1, AfterRole, KeepsLoopCases
    <2>2. CASE th[t].kind # "janitor" /\ Gone(t, "register")
      BY <1>0, <1>1, <1>2, <2>2, KeepsLoopCases, ThreadsFacts
         DEF Gone, Role, Working, States
    <2> QED  BY <1>4, <2>1, <2>2
  <1>6. UNCHANGED <<repos, lists, watch, listed, attached, loose, patch, left>>
    BY DEF Index, watching
  <1>7. /\ nodes' \in [Repos -> SUBSET Schemes] /\ \A r \in Repos : r # q => nodes'[r] = nodes[r]
        /\ nodes'[q] = nodes[q] \cup {s} \/ (Partial(t) /\ nodes'[q] = nodes[q])
        /\ odd \subseteq odd' /\ odd' \subseteq Repos
    <2>1. nodes \in [Repos -> SUBSET Schemes] /\ odd \subseteq Repos  BY DEF Inv, Base, Types
    <2>2. nodes[q] \cup {s} \in SUBSET Schemes  BY <1>2, <2>1
    <2>3. odd \subseteq odd' /\ odd' \subseteq Repos  BY <1>3, <2>1
    <2> HIDE DEF s
    <2>4. CASE nodes' = [nodes EXCEPT ![q] = @ \cup {s}]  BY <2>1, <2>2, <2>3, <2>4
    <2>5. CASE Partial(t) /\ nodes' = nodes  BY <2>1, <2>3, <2>5
    <2> QED  BY <1>3, <2>4, <2>5
  <1>8. Types'  BY <1>6, <1>7 DEF Inv, Base, Types, lists
  <1>9. q \notin odd' => Regular(q)'
    <2>1. SUFFICES ASSUME Regular(q), nodes[q] \subseteq {s} PROVE Regular(q)'
      BY <1>3 DEF Inv, Reg
    <2>2. /\ Some(q, {"evict"}) => Some(q, {"evict"})'
          /\ Some(q, {"reindex"}) => Some(q, {"reindex"})'
          /\ Some(q, {"evict", "remove"}) => Some(q, {"evict", "remove"})'
          /\ Some(q, {"add"}) => Some(q, {"add"})'
      BY <1>0 DEF Some, On, Others
    <2>3. nodes'[q] # {} => nodes'[q] = {s}  BY <1>7, <2>1
    <2>4. nodes'[q] # nodes[q] => nodes[q] = {} /\ nodes'[q] = {s}  BY <1>7, <2>1
    <2>5. NodesOwned(q)'
      <3>1. CASE nodes[q] = {}
        <4>1. repos[q] # None => Some(q, {"reindex"})
          BY <2>1, <3>1 DEF Regular, NodesOwned
        <4> QED  BY <1>6, <2>2, <4>1 DEF NodesOwned
      <3>2. CASE nodes[q] # {}
        <4>1. nodes'[q] = nodes[q]  BY <2>4, <3>2
        <4>2. \A u \in Threads : On(u, q, {"replace"}) => u # t  BY <1>0 DEF On
        <4> QED  BY <1>6, <2>1, <2>2, <4>1, <4>2 DEF Regular, NodesOwned, On, Others
      <3> QED  BY <3>1, <3>2
    <2>6. UntrackedUnder(q)'
      <3>1. ~On(t, q, {"reindex", "replace"})' /\ ~Patching(t, q)'
        <4>1. CASE After(t)  BY <1>0, <1>1, <4>1, AfterRole DEF On
        <4>2. CASE th[t].kind # "janitor" /\ Gone(t, "register")
          BY <4>2 DEF Gone, On, Patching
        <4> QED  BY <1>4, <4>1, <4>2
      <3> QED  BY <1>6, <2>1, <2>2, <3>1 DEF Regular, UntrackedUnder, On, Patching, Others
    <2>7. CASE th[t].kind = "janitor"
      <3>1. After(t) /\ t # Warmup  BY <1>2, <1>4, <2>7 DEF Role
      <3>2. repos[q] = None => Some(q, {"evict"})
        BY <1>0, <1>1, <2>1, <2>7 DEF Regular, UntrackedUnder, Patching, On
      <3>3. NodesGoing(q)' /\ ConfiguredTracked(q)'
        <4>1. Some(q, {"evict"})' => Some(q, {"evict", "register"})' /\ Some(q, {"evict", "remove"})'
          BY DEF Some, On
        <4> QED  BY <1>6, <2>2, <3>2, <4>1 DEF NodesGoing, ConfiguredTracked
      <3>4. NodesThere(q)'
        <4>1. (Warming(q)' => Warming(q)) /\ (Some(q, {"register"})' => Some(q, {"register"}))
          BY <1>0, <3>1, AfterRole, ThreadsFacts, <1>6, SameLists DEF Warming, Some, On, Others
        <4> QED  BY <2>1, <2>2, <2>4, <4>1 DEF Regular, NodesThere
      <3>5. TrackedConfigured(q)'
        BY <1>6, <2>1, <2>2, <2>7, SameLists DEF Regular, TrackedConfigured, Unwanted, On, Others
      <3> QED  BY <2>5, <2>6, <3>3, <3>4, <3>5 DEF Regular
    <2>8. CASE th[t].kind # "janitor"
      <3>1. Gone(t, "register")  BY <1>4, <2>8
      <3>2. NodesGoing(q)'
        <4>1. Some(q, {"evict", "register"})'  BY <1>1, <3>1 DEF Some, On, Gone
        <4> QED  BY <4>1 DEF NodesGoing
      <3>3. NodesThere(q)'
        <4>1. SUFFICES ASSUME nodes'[q] = {} PROVE Some(q, {"reindex"})'
          BY DEF NodesThere
        <4>2. Partial(t) /\ nodes[q] = {}  BY <1>7, <4>1
        <4>3. t = Warmup /\ q \in th[t].want
          BY <1>1, <1>2, <2>8, <4>2 DEF Partial, Role
        <4>4. Warming(q)  BY <1>0, <1>1, <4>3, <1>6, SameLists DEF Warming, On
        <4> QED  BY <2>1, <2>2, <4>2, <4>4 DEF Regular, NodesThere
      <3>4. ConfiguredTracked(q)'
        <4>1. Wanted(t, q) => Wanted(t, q)'  BY <1>0, <3>1, <1>6, SameLists DEF Wanted, On, Gone
        <4> QED  BY <1>6, <2>1, <2>2, <4>1, SameLists DEF Regular, ConfiguredTracked, Wanted, On, Others
      <3>5. TrackedConfigured(q)'
        <4>1. Unwanted(t, q) => Unwanted(t, q)'  BY <1>0, <3>1, <1>6, SameLists DEF Unwanted, On, Gone
        <4> QED  BY <1>6, <2>1, <2>2, <4>1, SameLists DEF Regular, TrackedConfigured, Unwanted, On, Others
      <3> QED  BY <2>5, <2>6, <3>2, <3>3, <3>4, <3>5 DEF Regular
    <2> QED  BY <2>7, <2>8
  <1>10. q \notin loose' => Followed(q)'
    <2>1. ~On(t, q, {"add", "attach", "delete"}) /\ (t = Controller => ~Detached(q)')
      BY <1>0, <1>5 DEF On, Detached
    <2> QED  BY <1>0, <1>5, <1>6, <2>1, InHandFacts, WatFrame DEF Inv, Wat
  <1> QED  BY <1>0, <1>1, <1>5, <1>6, <1>7, <1>8, <1>9, <1>10, WorkingStep

\* An index that fails exempts what it leaves half done.
LEMMA IndexFailsKeeps ==
    ASSUME Inv, NEW t \in Threads, IndexFails(t), th' \in [Threads -> Thread], Others(t)
    PROVE  Inv'
  <1>0. th[t].pc \in {"check", "index", "reindex"} /\ th[t].pc \in Working
    BY DEF IndexFails, Working, States
  <1>1. PICK q \in Repos : q = th[t].repo  BY <1>0, InHandFacts
  <1>2. odd' = IF q \in Configured \/ nodes[q] # {} \/ th[t].pc = "reindex"
               THEN odd \cup {q} ELSE odd
    BY <1>1 DEF IndexFails, Exempt
  <1>3. Returned(t)  BY LeaveType DEF IndexFails, Inv, Base
  <1>4. Role(t)' /\ KeepsLoop(t) /\ th'[t].pc \in {"next", "idle"}
    BY <1>0, <1>3, ReturnedRole, KeepsLoopCases
  <1>5. UNCHANGED <<repos, nodes, lists, watch, listed, attached, loose, patch>> /\ left' \in Nat
    BY DEF IndexFails, watching, Counted, Inv, Base, Types
  <1>6. odd \subseteq odd' /\ odd' \subseteq Repos  BY <1>2 DEF Inv, Base, Types
  <1>7. Types'  BY <1>5, <1>6 DEF Inv, Base, Types, lists
  <1>8. q \notin odd' => Regular(q)'
    <2>1. SUFFICES ASSUME Regular(q), q \notin Configured, nodes[q] = {}, th[t].pc \in {"check", "index"}
                   PROVE  Regular(q)'
      BY <1>0, <1>2 DEF Inv, Reg
    <2>2. /\ Some(q, {"reindex"}) => Some(q, {"reindex"})'
          /\ Some(q, {"evict"}) => Some(q, {"evict"})'
          /\ Some(q, {"add"}) => Some(q, {"add"})'
      BY <2>1 DEF Some, On, Others
    <2>3. NodesGoing(q)' /\ ConfiguredTracked(q)'
      <3>1. Configured' = Configured  BY <1>5, SameLists
      <3> QED  BY <1>5, <2>1, <3>1 DEF NodesGoing, ConfiguredTracked
    <2>4. NodesOwned(q)'
      <3>1. repos[q] # None => Some(q, {"reindex"})
        BY <2>1 DEF Regular, NodesOwned
      <3> QED  BY <1>5, <2>2, <3>1 DEF NodesOwned
    <2>5. NodesThere(q)'
      <3>1. (Warming(q)' => Warming(q)) /\ (Some(q, {"register"})' => Some(q, {"register"}))
        BY <1>0, <1>3, <1>4, ReturnedRole, ThreadsFacts, <1>5, SameLists DEF Warming, Some, On, Others
      <3> QED  BY <1>5, <2>1, <2>2, <3>1 DEF Regular, NodesThere
    <2>6. UntrackedUnder(q)'
      BY <1>4, <1>5, <2>1, <2>2 DEF Regular, UntrackedUnder, Patching, On, Others
    <2>7. TrackedConfigured(q)'
      <3>1. Unwanted(t, q) => Unwanted(t, q)'
        BY <1>0, <1>3, <1>5, <2>1, ReturnedRole, SameLists DEF On
      <3> QED  BY <1>5, <2>1, <2>2, <3>1, SameLists DEF Regular, TrackedConfigured, Unwanted, On, Others
    <2> QED  BY <2>3, <2>4, <2>5, <2>6, <2>7 DEF Regular
  <1>9. q \notin loose' => Followed(q)'
    <2>1. ~On(t, q, {"add", "attach", "delete"}) /\ (t = Controller => ~Detached(q)')
      BY <1>0, <1>4 DEF On, Detached
    <2> QED  BY <1>0, <1>4, <1>5, <2>1, InHandFacts, WatFrame DEF Inv, Wat
  <1> QED  BY <1>0, <1>1, <1>4, <1>5, <1>6, <1>7, <1>8, <1>9, WorkingStep

\* Before the warm-up has made the watchers there is nothing to keep in step.
LEMMA NotListed ==
    ASSUME Inv, NEW t \in Threads, ~listed, Others(t), NEW r \in Repos,
           th'[t].pc \notin {"start", "hand", "done"}
    PROVE  Followed(r)'
  BY ThreadsFacts DEF Inv, Base, Making, Followed, Others

\* TrackRepoCtx registers r, of which the graph has the nodes.
LEMMA RegisterKeeps ==
    ASSUME Inv, NEW t \in Threads, Register(t), th' \in [Threads -> Thread], Others(t)
    PROVE  Inv'
  <1>0. th[t].pc = "register" /\ th[t].pc \in Working  BY DEF Register, Working, States
  <1>1. PICK q \in Repos : q = th[t].repo  BY <1>0, InHandFacts
  <1>2. th[t].as \in Schemes /\ Role(t)  BY <1>0, InHandFacts DEF Role
  <1>3. /\ repos' = [repos EXCEPT ![q] = th[t].as]
        /\ odd' = IF nodes[q] \ {th[t].as} # {} THEN odd \cup {q} ELSE odd
        /\ Loosen(t, q)
    BY <1>1 DEF Register, Exempt
  <1>4. Gone(t, "add")
    <2>1. "add" \in States  BY DEF States
    <2> QED  BY <2>1, GoType DEF Register, Inv, Base
  <1>5. Role(t)' /\ KeepsLoop(t) /\ th'[t].pc \notin {"start", "hand", "done"}
    BY <1>0, <1>2, <1>4, KeepsLoopCases, InHandFacts, ThreadsFacts
       DEF Gone, Role, Working, States
  <1>6. UNCHANGED <<nodes, lists, watch, listed, attached, patch, left>>
    BY DEF Register
  <1>7. /\ repos' \in [Repos -> Schemes \cup {None}]
        /\ \A r \in Repos : r # q => repos'[r] = repos[r]
        /\ repos'[q] = th[t].as /\ repos'[q] # None
        /\ odd \subseteq odd' /\ odd' \subseteq Repos
        /\ loose \subseteq loose' /\ loose' \subseteq Repos
    BY <1>2, <1>3, ThreadsFacts DEF Inv, Base, Types, Loosen
  <1>8. Types'  BY <1>6, <1>7 DEF Inv, Base, Types, lists
  <1>9. q \notin odd' => Regular(q)'
    <2>1. SUFFICES ASSUME Regular(q), nodes[q] \subseteq {th[t].as} PROVE Regular(q)'
      BY <1>3 DEF Inv, Reg
    <2>2. Some(q, {"reindex"}) => Some(q, {"reindex"})'
      BY <1>0 DEF Some, On, Others
    <2>3. nodes[q] = {} => Some(q, {"reindex"})
      <3>1. Some(q, {"register"})  BY <1>0, <1>1 DEF Some, On
      <3> QED  BY <2>1, <3>1 DEF Regular, NodesThere
    <2>4. NodesOwned(q)' /\ NodesThere(q)'
      BY <1>6, <1>7, <2>1, <2>2, <2>3 DEF NodesOwned, NodesThere
    <2>5. NodesGoing(q)' /\ UntrackedUnder(q)' /\ ConfiguredTracked(q)'
      BY <1>7 DEF NodesGoing, UntrackedUnder, ConfiguredTracked
    <2>6. TrackedConfigured(q)'
      BY <1>1, <1>4 DEF TrackedConfigured, Some, On, Gone
    <2> QED  BY <2>4, <2>5, <2>6 DEF Regular
  <1>10. q \notin loose' => Followed(q)'
    <2>1. CASE ~listed  BY <1>5, <2>1, NotListed
    <2>2. CASE listed /\ q \notin loose'
      <3>1. t = Controller /\ th[t].kind = "track" /\ attached /\ q \notin loose
        BY <1>0, <1>2, <1>3, <2>2 DEF Loosen, Role
      <3>2. th'[Warmup].pc = "done" /\ watch'[q].st \notin {"created", "failed"}
        <4>1. th[Warmup].pc = "done"  BY <3>1 DEF Inv, Base, Making
        <4>2. Followed(q)  BY <3>1 DEF Inv, Wat
        <4> QED  BY <1>6, <3>1, <4>1, <4>2, ThreadsFacts DEF Followed, Others
      <3>3. th'[Controller].kind = "track" /\ On(Controller, q, {"add", "attach"})'
        BY <1>1, <1>4, <3>1 DEF Gone, On
      <3> QED  BY <1>7, <3>2, <3>3 DEF Followed, Detached
    <2> QED  BY <2>1, <2>2
  <1> QED  BY <1>0, <1>1, <1>5, <1>6, <1>7, <1>8, <1>9, <1>10, WorkingStep

\* A slice has its entries and its position.
LEMMA SliceFields ==
    ASSUME NEW slice, NEW entries, NEW pos, slice = [list |-> entries, at |-> pos]
    PROVE  slice.list = entries /\ slice.at = pos
  OBVIOUS

\* The configuration is rewritten in its array: a loop over that sees the new
\* entries as far as its slice reaches.
LEMMA InPlaceFacts ==
    ASSUME Types, NEW new \in Seq(Repos), InPlace(new)
    PROVE  /\ config' = new /\ live' = live
           /\ range' \in [Threads -> [list : Seq(Repos), at : Nat \ {0}]]
           /\ \A t \in Threads : t \notin live => range'[t] = range[t]
           /\ \A t \in Threads :
                 /\ range'[t].at = range[t].at
                 /\ Len(range'[t].list) = Len(range[t].list)
           /\ \A t \in live : \A i \in 1..Len(range[t].list) :
                 range'[t].list[i] = IF i <= Len(new) THEN new[i] ELSE range[t].list[i]
  <1>1. ASSUME NEW t \in live
        PROVE  /\ Overwritten(range[t].list, new) \in Seq(Repos)
               /\ Len(Overwritten(range[t].list, new)) = Len(range[t].list)
               /\ \A i \in 1..Len(range[t].list) :
                     Overwritten(range[t].list, new)[i]
                        = IF i <= Len(new) THEN new[i] ELSE range[t].list[i]
    <2>1. range[t].list \in Seq(Repos) /\ t \in Threads  BY DEF Types
    <2>2. \A i \in 1..Len(range[t].list) :
             (IF i <= Len(new) THEN new[i] ELSE range[t].list[i]) \in Repos
      BY <2>1
    <2> QED  BY <2>1, <2>2 DEF Overwritten
  <1>2. /\ config' = new /\ live' = live
        /\ range' = [t \in Threads |->
                       IF t \in live THEN [list |-> Overwritten(range[t].list, new), at |-> range[t].at]
                       ELSE range[t]]
    BY DEF InPlace
  <1>3. \A t \in Threads : range[t] \in [list : Seq(Repos), at : Nat \ {0}]  BY DEF Types
  <1>4. live \subseteq Threads  BY DEF Types
  <1>5. range' \in [Threads -> [list : Seq(Repos), at : Nat \ {0}]]
    BY <1>1, <1>2, <1>3
  <1>6. \A t \in live : range'[t] = [list |-> Overwritten(range[t].list, new), at |-> range[t].at]
    BY <1>2, <1>4
  <1>7. \A t \in Threads : t \notin live => range'[t] = range[t]  BY <1>2
  <1>8. ASSUME NEW t \in Threads
        PROVE  range'[t].at = range[t].at /\ Len(range'[t].list) = Len(range[t].list)
    <2>1. CASE t \in live
      <3>0. range'[t] = [list |-> Overwritten(range[t].list, new), at |-> range[t].at]
        BY <1>6, <2>1
      <3>1. range'[t].list = Overwritten(range[t].list, new) /\ range'[t].at = range[t].at
        BY <3>0, SliceFields
      <3>2. Len(Overwritten(range[t].list, new)) = Len(range[t].list)  BY <1>1, <2>1
      <3> QED  BY <3>1, <3>2
    <2>2. CASE t \notin live  BY <1>7, <2>2
    <2> QED  BY <2>1, <2>2
  <1>9. ASSUME NEW t \in live, NEW i \in 1..Len(range[t].list)
        PROVE  range'[t].list[i] = IF i <= Len(new) THEN new[i] ELSE range[t].list[i]
    <2>0. range'[t] = [list |-> Overwritten(range[t].list, new), at |-> range[t].at]  BY <1>6
    <2>1. range'[t].list = Overwritten(range[t].list, new)  BY <2>0, SliceFields
    <2>2. Overwritten(range[t].list, new)[i] = IF i <= Len(new) THEN new[i] ELSE range[t].list[i]
      BY <1>1
    <2> QED  BY <2>1, <2>2
  <1> QED  BY <1>2, <1>5, <1>7, <1>8, <1>9

\* What AddRepo and RemoveRepo do to the loops: only what is appended can come
\* new to a slice, and what a slice loses and still needs is set apart.
Rewritten(q) ==
    /\ config' \in Seq(Repos) /\ live' \in SUBSET Threads
    /\ range' \in [Threads -> [list : Seq(Repos), at : Nat \ {0}]]
    /\ Slices'
    /\ \A r \in Repos : r # q => (r \in Configured' <=> r \in Configured)
    /\ \A t \in Threads, r \in Repos :
          r \in Rest(t)' => r \in Rest(t) \/ (r = q /\ r \in Configured')

\* GlobalConfig.AddRepo appends a repository that is not listed.
LEMMA AppendedFacts ==
    ASSUME Types, Slices, NEW q \in Repos, Appended(q)
    PROVE  Rewritten(q) /\ q \in Configured'
  <1>1. CASE q \in Configured
    <2>1. UNCHANGED lists  BY <1>1 DEF Appended
    <2>2. config' = config /\ range' = range /\ live' = live  BY <2>1 DEF lists
    <2> QED  BY <1>1, <2>1, <2>2, SameLists DEF Rewritten, Types
  <1>2. CASE q \notin Configured
    <2> DEFINE new == Append(config, q)
    <2>1. /\ new \in Seq(Repos) /\ Len(new) = Len(config) + 1 /\ new[Len(config) + 1] = q
          /\ \A i \in 1..Len(config) : new[i] = config[i]
      BY DEF Types
    <2>2. Len(config) \in Nat /\ DOMAIN config = 1..Len(config)  BY DEF Types
    <2>3. config' = new
      BY <1>2 DEF Appended, InPlace
    <2>4. DOMAIN config' = 1..Len(config) + 1  BY <2>1, <2>3
    <2>5. Configured' = Configured \cup {q}
      <3>1. Configured' = {config'[i] : i \in 1..Len(config) + 1}  BY <2>4 DEF Configured
      <3>2. 1..Len(config) + 1 = (1..Len(config)) \cup {Len(config) + 1}  BY <2>2
      <3>3. Configured = {config[i] : i \in 1..Len(config)}  BY <2>2 DEF Configured
      <3> QED  BY <2>1, <2>3, <3>1, <3>2, <3>3
    <2>6. Distinct(config)'
      <3> SUFFICES ASSUME NEW i \in 1..Len(config) + 1, NEW j \in 1..Len(config) + 1,
                          new[i] = new[j]
                   PROVE  i = j
        BY <2>3, <2>4 DEF Distinct
      <3>1. \A k \in 1..Len(config) : new[k] # q  BY <1>2, <2>1, <2>2 DEF Configured
      <3>2. \A k \in 1..Len(config) + 1 : k \in 1..Len(config) \/ k = Len(config) + 1  BY <2>2
      <3>3. CASE i \in 1..Len(config) /\ j \in 1..Len(config)
        BY <2>1, <2>2, <3>3 DEF Slices, Distinct
      <3> QED  BY <2>1, <3>1, <3>2, <3>3
    <2>7. CASE \A t \in live : Len(config) < Len(range[t].list)
      <3>0. InPlace(new)  BY <1>2, <2>7 DEF Appended
      <3>1. /\ live' = live /\ range' \in [Threads -> [list : Seq(Repos), at : Nat \ {0}]]
            /\ \A t \in Threads : t \notin live => range'[t] = range[t]
            /\ \A t \in Threads : range'[t].at = range[t].at /\ Len(range'[t].list) = Len(range[t].list)
            /\ \A t \in live : \A i \in 1..Len(range[t].list) :
                  range'[t].list[i] = IF i <= Len(new) THEN new[i] ELSE range[t].list[i]
        BY <2>1, <3>0, InPlaceFacts
      <3>2. ASSUME NEW t \in live
            PROVE  /\ t \in {Warmup, Controller} /\ t \in Threads
                   /\ range[t].list \in Seq(Repos) /\ Len(range[t].list) \in Nat
                   /\ Len(config) + 1 <= Len(range[t].list)
                   /\ \A i \in 1..Len(config) : range[t].list[i] = config[i]
        BY <2>2, <2>7 DEF Types, Slices
      <3>3. Slices'
        <4>1. ASSUME NEW t \in live
              PROVE  /\ Len(config') <= Len(range'[t].list)
                     /\ \A i \in 1..Len(config') : range'[t].list[i] = config'[i]
          <5>1. Len(config') = Len(config) + 1  BY <2>1, <2>3
          <5>2. Len(range'[t].list) = Len(range[t].list)  BY <3>1, <3>2
          <5>3. \A i \in 1..Len(config) + 1 : i \in 1..Len(range[t].list) /\ i <= Len(new)
            BY <2>1, <2>2, <3>2
          <5> QED  BY <2>3, <3>1, <3>2, <5>1, <5>2, <5>3
        <4> QED  BY <2>6, <3>1, <3>2, <4>1 DEF Slices
      <3>4. ASSUME NEW t \in Threads, NEW r \in Repos, r \in Rest(t)' PROVE r \in Rest(t) \/ r = q
        <4>1. CASE t \notin live  BY <3>1, <3>4, <4>1 DEF Rest
        <4>2. CASE t \in live
          <5>1. PICK i \in range'[t].at .. Len(range'[t].list) : r = range'[t].list[i]
            BY <3>4 DEF Rest
          <5>2. range[t].at \in Nat \ {0} /\ Len(range[t].list) \in Nat  BY <3>2, <4>2 DEF Types
          <5>3. i \in range[t].at .. Len(range[t].list) /\ i \in 1..Len(range[t].list)
            BY <3>1, <4>2, <5>1, <5>2, <3>2
          <5>4. CASE i \in 1..Len(config)
            BY <2>1, <2>2, <3>1, <3>2, <4>2, <5>1, <5>3, <5>4 DEF Rest
          <5>5. CASE i = Len(config) + 1
            BY <2>1, <2>2, <3>1, <4>2, <5>1, <5>3, <5>5
          <5>6. CASE i > Len(config) + 1
            BY <2>1, <2>2, <3>1, <4>2, <5>1, <5>3, <5>6 DEF Rest
          <5>7. i \in 1..Len(config) \/ i = Len(config) + 1 \/ i > Len(config) + 1
            BY <2>2, <5>2, <5>3
          <5> QED  BY <5>4, <5>5, <5>6, <5>7
        <4> QED  BY <4>1, <4>2
      <3> QED  BY <2>1, <2>3, <2>5, <3>1, <3>3, <3>4 DEF Rewritten, Types
    <2>8. CASE ~\A t \in live : Len(config) < Len(range[t].list)
      <3>1. live' = {} /\ range' = range  BY <1>2, <2>8 DEF Appended
      <3>2. Slices'  BY <2>6, <3>1 DEF Slices
      <3>3. \A t \in Threads : Rest(t)' = Rest(t)  BY <3>1 DEF Rest
      <3> QED  BY <2>1, <2>3, <2>5, <3>1, <3>2, <3>3 DEF Rewritten, Types
    <2> QED  BY <2>7, <2>8
  <1> QED  BY <1>1, <1>2

\* GlobalConfig.RemoveRepo moves the entries behind the removed one up.
LEMMA WithoutFacts ==
    ASSUME Types, Slices, NEW q \in Repos, q \in Configured, InPlace(Without(q))
    PROVE  Rewritten(q) /\ q \notin Configured' /\ \A t \in Threads : Rest(t)' \subseteq Rest(t)
  <1> DEFINE k == CHOOSE i \in DOMAIN config : config[i] = q
             new == Without(q)
  <1>1. config \in Seq(Repos) /\ Len(config) \in Nat /\ DOMAIN config = 1..Len(config)
    BY DEF Types
  <1>2. k \in 1..Len(config) /\ config[k] = q
    <2>1. \E i \in DOMAIN config : config[i] = q  BY DEF Configured
    <2> QED  BY <1>1, <2>1
  <1>3. new = [j \in 1 .. Len(config) - 1 |-> config[IF j < k THEN j ELSE j + 1]]
    BY DEF Without
  <1>4. \A j \in 1 .. Len(config) - 1 :
           /\ (IF j < k THEN j ELSE j + 1) \in 1..Len(config)
           /\ (IF j < k THEN j ELSE j + 1) # k
           /\ new[j] = config[IF j < k THEN j ELSE j + 1]
    <2>1. ASSUME NEW j \in 1 .. Len(config) - 1
          PROVE  /\ (IF j < k THEN j ELSE j + 1) \in 1..Len(config)
                 /\ (IF j < k THEN j ELSE j + 1) # k
      <3> HIDE DEF k
      <3> QED  BY <1>1, <1>2
    <2>2. \A j \in 1 .. Len(config) - 1 : new[j] = config[IF j < k THEN j ELSE j + 1]
      <3> HIDE DEF k, new
      <3> QED  BY <1>3
    <2> QED  BY <2>1, <2>2
  <1>5. new \in Seq(Repos) /\ Len(new) = Len(config) - 1
    <2>1. Len(config) - 1 \in Nat  BY <1>1, <1>2
    <2>2. \A j \in 1 .. Len(config) - 1 : config[IF j < k THEN j ELSE j + 1] \in Repos
      BY <1>1, <1>4
    <2> QED  BY <1>3, <2>1, <2>2
  <1>6. /\ config' = new /\ live' = live
        /\ range' \in [Threads -> [list : Seq(Repos), at : Nat \ {0}]]
        /\ \A t \in Threads : t \notin live => range'[t] = range[t]
        /\ \A t \in Threads : range'[t].at = range[t].at /\ Len(range'[t].list) = Len(range[t].list)
        /\ \A t \in live : \A i \in 1..Len(range[t].list) :
              range'[t].list[i] = IF i <= Len(new) THEN new[i] ELSE range[t].list[i]
    BY <1>5, InPlaceFacts
  <1>7. DOMAIN config' = 1 .. Len(config) - 1  BY <1>5, <1>6
  <1>8. \A i, j \in 1..Len(config) : config[i] = config[j] => i = j
    BY <1>1 DEF Slices, Distinct
  <1>9. Distinct(config)'
    <2> SUFFICES ASSUME NEW i \in 1 .. Len(config) - 1, NEW j \in 1 .. Len(config) - 1,
                        new[i] = new[j]
                 PROVE  i = j
      BY <1>6, <1>7 DEF Distinct
    <2>1. (IF i < k THEN i ELSE i + 1) = (IF j < k THEN j ELSE j + 1)
      BY <1>4, <1>8
    <2> QED  BY <1>1, <1>2, <2>1
  <1>10. q \notin Configured'
    <2>1. \A j \in 1 .. Len(config) - 1 : new[j] # q  BY <1>2, <1>4, <1>8
    <2> QED  BY <1>6, <1>7, <2>1 DEF Configured
  <1>11. ASSUME NEW r \in Repos, r # q PROVE r \in Configured' <=> r \in Configured
    <2>1. ASSUME r \in Configured' PROVE r \in Configured
      <3>1. PICK j \in 1 .. Len(config) - 1 : r = new[j]  BY <1>6, <1>7, <2>1 DEF Configured
      <3>2. /\ (IF j < k THEN j ELSE j + 1) \in DOMAIN config
            /\ r = config[IF j < k THEN j ELSE j + 1]
        BY <1>1, <1>4, <3>1
      <3> HIDE DEF k, new
      <3> QED  BY <3>2 DEF Configured
    <2>2. ASSUME r \in Configured PROVE r \in Configured'
      <3>1. PICK i \in 1..Len(config) : config[i] = r  BY <1>1, <2>2 DEF Configured
      <3>2. i # k  BY <1>2, <1>11, <3>1
      <3>3. CASE i < k
        <4>1. i \in 1 .. Len(config) - 1  BY <1>1, <1>2, <3>3
        <4>2. new[i] = r  BY <1>4, <3>1, <3>3, <4>1
        <4> QED  BY <1>6, <1>7, <4>1, <4>2 DEF Configured
      <3>4. CASE i > k
        <4>1. i - 1 \in 1 .. Len(config) - 1 /\ ~(i - 1 < k) /\ (i - 1) + 1 = i
          BY <1>1, <1>2, <3>4
        <4>2. new[i - 1] = r  BY <1>4, <3>1, <4>1
        <4> QED  BY <1>6, <1>7, <4>1, <4>2 DEF Configured
      <3> QED  BY <1>1, <1>2, <3>2, <3>3, <3>4
    <2> QED  BY <2>1, <2>2
  <1>12. ASSUME NEW t \in live
         PROVE  /\ t \in {Warmup, Controller} /\ t \in Threads
                /\ range[t].list \in Seq(Repos) /\ Len(range[t].list) \in Nat
                /\ Len(config) <= Len(range[t].list)
                /\ \A i \in 1..Len(config) : range[t].list[i] = config[i]
    BY DEF Types, Slices
  <1>13. Slices'
    <2>1. ASSUME NEW t \in live
          PROVE  /\ Len(config') <= Len(range'[t].list)
                 /\ \A i \in 1..Len(config') : range'[t].list[i] = config'[i]
      <3>1. Len(config') = Len(config) - 1  BY <1>5, <1>6
      <3>2. Len(range'[t].list) = Len(range[t].list)  BY <1>6, <1>12
      <3>3. \A i \in 1 .. Len(config) - 1 : i \in 1..Len(range[t].list) /\ i <= Len(new)
        BY <1>1, <1>5, <1>12
      <3>4. Len(config) - 1 <= Len(range[t].list)  BY <1>1, <1>12
      <3> QED  BY <1>6, <3>1, <3>2, <3>3, <3>4
    <2> QED  BY <1>6, <1>9, <1>12, <2>1 DEF Slices
  <1>14. ASSUME NEW t \in Threads, NEW r \in Rest(t)' PROVE r \in Rest(t)
    <2>1. CASE t \notin live  BY <1>6, <1>14, <2>1 DEF Rest
    <2>2. CASE t \in live
      <3>1. PICK i \in range'[t].at .. Len(range'[t].list) : r = range'[t].list[i]
        BY <1>14 DEF Rest
      <3>2. range[t].at \in Nat \ {0} /\ Len(range[t].list) \in Nat  BY <1>12, <2>2 DEF Types
      <3>3. i \in range[t].at .. Len(range[t].list) /\ i \in 1..Len(range[t].list)
        BY <1>6, <2>2, <3>1, <3>2, <1>12
      <3>4. CASE i <= Len(config) - 1 /\ i < k
        <4>1. i \in 1 .. Len(config) - 1 /\ i \in 1..Len(config)  BY <1>1, <3>3, <3>4
        <4>2. r = range[t].list[i]  BY <1>4, <1>5, <1>6, <1>12, <2>2, <3>1, <3>3, <3>4, <4>1
        <4> QED  BY <3>3, <4>2 DEF Rest
      <3>5. CASE i <= Len(config) - 1 /\ ~(i < k)
        <4>1. i \in 1 .. Len(config) - 1 /\ i + 1 \in 1..Len(config)  BY <1>1, <3>3, <3>5
        <4>2. r = range[t].list[i + 1]  BY <1>4, <1>5, <1>6, <1>12, <2>2, <3>1, <3>3, <3>5, <4>1
        <4>3. i + 1 \in range[t].at .. Len(range[t].list)
          BY <1>1, <1>12, <2>2, <3>2, <3>3, <4>1
        <4> QED  BY <4>2, <4>3 DEF Rest
      <3>6. CASE i > Len(config) - 1
        <4>1. r = range[t].list[i]  BY <1>1, <1>5, <1>6, <2>2, <3>1, <3>3, <3>6
        <4> QED  BY <3>3, <4>1 DEF Rest
      <3>7. i <= Len(config) - 1 \/ i > Len(config) - 1  BY <1>1, <3>2, <3>3
      <3> QED  BY <3>4, <3>5, <3>6, <3>7
    <2> QED  BY <2>1, <2>2
  <1> QED  BY <1>5, <1>6, <1>10, <1>11, <1>13, <1>14 DEF Rewritten, Types

\* Who is not set apart by an edit keeps what the loops owe it.
LEMMA EditedReach ==
    ASSUME NEW q \in Repos, NEW cond \in BOOLEAN, Rewritten(q), Edited(q, cond),
           odd \subseteq Repos
    PROVE  /\ odd \subseteq odd' /\ odd' \subseteq Repos
           /\ cond => q \in odd'
           /\ \A r \in Repos : r \notin odd' /\ (r # q \/ r \notin Configured') =>
                 \A u \in Threads : Reach(u, r)
  <1>1. odd' = odd \cup Unreached \cup (IF cond THEN {q} ELSE {})  BY DEF Edited
  <1>2. Unreached \subseteq Repos  BY DEF Unreached
  <1>3. ASSUME NEW r \in Repos, r \notin odd', NEW u \in Threads,
               repos[r] = None, r \in Configured' \/ nodes[r] # {}, r \in Rest(u)
        PROVE  r \in Rest(u)'
    BY <1>1, <1>3 DEF Unreached
  <1> QED  BY <1>1, <1>2, <1>3 DEF Reach, Rewritten

\* GlobalConfig.AddRepo: what is tracked gets configured.
LEMMA AddRepoKeeps ==
    ASSUME Inv, NEW t \in Threads, AddRepo(t), th' \in [Threads -> Thread], Others(t)
    PROVE  Inv'
  <1>0. th[t].pc = "add" /\ th[t].pc \in Working  BY DEF AddRepo, Working, States
  <1>1. PICK q \in Repos : q = th[t].repo  BY <1>0, InHandFacts
  <1>2. Rewritten(q) /\ q \in Configured'
    BY <1>1, AppendedFacts DEF AddRepo, Inv, Base
  <1>10. /\ odd \subseteq odd' /\ odd' \subseteq Repos
         /\ repos[q] = None => q \in odd'
         /\ \A r \in Repos : r \notin odd' /\ (r # q \/ r \notin Configured') =>
               \A u \in Threads : Reach(u, r)
    <2>1. Edited(q, repos[q] = None) /\ odd \subseteq Repos
      BY <1>1 DEF AddRepo, Inv, Base, Types
    <2> QED  BY <1>2, <2>1, EditedReach
  <1>3. \/ t = Controller /\ th[t].kind = "track" /\ attached /\ Gone(t, "attach")
        \/ ~(t = Controller /\ th[t].kind = "track" /\ attached) /\ After(t)
    <2>1. "attach" \in States  BY DEF States
    <2> QED  BY <2>1, GoType DEF AddRepo, Inv, Base
  <1>4. /\ Role(t)' /\ KeepsLoop(t)
        /\ th'[t].pc \in {"next", "idle", "read", "attach"}
    <2>1. CASE After(t)
      BY <1>0, <2>1, AfterRole, KeepsLoopCases
    <2>2. CASE t = Controller /\ th[t].kind = "track" /\ attached /\ Gone(t, "attach")
      <3>1. attached'  BY <2>2 DEF AddRepo, watching
      <3> QED  BY <1>0, <1>1, <2>2, <3>1, KeepsLoopCases, InHandFacts, ThreadsFacts
                  DEF Gone, Role, Working, States
    <2> QED  BY <1>3, <2>1, <2>2
  <1>5. UNCHANGED <<repos, nodes, watch, listed, attached, loose, patch, left>>
    BY DEF AddRepo, watching
  <1>7. Types'  BY <1>2, <1>5, <1>10 DEF Inv, Base, Types, Rewritten
  <1>8. q \notin odd' => Regular(q)'
    <2>1. SUFFICES ASSUME Regular(q), repos[q] # None PROVE Regular(q)'
      BY <1>10 DEF Inv, Reg
    <2>2. Some(q, {"reindex"}) => Some(q, {"reindex"})'
      BY <1>0 DEF Some, On, Others
    <2>3. NodesOwned(q)'
      <3>1. \A u \in Threads : On(u, q, {"replace"}) => u # t  BY <1>0 DEF On
      <3> QED  BY <1>5, <2>1, <2>2, <3>1 DEF Regular, NodesOwned, On, Others
    <2>4. NodesThere(q)'
      <3>1. \A u \in Threads : On(u, q, {"replace"}) => th[u].as \in Schemes
        BY DEF On, Inv, Base, Roles, Role
      <3>2. nodes[q] = {} => Some(q, {"reindex"})
        BY <2>1, <3>1 DEF Regular, NodesOwned
      <3> QED  BY <1>5, <2>2, <3>2 DEF NodesThere
    <2>5. NodesGoing(q)' /\ UntrackedUnder(q)' /\ ConfiguredTracked(q)' /\ TrackedConfigured(q)'
      BY <1>2, <1>5, <2>1 DEF NodesGoing, UntrackedUnder, ConfiguredTracked, TrackedConfigured
    <2> QED  BY <2>3, <2>4, <2>5 DEF Regular
  <1>9. q \notin loose' => Followed(q)'
    <2>1. SUFFICES ASSUME Followed(q) PROVE Followed(q)'  BY <1>5 DEF Inv, Wat
    <2>2. t = Warmup => th[t].pc \notin {"start", "hand", "done"}
                        /\ th'[t].pc \notin {"start", "hand", "done"}
      BY <1>0, <1>4
    <2>3. CASE t # Controller  BY <1>5, <2>1, <2>2, <2>3, WatFrame DEF Inv
    <2>4. CASE t = Controller /\ th[t].kind = "track" /\ attached
      <3>1. Gone(t, "attach")  BY <1>3, <2>4
      <3> QED  BY <1>0, <1>1, <1>5, <2>1, <2>4, <3>1, ThreadsFacts
                  DEF Followed, Started, Detached, On, Gone, Others
    <2>5. CASE t = Controller /\ th[t].kind = "track" /\ ~attached
      <3>1. th[Warmup].pc # "done"  BY <2>5 DEF Inv, Base, Making
      <3> QED  BY <1>5, <2>1, <2>5, <3>1, ThreadsFacts DEF Followed, Started, Others
    <2>6. CASE t = Controller /\ th[t].kind # "track"
      BY <1>0, <1>4, <1>5, <2>1, <2>6, ThreadsFacts DEF Followed, Started, Detached, On, Others
    <2> QED  BY <2>3, <2>4, <2>5, <2>6
  <1>11. /\ Slices'
         /\ \A r \in Repos : r # q /\ r \notin odd' =>
               (r \in Configured' <=> r \in Configured) /\ \A u \in Threads : Reach(u, r)
    BY <1>2, <1>10 DEF Rewritten
  <1> QED  BY <1>0, <1>1, <1>4, <1>5, <1>7, <1>8, <1>9, <1>10, <1>11, WorkingStep

\* The controller takes the watcher of r before the registration.
LEMMA DetachKeeps ==
    ASSUME Inv, NEW t \in Threads, Detach(t), th' \in [Threads -> Thread], Others(t)
    PROVE  Inv'
  <1>0. th[t].pc = "detach" /\ th[t].pc \in Working  BY DEF Detach, Working, States
  <1>1. PICK q \in Repos : q = th[t].repo  BY <1>0, InHandFacts
  <1>2. t = Controller /\ th[t].kind = "untrack"
    BY <1>0, InHandFacts, ThreadsFacts DEF Role, Thread, Kinds
  <1>3. Gone(t, "delete")
    <2>1. "delete" \in States  BY DEF States
    <2> QED  BY <2>1, GoType DEF Detach, Inv, Base
  <1>4. Role(t)' /\ KeepsLoop(t) /\ th'[t].pc \notin {"start", "hand", "done"}
    BY <1>0, <1>1, <1>2, <1>3, KeepsLoopCases, InHandFacts, ThreadsFacts
       DEF Gone, Role, Working, States
  <1>5. UNCHANGED <<repos, nodes, lists, listed, attached, loose, patch, left, odd>>
    BY DEF Detach
  <1>6. /\ watch' \in [Repos -> [st : {"none", "created", "failed", "started"}, as : Schemes \cup {None}]]
        /\ \A r \in Repos : r # q => watch'[r] = watch[r]
        /\ watch'[q] = IF attached THEN Unwatched ELSE watch[q]
    BY <1>1 DEF Detach, Inv, Base, Types, Unwatched
  <1>7. Types'  BY <1>5, <1>6 DEF Inv, Base, Types, lists
  <1>8. Making'
    <2>1. th'[Warmup] = th[Warmup]  BY <1>2, ThreadsFacts DEF Others
    <2>2. \A r \in Repos : watch'[r] \in {watch[r], Unwatched}  BY <1>6
    <2> QED  BY <1>5, <2>1, <2>2 DEF Inv, Base, Making, Unwatched
  <1>9. q \notin odd' => Regular(q)'
    <2>1. Neutral(t, q) /\ Neutral(t, q)' /\ ~Patching(t, q)'
      BY <1>0, <1>3 DEF Neutral, Patching, On, Gone
    <2>2. Warming(q)' <=> Warming(q)
      BY <1>2, ThreadsFacts, <1>5, SameLists DEF Warming, On, Others
    <2>3. ~Wanted(t, q) /\ ~Unwanted(t, q)  BY <1>2, <1>5, SameLists DEF Wanted, Unwanted
    <2> QED  BY <1>5, <2>1, <2>2, <2>3, RegFrame DEF Inv, Reg
  <1>10. q \notin loose' => Followed(q)'
    <2>1. SUFFICES ASSUME Followed(q) PROVE Followed(q)'  BY <1>5 DEF Inv, Wat
    <2>2. th'[Warmup] = th[Warmup]  BY <1>2, ThreadsFacts DEF Others
    <2>3. CASE attached
      <3>1. th[Warmup].pc = "done" /\ watch'[q] = Unwatched
        BY <1>6, <2>3 DEF Inv, Base, Making
      <3>2. Detached(q)'  BY <1>1, <1>2, <1>3 DEF Detached, On, Gone
      <3> QED  BY <2>2, <3>1, <3>2 DEF Followed, Started, Unwatched
    <2>4. CASE ~attached
      <3>1. th[Warmup].pc # "done"  BY <2>4 DEF Inv, Base, Making
      <3> QED  BY <1>5, <1>6, <2>1, <2>2, <2>4, <3>1 DEF Followed, Started
    <2> QED  BY <2>3, <2>4
  <1> QED  BY <1>0, <1>1, <1>4, <1>5, <1>6, <1>7, <1>8, <1>9, <1>10, WorkingStep

\* The controller attaches a watcher to what it has tracked, or fails to.
LEMMA AttachKeeps ==
    ASSUME Inv, NEW t \in Threads, Attach(t) \/ AttachFails(t),
           th' \in [Threads -> Thread], Others(t)
    PROVE  Inv'
  <1>0. th[t].pc = "attach" /\ th[t].pc \in Working
    BY DEF Attach, AttachFails, Working, States
  <1>1. PICK q \in Repos : q = th[t].repo  BY <1>0, InHandFacts
  <1>2. t = Controller /\ th[t].kind = "track" /\ attached
    BY <1>0, InHandFacts, ThreadsFacts DEF Role, Thread, Kinds
  <1>3. th'[t] = Idle  BY DEF Attach, AttachFails, Inv, Base, Types
  <1>4. Role(t)' /\ KeepsLoop(t) /\ th'[t].pc \notin {"start", "hand", "done"}
    BY <1>0, <1>2, <1>3, KeepsLoopCases, InHandFacts, ThreadsFacts
       DEF Idle, Role, Working, States
  <1>5. UNCHANGED <<repos, nodes, lists, listed, attached, patch, odd>> /\ left' \in Nat
    BY DEF Attach, AttachFails, Counted, Inv, Base, Types
  <1>6. /\ watch' \in [Repos -> [st : {"none", "created", "failed", "started"}, as : Schemes \cup {None}]]
        /\ \A r \in Repos : r # q => watch'[r] = watch[r]
        /\ \/ watch'[q] = watch[q]
           \/ repos[q] # None /\ watch'[q] = [st |-> "started", as |-> repos[q]]
        /\ Attach(t) /\ watch[q].st = "none" /\ repos[q] # None => watch'[q].st = "started"
        /\ loose \subseteq loose' /\ loose' \subseteq Repos
        /\ AttachFails(t) => q \in loose'
    <2>1. watch \in [Repos -> [st : {"none", "created", "failed", "started"}, as : Schemes \cup {None}]]
          /\ repos[q] \in Schemes \cup {None} /\ loose \subseteq Repos
      BY DEF Inv, Base, Types
    <2>2. CASE Attach(t)
      BY <1>1, <2>1, <2>2 DEF Attach, AttachFails
    <2>3. CASE AttachFails(t) /\ ~Attach(t)
      BY <1>1, <2>1, <2>3 DEF AttachFails
    <2> QED  BY <2>2, <2>3
  <1>7. Types'  BY <1>5, <1>6 DEF Inv, Base, Types, lists
  <1>8. Making'
    <2>1. th'[Warmup] = th[Warmup] /\ listed
      BY <1>2, ThreadsFacts DEF Others, Inv, Base, Making
    <2>2. \A r \in Repos : watch'[r].st # "none" => watch'[r].as # None
      BY <1>6, <2>1 DEF Inv, Base, Making
    <2> QED  BY <1>5, <2>1, <2>2 DEF Inv, Base, Making
  <1>9. q \notin odd' => Regular(q)'
    <2>1. Neutral(t, q) /\ Neutral(t, q)' /\ ~Patching(t, q)'
      BY <1>0, <1>3 DEF Neutral, Patching, On, Idle
    <2>2. Warming(q)' <=> Warming(q)
      BY <1>2, ThreadsFacts, <1>5, SameLists DEF Warming, On, Others
    <2>3. ~Wanted(t, q) /\ ~Unwanted(t, q)  BY <1>2, <1>5, SameLists DEF Wanted, Unwanted
    <2> QED  BY <1>5, <2>1, <2>2, <2>3, RegFrame DEF Inv, Reg
  <1>10. q \notin loose' => Followed(q)'
    <2>1. SUFFICES ASSUME Followed(q), Attach(t) PROVE Followed(q)'
      BY <1>6 DEF Inv, Wat
    <2>2. th'[Warmup] = th[Warmup] /\ th[Warmup].pc = "done"
      BY <1>2, ThreadsFacts DEF Others, Inv, Base, Making
    <2>3. ~Detached(q) /\ ~Detached(q)'
      BY <1>2, <1>3 DEF Detached, Idle
    <2>4. watch[q].st \in {"none", "started"} /\ watch'[q].st \in {"none", "started"}
      BY <1>6, <2>1, <2>2 DEF Followed, Inv, Base, Types
    <2>5. Started(q)' <=> repos'[q] # None
      BY <1>5, <1>6, <2>1, <2>2, <2>3, <2>4 DEF Followed, Started
    <2> QED  BY <2>2, <2>3, <2>4, <2>5 DEF Followed
  <1> QED  BY <1>0, <1>1, <1>4, <1>5, <1>6, <1>7, <1>8, <1>9, <1>10, WorkingStep

\* UntrackRepo deletes the registration, and owes the eviction.
LEMMA DeleteKeeps ==
    ASSUME Inv, NEW t \in Threads, Delete(t), th' \in [Threads -> Thread], Others(t)
    PROVE  Inv'
  <1>0. th[t].pc = "delete" /\ th[t].pc \in Working  BY DEF Delete, Working, States
  <1>1. PICK q \in Repos : q = th[t].repo  BY <1>0, InHandFacts
  <1>2. Role(t) /\ t # Warmup /\ th[t].kind \in {"untrack", "drop"}
    BY <1>0, InHandFacts DEF Role, Thread, Kinds
  <1>3. /\ repos' = [repos EXCEPT ![q] = None]
        /\ \/ repos[q] = None /\ After(t) /\ loose' = loose
           \/ repos[q] # None /\ Loosen(t, q) /\ Gone(t, "evict")
    <2>1. "evict" \in States  BY DEF States
    <2> QED  BY <1>1, <2>1, GoType DEF Delete, Inv, Base
  <1>4. Role(t)' /\ KeepsLoop(t) /\ th'[t].pc \notin {"start", "hand", "done", "delete"}
    <2>1. CASE After(t)  BY <1>0, <2>1, AfterRole, KeepsLoopCases
    <2>2. CASE Gone(t, "evict")
      BY <1>0, <1>1, <1>2, <2>2, KeepsLoopCases, ThreadsFacts
         DEF Gone, Role, Working, States
    <2> QED  BY <1>3, <2>1, <2>2
  <1>5. UNCHANGED <<nodes, lists, watch, listed, attached, patch, left, odd>>
    BY DEF Delete
  <1>6. /\ repos' \in [Repos -> Schemes \cup {None}]
        /\ \A r \in Repos : r # q => repos'[r] = repos[r]
        /\ repos'[q] = None
        /\ loose \subseteq loose' /\ loose' \subseteq Repos
    BY <1>3 DEF Inv, Base, Types, Loosen
  <1>7. Types'  BY <1>5, <1>6 DEF Inv, Base, Types, lists
  <1>8. q \notin odd' => Regular(q)'
    <2>1. SUFFICES ASSUME Regular(q) PROVE Regular(q)'  BY <1>5 DEF Inv, Reg
    <2>2. CASE repos[q] = None
      <3>1. Neutral(t, q) /\ Neutral(t, q)' /\ ~Patching(t, q)'
        BY <1>0, <1>3, <2>2, AfterRole DEF Neutral, On
      <3>2. Warming(q)' <=> Warming(q)
        BY <1>2, ThreadsFacts, <1>5, SameLists DEF Warming, On, Others
      <3>3. ~Wanted(t, q)  BY <1>2, <1>5, SameLists DEF Wanted
      <3> QED  BY <1>5, <1>6, <2>1, <2>2, <3>1, <3>2, <3>3, RegFrame
    <2>3. CASE repos[q] # None
      <3>1. Gone(t, "evict")  BY <1>3, <2>3
      <3>2. /\ Some(q, {"evict", "register"})' /\ Some(q, {"evict"})'
            /\ Some(q, {"evict", "remove"})'
        BY <1>1, <3>1 DEF Some, On, Gone
      <3>3. NodesThere(q)'
        <4>1. /\ Some(q, {"register"})' => Some(q, {"register"})
              /\ Some(q, {"reindex"}) => Some(q, {"reindex"})'
              /\ Warming(q)' => Warming(q)
          BY <1>0, <1>2, <3>1, ThreadsFacts, <1>5, SameLists DEF Warming, Some, On, Gone, Others
        <4> QED  BY <1>5, <2>1, <4>1 DEF Regular, NodesThere
      <3> QED  BY <1>6, <3>2, <3>3
                  DEF Regular, NodesGoing, NodesOwned, UntrackedUnder, ConfiguredTracked,
                      TrackedConfigured
    <2> QED  BY <2>2, <2>3
  <1>9. q \notin loose' => Followed(q)'
    <2>1. SUFFICES ASSUME Followed(q), q \notin loose' PROVE Followed(q)'
      BY <1>6 DEF Inv, Wat
    <2>2. th'[Warmup] = th[Warmup]  BY <1>2, ThreadsFacts DEF Others
    <2>3. t = Controller => ~Detached(q)'  BY <1>4 DEF Detached, On
    <2>4. CASE t # Controller /\ repos[q] = None
      BY <1>2, <1>5, <1>6, <2>1, <2>4, WatFrame DEF Inv
    <2>5. CASE t = Controller /\ repos[q] = None
      BY <1>0, <1>1, <1>5, <1>6, <2>1, <2>2, <2>3, <2>5 DEF Followed, Started, Detached, On
    <2>6. CASE repos[q] # None
      <3>1. CASE ~listed  BY <1>4, <3>1, NotListed
      <3>2. CASE listed
        <4>1. t = Controller /\ th[t].kind = "untrack" /\ attached
          BY <1>2, <1>3, <2>1, <2>6, <3>2 DEF Loosen
        <4>2. th[Warmup].pc = "done"  BY <4>1 DEF Inv, Base, Making
        <4>3. Detached(q)  BY <1>0, <1>1, <4>1 DEF Detached, On
        <4> QED  BY <1>5, <1>6, <2>1, <2>2, <2>3, <4>1, <4>2, <4>3 DEF Followed, Started
      <3> QED  BY <3>1, <3>2
    <2> QED  BY <2>4, <2>5, <2>6
  <1> QED  BY <1>0, <1>1, <1>4, <1>5, <1>6, <1>7, <1>8, <1>9, WorkingStep

\* UntrackRepo evicts the nodes of r.
LEMMA EvictKeeps ==
    ASSUME Inv, NEW t \in Threads, Evict(t), th' \in [Threads -> Thread], Others(t)
    PROVE  Inv'
  <1>0. th[t].pc = "evict" /\ th[t].pc \in Working  BY DEF Evict, Working, States
  <1>1. PICK q \in Repos : q = th[t].repo  BY <1>0, InHandFacts
  <1>2. Role(t) /\ t # Warmup /\ th[t].kind \in {"untrack", "drop"}
    BY <1>0, InHandFacts DEF Role, Thread, Kinds
  <1>3. /\ nodes' = Evicted(q)
        /\ odd' = IF \/ "plain" \in nodes[q] \/ repos[q] # None \/ patch[q] # None
                     \/ \E u \in Threads : InFlight(u, q)
                  THEN odd \cup {q} ELSE odd
    BY <1>1 DEF Evict, Exempt
  <1>4. Gone(t, "remove")
    <2>1. "remove" \in States  BY DEF States
    <2> QED  BY <2>1, GoType DEF Evict, Inv, Base
  <1>5. Role(t)' /\ KeepsLoop(t) /\ th'[t].pc \notin {"start", "hand", "done"}
    BY <1>0, <1>1, <1>2, <1>4, KeepsLoopCases, InHandFacts, ThreadsFacts
       DEF Gone, Role, Working, States
  <1>6. UNCHANGED <<repos, lists, watch, listed, attached, loose, patch, left>>
    BY DEF Evict, watching
  <1>7. /\ nodes' \in [Repos -> SUBSET Schemes] /\ \A r \in Repos : r # q => nodes'[r] = nodes[r]
        /\ nodes'[q] = nodes[q] \ {"prefixed"}
        /\ odd \subseteq odd' /\ odd' \subseteq Repos
    BY <1>3 DEF Inv, Base, Types, Evicted
  <1>8. Types'  BY <1>6, <1>7 DEF Inv, Base, Types, lists
  <1>9. q \notin odd' => Regular(q)'
    <2>1. SUFFICES ASSUME repos[q] = None, "plain" \notin nodes[q],
                          \A u \in Threads : ~InFlight(u, q)
                   PROVE  Regular(q)'
      BY <1>3
    <2>2. nodes'[q] = {}
      <3>1. nodes[q] \subseteq Schemes  BY DEF Inv, Base, Types
      <3> QED  BY <1>7, <2>1, <3>1 DEF Schemes
    <2>3. /\ \A u \in Threads : /\ ~On(u, q, {"reindex", "replace", "register"})'
                                /\ ~Patching(u, q)'
          /\ ~Warming(q)'
      BY <1>2, <1>4, <2>1, ThreadsFacts, <1>6, SameLists DEF InFlight, On, Patching, Warming, Gone, Others
    <2>4. NodesThere(q)'
      BY <2>3 DEF NodesThere, Some, On
    <2>5. UntrackedUnder(q)'
      BY <2>3 DEF UntrackedUnder, On
    <2>6. ConfiguredTracked(q)'
      BY <1>1, <1>4 DEF ConfiguredTracked, Some, On, Gone
    <2> QED  BY <1>6, <2>1, <2>2, <2>4, <2>5, <2>6
                DEF Regular, NodesGoing, NodesOwned, TrackedConfigured
  <1>10. q \notin loose' => Followed(q)'
    <2>1. ~On(t, q, {"add", "attach", "delete"}) /\ (t = Controller => ~Detached(q)')
      BY <1>0, <1>4 DEF On, Detached, Gone
    <2> QED  BY <1>2, <1>6, <2>1, WatFrame DEF Inv, Wat
  <1> QED  BY <1>0, <1>1, <1>5, <1>6, <1>7, <1>8, <1>9, <1>10, WorkingStep

\* GlobalConfig.RemoveRepo: what is untracked is configured no more.
LEMMA RemoveKeeps ==
    ASSUME Inv, NEW t \in Threads, Remove(t), th' \in [Threads -> Thread], Others(t)
    PROVE  Inv'
  <1>0. th[t].pc = "remove" /\ th[t].pc \in Working  BY DEF Remove, Working, States
  <1>1. PICK q \in Repos : q = th[t].repo  BY <1>0, InHandFacts
  <1>2. t # Warmup  BY <1>0, InHandFacts DEF Role, Thread, Kinds
  <1>3. After(t)  BY DEF Remove
  <1>10. /\ Rewritten(q) /\ q \notin Configured'
         /\ \A u \in Threads : Rest(u)' \subseteq Rest(u)
    <2>1. CASE q \in Configured
      <3>1. InPlace(Without(q))  BY <1>1, <2>1 DEF Remove
      <3> QED  BY <2>1, <3>1, WithoutFacts DEF Inv, Base
    <2>2. CASE q \notin Configured
      <3>1. UNCHANGED lists  BY <1>1, <2>2 DEF Remove
      <3>2. config' = config /\ range' = range /\ live' = live  BY <3>1 DEF lists
      <3> QED  BY <2>2, <3>1, <3>2, SameLists DEF Rewritten, Inv, Base, Types
    <2> QED  BY <2>1, <2>2
  <1>11. /\ odd \subseteq odd' /\ odd' \subseteq Repos
         /\ repos[q] # None => q \in odd'
         /\ \A r \in Repos : r \notin odd' /\ (r # q \/ r \notin Configured') =>
               \A u \in Threads : Reach(u, r)
    <2>1. Edited(q, repos[q] # None) /\ odd \subseteq Repos
      BY <1>1 DEF Remove, Inv, Base, Types
    <2> QED  BY <1>10, <2>1, EditedReach
  <1>4. /\ Role(t)' /\ KeepsLoop(t) /\ Neutral(t, q)' /\ ~Patching(t, q)'
        /\ th'[t].pc \in {"next", "idle", "read"}
    BY <1>0, <1>3, AfterRole, KeepsLoopCases
  <1>5. UNCHANGED <<repos, nodes, watch, listed, attached, loose, patch, left>>
    BY DEF Remove, watching
  <1>7. Types'  BY <1>5, <1>10, <1>11 DEF Inv, Base, Types, Rewritten
  <1>8. q \notin odd' => Regular(q)'
    <2>1. SUFFICES ASSUME Regular(q), repos[q] = None, q \notin odd' PROVE Regular(q)'
      BY <1>11 DEF Inv, Reg
    <2>2. /\ Some(q, {"evict", "register"}) => Some(q, {"evict", "register"})'
          /\ Some(q, {"evict"}) => Some(q, {"evict"})'
          /\ Some(q, {"register"})' => Some(q, {"register"})
          /\ Some(q, {"reindex"}) => Some(q, {"reindex"})'
      BY <1>0, <1>2, <1>4, ThreadsFacts DEF Some, On, Others
    <2>5. /\ Warming(q)' => Warming(q)
          /\ nodes[q] # {} /\ Warming(q) => Warming(q)'
      <3>1. Reach(Warmup, q)  BY <1>10, <1>11, <2>1, ThreadsFacts
      <3> QED  BY <1>2, <2>1, <3>1, ThreadsFacts DEF On, Warming, Others, Reach
    <2>3. NodesGoing(q)' /\ NodesThere(q)'
      BY <1>5, <2>1, <2>2, <2>5 DEF Regular, NodesGoing, NodesThere
    <2>4. UntrackedUnder(q)'
      BY <1>4, <1>5, <2>1, <2>2 DEF Regular, UntrackedUnder, On, Patching, Neutral, Others
    <2> QED  BY <1>5, <1>10, <2>1, <2>3, <2>4
                DEF Regular, NodesOwned, ConfiguredTracked, TrackedConfigured
  <1>9. q \notin loose' => Followed(q)'
    <2>1. ~On(t, q, {"add", "attach", "delete"}) /\ (t = Controller => ~Detached(q)')
      BY <1>0, <1>4 DEF On, Detached
    <2> QED  BY <1>2, <1>5, <2>1, WatFrame DEF Inv, Wat
  <1>12. /\ Slices'
         /\ \A r \in Repos : r # q /\ r \notin odd' =>
               (r \in Configured' <=> r \in Configured) /\ \A u \in Threads : Reach(u, r)
    BY <1>10, <1>11 DEF Rewritten
  <1> QED  BY <1>0, <1>1, <1>4, <1>5, <1>7, <1>8, <1>9, <1>11, <1>12, WorkingStep

\* A configuration file gives a sequence of distinct repositories.
LEMMA ListType ==
    ASSUME NEW list \in Lists
    PROVE  list \in Seq(Repos) /\ Distinct(list) /\ DOMAIN list = 1..Len(list)
  <1>1. PICK n \in 0..Cardinality(Repos) : list \in [1..n -> Repos]  BY DEF Lists
  <1>2. n \in Nat  BY ReposAssumption, FS_CardinalityType
  <1> QED  BY <1>1, <1>2 DEF Lists

\* A reload owes the tracking of what it wants and the untracking of the rest.
LEMMA ReloadKeeps ==
    ASSUME Inv, NEW want \in Lists, Reload(want)
    PROVE  Inv'
  <1> DEFINE t == Controller
  <1>1. t \in Threads /\ th[t] = Idle /\ th[t].pc = "idle"
    BY ThreadsFacts DEF Inv, Base, Roles, Role, Reload
  <1>2. th'[t] = [pc |-> "next", kind |-> "reload", repo |-> None, as |-> None,
                  todo |-> {}, want |-> {}]
    BY <1>1 DEF Inv, Base, Types, Reload, Idle
  <1>3. th' \in [Threads -> Thread] /\ Others(t)
    <2>1. th'[t] \in Thread  BY <1>2 DEF Thread, States, Kinds
    <2>2. th' = [th EXCEPT ![t] = th'[t]]  BY <1>1 DEF Inv, Base, Types, Reload
    <2> QED  BY <1>1, <2>1, <2>2 DEF Inv, Base, Types, Others
  <1>8. want \in Seq(Repos) /\ Distinct(want) /\ DOMAIN want = 1..Len(want)  BY ListType
  <1>9. /\ config' = want /\ live' = {t}
        /\ range' \in [Threads -> [list : Seq(Repos), at : Nat \ {0}]]
        /\ range'[t] = [list |-> want, at |-> 1]
        /\ \A u \in Threads : u # t => range'[u] = range[u]
    BY <1>1, <1>8 DEF Reload, Inv, Base, Types
  <1>10. Slices'
    <2>1. Distinct(config)'  BY <1>8, <1>9 DEF Distinct
    <2> QED  BY <1>8, <1>9, <2>1 DEF Slices
  <1>11. /\ Configured' = {want[i] : i \in 1..Len(want)} /\ Rest(t)' = Configured'
         /\ \A u \in Threads : u # t => Rest(u)' = Rest(u)
    BY <1>8, <1>9 DEF Configured, Rest
  <1>4. /\ left' \in Nat
        /\ UNCHANGED <<repos, nodes, watch, listed, attached, loose, patch, odd>>
    BY DEF Inv, Base, Types, Reload, Counted, watching
  <1>5. Base'
    <2>1. Types'  BY <1>1, <1>3, <1>4, <1>8, <1>9 DEF Inv, Base, Types
    <2>2. Role(t)'  BY <1>2, ThreadsFacts DEF Role, Working, States
    <2>3. Roles'  BY <1>1, <1>3, <1>4, <2>2, RolesFrame DEF Inv
    <2>4. Making'  BY <1>1, <1>3, <1>4, ThreadsFacts, MakingFrame DEF Inv
    <2> QED  BY <2>1, <2>3, <2>4 DEF Base
  <1>6. ASSUME NEW r \in Repos, Regular(r) PROVE Regular(r)'
    <2>1. /\ Some(r, {"evict", "register"}) => Some(r, {"evict", "register"})'
          /\ Some(r, {"evict"}) => Some(r, {"evict"})'
          /\ Some(r, {"register"})' => Some(r, {"register"})
          /\ Some(r, {"reindex"}) => Some(r, {"reindex"})'
          /\ Warming(r)' <=> Warming(r)
      BY <1>1, <1>2, <1>3, <1>11, ThreadsFacts DEF Some, On, Warming, Others, Idle
    <2>2. NodesGoing(r)' /\ NodesThere(r)'
      BY <1>4, <1>6, <2>1 DEF Regular, NodesGoing, NodesThere
    <2>3. NodesOwned(r)'
      <3>1. \A u \in Threads : On(u, r, {"replace"}) => u # t  BY <1>1 DEF On
      <3> QED  BY <1>3, <1>4, <1>6, <2>1, <3>1 DEF Regular, NodesOwned, On, Others
    <2>4. UntrackedUnder(r)'
      BY <1>2, <1>3, <1>4, <1>6, <2>1 DEF Regular, UntrackedUnder, On, Patching, Others
    <2>5. ConfiguredTracked(r)'
      <3>1. r \in Configured' => Wanted(t, r)'  BY <1>2, <1>11 DEF Wanted
      <3> QED  BY <1>1, <1>4, <3>1 DEF ConfiguredTracked
    <2>6. TrackedConfigured(r)'
      <3>1. r \notin Configured' => Unwanted(t, r)'  BY <1>2, <1>11 DEF Unwanted
      <3> QED  BY <1>1, <1>4, <3>1 DEF TrackedConfigured
    <2> QED  BY <2>2, <2>3, <2>4, <2>5, <2>6 DEF Regular
  <1>7. ASSUME NEW r \in Repos, Followed(r) PROVE Followed(r)'
    <2>1. ~On(t, r, {"add", "attach", "delete"}) /\ ~Detached(r)'
      BY <1>1, <1>2 DEF On, Detached
    <2> QED  BY <1>1, <1>3, <1>4, <1>7, <2>1, ThreadsFacts, WatFrame DEF Inv
  <1> QED  BY <1>4, <1>5, <1>6, <1>7, <1>10 DEF Inv, Reg, Wat

\* The janitor reads the prefixes.
LEMMA JanitorTickKeeps ==
    ASSUME Inv, JanitorTick
    PROVE  Inv'
  <1> DEFINE t == Janitor
  <1>1. t \in Threads /\ th[t] = Idle /\ th[t].pc = "idle"
    BY ThreadsFacts DEF Inv, Base, Roles, Role, JanitorTick
  <1>2. th'[t] = [pc |-> "next", kind |-> "janitor", repo |-> None, as |-> None,
                  todo |-> Tracked, want |-> {}]
    BY <1>1 DEF Inv, Base, Types, JanitorTick, Idle
  <1>3. th' \in [Threads -> Thread] /\ Others(t)
    <2>1. th'[t] \in Thread  BY <1>2 DEF Thread, States, Kinds, Tracked
    <2>2. th' = [th EXCEPT ![t] = th'[t]]  BY <1>1 DEF Inv, Base, Types, JanitorTick
    <2> QED  BY <1>1, <2>1, <2>2 DEF Inv, Base, Types, Others
  <1>4. /\ left' \in Nat
        /\ UNCHANGED <<repos, nodes, lists, watch, listed, attached, loose, patch, odd>>
    BY DEF Inv, Base, Types, JanitorTick, Counted, watching
  <1>5. Base'
    <2>1. Types'  BY <1>3, <1>4 DEF Inv, Base, Types, lists
    <2>2. Role(t)'  BY <1>2, ThreadsFacts DEF Role, Working, States
    <2>3. Roles'  BY <1>1, <1>3, <1>4, <2>2, RolesFrame DEF Inv
    <2>4. Making'  BY <1>1, <1>3, <1>4, ThreadsFacts, MakingFrame DEF Inv
    <2> QED  BY <2>1, <2>3, <2>4 DEF Base
  <1>6. ASSUME NEW r \in Repos, Regular(r) PROVE Regular(r)'
    <2>1. Neutral(t, r) /\ Neutral(t, r)' /\ ~Patching(t, r)'
      BY <1>1, <1>2 DEF Neutral, Patching, On
    <2>2. Warming(r)' <=> Warming(r)
      BY <1>3, ThreadsFacts, <1>4, SameLists DEF Warming, On, Others
    <2>3. ~Wanted(t, r) /\ ~Unwanted(t, r)  BY <1>1, <1>4, SameLists DEF Wanted, Unwanted, Idle
    <2> QED  BY <1>1, <1>3, <1>4, <1>6, <2>1, <2>2, <2>3, RegFrame
  <1>7. ASSUME NEW r \in Repos, Followed(r) PROVE Followed(r)'
    BY <1>1, <1>3, <1>4, <1>7, ThreadsFacts, WatFrame DEF Inv
  <1> QED  BY <1>4, <1>5, <1>6, <1>7, SameLists DEF Inv, Reg, Wat

\* The warm-up starts the watchers, or hands them over.
LEMMA WatchersKeep ==
    ASSUME Inv, StartWatchers \/ AttachWatcher
    PROVE  Inv'
  <1> DEFINE t == Warmup
  <1>0. t \in Threads /\ th[t] \in Thread /\ Role(t)
    BY ThreadsFacts DEF Inv, Base, Types, Roles
  <1>1. /\ \/ th[t].pc = "start" /\ Gone(t, "hand") /\ attached' = attached
           \/ th[t].pc = "hand" /\ Gone(t, "done") /\ attached'
        /\ th' \in [Threads -> Thread] /\ Others(t)
    <2>1. "hand" \in States /\ "done" \in States  BY DEF States
    <2> QED  BY <1>0, <2>1, GoType DEF StartWatchers, AttachWatcher, Inv, Base
  <1>2. UNCHANGED <<repos, nodes, lists, listed, loose, patch, left, odd>>
    BY DEF StartWatchers, AttachWatcher
  <1>3. \A r \in Repos :
           watch'[r] = IF th[t].pc = "start" /\ watch[r].st = "created" /\ repos[r] # None
                       THEN [watch[r] EXCEPT !.st = "started"] ELSE watch[r]
    BY DEF StartWatchers, AttachWatcher
  <1>4. ASSUME NEW r \in Repos
        PROVE  /\ watch'[r] \in [st : {"none", "created", "failed", "started"}, as : Schemes \cup {None}]
               /\ watch'[r].as = watch[r].as
               /\ watch'[r].st = IF th[t].pc = "start" /\ watch[r].st = "created" /\ repos[r] # None
                                 THEN "started" ELSE watch[r].st
    <2>1. watch[r] \in [st : {"none", "created", "failed", "started"}, as : Schemes \cup {None}]
      BY DEF Inv, Base, Types
    <2> QED  BY <1>3, <2>1
  <1>5. Base'
    <2>1. Types'
      <3>1. watch' \in [Repos -> [st : {"none", "created", "failed", "started"}, as : Schemes \cup {None}]]
        <4>1. watch' = [r \in Repos |-> watch'[r]]
          BY DEF StartWatchers, AttachWatcher, Inv, Base, Types
        <4> QED  BY <1>4, <4>1
      <3>2. attached' \in BOOLEAN  BY DEF StartWatchers, AttachWatcher, Inv, Base, Types
      <3>3. UNCHANGED <<config, range, live>>  BY <1>2 DEF lists
      <3> QED  BY <1>1, <1>2, <3>1, <3>2, <3>3 DEF Inv, Base, Types
    <2>2. Role(t)'  BY <1>0, <1>1, ThreadsFacts DEF Role, Gone, Working, States
    <2>3. Roles'  BY <1>0, <1>1, <2>2, RolesFrame DEF Inv
    <2>4. Making'
      <3>1. listed /\ listed'  BY <1>1, <1>2 DEF Inv, Base, Making
      <3>2. attached' <=> th'[t].pc = "done"
        BY <1>1 DEF Inv, Base, Making, Gone
      <3>3. \A r \in Repos : watch'[r].st # "none" => watch'[r].as # None
        BY <1>4 DEF Inv, Base, Making
      <3> QED  BY <1>1, <3>1, <3>2, <3>3 DEF Making, Gone
    <2> QED  BY <2>1, <2>3, <2>4 DEF Base
  <1>6. ASSUME NEW r \in Repos, Regular(r) PROVE Regular(r)'
    <2>1. Neutral(t, r) /\ Neutral(t, r)' /\ ~Patching(t, r)'
      BY <1>1 DEF Neutral, Patching, On, Gone
    <2>4. Rest(t)' = Rest(t)  BY <1>0, <1>2, SameLists
    <2>2. Warming(r)' <=> Warming(r)
      BY <1>1, <2>4 DEF Warming, On, Gone
    <2>3. (Wanted(t, r) => Wanted(t, r)') /\ (Unwanted(t, r) => Unwanted(t, r)')
      BY <1>1, <2>4 DEF Wanted, Unwanted, On, Gone
    <2> QED  BY <1>0, <1>1, <1>2, <1>6, <2>1, <2>2, <2>3, RegFrame
  <1>7. ASSUME NEW r \in Repos, Followed(r) PROVE Followed(r)'
    <2>1. CASE th[t].pc = "start"
      <3>1. th'[t].pc = "hand"  BY <1>1, <2>1 DEF Gone
      <3>2. watch'[r].st = IF repos[r] = None THEN "none" ELSE "started"
        BY <1>4, <1>7, <2>1 DEF Followed
      <3> QED  BY <1>2, <3>1, <3>2 DEF Followed, Started
    <2>2. CASE th[t].pc = "hand"
      <3>1. th'[t].pc = "done"  BY <1>1, <2>2 DEF Gone
      <3>2. th'[Controller] = th[Controller] /\ th[Controller].pc = "idle"
        BY <1>1, <2>2, ThreadsFacts DEF Others, StartWatchers, AttachWatcher
      <3>3. ~Detached(r)'  BY <3>2 DEF Detached, On
      <3>4. watch'[r].st = watch[r].st  BY <1>4, <2>2
      <3> QED  BY <1>2, <1>7, <2>2, <3>1, <3>3, <3>4 DEF Followed, Started
    <2> QED  BY <1>1, <2>1, <2>2
  <1> QED  BY <1>2, <1>5, <1>6, <1>7, SameLists DEF Inv, Reg, Wat

\* A watcher that is not made or not started is not in step.
LEMMA WatcherFailsKeeps ==
    ASSUME Inv, NEW q \in Repos, WatcherFails(q)
    PROVE  Inv'
  <1>1. UNCHANGED <<repos, nodes, lists, listed, attached, patch, th, odd>> /\ left' \in Nat
    BY DEF WatcherFails, Counted, Inv, Base, Types
  <1>2. /\ loose' = loose \cup {q}
        /\ watch' = [watch EXCEPT ![q] = Unwatched] \/ watch' = [watch EXCEPT ![q].st = "failed"]
    BY DEF WatcherFails
  <1>3. watch \in [Repos -> [st : {"none", "created", "failed", "started"}, as : Schemes \cup {None}]]
    BY DEF Inv, Base, Types
  <1>4. /\ watch' \in [Repos -> [st : {"none", "created", "failed", "started"}, as : Schemes \cup {None}]]
        /\ \A r \in Repos : r # q => watch'[r] = watch[r]
    BY <1>2, <1>3 DEF Unwatched
  <1>5. watch'[q].st = "none" \/ watch'[q].as = watch[q].as  BY <1>2, <1>3 DEF Unwatched
  <1>6. Making'
    <2>1. th[Warmup].pc = "start" /\ watch[q].st # "none"  BY DEF WatcherFails
    <2>2. listed /\ watch[q].as # None  BY <2>1 DEF Inv, Base, Making
    <2>3. \A r \in Repos : watch'[r].st # "none" => watch'[r].as # None
      BY <1>4, <1>5, <2>2 DEF Inv, Base, Making
    <2> QED  BY <1>1, <2>2, <2>3 DEF Inv, Base, Making
  <1>7. Types' /\ Roles'
    BY <1>1, <1>2, <1>4 DEF Inv, Base, Types, lists, Roles, Role
  <1>8. ASSUME NEW r \in Repos, r \notin odd' PROVE Regular(r)'
    <2>1. Regular(r)  BY <1>1, <1>8 DEF Inv, Reg
    <2> QED  BY <1>1, <2>1, SameRegular
  <1>9. ASSUME NEW r \in Repos, r \notin loose' PROVE Followed(r)'
    <2>1. r # q /\ Followed(r)  BY <1>2, <1>9 DEF Inv, Wat
    <2> QED  BY <1>1, <1>4, <2>1 DEF Followed, Started, Detached, On
  <1> QED  BY <1>1, <1>6, <1>7, <1>8, <1>9, SameLists DEF Inv, Base, Reg, Wat

\* A watcher applies an event of its repository.
LEMMA EventsKeep ==
    ASSUME Inv, NEW q \in Repos, FileEvent(q) \/ ApplyEvent(q)
    PROVE  Inv'
  <1>1. UNCHANGED <<repos, lists, watch, listed, attached, loose, th>> /\ left' \in Nat
    BY DEF FileEvent, ApplyEvent, watching, Counted, Inv, Base, Types
  <1>2. \/ nodes' = nodes /\ odd' = odd
        \/ /\ patch[q] \in Schemes
           /\ nodes' = [nodes EXCEPT ![q] = @ \cup {patch[q]}]
           /\ odd' = IF nodes[q] \ {patch[q]} # {} \/ repos[q] = None THEN odd \cup {q} ELSE odd
    BY DEF FileEvent, ApplyEvent, Exempt, Inv, Base, Types
  <1>3. patch' \in [Repos -> Schemes \cup {None}]
    BY DEF FileEvent, ApplyEvent, Inv, Base, Types
  <1>4. /\ nodes' \in [Repos -> SUBSET Schemes] /\ odd \subseteq odd' /\ odd' \subseteq Repos
        /\ \A r \in Repos : r # q => nodes'[r] = nodes[r]
    BY <1>2 DEF Inv, Base, Types
  <1>5. Base'
    <2>1. UNCHANGED <<config, range, live>>  BY <1>1 DEF lists
    <2>2. Types'  BY <1>1, <1>3, <1>4, <2>1 DEF Inv, Base, Types
    <2>3. Roles' /\ Making'  BY <1>1 DEF Inv, Base, Roles, Role, Making
    <2> QED  BY <2>2, <2>3 DEF Base
  <1>6. ASSUME NEW r \in Repos, r \notin odd' PROVE Regular(r)'
    <2>1. Regular(r)  BY <1>4, <1>6 DEF Inv, Reg
    <2>3. CASE nodes'[r] = nodes[r]
      BY <1>1, <2>1, <2>3, SameRegular
    <2>4. CASE nodes'[r] # nodes[r]
      <3>1. r = q /\ nodes[r] = {} /\ nodes'[r] # {} /\ repos[r] # None
        <4>1. r = q  BY <1>4, <2>4
        <4>2. nodes'[r] = nodes[r] \cup {patch[r]}  BY <1>2, <2>4, <4>1 DEF Inv, Base, Types
        <4>3. nodes[r] \ {patch[r]} = {} /\ repos[r] # None  BY <1>2, <1>6, <2>4, <4>1
        <4> QED  BY <2>4, <4>1, <4>2, <4>3
      <3>2. Some(r, {"reindex"})  BY <2>1, <3>1 DEF Regular, NodesOwned
      <3>3. /\ \A S : Some(r, S)' <=> Some(r, S)
            /\ \A u \in Threads :
               /\ Wanted(u, r)' <=> Wanted(u, r)
               /\ Unwanted(u, r)' <=> Unwanted(u, r)
        BY <1>1, SameWork
      <3>4. repos' = repos /\ Configured' = Configured  BY <1>1, SameLists
      <3>5. NodesGoing(r)' /\ NodesOwned(r)' /\ NodesThere(r)'
        BY <3>1, <3>2, <3>3, <3>4 DEF NodesGoing, NodesOwned, NodesThere
      <3>6. UntrackedUnder(r)' /\ ConfiguredTracked(r)' /\ TrackedConfigured(r)'
        BY <2>1, <3>1, <3>3, <3>4
           DEF Regular, UntrackedUnder, ConfiguredTracked, TrackedConfigured
      <3> QED  BY <3>5, <3>6 DEF Regular
    <2> QED  BY <2>3, <2>4
  <1>7. Wat'
    BY <1>1 DEF Inv, Wat, Followed, Started, Detached, On
  <1> QED  BY <1>1, <1>5, <1>6, <1>7, SameLists DEF Inv, Reg

-------------------------------------------------------------------------------
(* The theorems                                                              *)

\* The warm-up owes the tracking of what is configured.
LEMMA InitInv == Init => Inv
  <1> SUFFICES ASSUME Init PROVE Inv  OBVIOUS
  <1>1. PICK start \in Starts : config = start.config /\ nodes = start.nodes /\ left = start.bound
    BY DEF Init
  <1>2. /\ config \in Lists /\ left \in Nat
        /\ nodes \in [Repos -> {{}, {"plain"}, {"prefixed"}}]
    BY <1>1, StartsAssumption
  <1>3. /\ \A t \in Threads : t # Warmup => th[t] = Idle
        /\ th[Warmup] = [pc |-> "next", kind |-> "warm", repo |-> None, as |-> None,
                         todo |-> {}, want |-> {r \in Repos : nodes[r] # {}}]
    BY ThreadsFacts DEF Init, Idle
  <1>10. config \in Seq(Repos) /\ Distinct(config) /\ DOMAIN config = 1..Len(config)
    BY <1>2, ListType
  <1>11. /\ live = {Warmup}
         /\ \A t \in Threads : range[t] = IF t = Warmup THEN [list |-> config, at |-> 1] ELSE Nothing
         /\ range \in [Threads -> [list : Seq(Repos), at : Nat \ {0}]]
    <2>1. [list |-> config, at |-> 1] \in [list : Seq(Repos), at : Nat \ {0}]
          /\ Nothing \in [list : Seq(Repos), at : Nat \ {0}]
      BY <1>10 DEF Nothing
    <2> QED  BY <2>1 DEF Init
  <1>14. range[Warmup].list = config /\ range[Warmup].at = 1  BY <1>11, ThreadsFacts
  <1>12. Slices  BY <1>10, <1>11, <1>14 DEF Slices
  <1>13. Rest(Warmup) = Configured
    <2>1. Rest(Warmup) = {config[i] : i \in 1..Len(config)}  BY <1>14 DEF Rest
    <2>2. Configured = {config[i] : i \in 1..Len(config)}  BY <1>10 DEF Configured
    <2> QED  BY <2>1, <2>2
  <1>4. th \in [Threads -> Thread]
    <2>1. th[Warmup] \in Thread  BY <1>2, <1>3 DEF Thread, States, Kinds
    <2>2. th = [t \in Threads |-> th[t]]  BY DEF Init
    <2> QED  BY <1>3, <2>1, <2>2, IdleType
  <1>5. Types
    <2>1. nodes \in [Repos -> SUBSET Schemes]  BY <1>2 DEF Schemes
    <2> QED  BY <1>2, <1>4, <1>10, <1>11, <2>1, ThreadsFacts DEF Init, Types, Unwatched
  <1>6. Roles
    <2>1. ASSUME NEW t \in Threads PROVE Role(t)
      <3>1. CASE t = Warmup  BY <1>3, <3>1, ThreadsFacts DEF Role, Working, States
      <3>2. CASE t # Warmup
        <4>1. th[t] = Idle  BY <1>3, <3>2
        <4> QED  BY <3>2, <4>1 DEF Role, Idle, Working, States
      <3> QED  BY <3>1, <3>2
    <2> QED  BY <2>1 DEF Roles
  <1>7. Making
    <2>1. th[Warmup].pc = "next" /\ ~listed /\ ~attached
      <3>1. ~listed /\ ~attached  BY Zenon DEF Init
      <3> QED  BY <1>3, <3>1
    <2>2. \A r \in Repos : watch[r] = Unwatched  BY DEF Init
    <2> QED  BY <2>1, <2>2 DEF Making, Unwatched
  <1>8. ASSUME NEW r \in Repos, r \notin odd PROVE Regular(r)
    <2>1. repos[r] = None /\ (r \in Configured \/ nodes[r] = {})  BY <1>8 DEF Init
    <2>2. ~Some(r, {"register"})
      BY <1>3, ThreadsFacts DEF Some, On, Idle
    <2>3. UntrackedUnder(r)
      BY <1>3, ThreadsFacts DEF UntrackedUnder, Patching, On, Idle
    <2>4. NodesGoing(r) /\ NodesThere(r)
      BY <1>3, <1>13, <2>1, <2>2 DEF NodesGoing, NodesThere, Warming, On
    <2>5. r \in Configured => Wanted(Warmup, r)  BY <1>3, <1>13 DEF Wanted
    <2> QED  BY <2>1, <2>3, <2>4, <2>5, ThreadsFacts
                DEF Regular, NodesOwned, ConfiguredTracked, TrackedConfigured
  <1>9. Wat
    <2>1. th[Warmup].pc = "next"  BY <1>3
    <2> QED  BY <2>1 DEF Wat, Followed
  <1> QED  BY <1>5, <1>6, <1>7, <1>8, <1>9, <1>12 DEF Inv, Base, Reg

\* Every step of the daemon keeps the invariant.
LEMMA NextInv == Inv /\ [Next]_vars => Inv'
  <1> SUFFICES ASSUME Inv, [Next]_vars PROVE Inv'  OBVIOUS
  <1>1. CASE UNCHANGED vars
    <2>1. /\ UNCHANGED <<repos, nodes, watch, listed, attached, patch, th, left, odd, loose>>
          /\ UNCHANGED <<config, range, live>>
      BY <1>1 DEF vars
    <2>2. UNCHANGED lists  BY <2>1 DEF lists
    <2>3. Base'  BY <2>1 DEF Inv, Base, Types, Roles, Role, Making
    <2>4. ASSUME NEW r \in Repos, Regular(r) PROVE Regular(r)'
      BY <2>1, <2>2, <2>4, SameRegular
    <2>5. Reg'  BY <2>1, <2>4 DEF Inv, Reg
    <2>6. Wat'  BY <2>1 DEF Inv, Wat, Followed, Started, Detached, On
    <2> QED  BY <2>2, <2>3, <2>5, <2>6, SameLists DEF Inv
  <1>2. CASE \E t \in Threads : ThreadStep(t)
    <2>1. PICK t \in Threads : ThreadStep(t)  BY <1>2
    <2>2. th' \in [Threads -> Thread] /\ Others(t)  BY <2>1, ThreadTypes DEF Inv
    <2>3. CASE \E r \in Repos : Track(t, r) \/ Untrack(t, r) \/ Reindex(t, r)
      <3>1. PICK r \in Repos : Track(t, r) \/ Untrack(t, r) \/ Reindex(t, r)  BY <2>3
      <3> QED  BY <2>2, <3>1, CallKeeps, ThreadsFacts DEF Track, Untrack, Reindex
    <2>4. CASE \E r \in Repos : LoopNext(t, r)  BY <2>2, <2>4, LoopNextKeeps
    <2>20. CASE RangeNext(t)  BY <2>2, <2>20, RangeNextKeeps
    <2>5. CASE LoopEnd(t)  BY <2>2, <2>5, LoopEndKeeps
    <2>6. CASE Check(t)  BY <2>2, <2>6, CheckKeeps
    <2>7. CASE Index(t)  BY <2>2, <2>7, IndexKeeps
    <2>8. CASE IndexFails(t)  BY <2>2, <2>8, IndexFailsKeeps
    <2>9. CASE Register(t)  BY <2>2, <2>9, RegisterKeeps
    <2>10. CASE AddRepo(t)  BY <2>2, <2>10, AddRepoKeeps
    <2>11. CASE Read(t)  BY <2>2, <2>11, ReadKeeps
    <2>12. CASE WriteReindex(t)  BY <2>2, <2>12, WriteReindexKeeps
    <2>13. CASE Replace(t)  BY <2>2, <2>13, ReplaceKeeps
    <2>14. CASE Detach(t)  BY <2>2, <2>14, DetachKeeps
    <2>15. CASE Delete(t)  BY <2>2, <2>15, DeleteKeeps
    <2>16. CASE Evict(t)  BY <2>2, <2>16, EvictKeeps
    <2>17. CASE Remove(t)  BY <2>2, <2>17, RemoveKeeps
    <2>18. CASE Attach(t) \/ AttachFails(t)  BY <2>2, <2>18, AttachKeeps
    <2>19. CASE Scan(t)  BY <2>2, <2>19, ScanKeeps
    <2> QED
      BY <2>1, <2>3, <2>4, <2>5, <2>6, <2>7, <2>8, <2>9, <2>10, <2>11, <2>12, <2>13, <2>14,
         <2>15, <2>16, <2>17, <2>18, <2>19, <2>20 DEF ThreadStep
  <1>3. CASE \E want \in Lists : Reload(want)  BY <1>3, ReloadKeeps
  <1>4. CASE JanitorTick \/ StartWatchers \/ AttachWatcher
    BY <1>4, JanitorTickKeeps, WatchersKeep
  <1>5. CASE \E r \in Repos : FileEvent(r) \/ ApplyEvent(r) \/ WatcherFails(r)
    BY <1>5, EventsKeep, WatcherFailsKeeps
  <1> QED  BY <1>1, <1>2, <1>3, <1>4, <1>5 DEF Next, ThreadStep

\* The inductive invariant of MultiRepo.
LEMMA Inductive == Spec => []Inv
  BY InitInv, NextInv, PTL DEF Spec

\* The variables keep their types; a repository is configured once, and the loops
\* over its array see the configuration; only the controller handles watchers, and no
\* watcher is there before the warm-up has made them.
THEOREM TypeCorrect == Spec => []TypeOK
  <1>1. Inv => TypeOK
    <2> SUFFICES ASSUME Inv PROVE TypeOK  OBVIOUS
    <2>1. \A t \in Threads : th[t].pc \in {"detach", "attach"} => t = Controller
      BY DEF Inv, Base, Roles, Role
    <2>2. \A r \in Repos : /\ watch[r].as \in Schemes \cup {None}
                           /\ watch[r].st # "none" => listed /\ watch[r].as # None
      BY DEF Inv, Base, Types, Making, Unwatched
    <2>4. config \in Seq(Repos) /\ DOMAIN config = 1..Len(config)  BY DEF Inv, Base, Types
    <2>5. /\ Distinct(config)
          /\ \A t \in live : /\ t \in {Warmup, Controller}
                             /\ Len(config) <= Len(range[t].list)
                             /\ \A i \in DOMAIN config : range[t].list[i] = config[i]
      BY <2>4 DEF Inv, Slices
    <2>3. attached => listed  BY DEF Inv, Base, Making
    <2> QED  BY <2>1, <2>2, <2>3, <2>4, <2>5 DEF TypeOK, Inv, Base, Types
  <1> QED  BY <1>1, Inductive, PTL

\* When nothing is under way on a repository, the registry, the configuration
\* and the graph agree about it, for any number of repositories and MCP clients
\* (TrackRepoCtx, ReconcileRepoCtx, IndexRepo, UntrackRepo, Reload, ReconcileAll).
THEOREM RegistryRight == Spec => []RegistryMatchesGraph
  <1>1. Inv => RegistryMatchesGraph
    <2> SUFFICES ASSUME Inv, NEW r \in Repos, r \notin odd, AtRest(r)
                 PROVE  /\ nodes[r] = (IF repos[r] = None THEN {} ELSE {repos[r]})
                        /\ r \in Configured <=> r \in Tracked
      BY DEF RegistryMatchesGraph
    <2>1. Regular(r)  BY DEF Inv, Reg
    <2>2. \A S : ~Some(r, S)  BY DEF AtRest, Some, On
    <2>3. ~Warming(r)  BY ThreadsFacts DEF AtRest, Warming, On
    <2>4. \A t \in Threads : ~Wanted(t, r) /\ ~Unwanted(t, r) /\ ~On(t, r, {"replace"})
      BY DEF AtRest, Wanted, Unwanted, On
    <2>5. nodes[r] = (IF repos[r] = None THEN {} ELSE {repos[r]})
      BY <2>1, <2>2, <2>3, <2>4 DEF Regular, NodesGoing, NodesOwned
    <2>6. r \in Configured <=> repos[r] # None
      BY <2>1, <2>2, <2>4 DEF Regular, ConfiguredTracked, TrackedConfigured
    <2> QED  BY <2>5, <2>6 DEF Tracked
  <1> QED  BY <1>1, Inductive, PTL

\* Once the controller has the MultiWatcher, a repository at rest is watched if
\* and only if it is tracked, unless something else than the controller changed
\* the registry (AttachWatcher, AddRepo and RemoveRepo of the MultiWatcher).
THEOREM WatchersRight == Spec => []TrackedIsWatched
  <1>1. Inv => TrackedIsWatched
    <2> SUFFICES ASSUME Inv, NEW r \in Repos, attached, AtRest(r), r \notin loose
                 PROVE  watch[r].st = "started" <=> r \in Tracked
      BY DEF TrackedIsWatched
    <2>1. Followed(r) /\ th[Warmup].pc = "done"  BY DEF Inv, Wat, Base, Making
    <2>2. th[Controller].repo # r  BY ThreadsFacts DEF AtRest
    <2> QED  BY <2>1, <2>2 DEF Followed, Started, Detached, On, Tracked
  <1> QED  BY <1>1, Inductive, PTL
===============================================================================
