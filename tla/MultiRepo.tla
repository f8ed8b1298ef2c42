------------------------------ MODULE MultiRepo ------------------------------
(***************************************************************************)
(* The repositories of one daemon: MultiIndexer's registry, the nodes each *)
(* repository has in the graph, the global configuration and the           *)
(* MultiWatcher (internal/indexer/multi.go, multi_watcher.go, the daemon's *)
(* controller and warm-up, the track, untrack and index tools of MCP).     *)
(*                                                                         *)
(* Track, untrack and reload calls of the controller exclude each other by *)
(* its mutex; the warm-up, the janitor and the MCP tools run beside them.  *)
(* A repository indexed while it is the only one gets plain node IDs, any  *)
(* other gets IDs with its prefix, and EvictRepo finds only the latter.    *)
(*                                                                         *)
(* The warm-up and Reload range over the slice GlobalConfig.Repos itself,  *)
(* while AddRepo and RemoveRepo of others rewrite its array under them.    *)
(***************************************************************************)
EXTENDS Integers, Sequences, FiniteSets

CONSTANTS
    Repos,
    Clients,                        \* MCP sessions
    Controller, Warmup, Janitor,    \* the daemon's own threads
    None,                           \* no repository, no indexer
    Starts       \* a start's configuration and snapshot, and its bound: the
                 \* calls, janitor ticks, file events and failures that follow

Threads == Clients \cup {Controller, Warmup, Janitor}

ASSUME ThreadsAssumption ==
    /\ Controller # Warmup /\ Controller # Janitor /\ Warmup # Janitor
    /\ Clients \cap {Controller, Warmup, Janitor} = {}
ASSUME ReposAssumption == IsFiniteSet(Repos)

\* A configuration file lists a repository once.
Distinct(list) == \A i, j \in DOMAIN list : list[i] = list[j] => i = j

Lists == {list \in UNION {[1..n -> Repos] : n \in 0..Cardinality(Repos)} : Distinct(list)}

ASSUME StartsAssumption ==
    Starts \subseteq [config : Lists,
                      nodes : [Repos -> {{}, {"plain"}, {"prefixed"}}],
                      bound : Nat]
ASSUME NoneAssumption == None \notin Repos \cup {"plain", "prefixed"}

Schemes == {"plain", "prefixed"}

VARIABLES
    repos,    \* repos[r]: the scheme of r's registered indexer, None if untracked
    nodes,    \* nodes[r]: the schemes of the nodes that r has in the graph
    config,   \* GlobalConfig.Repos, in memory
    range,    \* range[t]: the slice that a loop ranges over, and its position
    live,     \* the loops whose slice lies in the array of config
    watch,    \* watch[r]: the MultiWatcher's entry, with its indexer's scheme
    listed,   \* NewMultiWatcher has made its watchers
    attached, \* the controller has the MultiWatcher
    patch,    \* patch[r]: the indexer of a file event that is being applied
    th,       \* th[t]: what a thread is doing
    left,     \* of the bound
    odd,      \* history: repositories exempt from RegistryMatchesGraph
    loose     \* history: repositories whose watcher nobody has kept in step

vars == <<repos, nodes, config, range, live, watch, listed, attached, patch, th, left, odd, loose>>
watching == <<watch, listed, attached, loose>>
lists == <<config, range, live>>

Idle == [pc |-> "idle", kind |-> "none", repo |-> None, as |-> None,
         todo |-> {}, want |-> {}]
Unwatched == [st |-> "none", as |-> None]
Nothing == [list |-> <<>>, at |-> 1]
Tracked == {r \in Repos : repos[r] # None}
Configured == {config[i] : i \in DOMAIN config}

\* What t's loop has still to visit, of what its slice holds now.
Rest(t) == {range[t].list[i] : i \in range[t].at .. Len(range[t].list)}

\* buildDaemonState: the configuration and the snapshot's nodes, which may be
\* of repositories that are no longer configured.
Init ==
    /\ repos = [r \in Repos |-> None]
    /\ \E start \in Starts :
          config = start.config /\ nodes = start.nodes /\ left = start.bound
    /\ watch = [r \in Repos |-> Unwatched]
    /\ listed = FALSE /\ attached = FALSE
    /\ patch = [r \in Repos |-> None]
    /\ th = [t \in Threads |->
                IF t = Warmup THEN [Idle EXCEPT !.pc = "next", !.kind = "warm",
                                                !.want = {r \in Repos : nodes[r] # {}}]
                ELSE Idle]
    /\ range = [t \in Threads |-> IF t = Warmup THEN [list |-> config, at |-> 1] ELSE Nothing]
    /\ live = {Warmup}
    /\ odd = {r \in Repos \ Configured : nodes[r] # {}}
    /\ loose = {}

Exempt(r, cond) == odd' = IF cond THEN odd \cup {r} ELSE odd

\* t is indexing r, or has looked r up and will.
InFlight(t, r) ==
    \/ th[t].repo = r /\ th[t].pc \in {"index", "register", "reindex", "replace"}
    \/ t = Warmup /\ r \in Rest(t)
    \/ t = Warmup /\ th[t].repo = r /\ th[t].pc = "check"

-------------------------------------------------------------------------------
(* The calls                                                                 *)

Go(t, pc) == th' = [th EXCEPT ![t].pc = pc]

Counted == left > 0 /\ left' = left - 1

Call(t, kind, r, pc) ==
    /\ th[t].pc = "idle" /\ Counted
    /\ th' = [th EXCEPT ![t] = [Idle EXCEPT !.pc = pc, !.kind = kind, !.repo = r]]

\* realController.Track; handleTrackRepository.
Track(t, r) ==
    /\ t \in Clients \cup {Controller}
    /\ Call(t, "track", r, "check")
    /\ UNCHANGED <<repos, nodes, lists, watching, patch, odd>>

\* realController.Untrack, which takes the path of an untracked repository out
\* of the configuration; handleUntrackRepository, for a tracked one.
Untrack(t, r) ==
    /\ \/ t = Controller /\ Call(t, "untrack", r, "detach")
       \/ t = Controller /\ r \notin Tracked /\ Call(t, "untrack", r, "remove")
       \/ t \in Clients /\ r \in Tracked /\ Call(t, "untrack", r, "delete")
    /\ UNCHANGED <<repos, nodes, lists, watching, patch, odd>>

\* The index_repository tool; a configured repository is tracked first.
Reindex(t, r) ==
    /\ t \in Clients
    /\ \/ r \in Tracked /\ Call(t, "index", r, "read")
       \/ r \in Configured \ Tracked /\ Call(t, "index", r, "check")
    /\ UNCHANGED <<repos, nodes, lists, watching, patch, odd>>

\* realController.Reload: somebody has edited the configuration file.
Reload(want) ==
    /\ th[Controller].pc = "idle" /\ Counted
    /\ config' = want /\ live' = {Controller}
    /\ range' = [range EXCEPT ![Controller] = [list |-> want, at |-> 1]]
    /\ th' = [th EXCEPT ![Controller] = [Idle EXCEPT !.pc = "next", !.kind = "reload"]]
    /\ UNCHANGED <<repos, nodes, watching, patch, odd>>

\* ReconcileAll; the prefixes are read once.
JanitorTick ==
    /\ th[Janitor].pc = "idle" /\ Counted
    /\ th' = [th EXCEPT ![Janitor] =
                 [Idle EXCEPT !.pc = "next", !.kind = "janitor", !.todo = Tracked]]
    /\ UNCHANGED <<repos, nodes, lists, watching, patch, odd>>

\* Where a loop goes on to its next repository and a single call returns.
Leave(t) ==
    th' = [th EXCEPT ![t] =
              IF @.kind \in {"warm", "reload", "drop", "janitor"}
              THEN [@ EXCEPT !.pc = "next", !.repo = None, !.as = None] ELSE Idle]

\* An index_repository call that had to track goes on to IndexRepo.
After(t) ==
    IF th[t].kind = "index" /\ repos[th[t].repo] # None
    THEN Go(t, "read") ELSE Leave(t)

\* The next entry of the slice, whatever stands there now; Reload notes its
\* prefix as wanted.
RangeNext(t) ==
    LET r == range[t].list[range[t].at] IN
    /\ th[t].pc = "next" /\ th[t].kind \in {"warm", "reload"}
    /\ range[t].at <= Len(range[t].list)
    /\ range' = [range EXCEPT ![t].at = @ + 1]
    /\ th' = [th EXCEPT ![t].pc = "check", ![t].repo = r,
                        ![t].want = IF th[t].kind = "reload" THEN @ \cup {r} ELSE @]
    /\ UNCHANGED <<repos, nodes, config, live, watching, patch, left, odd>>

\* The next prefix of a loop over those that were tracked when it began.
LoopNext(t, r) ==
    /\ th[t].pc = "next" /\ r \in th[t].todo
    /\ th' = [th EXCEPT ![t].pc = IF th[t].kind = "drop" THEN "delete" ELSE "scan",
                        ![t].repo = r, ![t].todo = @ \ {r}]
    /\ UNCHANGED <<repos, nodes, lists, watching, patch, left, odd>>

\* After the last one: Reload untracks what is not wanted, the warm-up makes
\* the watchers of all tracked repositories, and the janitor is done.
LoopEnd(t) ==
    /\ th[t].pc = "next" /\ th[t].todo = {} /\ range[t].at > Len(range[t].list)
    /\ range' = [range EXCEPT ![t] = Nothing] /\ live' = live \ {t}
    /\ th' = [th EXCEPT ![t] =
                 CASE @.kind = "reload" -> [@ EXCEPT !.kind = "drop", !.todo = Tracked \ th[t].want]
                   [] @.kind = "warm" -> [@ EXCEPT !.pc = "start"]
                   [] OTHER -> Idle]
    /\ listed' = (listed \/ th[t].kind = "warm")
    /\ watch' = IF th[t].kind = "warm"
                THEN [r \in Repos |-> IF repos[r] = None THEN Unwatched
                                      ELSE [st |-> "created", as |-> repos[r]]]
                ELSE watch
    /\ UNCHANGED <<repos, nodes, config, attached, loose, patch, left, odd>>

-------------------------------------------------------------------------------
(* TrackRepoCtx and ReconcileRepoCtx                                         *)

\* willBeMultiRepo.
Multi == (Cardinality(Tracked) + 1 >= 2) \/ (Len(config) >= 2)

Check(t) ==
    LET r == th[t].repo IN
    /\ th[t].pc = "check"
    /\ IF repos[r] # None THEN After(t)
       ELSE th' = [th EXCEPT ![t].pc = "index",
                             ![t].as = IF Multi THEN "prefixed" ELSE "plain"]
    /\ UNCHANGED <<repos, nodes, lists, watching, patch, left, odd>>

\* With nodes of the snapshot only the changed files are indexed.
Partial(t) ==
    \/ th[t].kind = "janitor"
    \/ th[t].kind = "warm" /\ th[t].repo \in th[t].want

\* IndexCtx or IncrementalReindex writes the nodes.
Index(t) ==
    LET r == th[t].repo IN
    /\ th[t].pc = "index"
    /\ nodes' \in {[nodes EXCEPT ![r] = @ \cup {th[t].as}]}
                  \cup (IF Partial(t) THEN {nodes} ELSE {})
    /\ Exempt(r, nodes[r] \ {th[t].as} # {})
    /\ IF th[t].kind = "janitor" THEN After(t) ELSE Go(t, "register")
    /\ UNCHANGED <<repos, lists, watching, patch, left>>

\* The path is gone or the walk fails, before the first node is written.
IndexFails(t) ==
    /\ th[t].pc \in {"check", "index", "reindex"} /\ Counted
    /\ Leave(t)
    /\ Exempt(th[t].repo,
              th[t].repo \in Configured \/ nodes[th[t].repo] # {} \/ th[t].pc = "reindex")
    /\ UNCHANGED <<repos, nodes, lists, watching, patch>>

\* Whoever changes the registry without the MultiWatcher.
Loosen(t, r) ==
    loose' = IF listed /\ ~(t = Controller /\ th[t].kind \in {"track", "untrack"} /\ attached)
             THEN loose \cup {r} ELSE loose

Register(t) ==
    LET r == th[t].repo IN
    /\ th[t].pc = "register"
    /\ repos' = [repos EXCEPT ![r] = th[t].as]
    /\ Exempt(r, nodes[r] \ {th[t].as} # {})
    /\ Loosen(t, r)
    /\ Go(t, "add")
    /\ UNCHANGED <<nodes, lists, watch, listed, attached, patch, left>>

-------------------------------------------------------------------------------
(* GlobalConfig.Repos                                                        *)

\* What a slice of the array shows once the entries new have been written.
Overwritten(list, new) == [i \in 1..Len(list) |-> IF i <= Len(new) THEN new[i] ELSE list[i]]

\* The configuration becomes new in its array, where the slices of the loops lie.
InPlace(new) ==
    /\ config' = new
    /\ range' = [t \in Threads |->
                    IF t \in live THEN [list |-> Overwritten(range[t].list, new), at |-> range[t].at]
                    ELSE range[t]]
    /\ live' = live

\* Entries that the rewriting took from a loop before it came to them, of
\* repositories that are configured or have nodes and wait to be tracked.
Unreached == {r \in Repos : /\ repos[r] = None
                            /\ r \in Configured' \/ nodes[r] # {}
                            /\ \E t \in Threads : r \in Rest(t) /\ r \notin Rest(t)'}

Edited(r, cond) == odd' = odd \cup Unreached \cup (IF cond THEN {r} ELSE {})

\* append, in the array that the decoder made as long as the list it read:
\* behind the last entry where RemoveRepo has left room, or in a new array.
Appended(r) ==
    IF r \in Configured THEN UNCHANGED lists
    ELSE IF \A t \in live : Len(config) < Len(range[t].list)
    THEN InPlace(Append(config, r))
    ELSE config' = Append(config, r) /\ live' = {} /\ UNCHANGED range

\* append(Repos[:i], Repos[i+1:]...), which moves the later entries up.
Without(r) ==
    LET i == CHOOSE k \in DOMAIN config : config[k] = r
    IN  [j \in 1 .. Len(config) - 1 |-> config[IF j < i THEN j ELSE j + 1]]

\* Mutant of AddRepo: the MCP tool attaches a watcher too.
AddRepoAny(t) ==
    LET r == th[t].repo IN
    /\ th[t].pc = "add"
    /\ Appended(r) /\ Edited(r, repos[r] = None)
    /\ IF th[t].kind = "track" /\ attached THEN Go(t, "attach") ELSE After(t)
    /\ UNCHANGED <<repos, nodes, watching, patch, left>>

\* GlobalConfig.AddRepo; the controller then attaches a watcher, if it can.
AddRepo(t) ==
    LET r == th[t].repo IN
    /\ th[t].pc = "add"
    /\ Appended(r) /\ Edited(r, repos[r] = None)
    /\ IF t = Controller /\ th[t].kind = "track" /\ attached
       THEN Go(t, "attach") ELSE After(t)
    /\ UNCHANGED <<repos, nodes, watching, patch, left>>

-------------------------------------------------------------------------------
(* IndexRepo                                                                 *)

\* Mutant of Evicted: the repository is looked up by its path.
EvictedNone(r) == nodes

\* EvictRepo, of the nodes that have the prefix.
Evicted(r) == [nodes EXCEPT ![r] = @ \ {"prefixed"}]

\* IsMultiRepo, by which the old nodes are evicted.
Read(t) ==
    LET r == th[t].repo IN
    /\ th[t].pc = "read"
    /\ IF repos[r] = None
       THEN /\ th' = [th EXCEPT ![t] = Idle]
            /\ UNCHANGED nodes
       ELSE /\ Go(t, "reindex")
            /\ nodes' = IF Cardinality(Tracked) > 1 THEN Evicted(r) ELSE nodes
    /\ UNCHANGED <<repos, lists, watching, patch, left, odd>>

\* IsMultiRepo once more, for the prefix; then the index is written.
WriteReindex(t) ==
    LET r == th[t].repo
        s == IF Cardinality(Tracked) > 1 THEN "prefixed" ELSE "plain"
    IN  /\ th[t].pc = "reindex"
        /\ nodes' = [nodes EXCEPT ![r] = @ \cup {s}]
        /\ Exempt(r, nodes[r] \ {s} # {})
        /\ th' = [th EXCEPT ![t].pc = "replace", ![t].as = s]
        /\ UNCHANGED <<repos, lists, watching, patch, left>>

\* Registered again, tracked or not, and over the nodes of another IndexRepo.
Replace(t) ==
    LET r == th[t].repo IN
    /\ th[t].pc = "replace"
    /\ repos' = [repos EXCEPT ![r] = th[t].as]
    /\ Exempt(r, repos[r] = None \/ nodes[r] \ {th[t].as} # {})
    /\ loose' = IF repos[r] = None THEN loose \cup {r} ELSE loose
    /\ th' = [th EXCEPT ![t] = Idle]
    /\ UNCHANGED <<nodes, lists, watch, listed, attached, patch, left>>

-------------------------------------------------------------------------------
(* UntrackRepo                                                               *)

\* Mutant of Detach: the watcher is left.
DetachNot(t) ==
    /\ th[t].pc = "detach"
    /\ Go(t, "delete")
    /\ UNCHANGED <<repos, nodes, lists, watching, patch, left, odd>>

\* MultiWatcher.RemoveRepo; an event that is being applied is not awaited.
Detach(t) ==
    /\ th[t].pc = "detach"
    /\ watch' = IF attached THEN [watch EXCEPT ![th[t].repo] = Unwatched] ELSE watch
    /\ Go(t, "delete")
    /\ UNCHANGED <<repos, nodes, lists, listed, attached, loose, patch, left, odd>>

Delete(t) ==
    LET r == th[t].repo IN
    /\ th[t].pc = "delete"
    /\ repos' = [repos EXCEPT ![r] = None]
    /\ IF repos[r] = None
       THEN /\ After(t)
            /\ UNCHANGED loose
       ELSE /\ Loosen(t, r)
            /\ Go(t, "evict")
    /\ UNCHANGED <<nodes, lists, watch, listed, attached, patch, left, odd>>

\* EvictRepo does not see plain nodes, nor what is still being indexed.
Evict(t) ==
    LET r == th[t].repo IN
    /\ th[t].pc = "evict"
    /\ nodes' = Evicted(r)
    /\ Exempt(r, \/ "plain" \in nodes[r]
                 \/ repos[r] # None \/ patch[r] # None
                 \/ \E u \in Threads : InFlight(u, r))
    /\ Go(t, "remove")
    /\ UNCHANGED <<repos, lists, watching, patch, left>>

\* GlobalConfig.RemoveRepo.
Remove(t) ==
    LET r == th[t].repo IN
    /\ th[t].pc = "remove"
    /\ IF r \in Configured THEN InPlace(Without(r)) ELSE UNCHANGED lists
    /\ Edited(r, repos[r] # None)
    /\ After(t)
    /\ UNCHANGED <<repos, nodes, watching, patch, left>>

-------------------------------------------------------------------------------
(* The MultiWatcher, the events it applies, and the janitor                  *)

\* MultiWatcher.Start, for the repositories that are still tracked.
StartWatchers ==
    /\ th[Warmup].pc = "start"
    /\ watch' = [r \in Repos |-> IF watch[r].st = "created" /\ repos[r] # None
                                 THEN [watch[r] EXCEPT !.st = "started"] ELSE watch[r]]
    /\ Go(Warmup, "hand")
    /\ UNCHANGED <<repos, nodes, lists, listed, attached, loose, patch, left, odd>>

\* The root is gone: createWatcher makes none, or Start leaves it unstarted.
WatcherFails(r) ==
    /\ th[Warmup].pc = "start" /\ watch[r].st = "created" /\ Counted
    /\ watch' \in {[watch EXCEPT ![r] = Unwatched], [watch EXCEPT ![r].st = "failed"]}
    /\ loose' = loose \cup {r}
    /\ UNCHANGED <<repos, nodes, lists, listed, attached, patch, th, odd>>

\* AttachWatcher takes the controller's mutex.
AttachWatcher ==
    /\ th[Warmup].pc = "hand" /\ th[Controller].pc = "idle"
    /\ attached' = TRUE
    /\ Go(Warmup, "done")
    /\ UNCHANGED <<repos, nodes, lists, watch, listed, loose, patch, left, odd>>

\* MultiWatcher.AddRepo: an entry that is there is an error.
Attach(t) ==
    LET r == th[t].repo IN
    /\ th[t].pc = "attach"
    /\ watch' = IF watch[r].st # "none" \/ repos[r] = None THEN watch
                ELSE [watch EXCEPT ![r] = [st |-> "started", as |-> repos[r]]]
    /\ th' = [th EXCEPT ![t] = Idle]
    /\ UNCHANGED <<repos, nodes, lists, listed, attached, loose, patch, left, odd>>

\* The watcher cannot be made or started.
AttachFails(t) ==
    /\ th[t].pc = "attach" /\ Counted
    /\ loose' = loose \cup {th[t].repo}
    /\ th' = [th EXCEPT ![t] = Idle]
    /\ UNCHANGED <<repos, nodes, lists, watch, listed, attached, patch, odd>>

FileEvent(r) ==
    /\ watch[r].st = "started" /\ patch[r] = None /\ Counted
    /\ patch' = [patch EXCEPT ![r] = watch[r].as]
    /\ UNCHANGED <<repos, nodes, lists, watching, th, odd>>

ApplyEvent(r) ==
    /\ patch[r] # None
    /\ nodes' = [nodes EXCEPT ![r] = @ \cup {patch[r]}]
    /\ Exempt(r, nodes[r] \ {patch[r]} # {} \/ repos[r] = None)
    /\ patch' = [patch EXCEPT ![r] = None]
    /\ UNCHANGED <<repos, lists, watching, th, left>>

\* ReconcileAll looks each prefix up again.
Scan(t) ==
    LET r == th[t].repo IN
    /\ th[t].pc = "scan"
    /\ IF repos[r] = None THEN After(t)
       ELSE th' = [th EXCEPT ![t].pc = "index", ![t].as = repos[r]]
    /\ UNCHANGED <<repos, nodes, lists, watching, patch, left, odd>>

-------------------------------------------------------------------------------
Next ==
    \/ \E t \in Threads :
          \/ \E r \in Repos : Track(t, r) \/ Untrack(t, r) \/ Reindex(t, r) \/ LoopNext(t, r)
          \/ RangeNext(t) \/ LoopEnd(t) \/ Check(t) \/ Index(t) \/ IndexFails(t) \/ Register(t) \/ AddRepo(t)
          \/ Read(t) \/ WriteReindex(t) \/ Replace(t)
          \/ Detach(t) \/ Delete(t) \/ Evict(t) \/ Remove(t)
          \/ Attach(t) \/ AttachFails(t) \/ Scan(t)
    \/ \E want \in Lists : Reload(want)
    \/ JanitorTick \/ StartWatchers \/ AttachWatcher
    \/ \E r \in Repos : FileEvent(r) \/ ApplyEvent(r) \/ WatcherFails(r)

Spec == Init /\ [][Next]_vars

-------------------------------------------------------------------------------
\* The variables have the types the code gives them; a repository is configured
\* once, the loops over the configuration's array see it as far as it reaches,
\* only the controller handles watchers, and no watcher is there before the
\* warm-up has made them.
TypeOK ==
    /\ repos \in [Repos -> Schemes \cup {None}]
    /\ nodes \in [Repos -> SUBSET Schemes]
    /\ config \in Seq(Repos) /\ Distinct(config)
    /\ \A t \in live : /\ t \in {Warmup, Controller}
                       /\ Len(config) <= Len(range[t].list)
                       /\ \A i \in DOMAIN config : range[t].list[i] = config[i]
    /\ patch \in [Repos -> Schemes \cup {None}]
    /\ \A t \in Threads : th[t].pc \in {"detach", "attach"} => t = Controller
    /\ \A r \in Repos : /\ watch[r].as \in Schemes \cup {None}
                        /\ watch[r].st # "none" => listed /\ watch[r].as # None
    /\ attached => listed

\* Nothing is under way on r.
AtRest(r) ==
    /\ patch[r] = None
    /\ \A t \in Threads : /\ th[t].repo # r
                          /\ r \notin th[t].todo \cup Rest(t)
                          /\ th[t].kind \notin {"reload", "drop"}

\* When nothing is under way on a repository, it is tracked if and only if it
\* is configured, and then its nodes in the graph are those of its registered
\* indexer, none otherwise.  Exempt are a repository that the snapshot had and
\* the configuration had not, one whose indexing failed, one whose nodes got
\* plain IDs before the daemon had a second repository, one that two IndexRepo
\* calls wrote under different IDs, one that was evicted while it was being
\* indexed or registered, one whose watcher outlived it, and one whose entry
\* an AddRepo or RemoveRepo moved out of the way of the loop that was to track it
\* (TrackRepoCtx, ReconcileRepoCtx, IndexRepo, ReconcileAll, UntrackRepo).
RegistryMatchesGraph ==
    \A r \in Repos : r \notin odd /\ AtRest(r) =>
        /\ nodes[r] = (IF repos[r] = None THEN {} ELSE {repos[r]})
        /\ r \in Configured <=> r \in Tracked

\* Once the controller has the MultiWatcher, a repository at rest is watched
\* if and only if it is tracked.  Exempt are the ones that an MCP tool, a
\* reload, or a call between the making and the handing over of the watchers
\* has tracked or untracked, and failed starts (realController.Track,
\* realController.Untrack, MultiWatcher.AddRepo, MultiWatcher.RemoveRepo).
TrackedIsWatched ==
    \A r \in Repos : attached /\ AtRest(r) /\ r \notin loose =>
        (watch[r].st = "started" <=> r \in Tracked)
===============================================================================
