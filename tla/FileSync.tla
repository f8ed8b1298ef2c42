-------------------------------- MODULE FileSync --------------------------------
(***************************************************************************)
(* One repository's files, its Watcher (internal/indexer/watcher.go), the  *)
(* janitor's IncrementalReindex, and the part of the graph that belongs to *)
(* each file (Indexer.indexFile, Indexer.EvictFile).                       *)
(*                                                                         *)
(* fsnotify events go through the per-path debounce timers or, above the   *)
(* storm threshold, through the storm batch.  Timer callbacks, drains and  *)
(* the janitor are goroutines; no lock keeps two of them off one path.     *)
(*                                                                         *)
(* A file's content is a version number, which is also its mtime, 0 when   *)
(* the file is absent.  graph[f] is the set of versions whose nodes are in *)
(* the graph; more than one when a patch adds to what another one added.   *)
(***************************************************************************)
EXTENDS Integers, Sequences

CONSTANTS
    Files,
    StormThreshold, \* config.StormThreshold; 0 switches storm mode off
    Budgets,        \* bounds, of which a behaviour takes one: edits of the file
                    \* system, of them lost by fsnotify, ticks of the janitor,
                    \* failing reads and extractions of files on disk
    MaxEdits, MaxLost, MaxScans, MaxFaults     \* the largest of these bounds

ASSUME StormAssumption == StormThreshold \in Nat
ASSUME MaxAssumption ==
    MaxEdits \in Nat /\ MaxLost \in Nat /\ MaxScans \in Nat /\ MaxFaults \in Nat
ASSUME BudgetsAssumption ==
    Budgets \subseteq [edits : 0 .. MaxEdits, lost : 0 .. MaxLost, scans : 0 .. MaxScans,
                       faults : 0 .. MaxFaults]

Versions == 1 .. MaxEdits + 1

\* What a goroutine has to do for a path: patchGraph on created and modified,
\* patchGraph on deleted and renamed, the janitor on a file that its walk has not
\* come to, that its walk did not find, and that is gone.
Jobs == {"none", "index", "evict", "walk", "absent", "purge"}

\* Timers and goroutines, in the order in which they came into being; an event
\* makes one at most, and so does a scan.
Workers == 1 .. MaxEdits + MaxScans

NoFile == "nofile"
ASSUME NoFileAssumption == NoFile \notin Files

VARIABLES
    budget,   \* the bounds of this behaviour
    disk,     \* disk[f]: the version on disk
    edits,    \* changes of the file system so far
    queue,    \* fsw.Events
    deciding, \* the loop is between shouldEnterStorm and recordInStorm
    pending,  \* pending[f]: the debounce timer of path f, 0 if none
    storm,    \* stormActive, stormBatch, the armed stormTimer, eventTimes
    work,     \* the timers and goroutines
    graph,    \* graph[f]: the versions of f with nodes in the graph
    mtimes,   \* fileMtimes[f], 0 if there is no entry
    lost,     \* changes that raised no event
    scans,    \* ticks of the janitor so far
    faults,   \* failed reads and extractions so far
    heal,     \* history: of the last tick, if nothing else was going on
    raced,    \* history: files that two goroutines had in hand at once, or
              \* whose timer was forgotten while armed
    torn,     \* history: files changed between ReadFile and Stat of a patch,
              \* evicted on a deletion that is out of date, or evicted by a patch
              \* that failed when their mtime was on record already
    failed    \* history: files whose latest patch failed

vars == <<budget, disk, edits, queue, deciding, pending, storm, work, graph, mtimes,
          lost, scans, faults, heal, raced, torn, failed>>

NoJobs == [f \in Files |-> "none"]

\* role: unused; armed, a timer; patch, drain or janitor, a goroutine; done.
Worker == [role : {"unused", "armed", "patch", "drain", "janitor", "done"},
           todo : [Files -> Jobs], path : Files \cup {NoFile},
           file : Files \cup {NoFile}, pc : {"idle", "read", "add", "stat", "forget"},
           ver : Versions \cup {0}]

Unused == [role |-> "unused", todo |-> NoJobs, path |-> NoFile,
           file |-> NoFile, pc |-> "idle", ver |-> 0]

NoStorm == [active |-> FALSE, batch |-> NoJobs, timer |-> FALSE, recent |-> 0]

\* After a full index: the graph holds what is on disk.
Init ==
    /\ budget \in Budgets
    /\ disk \in [Files -> {0, 1}]
    /\ edits = 0
    /\ queue = <<>>
    /\ deciding = FALSE
    /\ pending = [f \in Files |-> 0]
    /\ storm = NoStorm
    /\ work = [w \in Workers |-> Unused]
    /\ graph = [f \in Files |-> {disk[f]} \ {0}]
    /\ mtimes = disk
    /\ lost = 0
    /\ scans = 0
    /\ faults = 0
    /\ heal = "none"
    /\ raced = {}
    /\ torn = {}
    /\ failed = {}

-------------------------------------------------------------------------------
(* The environment: changes of the file system, and fsnotify.              *)

\* A create, write, remove or rename; the event says what is left.
Change(f, v) ==
    /\ edits < budget.edits
    /\ edits' = edits + 1
    /\ disk' = [disk EXCEPT ![f] = v]
    /\ torn' = IF \E w \in Workers : work[w].file = f /\ work[w].pc \in {"add", "stat"}
               THEN torn \cup {f} ELSE torn
    /\ \/ /\ queue' = Append(queue, [file |-> f,
                                     job |-> IF v = 0 THEN "evict" ELSE "index"])
          /\ UNCHANGED lost
       \/ /\ lost < budget.lost
          /\ lost' = lost + 1
          /\ UNCHANGED queue
    /\ heal' = "none"
    /\ UNCHANGED <<budget, deciding, pending, storm, work, graph, mtimes, scans, faults, raced,
                   failed>>

Edit(f) == Change(f, edits + 2)
Delete(f) == disk[f] # 0 /\ Change(f, 0)

-------------------------------------------------------------------------------
(* The watcher's loop goroutine: handleEvent.                              *)

NextWorker == CHOOSE w \in Workers :
                 work[w].role = "unused" /\ \A v \in 1 .. w - 1 : work[v].role # "unused"

\* timer.Stop() on the timer of path f: too late once it has fired.
StopTimer(ws, f) ==
    IF pending[f] # 0 /\ ws[pending[f]].role = "armed"
    THEN [ws EXCEPT ![pending[f]].role = "done"]
    ELSE ws

\* shouldEnterStorm: kept of the recorded times are still in the window.
OverThreshold(kept) ==
    /\ StormThreshold > 0
    /\ storm.active \/ kept + 1 > StormThreshold

\* Mutant of Recorded: events are recorded in the middle of a storm as well.
RecordedAlways(kept) == [storm EXCEPT !.recent = kept + 1]

Recorded(kept) ==
    IF StormThreshold > 0 /\ ~storm.active
    THEN [storm EXCEPT !.recent = kept + 1] ELSE storm

\* Below the threshold: reset or start the timer of the path.
Debounce(kept) ==
    LET e == Head(queue)
        timer == [Unused EXCEPT !.role = "armed", !.path = e.file,
                                !.todo[e.file] = e.job]
    IN  /\ queue # <<>> /\ ~deciding
        /\ ~OverThreshold(kept)
        /\ storm' = Recorded(kept)
        /\ work' = [StopTimer(work, e.file) EXCEPT ![NextWorker] = timer]
        /\ pending' = [pending EXCEPT ![e.file] = NextWorker]
        /\ queue' = Tail(queue)
        /\ UNCHANGED <<budget, disk, edits, deciding, graph, mtimes, lost,
                       scans, faults, heal, raced, torn, failed>>

\* shouldEnterStorm says yes, and releases stormMu.
EnterStorm(kept) ==
    /\ queue # <<>> /\ ~deciding
    /\ OverThreshold(kept)
    /\ storm' = Recorded(kept)
    /\ deciding' = TRUE
    /\ UNCHANGED <<budget, disk, edits, queue, pending, work, graph, mtimes, lost,
                   scans, faults, heal, raced, torn, failed>>

\* Mutant of Batched: the first event of a path wins.
BatchedKeepsFirst(e) ==
    [storm EXCEPT !.active = TRUE, !.timer = TRUE,
                  !.batch[e.file] = IF @ = "none" THEN e.job ELSE @]

\* The last event of a path wins; the quiet period starts again.
Batched(e) ==
    [storm EXCEPT !.active = TRUE, !.batch[e.file] = e.job, !.timer = TRUE]

\* recordInStorm: the batch takes over from the timer of the path.
RecordInStorm ==
    /\ deciding
    /\ storm' = Batched(Head(queue))
    /\ work' = StopTimer(work, Head(queue).file)
    /\ pending' = [pending EXCEPT ![Head(queue).file] = 0]
    /\ deciding' = FALSE
    /\ queue' = Tail(queue)
    /\ UNCHANGED <<budget, disk, edits, graph, mtimes, lost,
                   scans, faults, heal, raced, torn, failed>>

-------------------------------------------------------------------------------
(* Goroutines.                                                             *)

Running(w) == work[w].role \in {"patch", "drain", "janitor"}

\* A goroutine has a file in hand from its start until it is done with the file,
\* the janitor from the moment when its walk found the file stale or missing.
Has(jobs, f) == jobs[f] \notin {"none", "walk"}

\* The files that another goroutine than w has in hand.
InHand(w) == {f \in Files : \E v \in Workers \ {w} : Running(v) /\ Has(work[v].todo, f)}

\* raced after goroutine w takes these jobs.
RacedWith(w, jobs) == raced \cup {f \in InHand(w) : Has(jobs, f)}

\* A debounce timer fires.  Timers of one duration fire in the order in which
\* they were armed; what the goroutines do after that is up to the scheduler.
Fire(w) ==
    /\ work[w].role = "armed"
    /\ \A v \in 1 .. w - 1 : work[v].role # "armed"
    /\ work' = [work EXCEPT ![w].role = "patch"]
    /\ raced' = RacedWith(w, work[w].todo)
    /\ UNCHANGED <<budget, disk, edits, queue, deciding, pending, storm, graph, mtimes, lost, scans,
                   faults, heal, torn, failed>>

\* Mutant of DrainStorm: the timer is a ticker, which nobody stops.
DrainStormTicks ==
    /\ storm.timer
    /\ storm' = [NoStorm EXCEPT !.timer = TRUE]
    /\ IF storm.batch = NoJobs THEN UNCHANGED <<work, raced>>
       ELSE /\ work' = [work EXCEPT ![NextWorker] =
                            [Unused EXCEPT !.role = "drain", !.todo = storm.batch]]
            /\ raced' = RacedWith(NextWorker, storm.batch)
    /\ UNCHANGED <<budget, disk, edits, queue, deciding, pending, graph, mtimes, lost, scans,
                   faults, heal, torn, failed>>

\* drainStorm up to the loop; with an empty batch it returns.
DrainStorm ==
    /\ storm.timer
    /\ storm' = NoStorm
    /\ IF storm.batch = NoJobs THEN UNCHANGED <<work, raced>>
       ELSE /\ work' = [work EXCEPT ![NextWorker] =
                            [Unused EXCEPT !.role = "drain", !.todo = storm.batch]]
            /\ raced' = RacedWith(NextWorker, storm.batch)
    /\ UNCHANGED <<budget, disk, edits, queue, deciding, pending, graph, mtimes, lost, scans,
                   faults, heal, torn, failed>>

\* Mutant of Stale: a file without a recorded mtime counts as fresh.
StaleIfNewer(f) == disk[f] > mtimes[f] /\ mtimes[f] # 0

\* IsStale: no entry, or an entry that differs from the file's mtime.
Stale(f) == mtimes[f] # disk[f]

\* Nothing is under way between the file system and the graph.
Quiescent ==
    /\ queue = <<>> /\ storm.batch = NoJobs /\ ~storm.timer
    /\ \A w \in Workers : work[w].role \in {"unused", "done"}

\* A tick of the janitor: IncrementalReindex begins to walk the tree.
JanitorTick ==
    /\ scans < budget.scans
    /\ \A w \in Workers : work[w].role # "janitor"
    /\ scans' = scans + 1
    /\ heal' = IF Quiescent THEN "running" ELSE "none"
    /\ work' = [work EXCEPT ![NextWorker] =
                    [Unused EXCEPT !.role = "janitor", !.todo = [f \in Files |-> "walk"]]]
    /\ UNCHANGED <<budget, disk, edits, queue, deciding, pending, storm, graph,
                   mtimes, lost, faults, raced, torn, failed>>

\* The walk comes to where f is, or was: diskFiles, IsStale, staleFiles.
WalkFile(w, f) ==
    LET todo == [work[w].todo EXCEPT ![f] = IF disk[f] = 0 THEN "absent"
                                            ELSE IF Stale(f) THEN "index" ELSE "none"]
    IN  /\ work[w].todo[f] = "walk"
        /\ work' = [work EXCEPT ![w].todo = todo]
        /\ raced' = raced \cup {g \in InHand(w) \cap {f} : Has(todo, g)}
        /\ UNCHANGED <<budget, disk, edits, queue, deciding, pending, storm, graph,
                       mtimes, lost, scans, faults, heal, torn, failed>>

\* After the walk, the files with an mtime that it did not find are deletedFiles.
ScanDeleted(w) ==
    /\ \E f \in Files : work[w].todo[f] = "absent"
    /\ \A f \in Files : work[w].todo[f] # "walk"
    /\ work' = [work EXCEPT ![w].todo =
                    [f \in Files |-> IF @[f] # "absent" THEN @[f]
                                     ELSE IF mtimes[f] # 0 THEN "purge" ELSE "none"]]
    /\ UNCHANGED <<budget, disk, edits, queue, deciding, pending, storm, graph,
                   mtimes, lost, scans, faults, heal, raced, torn, failed>>

\* Goroutine w goes on to its next file after this one.
JobDone(w, f) ==
    [work EXCEPT ![w] = [@ EXCEPT !.todo[f] = "none", !.file = NoFile,
                                  !.pc = "idle", !.ver = 0]]

\* graph.EvictFile: the whole of a delete, the first step of indexFile and of
\* the janitor's purge.  A batch is a map, in no order; the janitor walks, scans
\* and purges first.  patchGraph evicts a modified file once more before indexFile
\* does.
EvictFile(w, f) ==
    /\ Running(w) /\ work[w].file = NoFile
    /\ work[w].todo[f] \in {"index", "evict", "purge"}
    /\ work[w].todo[f] = "index" =>
          \A g \in Files : work[w].todo[g] \notin {"walk", "absent", "purge"}
    /\ graph' = [graph EXCEPT ![f] = {}]
    /\ work' = CASE work[w].todo[f] = "evict" -> JobDone(w, f)
                 [] work[w].todo[f] = "index" -> [work EXCEPT ![w].file = f, ![w].pc = "read"]
                 [] work[w].todo[f] = "purge" -> [work EXCEPT ![w].file = f, ![w].pc = "forget"]
    /\ torn' = IF work[w].todo[f] = "evict" /\ disk[f] # 0 THEN torn \cup {f} ELSE torn
    /\ failed' = failed \ {f}
    /\ UNCHANGED <<budget, disk, edits, queue, deciding, pending, storm, mtimes, lost,
                   scans, faults, heal, raced>>

\* delete(idx.fileMtimes, relPath)
ForgetMtime(w) ==
    /\ work[w].pc = "forget"
    /\ mtimes' = [mtimes EXCEPT ![work[w].file] = 0]
    /\ work' = JobDone(w, work[w].file)
    /\ UNCHANGED <<budget, disk, edits, queue, deciding, pending, storm, graph, lost,
                   scans, faults, heal, raced, torn, failed>>

\* os.ReadFile.
ReadFile(w) ==
    /\ work[w].pc = "read"
    /\ disk[work[w].file] # 0
    /\ work' = [work EXCEPT ![w].ver = disk[work[w].file], ![w].pc = "add"]
    /\ UNCHANGED <<budget, disk, edits, queue, deciding, pending, storm, graph, mtimes,
                   lost, scans, faults, heal, raced, torn, failed>>

\* The file is gone: indexFile returns, the file evicted and its mtime kept.
ReadGone(w) ==
    /\ work[w].pc = "read"
    /\ disk[work[w].file] = 0
    /\ work' = JobDone(w, work[w].file)
    /\ UNCHANGED <<budget, disk, edits, queue, deciding, pending, storm, graph, mtimes,
                   lost, scans, faults, heal, raced, torn, failed>>

\* os.ReadFile or Extract fails on a file that is there: the same.
PatchFails(w) ==
    LET f == work[w].file
    IN  /\ work[w].pc \in {"read", "add"}
        /\ disk[f] # 0
        /\ faults < budget.faults
        /\ faults' = faults + 1
        /\ work' = JobDone(w, f)
        /\ failed' = failed \cup {f}
        /\ torn' = IF mtimes[f] = disk[f] THEN torn \cup {f} ELSE torn
        /\ heal' = "none"
        /\ UNCHANGED <<budget, disk, edits, queue, deciding, pending, storm, graph, mtimes,
                       lost, scans, raced>>

\* Extract, AddNode, AddEdge.
AddNodes(w) ==
    /\ work[w].pc = "add"
    /\ graph' = [graph EXCEPT ![work[w].file] = @ \cup {work[w].ver}]
    /\ work' = [work EXCEPT ![w].pc = "stat"]
    /\ UNCHANGED <<budget, disk, edits, queue, deciding, pending, storm, mtimes, lost,
                   scans, faults, heal, raced, torn, failed>>

\* os.Stat, and the mtime it returns is recorded; no entry on an error.
StatFile(w) ==
    /\ work[w].pc = "stat"
    /\ LET f == work[w].file
       IN  /\ mtimes' = IF disk[f] = 0 THEN mtimes ELSE [mtimes EXCEPT ![f] = disk[f]]
           /\ work' = JobDone(w, f)
    /\ UNCHANGED <<budget, disk, edits, queue, deciding, pending, storm, graph, lost,
                   scans, faults, heal, raced, torn, failed>>

\* The goroutine ends.  A timer callback deletes the pending entry of its
\* path, even one that belongs to a newer timer by now.
Finish(w) ==
    /\ Running(w) /\ work[w].todo = NoJobs
    /\ work' = [work EXCEPT ![w] = [Unused EXCEPT !.role = "done"]]
    /\ pending' = IF work[w].role = "patch"
                  THEN [pending EXCEPT ![work[w].path] = 0] ELSE pending
    /\ raced' = IF work[w].role = "patch" /\ pending[work[w].path] \notin {0, w}
                THEN raced \cup {work[w].path} ELSE raced
    /\ heal' = IF work[w].role = "janitor" /\ heal = "running" THEN "done" ELSE heal
    /\ UNCHANGED <<budget, disk, edits, queue, deciding, storm, graph, mtimes, lost,
                   scans, faults, torn, failed>>

Step(w) ==
    \/ \E f \in Files : WalkFile(w, f) \/ EvictFile(w, f)
    \/ ScanDeleted(w)
    \/ ForgetMtime(w)
    \/ ReadFile(w)
    \/ ReadGone(w)
    \/ PatchFails(w)
    \/ AddNodes(w)
    \/ StatFile(w)
    \/ Finish(w)

HandleEvent ==
    \/ \E kept \in 0 .. storm.recent : Debounce(kept) \/ EnterStorm(kept)
    \/ RecordInStorm

Next ==
    \/ \E f \in Files : Edit(f) \/ Delete(f)
    \/ HandleEvent
    \/ \E w \in Workers : Fire(w) \/ Step(w)
    \/ DrainStorm
    \/ JanitorTick

Spec == Init /\ [][Next]_vars

\* The loop goroutine, the timers and the goroutines they start all run on;
\* the file system and the janitor's clock owe nothing.
FairSpec ==
    /\ Spec
    /\ WF_vars(HandleEvent)
    /\ WF_vars(DrainStorm)
    /\ \A w \in Workers : WF_vars(Fire(w)) /\ WF_vars(Step(w))

-------------------------------------------------------------------------------
\* The variables have the types the code gives them; the recorded event times
\* stay within the threshold (shouldEnterStorm prunes and stops recording).
TypeOK ==
    /\ budget \in Budgets
    /\ disk \in [Files -> Versions \cup {0}]
    /\ edits \in 0 .. MaxEdits
    /\ \A i \in 1 .. Len(queue) : queue[i] \in [file : Files, job : {"index", "evict"}]
    /\ deciding \in BOOLEAN
    /\ pending \in [Files -> Workers \cup {0}]
    /\ storm.batch \in [Files -> {"none", "index", "evict"}]
    /\ storm.recent \in 0 .. StormThreshold + 1
    /\ work \in [Workers -> Worker]
    /\ graph \in [Files -> SUBSET Versions]
    /\ mtimes \in [Files -> Versions \cup {0}]
    /\ lost \in 0 .. MaxLost /\ scans \in 0 .. MaxScans /\ faults \in 0 .. MaxFaults
    /\ raced \subseteq Files /\ torn \subseteq Files /\ failed \subseteq Files

\* The graph holds the nodes of the version of f on disk, and no others.
InSync(f) == graph[f] = {disk[f]} \ {0}

\* When every event has been worked off, the graph agrees with the disk about
\* each file that never was in the hands of two goroutines at once and whose
\* latest patch did not fail: neither the debounce, nor the storm batch, nor a
\* cancelled timer loses the last word.
SyncedUnlessRaced ==
    Quiescent /\ lost = 0 => \A f \in Files \ (raced \cup failed) : InSync(f)

\* An undisturbed tick of the janitor repairs what lost events and failed patches
\* left wrong, for each file that was neither raced for nor left with the mtime of
\* a version that the graph does not hold (changed between the read and the stat
\* of a patch, evicted while on disk, or evicted by a failed patch when its mtime
\* was on record).
HealedUnlessRacedOrTorn ==
    heal = "done" => \A f \in Files \ (raced \cup torn) : InSync(f)

\* Every event is worked off: no timer, batch or goroutine is forgotten, however
\* events, firings and drains fall (the file system comes to rest).
Settles == <>[]Quiescent
===============================================================================
