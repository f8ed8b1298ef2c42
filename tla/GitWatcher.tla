------------------------------ MODULE GitWatcher ------------------------------
(***************************************************************************)
(* The watcher of a repository's git refs (internal/indexer/               *)
(* git_watcher.go): an event on HEAD or a ref resets a debounce timer, the *)
(* timer starts a reconcile, and the reconcile applies the diff between    *)
(* the last commit it has seen and HEAD to the index.                      *)
(*                                                                         *)
(* Nothing keeps two reconciles apart: a timer that has fired cannot be    *)
(* stopped.  The commits of the repository are chosen in Init; a rename is *)
(* the deletion of one path and the addition of another.                   *)
(***************************************************************************)
EXTENDS Integers, FiniteSets

CONSTANTS
    Files,
    Commits,
    Histories,  \* the repositories: functions from commits to their files' contents
    Absent,     \* the content of a file that is not there
    NoCommit,   \* the empty SHA
    Slots,      \* reconciles that may run at the same time
    MaxMoves,   \* bound: moves of HEAD
    MaxFaults   \* bound: git commands that fail, events that fsnotify loses

ASSUME NamesAssumption == NoCommit \notin Commits
ASSUME HistoriesAssumption ==
    \A h \in Histories : DOMAIN h = Commits /\ \A c \in Commits : DOMAIN h[c] = Files
ASSUME BoundsAssumption == {MaxMoves, MaxFaults} \subseteq Nat

VARIABLES
    tree,     \* tree[c]: the files of commit c
    head,     \* the commit of HEAD
    wt,       \* the commit whose files are in the working tree
    moves, faults,
    rebasing, \* a sentinel of a rebase, merge or cherry-pick is there
    events,   \* fsw.Events is not empty
    armed,    \* fireTimer is armed
    running,  \* Stop has not been called
    last,     \* GitWatcher.lastSHA
    rec,      \* rec[r]: the reconcile in slot r
    index,    \* index[f]: the content of f in the graph
    torn,     \* history: files not indexed at the commit the diff was for
    overlap,  \* history: two reconciles have run at the same time
    late      \* history: the latest move went unheard, or its reconcile gave up

gitVars == <<tree, head, wt, moves, faults, rebasing, events, armed, running,
          last, rec, index, torn, overlap, late>>

Free == [pc |-> "free", old |-> NoCommit, new |-> NoCommit, todo |-> {}]

\* After a full index, when Start has read HEAD, or failed to.
GitInit ==
    /\ tree \in Histories
    /\ head \in Commits
    /\ wt = head
    /\ last \in {head, NoCommit}
    /\ index = tree[head]
    /\ moves = 0 /\ faults = 0
    /\ rebasing = FALSE /\ events = FALSE /\ armed = FALSE /\ running = TRUE
    /\ rec = [r \in Slots |-> Free]
    /\ torn = {} /\ overlap = FALSE /\ late = FALSE

-------------------------------------------------------------------------------
(* git: a checkout, commit, pull or reset writes the working tree and then   *)
(* the ref.                                                                  *)

WriteTree(c) ==
    /\ moves < MaxMoves /\ moves' = moves + 1
    /\ wt = head /\ wt' = c
    /\ c # head
    /\ UNCHANGED <<tree, head, faults, rebasing, events, armed, running, last,
                   rec, index, torn, overlap, late>>

\* The watch on HEAD itself is lost when git replaces the file: the move may
\* raise no event.
MoveHead ==
    /\ wt # head
    /\ head' = wt
    /\ \/ events' = TRUE /\ late' = late /\ UNCHANGED faults
       \/ /\ faults < MaxFaults /\ faults' = faults + 1
          /\ late' = TRUE /\ UNCHANGED events
    /\ UNCHANGED <<tree, wt, moves, rebasing, armed, running, last, rec, index,
                   torn, overlap>>

\* A rebase or merge begins and ends around moves of HEAD.
Rebase ==
    /\ moves < MaxMoves \/ rebasing
    /\ rebasing' = ~rebasing
    /\ UNCHANGED <<tree, head, wt, moves, faults, events, armed, running, last,
                   rec, index, torn, overlap, late>>

-------------------------------------------------------------------------------
(* The loop goroutine and the timer.                                         *)

\* scheduleReconcile: stop the timer, start a new one.
ScheduleReconcile ==
    /\ running /\ events
    /\ events' = FALSE
    /\ armed' = TRUE
    /\ UNCHANGED <<tree, head, wt, moves, faults, rebasing, running, last, rec,
                   index, torn, overlap, late>>

Fire(r) ==
    /\ armed /\ rec[r] = Free
    /\ armed' = FALSE
    /\ rec' = [rec EXCEPT ![r].pc = "rebase"]
    /\ overlap' = (overlap \/ \E q \in Slots : rec[q] # Free)
    /\ UNCHANGED <<tree, head, wt, moves, faults, rebasing, events, running,
                   last, index, torn, late>>

\* Stop ends the loop and leaves the timer, and what it has started, alone.
Stop ==
    /\ running
    /\ running' = FALSE
    /\ UNCHANGED <<tree, head, wt, moves, faults, rebasing, events, armed, last,
                   rec, index, torn, overlap, late>>

-------------------------------------------------------------------------------
(* reconcile                                                                 *)

GiveUp(r) == rec' = [rec EXCEPT ![r] = Free] /\ late' = TRUE

RebaseInProgress(r) ==
    /\ rec[r].pc = "rebase"
    /\ IF rebasing THEN GiveUp(r)
       ELSE rec' = [rec EXCEPT ![r].pc = "sha"] /\ UNCHANGED late
    /\ UNCHANGED <<tree, head, wt, moves, faults, rebasing, events, armed,
                   running, last, index, torn, overlap>>

CurrentSHA(r) ==
    /\ rec[r].pc = "sha"
    /\ \/ /\ rec' = [rec EXCEPT ![r].pc = "old", ![r].new = head]
          /\ late' = FALSE /\ UNCHANGED faults
       \/ /\ faults < MaxFaults /\ faults' = faults + 1
          /\ GiveUp(r)
    /\ UNCHANGED <<tree, head, wt, moves, rebasing, events, armed, running,
                   last, index, torn, overlap>>

\* Mutant of Compare: a HEAD that has not moved is diffed too.
CompareNot(r) ==
    LET new == rec[r].new
    IN  /\ rec[r].pc = "old"
        /\ rec' = IF last = NoCommit THEN [rec EXCEPT ![r] = Free]
                  ELSE [rec EXCEPT ![r].pc = "diff", ![r].old = last]
        /\ last' = IF last = NoCommit THEN new ELSE last
        /\ torn' = IF last = NoCommit THEN Files ELSE torn
        /\ UNCHANGED <<tree, head, wt, moves, faults, rebasing, events, armed,
                       running, index, overlap, late>>

\* HEAD has not moved; or there is no commit to compare with, and the new one
\* is recorded as if the index held it.
Compare(r) ==
    LET new == rec[r].new
    IN  /\ rec[r].pc = "old"
        /\ rec' = IF last \in {new, NoCommit} THEN [rec EXCEPT ![r] = Free]
                  ELSE [rec EXCEPT ![r].pc = "diff", ![r].old = last]
        /\ last' = IF last = NoCommit THEN new ELSE last
        /\ torn' = IF last = NoCommit THEN Files ELSE torn
        /\ UNCHANGED <<tree, head, wt, moves, faults, rebasing, events, armed,
                       running, index, overlap, late>>

\* The paths in which two commits differ.
Diff(old, new) == {f \in Files : tree[old][f] # tree[new][f]}

\* Mutant of DiffFailed: the new commit is recorded all the same.
DiffFailedAdvances(r) ==
    /\ rec[r].pc = "diff"
    /\ faults < MaxFaults /\ faults' = faults + 1
    /\ GiveUp(r)
    /\ last' = rec[r].new
    /\ UNCHANGED <<tree, head, wt, moves, rebasing, events, armed, running,
                   index, torn, overlap>>

DiffFailed(r) ==
    /\ rec[r].pc = "diff"
    /\ faults < MaxFaults /\ faults' = faults + 1
    /\ GiveUp(r)
    /\ UNCHANGED <<tree, head, wt, moves, rebasing, events, armed, running,
                   last, index, torn, overlap>>

DiffNameStatus(r) ==
    /\ rec[r].pc = "diff"
    /\ rec' = [rec EXCEPT ![r].pc = "apply", ![r].todo = Diff(rec[r].old, rec[r].new)]
    /\ UNCHANGED <<tree, head, wt, moves, faults, rebasing, events, armed,
                   running, last, index, torn, overlap, late>>

\* applyChanges: a deleted path is evicted; any other is indexed from the
\* working tree, or skipped when it is not there.
ApplyChange(r, f) ==
    LET deleted == tree[rec[r].new][f] = Absent
    IN  /\ rec[r].pc = "apply" /\ f \in rec[r].todo
        /\ rec' = [rec EXCEPT ![r].todo = @ \ {f}]
        /\ index' = IF deleted THEN [index EXCEPT ![f] = Absent]
                    ELSE IF tree[wt][f] = Absent THEN index
                    ELSE [index EXCEPT ![f] = tree[wt][f]]
        /\ torn' = IF deleted \/ tree[wt][f] = tree[rec[r].new][f] THEN torn \ {f}
                   ELSE torn \cup {f}
        /\ UNCHANGED <<tree, head, wt, moves, faults, rebasing, events, armed,
                       running, last, overlap, late>>

\* Mutant of Record: the commit that was last before stays.
RecordOld(r) ==
    /\ rec[r].pc = "apply" /\ rec[r].todo = {}
    /\ rec' = [rec EXCEPT ![r] = Free]
    /\ UNCHANGED <<tree, head, wt, moves, faults, rebasing, events, armed,
                   running, last, index, torn, overlap, late>>

\* ResolveAll; then the new commit is the last one seen.
Record(r) ==
    /\ rec[r].pc = "apply" /\ rec[r].todo = {}
    /\ last' = rec[r].new
    /\ rec' = [rec EXCEPT ![r] = Free]
    /\ UNCHANGED <<tree, head, wt, moves, faults, rebasing, events, armed,
                   running, index, torn, overlap, late>>

Reconcile(r) ==
    \/ RebaseInProgress(r) \/ CurrentSHA(r) \/ Compare(r)
    \/ DiffFailed(r) \/ DiffNameStatus(r)
    \/ \E f \in Files : ApplyChange(r, f)
    \/ Record(r)

-------------------------------------------------------------------------------
GitNext ==
    \/ \E c \in Commits : WriteTree(c)
    \/ MoveHead \/ Rebase
    \/ ScheduleReconcile \/ Stop
    \/ \E r \in Slots : Fire(r) \/ Reconcile(r)

GitSpec == GitInit /\ [][GitNext]_gitVars

\* git finishes what it has begun; the loop, the timer and the reconciles run.
GitFairSpec ==
    /\ GitSpec
    /\ WF_gitVars(MoveHead)
    /\ WF_gitVars(ScheduleReconcile)
    /\ WF_gitVars(\E r \in Slots : Fire(r))
    /\ \A r \in Slots : WF_gitVars(Reconcile(r))

-------------------------------------------------------------------------------
\* The variables have the types the code gives them.
GitTypeOK ==
    /\ head \in Commits /\ wt \in Commits /\ last \in Commits \cup {NoCommit}
    /\ \A r \in Slots :
          /\ rec[r].pc \in {"free", "rebase", "sha", "old", "diff", "apply"}
          /\ rec[r].pc \in {"diff", "apply"} =>
                {rec[r].old, rec[r].new} \subseteq Commits /\ rec[r].old # rec[r].new
          /\ rec[r].todo \subseteq Files
    /\ DOMAIN index = Files
    /\ torn \subseteq Files

Quiet == \A r \in Slots : rec[r] = Free

\* Between reconciles lastSHA names the commit whose files the index holds,
\* however many moves were unheard, deferred by a rebase, or met a git command
\* that failed: the next diff starts from where the index really is.  Exempt
\* are files read from the working tree of yet another commit, and
\* reconciles that overlapped (reconcile, applyChanges).
IndexIsLastSHA ==
    Quiet /\ ~overlap /\ last # NoCommit =>
        \A f \in Files \ torn : index[f] = tree[last][f]

\* Once HEAD comes to rest the watcher gets there: it ends with lastSHA at HEAD,
\* unless the latest move went unheard or its reconcile gave up (which no timer
\* repeats), two reconciles overlapped, or the watcher was stopped
\* (scheduleReconcile: "lets the last one win").
CatchesUp == <>[](last = head \/ late \/ overlap \/ ~running \/ moves = 0)
===============================================================================
