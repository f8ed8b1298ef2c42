----------------------------- MODULE SavingsStore -----------------------------
(***************************************************************************)
(* The cumulative token-savings counters (internal/savings/store.go), kept *)
(* in one file by several gortex processes.  A flush takes an advisory     *)
(* lock, reads the file again, adds what this process has counted since    *)
(* its last flush, and renames a temporary file over the old one.          *)
(*                                                                         *)
(* A total is a sum; it is kept here as the contributions of each process, *)
(* file.n[p], of which every field, per-repository and per-language bucket *)
(* is an instance.  s.mu is held during a flush, so nothing else happens   *)
(* in a process while its pc is not "idle".                                *)
(***************************************************************************)
EXTENDS Integers

CONSTANTS
    Procs,
    NoProc,      \* nobody holds the lock
    FlushEvery,  \* flushEvery: observations that trigger a flush
    MaxObserved, \* bound: observations of a process
    MaxCrashes,  \* bound: ends of processes
    MaxResets    \* bound: gortex savings --reset

ASSUME ProcsAssumption == NoProc \notin Procs
ASSUME FlushAssumption == FlushEvery \in Nat \ {0}
ASSUME BoundsAssumption ==
    MaxObserved \in Nat /\ MaxCrashes \in Nat /\ MaxResets \in Nat

VARIABLES
    file,     \* the file: exists, n[p] (all 0 if it does not)
    flock,    \* the holder of <path>.lock
    pc,       \* where the process is; down, or idle with s.mu free
    view,     \* view[p]: Store.file
    delta,    \* delta[p]: Store.delta
    pending,  \* pending[p]: Store.pending
    merged,   \* merged[p]: the local variable of flushLocked
    observed, \* history: observed[p], all observations ever
    lost,     \* history: lost[p], observations not flushed when p ended
    crashes, resets

vars == <<file, flock, pc, view, delta, pending, merged, observed, lost,
          crashes, resets>>

Zero == [q \in Procs |-> 0]
NoFile == [exists |-> FALSE, n |-> Zero]

Init ==
    /\ file = NoFile
    /\ flock = NoProc
    /\ pc = [p \in Procs |-> "down"]
    /\ view = [p \in Procs |-> Zero]
    /\ delta = Zero
    /\ pending = Zero
    /\ merged = [p \in Procs |-> Zero]
    /\ observed = Zero
    /\ lost = Zero
    /\ crashes = 0 /\ resets = 0

-------------------------------------------------------------------------------
\* Open: what readFile returns, or an empty store if there is no file.
Open(p) ==
    /\ pc[p] = "down"
    /\ pc' = [pc EXCEPT ![p] = "idle"]
    /\ view' = [view EXCEPT ![p] = file.n]
    /\ delta' = [delta EXCEPT ![p] = 0]
    /\ pending' = [pending EXCEPT ![p] = 0]
    /\ UNCHANGED <<file, flock, merged, observed, lost, crashes, resets>>

\* AddObservation; every FlushEvery observations it goes on to flushLocked.
AddObservation(p) ==
    /\ pc[p] = "idle"
    /\ observed[p] < MaxObserved
    /\ observed' = [observed EXCEPT ![p] = @ + 1]
    /\ view' = [view EXCEPT ![p][p] = @ + 1]
    /\ delta' = [delta EXCEPT ![p] = @ + 1]
    /\ pending' = [pending EXCEPT ![p] = @ + 1]
    /\ pc' = [pc EXCEPT ![p] = IF pending[p] + 1 >= FlushEvery THEN "lock" ELSE "idle"]
    /\ UNCHANGED <<file, flock, merged, lost, crashes, resets>>

\* Flush: by the periodic flusher when something is pending, or at shutdown.
Flush(p) ==
    /\ pc[p] = "idle"
    /\ pc' = [pc EXCEPT ![p] = "lock"]
    /\ UNCHANGED <<file, flock, view, delta, pending, merged, observed, lost,
                   crashes, resets>>

-------------------------------------------------------------------------------
(* flushLocked                                                               *)

\* Mutant of Lock: the lock is taken without looking.
LockAlways(p) ==
    /\ pc[p] = "lock"
    /\ flock' = p
    /\ pc' = [pc EXCEPT ![p] = "read"]
    /\ UNCHANGED <<file, view, delta, pending, merged, observed, lost, crashes, resets>>

Lock(p) ==
    /\ pc[p] = "lock"
    /\ flock = NoProc
    /\ flock' = p
    /\ pc' = [pc EXCEPT ![p] = "read"]
    /\ UNCHANGED <<file, view, delta, pending, merged, observed, lost, crashes, resets>>

\* An error before the lock is held, or after: nothing is cleared.
LockFails(p) ==
    /\ pc[p] = "lock"
    /\ pc' = [pc EXCEPT ![p] = "idle"]
    /\ UNCHANGED <<file, flock, view, delta, pending, merged, observed, lost,
                   crashes, resets>>

FlushFails(p) ==
    /\ pc[p] \in {"read", "write"}
    /\ pc' = [pc EXCEPT ![p] = "unlock"]
    /\ merged' = [merged EXCEPT ![p] = Zero]
    /\ UNCHANGED <<file, flock, view, delta, pending, observed, lost, crashes, resets>>

\* Mutant of Merge: the delta is added to the in-memory view as well.
MergeTwice(p) ==
    IF file.exists THEN [file.n EXCEPT ![p] = @ + delta[p]]
    ELSE [view[p] EXCEPT ![p] = @ + delta[p]]

\* Mutant of Merge: the file is not read again, the last flush wins.
MergeView(p) == view[p]

\* The file with the delta added; without a file, the whole of the view.
Merge(p) == IF file.exists THEN [file.n EXCEPT ![p] = @ + delta[p]] ELSE view[p]

Read(p) ==
    /\ pc[p] = "read"
    /\ merged' = [merged EXCEPT ![p] = Merge(p)]
    /\ pc' = [pc EXCEPT ![p] = "write"]
    /\ UNCHANGED <<file, flock, view, delta, pending, observed, lost, crashes, resets>>

\* The rename, and the merged totals become the view.
Write(p) ==
    /\ pc[p] = "write"
    /\ file' = [exists |-> TRUE, n |-> merged[p]]
    /\ view' = [view EXCEPT ![p] = merged[p]]
    /\ delta' = [delta EXCEPT ![p] = 0]
    /\ pending' = [pending EXCEPT ![p] = 0]
    /\ merged' = [merged EXCEPT ![p] = Zero]
    /\ pc' = [pc EXCEPT ![p] = "unlock"]
    /\ UNCHANGED <<flock, observed, lost, crashes, resets>>

Unlock(p) ==
    /\ pc[p] = "unlock"
    /\ flock' = NoProc
    /\ pc' = [pc EXCEPT ![p] = "idle"]
    /\ UNCHANGED <<file, view, delta, pending, merged, observed, lost, crashes, resets>>

-------------------------------------------------------------------------------
\* Reset: the store is emptied and the file removed, without the lock; when the
\* removal fails the file stays.
Reset(p) ==
    /\ pc[p] = "idle"
    /\ resets < MaxResets
    /\ resets' = resets + 1
    /\ view' = [view EXCEPT ![p] = Zero]
    /\ delta' = [delta EXCEPT ![p] = 0]
    /\ pending' = [pending EXCEPT ![p] = 0]
    /\ file' \in {NoFile, file}
    /\ UNCHANGED <<flock, pc, merged, observed, lost, crashes>>

\* The process ends, at any point; the kernel releases its lock.
Crash(p) ==
    /\ pc[p] # "down"
    /\ crashes < MaxCrashes
    /\ crashes' = crashes + 1
    /\ pc' = [pc EXCEPT ![p] = "down"]
    /\ flock' = IF flock = p THEN NoProc ELSE flock
    /\ lost' = [lost EXCEPT ![p] = @ + delta[p]]
    /\ delta' = [delta EXCEPT ![p] = 0]
    /\ view' = [view EXCEPT ![p] = Zero]
    /\ pending' = [pending EXCEPT ![p] = 0]
    /\ merged' = [merged EXCEPT ![p] = Zero]
    /\ UNCHANGED <<file, observed, resets>>

Step(p) ==
    \/ Open(p) \/ AddObservation(p) \/ Flush(p)
    \/ Lock(p) \/ LockFails(p) \/ FlushFails(p) \/ Read(p) \/ Write(p) \/ Unlock(p)
    \/ Reset(p) \/ Crash(p)

Next == \E p \in Procs : Step(p)

Spec == Init /\ [][Next]_vars

-------------------------------------------------------------------------------
States == {"down", "idle", "lock", "read", "write", "unlock"}

\* The variables have the types the code gives them, and the lock has the one
\* holder that is inside the critical section of flushLocked.
TypeOK ==
    /\ file \in [exists : BOOLEAN, n : [Procs -> Nat]]
    /\ flock \in Procs \cup {NoProc}
    /\ pc \in [Procs -> States]
    /\ view \in [Procs -> [Procs -> Nat]]
    /\ delta \in [Procs -> Nat]
    /\ pending \in [Procs -> Nat]
    /\ merged \in [Procs -> [Procs -> Nat]]
    /\ observed \in [Procs -> Nat]
    /\ lost \in [Procs -> Nat]
    /\ crashes \in Nat /\ resets \in Nat
    /\ \A p \in Procs : pc[p] \in {"read", "write", "unlock"} => flock = p

\* No observation is counted twice, whatever flushes, failures, crashes and
\* resets come together: what the file has of a process, what it still holds
\* and what it lost never add up to more than it has observed (flushLocked:
\* "so don't re-add the delta on top").
NeverOvercounts ==
    \A p \in Procs : file.n[p] + delta[p] + lost[p] <= observed[p]

\* Without a reset nothing is lost but what a process held when it died: the
\* flushes of several processes, whatever their order and their failures, each
\* find their way into the file ("A second process that flushed in between just
\* shifts our baseline up; nothing is lost", Store).
NothingLost ==
    resets = 0 => \A p \in Procs : file.n[p] + delta[p] + lost[p] = observed[p]
===============================================================================
