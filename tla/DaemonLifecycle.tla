--------------------------- MODULE DaemonLifecycle ---------------------------
(***************************************************************************)
(* Daemon processes that start, stop and crash around one socket, one PID  *)
(* file and one snapshot (internal/daemon/server.go, cmd/gortex/daemon.go, *)
(* saveSnapshot in cmd/gortex/daemon_snapshot.go).                         *)
(*                                                                         *)
(* The socket file belongs to the listener that made it and outlives it    *)
(* after a crash.  A snapshot is written in two blocks, at the writer's    *)
(* own offsets, through the inode that the writer opened; a rename moves   *)
(* whatever inode is called .tmp.                                          *)
(***************************************************************************)
EXTENDS Integers, FiniteSets

CONSTANTS
    Procs,
    None,      \* no process, no writer
    MaxSaves   \* bound: snapshots written or attempted

ASSUME NoneAssumption == None \notin Procs
ASSUME SavesAssumption == MaxSaves \in Nat

Saves == 1 .. MaxSaves

VARIABLES
    pc,       \* pc[p]: where the process is
    sock,     \* the process whose listener made the socket file
    pidfile,  \* the process that the PID file names
    save,     \* save[n]: the n-th call of saveSnapshot
    saves,    \* calls of saveSnapshot so far
    tmp,      \* the inode called daemon snapshot .tmp, 0 if there is none
    snap,     \* the inode called daemon snapshot, 0 if there is none
    blocks,   \* blocks[i]: the save that wrote each half of inode i, 0 if none
    raced,    \* history: a PID file was read between another's read and write
    swept,    \* history: daemons whose socket another start has removed
    shared    \* history: two saves had one inode open at the same time

vars == <<pc, sock, pidfile, save, saves, tmp, snap, blocks, raced, swept, shared>>

Unused == [proc |-> None, final |-> FALSE, pc |-> "idle", inode |-> 0]

\* In the order of a process's life: build, where it builds its state; sweep,
\* pid, stale, write and listen, in Listen; serve; final, where it is asked to
\* stop and writes the last snapshot; close, files and unpid, in Shutdown; dead.
Alive(p) == pc[p] \notin {"new", "dead"}
Serving(p) == pc[p] \in {"serve", "final"}

Init ==
    /\ pc = [p \in Procs |-> "new"]
    /\ sock = None /\ pidfile = None
    /\ save = [n \in Saves |-> Unused]
    /\ saves = 0
    /\ tmp = 0 /\ snap = 0
    /\ blocks = [i \in Saves |-> <<0, 0>>]
    /\ raced = FALSE /\ swept = {} /\ shared = FALSE

files == <<save, saves, tmp, snap, blocks, shared>>
Goto(p, to) == pc' = [pc EXCEPT ![p] = to]

\* The process is gone, and its goroutines with it.
Killed(p) == [n \in Saves |-> IF save[n].proc = p THEN Unused ELSE save[n]]

Die(p) ==
    /\ Goto(p, "dead")
    /\ save' = Killed(p)
    /\ UNCHANGED <<saves, tmp, snap, blocks, shared>>

-------------------------------------------------------------------------------
(* runDaemonStart and Server.Listen                                          *)

\* IsRunning dials the socket.
Start(p) ==
    /\ pc[p] = "new"
    /\ Goto(p, IF sock # None /\ Serving(sock) THEN "dead" ELSE "build")
    /\ UNCHANGED <<files, sock, pidfile, raced, swept>>

\* buildDaemonState, then Listen removes the socket file.
Sweep(p) ==
    /\ pc[p] = "build"
    /\ sock' = None
    /\ swept' = IF sock # None /\ Serving(sock) THEN swept \cup {sock} ELSE swept
    /\ Goto(p, "pid")
    /\ UNCHANGED <<files, pidfile, raced>>

\* Mutant of ReadPID: nobody looks whether the process is alive.
ReadPIDAny(p) ==
    /\ pc[p] = "pid"
    /\ raced' = (raced \/ \E q \in Procs : pc[q] \in {"stale", "write"})
    /\ Goto(p, IF pidfile # None THEN "stale" ELSE "write")
    /\ UNCHANGED <<files, sock, pidfile, swept>>

\* writePIDFile: a live process in the file ends the start.
ReadPID(p) ==
    /\ pc[p] = "pid"
    /\ raced' = (raced \/ \E q \in Procs : pc[q] \in {"stale", "write"})
    /\ \/ /\ pidfile # None /\ Alive(pidfile)
          /\ Die(p)
       \/ /\ pidfile # None /\ ~Alive(pidfile)
          /\ Goto(p, "stale") /\ UNCHANGED files
       \/ /\ pidfile = None
          /\ Goto(p, "write") /\ UNCHANGED files
    /\ UNCHANGED <<sock, pidfile, swept>>

RemoveStalePID(p) ==
    /\ pc[p] = "stale"
    /\ pidfile' = None
    /\ Goto(p, "write")
    /\ UNCHANGED <<files, sock, raced, swept>>

WritePID(p) ==
    /\ pc[p] = "write"
    /\ pidfile' = p
    /\ Goto(p, "listen")
    /\ UNCHANGED <<files, sock, raced, swept>>

Listen(p) ==
    /\ pc[p] = "listen" /\ sock = None
    /\ sock' = p
    /\ Goto(p, "serve")
    /\ UNCHANGED <<files, pidfile, raced, swept>>

\* The address is in use, or the listen fails for another reason.  (A socket
\* whose mode cannot be set is closed again and the PID file stays, as after a
\* crash at this point.)
ListenFails(p) ==
    /\ pc[p] = "listen"
    /\ pidfile' = None
    /\ Die(p)
    /\ UNCHANGED <<sock, raced, swept>>

-------------------------------------------------------------------------------
(* The end of a daemon                                                       *)

\* Signal: the server shuts down, without a snapshot, or amid the last one.
Signal(p) ==
    /\ pc[p] \in {"serve", "final"}
    /\ Goto(p, "close")
    /\ UNCHANGED <<files, sock, pidfile, raced, swept>>

\* The server shuts down when onShutdown has returned.
Acknowledge(p) ==
    /\ pc[p] = "final"
    /\ \A n \in Saves : save[n].proc = p => ~save[n].final
    /\ Goto(p, "close")
    /\ UNCHANGED <<files, sock, pidfile, raced, swept>>

\* Mutant of CloseListener: the socket file is left where it is.
CloseKeepsSocket(p) ==
    /\ pc[p] = "close"
    /\ Goto(p, "files")
    /\ UNCHANGED <<files, sock, pidfile, raced, swept>>

\* Server.Shutdown: closing the listener removes the file at its path, so does
\* os.Remove, and then the PID file goes; Serve has returned, and the process
\* may be gone before that.
CloseListener(p) ==
    /\ pc[p] = "close"
    /\ sock' = None
    /\ swept' = IF sock # None /\ sock # p /\ Serving(sock) THEN swept \cup {sock} ELSE swept
    /\ Goto(p, "files")
    /\ UNCHANGED <<files, pidfile, raced>>

RemoveSocket(p) ==
    /\ pc[p] = "files"
    /\ sock' = None
    /\ swept' = IF sock # None /\ Serving(sock) THEN swept \cup {sock} ELSE swept
    /\ Goto(p, "unpid")
    /\ UNCHANGED <<files, pidfile, raced>>

RemovePID(p) ==
    /\ pc[p] = "unpid"
    /\ pidfile' = None
    /\ Die(p)
    /\ UNCHANGED <<sock, raced, swept>>

Exit(p) ==
    /\ pc[p] \in {"files", "unpid"}
    /\ Die(p)
    /\ UNCHANGED <<sock, pidfile, raced, swept>>

\* Killed at any point; the files stay as they are.
Crash(p) ==
    /\ Alive(p)
    /\ Die(p)
    /\ UNCHANGED <<sock, pidfile, raced, swept>>

-------------------------------------------------------------------------------
(* saveSnapshot                                                              *)

proc == <<sock, pidfile, raced, swept>>

StartSave(p, final) ==
    /\ saves < MaxSaves
    /\ saves' = saves + 1
    /\ save' = [save EXCEPT ![saves + 1] =
                   [proc |-> p, final |-> final, pc |-> "open", inode |-> 0]]
    /\ UNCHANGED <<proc, tmp, snap, blocks, shared>>

\* A tick of startPeriodicSnapshots; its goroutine writes one at a time.
Tick(p) ==
    /\ Alive(p)
    /\ \A n \in Saves : save[n].proc = p => save[n].final
    /\ StartSave(p, FALSE)
    /\ UNCHANGED pc

\* gortex daemon stop, to the daemon that answers on the socket.
ControlShutdown(p) ==
    /\ pc[p] = "serve" /\ sock = p
    /\ StartSave(p, TRUE)
    /\ Goto(p, "final")

\* Of the inode that save n has open.
Writes(n, k) == [blocks EXCEPT ![save[n].inode][k] = n]

\* O_CREATE | O_TRUNC: the file that is there is emptied, another writer's too.
OpenTmp(n) ==
    LET i == IF tmp = 0 THEN n ELSE tmp
    IN  /\ save[n].pc = "open"
        /\ tmp' = i
        /\ blocks' = [blocks EXCEPT ![i] = <<0, 0>>]
        /\ save' = [save EXCEPT ![n].pc = "first", ![n].inode = i]
        /\ shared' = (shared \/ \E m \in Saves : save[m].inode = i)
        /\ UNCHANGED <<proc, pc, saves, snap>>

WriteFirst(n) ==
    /\ save[n].pc = "first"
    /\ blocks' = Writes(n, 1)
    /\ save' = [save EXCEPT ![n].pc = "second"]
    /\ UNCHANGED <<proc, pc, saves, tmp, snap, shared>>

WriteSecond(n) ==
    /\ save[n].pc = "second"
    /\ blocks' = Writes(n, 2)
    /\ save' = [save EXCEPT ![n].pc = "rename"]
    /\ UNCHANGED <<proc, pc, saves, tmp, snap, shared>>

\* Mutant of Rename: what is there is renamed before all of it is written.
RenameEarly(n) ==
    /\ save[n].pc \in {"second", "rename"}
    /\ snap' = IF tmp = 0 THEN snap ELSE tmp
    /\ tmp' = 0
    /\ save' = [save EXCEPT ![n] = Unused]
    /\ UNCHANGED <<proc, pc, saves, blocks, shared>>

\* Without a .tmp file the rename fails and the save is given up.
Rename(n) ==
    /\ save[n].pc = "rename"
    /\ snap' = IF tmp = 0 THEN snap ELSE tmp
    /\ tmp' = 0
    /\ save' = [save EXCEPT ![n] = Unused]
    /\ UNCHANGED <<proc, pc, saves, blocks, shared>>

\* The file cannot be opened, or abort: it is removed again.
SaveFails(n) ==
    /\ save[n].pc \in {"open", "first", "second"}
    /\ tmp' = IF save[n].pc = "open" THEN tmp ELSE 0
    /\ save' = [save EXCEPT ![n] = Unused]
    /\ UNCHANGED <<proc, pc, saves, snap, blocks, shared>>

-------------------------------------------------------------------------------
Next ==
    \/ \E p \in Procs :
          \/ Start(p) \/ Sweep(p) \/ ReadPID(p) \/ RemoveStalePID(p)
          \/ WritePID(p) \/ Listen(p) \/ ListenFails(p)
          \/ Signal(p) \/ ControlShutdown(p) \/ Acknowledge(p)
          \/ CloseListener(p) \/ RemoveSocket(p) \/ RemovePID(p)
          \/ Exit(p) \/ Crash(p) \/ Tick(p)
    \/ \E n \in Saves :
          OpenTmp(n) \/ WriteFirst(n) \/ WriteSecond(n) \/ Rename(n) \/ SaveFails(n)

Spec == Init /\ [][Next]_vars

-------------------------------------------------------------------------------
\* The variables have the types the code gives them; only a daemon that has
\* come up has a socket or writes a last snapshot.
TypeOK ==
    /\ pc \in [Procs -> {"new", "build", "pid", "stale", "write", "listen", "serve",
                         "final", "close", "files", "unpid", "dead"}]
    /\ sock \in {p \in Procs : pc[p] \in {"serve", "final", "close", "dead"}} \cup {None}
    /\ pidfile \in {p \in Procs : pc[p] \notin {"new", "build", "pid"}} \cup {None}
    /\ tmp \in Saves \cup {0} /\ snap \in Saves \cup {0}
    /\ \A n \in Saves : /\ save[n].inode \in Saves \cup {0}
                        /\ save[n].final => pc[save[n].proc] \in {"final", "close", "files", "unpid"}
    /\ swept \subseteq Procs

\* A daemon that serves is named by the PID file and answers on the socket,
\* whatever starts, refusals, crashes and shutdowns surround it; so no two
\* serve at once.  Exempt are starts that read the PID file between another's
\* read and write, and a socket that a second start has removed before it
\* found the daemon alive (Server.Listen: "If the daemon is actually running,
\* the PID check below will catch it and abort"; writePIDFile).
ServingIsNamed ==
    ~raced => \A p \in Procs : Serving(p) =>
                 pidfile = p /\ (sock = p \/ p \in swept)

\* The snapshot on disk is one save's, whole, at every moment, so that a crash
\* at any point leaves one that loads; unless two saves had one .tmp file open
\* at the same time ("Atomic swap so a concurrent crash can never leave a
\* truncated snapshot on disk", saveSnapshot).
SnapshotWhole ==
    snap # 0 /\ ~shared => blocks[snap][1] = blocks[snap][2] /\ blocks[snap][1] # 0
===============================================================================
