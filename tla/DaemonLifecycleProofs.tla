------------------------ MODULE DaemonLifecycleProofs ------------------------
(***************************************************************************)
(* Proofs about DaemonLifecycle, for any set of processes and any number   *)
(* of snapshots: a daemon that serves is the one the PID file names, and   *)
(* the snapshot on disk is one save's, whole.                              *)
(***************************************************************************)
EXTENDS DaemonLifecycle, TLAPS

States == {"new", "build", "pid", "stale", "write", "listen", "serve",
           "final", "close", "files", "unpid", "dead"}

SaveState == [proc : Procs \cup {None}, final : BOOLEAN,
              pc : {"idle", "open", "first", "second", "rename"},
              inode : Saves \cup {0}]

\* The types of the variables, without what TypeOK says of pc.
Types ==
    /\ pc \in [Procs -> States]
    /\ sock \in Procs \cup {None}
    /\ pidfile \in Procs \cup {None}
    /\ save \in [Saves -> SaveState]
    /\ saves \in 0 .. MaxSaves
    /\ tmp \in Saves \cup {0}
    /\ snap \in Saves \cup {0}
    /\ blocks \in [Saves -> [1 .. 2 -> Saves \cup {0}]]
    /\ raced \in BOOLEAN
    /\ swept \in SUBSET Procs
    /\ shared \in BOOLEAN

\* The socket and the PID file are those of processes that have come that far,
\* and the process of a last snapshot is shutting down.
Lifetimes ==
    /\ sock # None => pc[sock] \in {"serve", "final", "close", "dead"}
    /\ pidfile # None => pc[pidfile] \notin {"new", "build", "pid"}
    /\ \A n \in Saves : save[n].final =>
          /\ save[n].proc \in Procs
          /\ pc[save[n].proc] \in {"final", "close", "files", "unpid"}

\* Between writing the PID file and removing it.
Holds(p) == pc[p] \in {"listen", "serve", "final", "close", "files", "unpid"}

\* Past the check of the PID file.
Past(p) == pc[p] \in {"stale", "write"} \/ Holds(p)

\* The PID file names the process that wrote it for as long as it lives, and
\* then nobody else is past the check.
Named ==
    ~raced => /\ \A p \in Procs : Holds(p) => pidfile = p
              /\ \A p, q \in Procs : Past(p) /\ Past(q) => p = q

\* A daemon that serves has its socket, unless someone has removed it.
Reachable == \A p \in Procs : Serving(p) => sock = p \/ p \in swept

\* Inode i is made by save i, if .tmp is not there.
Inodes ==
    /\ \A n \in Saves : save[n].pc # "idle" => n <= saves
    /\ tmp <= saves /\ (tmp # 0 => save[tmp].pc # "open")
    /\ snap <= saves /\ (snap # 0 => save[snap].pc # "open")
    /\ \A n \in Saves : save[n].inode # 0 <=> save[n].pc \in {"first", "second", "rename"}

\* The save that has a file open has .tmp open, alone, and has written what it
\* has come to write; the snapshot is no longer written to.
Written ==
    ~shared =>
        /\ snap # 0 => /\ tmp # snap
                       /\ blocks[snap][1] = blocks[snap][2]
                       /\ blocks[snap][1] # 0
        /\ \A m, n \in Saves : save[m].inode # 0 /\ save[m].inode = save[n].inode => m = n
        /\ \A n \in Saves :
              /\ save[n].inode # 0 => save[n].inode = tmp
              /\ save[n].pc \in {"second", "rename"} => blocks[tmp][1] = n
              /\ save[n].pc = "rename" => blocks[tmp][2] = n

Inv == Types /\ Lifetimes /\ Named /\ Reachable /\ Inodes /\ Written

\* The steps of a process, and those of a save.
Process(p) ==
    \/ Start(p) \/ Sweep(p) \/ ReadPID(p) \/ RemoveStalePID(p)
    \/ WritePID(p) \/ Listen(p) \/ ListenFails(p)
    \/ Signal(p) \/ ControlShutdown(p) \/ Acknowledge(p)
    \/ CloseListener(p) \/ RemoveSocket(p) \/ RemovePID(p)
    \/ Exit(p) \/ Crash(p) \/ Tick(p)

Saving(n) == OpenTmp(n) \/ WriteFirst(n) \/ WriteSecond(n) \/ Rename(n) \/ SaveFails(n)

-------------------------------------------------------------------------------
\* Init satisfies the inductive invariant.
LEMMA InvInit == Init => Inv
<1> SUFFICES ASSUME Init PROVE Inv
  OBVIOUS
<1>1. Types
  <2>1. Unused \in SaveState
    BY DEF Unused, SaveState
  <2>2. save \in [Saves -> SaveState] /\ blocks \in [Saves -> [1 .. 2 -> Saves \cup {0}]]
    BY <2>1 DEF Init
  <2>3. pc \in [Procs -> States] /\ saves \in 0 .. MaxSaves
    BY SavesAssumption DEF Init, States
  <2>4. QED
    BY <2>2, <2>3 DEF Init, Types
<1>2. Lifetimes /\ Named /\ Reachable
  BY DEF Init, Lifetimes, Named, Reachable, Past, Holds, Serving, Unused
<1>3. Inodes /\ Written
  BY DEF Init, Inodes, Written, Unused
<1>4. QED
  BY <1>1, <1>2, <1>3 DEF Inv

\* A process that is gone leaves every other save as it was.
LEMMA KilledType == ASSUME Types, NEW p \in Procs PROVE Killed(p) \in [Saves -> SaveState]
<1>1. Unused \in SaveState
  BY DEF Unused, SaveState
<1>2. QED
  BY <1>1 DEF Types, Killed

\* A new save has the type of one.
LEMMA StartSaveType ==
    ASSUME Types, NEW p \in Procs, NEW final \in BOOLEAN, StartSave(p, final)
    PROVE  /\ save' \in [Saves -> SaveState]
           /\ saves' \in 0 .. MaxSaves
<1>1. [proc |-> p, final |-> final, pc |-> "open", inode |-> 0] \in SaveState
  BY DEF SaveState
<1>2. saves + 1 \in Saves
  BY SavesAssumption DEF Types, StartSave, Saves
<1>3. QED
  BY <1>1, <1>2, SavesAssumption DEF Types, StartSave

\* Every step keeps the types.
LEMMA TypesNext == Types /\ [Next]_vars => Types'
<1> SUFFICES ASSUME Types, [Next]_vars PROVE Types'
  OBVIOUS
<1>1. CASE UNCHANGED vars
  BY <1>1 DEF vars, Types
<1>2. ASSUME NEW p \in Procs, Process(p) PROVE Types'
  <2>1. CASE Start(p)
    BY <2>1 DEF Start, Goto, files, Types, States
  <2>2. CASE Sweep(p)
    BY <2>2 DEF Sweep, Goto, files, Types, States
  <2>3. CASE ReadPID(p)
    BY <2>3, KilledType DEF ReadPID, Goto, Die, files, Types, States
  <2>4. CASE RemoveStalePID(p)
    BY <2>4 DEF RemoveStalePID, Goto, files, Types, States
  <2>5. CASE WritePID(p)
    BY <2>5 DEF WritePID, Goto, files, Types, States
  <2>6. CASE Listen(p)
    BY <2>6 DEF Listen, Goto, files, Types, States
  <2>7. CASE ListenFails(p)
    BY <2>7, KilledType DEF ListenFails, Goto, Die, Types, States
  <2>8. CASE Signal(p)
    BY <2>8 DEF Signal, Goto, files, Types, States
  <2>9. CASE ControlShutdown(p)
    BY <2>9, StartSaveType DEF ControlShutdown, Goto, StartSave, proc, Types, States
  <2>10. CASE Acknowledge(p)
    BY <2>10 DEF Acknowledge, Goto, files, Types, States
  <2>11. CASE CloseListener(p)
    BY <2>11 DEF CloseListener, Goto, files, Types, States
  <2>12. CASE RemoveSocket(p)
    BY <2>12 DEF RemoveSocket, Goto, files, Types, States
  <2>13. CASE RemovePID(p)
    BY <2>13, KilledType DEF RemovePID, Goto, Die, Types, States
  <2>14. CASE Exit(p)
    BY <2>14, KilledType DEF Exit, Goto, Die, Types, States
  <2>15. CASE Crash(p)
    BY <2>15, KilledType DEF Crash, Goto, Die, Types, States
  <2>16. CASE Tick(p)
    BY <2>16, StartSaveType DEF Tick, StartSave, proc, Types
  <2>17. QED
    BY <1>2, <2>1, <2>2, <2>3, <2>4, <2>5, <2>6, <2>7, <2>8, <2>9, <2>10, <2>11, <2>12, <2>13,
       <2>14, <2>15, <2>16 DEF Process
<1>3. ASSUME NEW n \in Saves, Saving(n) PROVE Types'
  <2>1. CASE OpenTmp(n)
    <3>1. DEFINE i == IF tmp = 0 THEN n ELSE tmp
    <3>2. i \in Saves
      BY DEF Types
    <3>3. [save[n] EXCEPT !.pc = "first", !.inode = i] \in SaveState
      BY <3>2 DEF Types, SaveState
    <3>4. save' \in [Saves -> SaveState]
      BY <2>1, <3>3 DEF OpenTmp, Types
    <3>5. QED
      BY <2>1, <3>4 DEF OpenTmp, proc, Types
  <2>2. CASE WriteFirst(n)
    <3>1. [save[n] EXCEPT !.pc = "second"] \in SaveState
      BY DEF Types, SaveState
    <3>2. save' \in [Saves -> SaveState]
      BY <2>2, <3>1 DEF WriteFirst, Types
    <3>3. blocks' \in [Saves -> [1 .. 2 -> Saves \cup {0}]]
      BY <2>2 DEF WriteFirst, Writes, Types
    <3>4. QED
      BY <2>2, <3>2, <3>3 DEF WriteFirst, proc, Types
  <2>3. CASE WriteSecond(n)
    <3>1. [save[n] EXCEPT !.pc = "rename"] \in SaveState
      BY DEF Types, SaveState
    <3>2. save' \in [Saves -> SaveState]
      BY <2>3, <3>1 DEF WriteSecond, Types
    <3>3. blocks' \in [Saves -> [1 .. 2 -> Saves \cup {0}]]
      BY <2>3 DEF WriteSecond, Writes, Types
    <3>4. QED
      BY <2>3, <3>2, <3>3 DEF WriteSecond, proc, Types
  <2>4. CASE Rename(n)
    <3>1. Unused \in SaveState
      BY DEF Unused, SaveState
    <3>2. QED
      BY <2>4, <3>1 DEF Rename, proc, Types
  <2>5. CASE SaveFails(n)
    <3>1. Unused \in SaveState
      BY DEF Unused, SaveState
    <3>2. QED
      BY <2>5, <3>1 DEF SaveFails, proc, Types
  <2>6. QED
    BY <1>3, <2>1, <2>2, <2>3, <2>4, <2>5 DEF Saving
<1>4. QED
  BY <1>1, <1>2, <1>3 DEF Next, Process, Saving

\* Every step keeps the socket, the PID file and the last snapshots with processes
\* that have come that far.
LEMMA LifetimesNext == Types /\ Lifetimes /\ [Next]_vars => Lifetimes'
<1> SUFFICES ASSUME Types, Lifetimes, [Next]_vars PROVE Lifetimes'
  OBVIOUS
<1>1. CASE UNCHANGED vars
  BY <1>1 DEF vars, Lifetimes
<1>2. ASSUME NEW p \in Procs, Process(p) PROVE Lifetimes'
  <2>1. CASE Start(p)
    BY <2>1 DEF Start, Goto, files, Lifetimes
  <2>2. CASE Sweep(p)
    BY <2>2 DEF Sweep, Goto, files, Lifetimes
  <2>3. CASE ReadPID(p)
    BY <2>3 DEF ReadPID, Goto, Die, files, Killed, Types, Lifetimes, Unused
  <2>4. CASE RemoveStalePID(p)
    BY <2>4 DEF RemoveStalePID, Goto, files, Lifetimes
  <2>5. CASE WritePID(p)
    BY <2>5 DEF WritePID, Goto, files, Lifetimes
  <2>6. CASE Listen(p)
    BY <2>6 DEF Listen, Goto, files, Types, Lifetimes
  <2>7. CASE ListenFails(p)
    BY <2>7 DEF ListenFails, Goto, Die, Killed, Lifetimes, Unused
  <2>8. CASE Signal(p)
    BY <2>8 DEF Signal, Goto, files, Lifetimes
  <2>9. CASE ControlShutdown(p)
    BY <2>9 DEF ControlShutdown, Goto, StartSave, proc, Types, Lifetimes
  <2>10. CASE Acknowledge(p)
    BY <2>10 DEF Acknowledge, Goto, files, Lifetimes
  <2>11. CASE CloseListener(p)
    BY <2>11 DEF CloseListener, Goto, files, Lifetimes
  <2>12. CASE RemoveSocket(p)
    BY <2>12 DEF RemoveSocket, Goto, files, Lifetimes
  <2>13. CASE RemovePID(p)
    BY <2>13 DEF RemovePID, Goto, Die, Killed, Lifetimes, Unused
  <2>14. CASE Exit(p)
    BY <2>14 DEF Exit, Goto, Die, Killed, Lifetimes, Unused
  <2>15. CASE Crash(p)
    BY <2>15 DEF Crash, Goto, Die, Killed, Lifetimes, Unused
  <2>16. CASE Tick(p)
    BY <2>16 DEF Tick, StartSave, proc, Lifetimes
  <2>17. QED
    BY <1>2, <2>1, <2>2, <2>3, <2>4, <2>5, <2>6, <2>7, <2>8, <2>9, <2>10, <2>11, <2>12, <2>13,
       <2>14, <2>15, <2>16 DEF Process
<1>3. ASSUME NEW n \in Saves, Saving(n) PROVE Lifetimes'
  <2>1. CASE OpenTmp(n)
    BY <2>1 DEF OpenTmp, proc, Types, Lifetimes
  <2>2. CASE WriteFirst(n)
    BY <2>2 DEF WriteFirst, proc, Lifetimes
  <2>3. CASE WriteSecond(n)
    BY <2>3 DEF WriteSecond, proc, Lifetimes
  <2>4. CASE Rename(n)
    BY <2>4 DEF Rename, proc, Lifetimes, Unused
  <2>5. CASE SaveFails(n)
    BY <2>5 DEF SaveFails, proc, Lifetimes, Unused
  <2>6. QED
    BY <1>3, <2>1, <2>2, <2>3, <2>4, <2>5 DEF Saving
<1>4. QED
  BY <1>1, <1>2, <1>3 DEF Next, Process, Saving

\* Every step keeps the PID file with the process that wrote it.
LEMMA NamedNext == Types /\ Lifetimes /\ Named /\ [Next]_vars => Named'
<1> SUFFICES ASSUME Types, Lifetimes, Named, [Next]_vars PROVE Named'
  OBVIOUS
<1>1. CASE UNCHANGED vars
  BY <1>1 DEF vars, Named, Past, Holds
<1>2. ASSUME NEW p \in Procs, Process(p) PROVE Named'
  <2>1. CASE Start(p)
    BY <2>1 DEF Start, Goto, Named, Past, Holds
  <2>2. CASE Sweep(p)
    BY <2>2 DEF Sweep, Goto, Named, Past, Holds
  <2>3. CASE ReadPID(p)
    <3>1. ~raced' => ~raced /\ \A q \in Procs : pc[q] \notin {"stale", "write"}
      BY <2>3, Zenon DEF ReadPID
    <3>2. pc' = [pc EXCEPT ![p] = "dead"] \/ pidfile = None \/ ~Alive(pidfile)
      BY <2>3 DEF ReadPID, Die, Goto
    <3>3. \E to \in {"dead", "stale", "write"} : pc' = [pc EXCEPT ![p] = to]
      BY <2>3 DEF ReadPID, Die, Goto
    <3>4. QED
      BY <2>3, <3>1, <3>2, <3>3, NoneAssumption DEF ReadPID, Named, Past, Holds, Alive
  <2>4. CASE RemoveStalePID(p)
    BY <2>4 DEF RemoveStalePID, Goto, Named, Past, Holds
  <2>5. CASE WritePID(p)
    BY <2>5 DEF WritePID, Goto, Named, Past, Holds
  <2>6. CASE Listen(p)
    BY <2>6 DEF Listen, Goto, Named, Past, Holds
  <2>7. CASE ListenFails(p)
    BY <2>7 DEF ListenFails, Goto, Die, Types, Named, Past, Holds
  <2>8. CASE Signal(p)
    BY <2>8 DEF Signal, Goto, Named, Past, Holds
  <2>9. CASE ControlShutdown(p)
    BY <2>9 DEF ControlShutdown, Goto, StartSave, proc, Named, Past, Holds
  <2>10. CASE Acknowledge(p)
    BY <2>10 DEF Acknowledge, Goto, Named, Past, Holds
  <2>11. CASE CloseListener(p)
    BY <2>11 DEF CloseListener, Goto, Named, Past, Holds
  <2>12. CASE RemoveSocket(p)
    BY <2>12 DEF RemoveSocket, Goto, Named, Past, Holds
  <2>13. CASE RemovePID(p)
    BY <2>13 DEF RemovePID, Goto, Die, Types, Named, Past, Holds
  <2>14. CASE Exit(p)
    BY <2>14 DEF Exit, Goto, Die, Named, Past, Holds
  <2>15. CASE Crash(p)
    BY <2>15 DEF Crash, Goto, Die, Named, Past, Holds
  <2>16. CASE Tick(p)
    BY <2>16 DEF Tick, StartSave, proc, Named, Past, Holds
  <2>17. QED
    BY <1>2, <2>1, <2>2, <2>3, <2>4, <2>5, <2>6, <2>7, <2>8, <2>9, <2>10, <2>11, <2>12, <2>13,
       <2>14, <2>15, <2>16 DEF Process
<1>3. ASSUME NEW n \in Saves, Saving(n) PROVE Named'
  <2>1. CASE OpenTmp(n)
    BY <2>1 DEF OpenTmp, proc, Named, Past, Holds
  <2>2. CASE WriteFirst(n)
    BY <2>2 DEF WriteFirst, proc, Named, Past, Holds
  <2>3. CASE WriteSecond(n)
    BY <2>3 DEF WriteSecond, proc, Named, Past, Holds
  <2>4. CASE Rename(n)
    BY <2>4 DEF Rename, proc, Named, Past, Holds
  <2>5. CASE SaveFails(n)
    BY <2>5 DEF SaveFails, proc, Named, Past, Holds
  <2>6. QED
    BY <1>3, <2>1, <2>2, <2>3, <2>4, <2>5 DEF Saving
<1>4. QED
  BY <1>1, <1>2, <1>3 DEF Next, Process, Saving

\* Every step keeps the socket of a daemon that serves, or records who has lost it.
LEMMA ReachableNext == Types /\ Reachable /\ [Next]_vars => Reachable'
<1> SUFFICES ASSUME Types, Reachable, [Next]_vars PROVE Reachable'
  OBVIOUS
<1>1. CASE UNCHANGED vars
  BY <1>1 DEF vars, Reachable, Serving
<1>2. ASSUME NEW p \in Procs, Process(p) PROVE Reachable'
  <2>1. CASE Start(p)
    BY <2>1 DEF Start, Goto, Reachable, Serving
  <2>2. CASE Sweep(p)
    BY <2>2 DEF Sweep, Goto, Reachable, Serving
  <2>3. CASE ReadPID(p)
    BY <2>3 DEF ReadPID, Goto, Die, Types, Reachable, Serving
  <2>4. CASE RemoveStalePID(p)
    BY <2>4 DEF RemoveStalePID, Goto, Reachable, Serving
  <2>5. CASE WritePID(p)
    BY <2>5 DEF WritePID, Goto, Reachable, Serving
  <2>6. CASE Listen(p)
    BY <2>6, NoneAssumption DEF Listen, Goto, Reachable, Serving
  <2>7. CASE ListenFails(p)
    BY <2>7 DEF ListenFails, Goto, Die, Reachable, Serving
  <2>8. CASE Signal(p)
    BY <2>8 DEF Signal, Goto, Reachable, Serving
  <2>9. CASE ControlShutdown(p)
    BY <2>9 DEF ControlShutdown, Goto, StartSave, proc, Reachable, Serving
  <2>10. CASE Acknowledge(p)
    BY <2>10 DEF Acknowledge, Goto, Reachable, Serving
  <2>11. CASE CloseListener(p)
    BY <2>11 DEF CloseListener, Goto, Reachable, Serving
  <2>12. CASE RemoveSocket(p)
    BY <2>12 DEF RemoveSocket, Goto, Reachable, Serving
  <2>13. CASE RemovePID(p)
    BY <2>13 DEF RemovePID, Goto, Die, Reachable, Serving
  <2>14. CASE Exit(p)
    BY <2>14 DEF Exit, Goto, Die, Reachable, Serving
  <2>15. CASE Crash(p)
    BY <2>15 DEF Crash, Goto, Die, Reachable, Serving
  <2>16. CASE Tick(p)
    BY <2>16 DEF Tick, StartSave, proc, Reachable, Serving
  <2>17. QED
    BY <1>2, <2>1, <2>2, <2>3, <2>4, <2>5, <2>6, <2>7, <2>8, <2>9, <2>10, <2>11, <2>12, <2>13,
       <2>14, <2>15, <2>16 DEF Process
<1>3. ASSUME NEW n \in Saves, Saving(n) PROVE Reachable'
  <2>1. CASE OpenTmp(n)
    BY <2>1 DEF OpenTmp, proc, Reachable, Serving
  <2>2. CASE WriteFirst(n)
    BY <2>2 DEF WriteFirst, proc, Reachable, Serving
  <2>3. CASE WriteSecond(n)
    BY <2>3 DEF WriteSecond, proc, Reachable, Serving
  <2>4. CASE Rename(n)
    BY <2>4 DEF Rename, proc, Reachable, Serving
  <2>5. CASE SaveFails(n)
    BY <2>5 DEF SaveFails, proc, Reachable, Serving
  <2>6. QED
    BY <1>3, <2>1, <2>2, <2>3, <2>4, <2>5 DEF Saving
<1>4. QED
  BY <1>1, <1>2, <1>3 DEF Next, Process, Saving

\* Every step keeps the inodes of saves apart.
LEMMA InodesNext == Types /\ Inodes /\ [Next]_vars => Inodes'
<1> SUFFICES ASSUME Types, Inodes, [Next]_vars PROVE Inodes'
  OBVIOUS
<1>1. CASE UNCHANGED vars
  BY <1>1 DEF vars, Inodes
<1>2. ASSUME NEW p \in Procs, Process(p) PROVE Inodes'
  <2>1. CASE Start(p)
    BY <2>1 DEF Start, files, Inodes
  <2>2. CASE Sweep(p)
    BY <2>2 DEF Sweep, files, Inodes
  <2>3. CASE ReadPID(p)
    BY <2>3, SavesAssumption DEF ReadPID, Goto, Die, files, Killed, Types, SaveState, Saves,
       Inodes, Unused
  <2>4. CASE RemoveStalePID(p)
    BY <2>4 DEF RemoveStalePID, files, Inodes
  <2>5. CASE WritePID(p)
    BY <2>5 DEF WritePID, files, Inodes
  <2>6. CASE Listen(p)
    BY <2>6 DEF Listen, files, Inodes
  <2>7. CASE ListenFails(p)
    BY <2>7 DEF ListenFails, Die, Killed, Types, Inodes, Unused
  <2>8. CASE Signal(p)
    BY <2>8 DEF Signal, files, Inodes
  <2>9. CASE ControlShutdown(p)
    BY <2>9 DEF ControlShutdown, StartSave, Types, Saves, Inodes
  <2>10. CASE Acknowledge(p)
    BY <2>10 DEF Acknowledge, files, Inodes
  <2>11. CASE CloseListener(p)
    BY <2>11 DEF CloseListener, files, Inodes
  <2>12. CASE RemoveSocket(p)
    BY <2>12 DEF RemoveSocket, files, Inodes
  <2>13. CASE RemovePID(p)
    BY <2>13 DEF RemovePID, Die, Killed, Types, Inodes, Unused
  <2>14. CASE Exit(p)
    BY <2>14 DEF Exit, Die, Killed, Types, Inodes, Unused
  <2>15. CASE Crash(p)
    BY <2>15 DEF Crash, Die, Killed, Types, Inodes, Unused
  <2>16. CASE Tick(p)
    BY <2>16 DEF Tick, StartSave, Types, Saves, Inodes
  <2>17. QED
    BY <1>2, <2>1, <2>2, <2>3, <2>4, <2>5, <2>6, <2>7, <2>8, <2>9, <2>10, <2>11, <2>12, <2>13,
       <2>14, <2>15, <2>16 DEF Process
<1>3. ASSUME NEW n \in Saves, Saving(n) PROVE Inodes'
  <2>1. CASE OpenTmp(n)
    BY <2>1 DEF OpenTmp, Types, Saves, Inodes
  <2>2. CASE WriteFirst(n)
    BY <2>2 DEF WriteFirst, Inodes
  <2>3. CASE WriteSecond(n)
    BY <2>3 DEF WriteSecond, Inodes
  <2>4. CASE Rename(n)
    BY <2>4 DEF Rename, Types, Inodes, Unused
  <2>5. CASE SaveFails(n)
    BY <2>5 DEF SaveFails, Types, Inodes, Unused
  <2>6. QED
    BY <1>3, <2>1, <2>2, <2>3, <2>4, <2>5 DEF Saving
<1>4. QED
  BY <1>1, <1>2, <1>3 DEF Next, Process, Saving

\* Every step keeps the snapshot whole and a file with the save that writes it.
LEMMA WrittenNext == Types /\ Inodes /\ Written /\ [Next]_vars => Written'
<1> SUFFICES ASSUME Types, Inodes, Written, [Next]_vars PROVE Written'
  OBVIOUS
<1>1. CASE UNCHANGED vars
  BY <1>1 DEF vars, Written
<1>2. ASSUME NEW p \in Procs, Process(p) PROVE Written'
  <2>1. CASE Start(p)
    BY <2>1 DEF Start, files, Written
  <2>2. CASE Sweep(p)
    BY <2>2 DEF Sweep, files, Written
  <2>3. CASE ReadPID(p)
    BY <2>3 DEF ReadPID, Die, files, Killed, Written, Unused
  <2>4. CASE RemoveStalePID(p)
    BY <2>4 DEF RemoveStalePID, files, Written
  <2>5. CASE WritePID(p)
    BY <2>5 DEF WritePID, files, Written
  <2>6. CASE Listen(p)
    BY <2>6 DEF Listen, files, Written
  <2>7. CASE ListenFails(p)
    BY <2>7 DEF ListenFails, Die, Killed, Written, Unused
  <2>8. CASE Signal(p)
    BY <2>8 DEF Signal, files, Written
  <2>9. CASE ControlShutdown(p)
    BY <2>9 DEF ControlShutdown, StartSave, Written
  <2>10. CASE Acknowledge(p)
    BY <2>10 DEF Acknowledge, files, Written
  <2>11. CASE CloseListener(p)
    BY <2>11 DEF CloseListener, files, Written
  <2>12. CASE RemoveSocket(p)
    BY <2>12 DEF RemoveSocket, files, Written
  <2>13. CASE RemovePID(p)
    BY <2>13 DEF RemovePID, Die, Killed, Written, Unused
  <2>14. CASE Exit(p)
    BY <2>14 DEF Exit, Die, Killed, Written, Unused
  <2>15. CASE Crash(p)
    BY <2>15 DEF Crash, Die, Killed, Written, Unused
  <2>16. CASE Tick(p)
    BY <2>16 DEF Tick, StartSave, Written
  <2>17. QED
    BY <1>2, <2>1, <2>2, <2>3, <2>4, <2>5, <2>6, <2>7, <2>8, <2>9, <2>10, <2>11, <2>12, <2>13,
       <2>14, <2>15, <2>16 DEF Process
<1>3. ASSUME NEW n \in Saves, Saving(n) PROVE Written'
  <2>1. CASE OpenTmp(n)
    BY <2>1 DEF OpenTmp, Types, SaveState, Inodes, Written
  <2>2. CASE WriteFirst(n)
    BY <2>2 DEF WriteFirst, Writes, Types, Inodes, Written
  <2>3. CASE WriteSecond(n)
    BY <2>3 DEF WriteSecond, Writes, Types, Inodes, Written
  <2>4. CASE Rename(n)
    BY <2>4 DEF Rename, Types, Saves, Inodes, Written, Unused
  <2>5. CASE SaveFails(n)
    BY <2>5 DEF SaveFails, Types, Inodes, Written, Unused
  <2>6. QED
    BY <1>3, <2>1, <2>2, <2>3, <2>4, <2>5 DEF Saving
<1>4. QED
  BY <1>1, <1>2, <1>3 DEF Next, Process, Saving

\* The inductive invariant holds in every reachable state.
LEMMA Inductive == Spec => []Inv
<1>1. Inv /\ [Next]_vars => Inv'
  BY TypesNext, LifetimesNext, NamedNext, ReachableNext, InodesNext, WrittenNext DEF Inv
<1>2. QED
  BY InvInit, <1>1, PTL DEF Spec

-------------------------------------------------------------------------------
\* The variables keep the types the code gives them.
THEOREM TypeCorrect == Spec => []TypeOK
<1>1. Inv => TypeOK
  BY DEF Inv, Types, States, SaveState, Lifetimes, TypeOK
<1>2. QED
  BY <1>1, Inductive, PTL

\* However many processes start, stop and crash around one socket, a daemon that
\* serves is named by the PID file and has its socket, with the exemptions of
\* ServingIsNamed (Server.Listen, writePIDFile, Server.Shutdown).
THEOREM ServingNamed == Spec => []ServingIsNamed
<1>1. Inv => ServingIsNamed
  BY DEF Inv, Named, Reachable, ServingIsNamed, Holds, Serving
<1>2. QED
  BY <1>1, Inductive, PTL

\* However many saves run, fail or are killed, the snapshot on disk is whole,
\* unless two of them had one .tmp file open (saveSnapshot).
THEOREM SnapshotIsWhole == Spec => []SnapshotWhole
<1>1. Inv => SnapshotWhole
  BY DEF Inv, Written, SnapshotWhole
<1>2. QED
  BY <1>1, Inductive, PTL
===============================================================================
