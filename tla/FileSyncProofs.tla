---------------------------- MODULE FileSyncProofs ----------------------------
(***************************************************************************)
(* Proofs about FileSync, for any set of files, any threshold and any      *)
(* number of edits, lost events, failures and ticks: the last word on      *)
(* a file is never lost on its way through the queue, the timers, the      *)
(* storm batch and the goroutines; and the janitor repairs what lost       *)
(* events and failed patches left wrong.                                   *)
(*                                                                         *)
(* First the invariant and the queue; then the steps of a goroutine, the   *)
(* start of one, the loop of the watcher, and the file system.             *)
(***************************************************************************)
EXTENDS FileSync, TLAPS

Event == [file : Files, job : {"index", "evict"}]

StormState == [active : BOOLEAN, batch : [Files -> {"none", "index", "evict"}],
               timer : BOOLEAN, recent : 0 .. StormThreshold + 1]

\* The types of the variables; versions and mtimes are of edits that were made.
Types ==
    /\ budget \in Budgets
    /\ edits \in 0 .. budget.edits
    /\ disk \in [Files -> 0 .. edits + 1]
    /\ queue \in Seq(Event)
    /\ deciding \in BOOLEAN
    /\ pending \in [Files -> Workers \cup {0}]
    /\ storm \in StormState
    /\ work \in [Workers -> Worker]
    /\ graph \in [Files -> SUBSET Versions]
    /\ mtimes \in [Files -> 0 .. edits + 1]
    /\ lost \in 0 .. budget.lost
    /\ scans \in 0 .. budget.scans
    /\ faults \in 0 .. budget.faults
    /\ heal \in {"none", "running", "done"}
    /\ raced \in SUBSET Files
    /\ torn \in SUBSET Files
    /\ failed \in SUBSET Files

\* The storm mode: there is none without a threshold, and outside of it the
\* batch is empty and the event times are within the threshold.
Threshold ==
    /\ deciding => queue # <<>> /\ StormThreshold > 0
    /\ storm.active => StormThreshold > 0
    /\ ~storm.active => storm.batch = NoJobs
    /\ ~storm.active /\ ~deciding => storm.recent <= StormThreshold

\* The workers come into being in order, and there are enough of them.
Enough(n) ==
    /\ \A w \in Workers : work[w].role # "unused" <=> w <= n
    /\ Len(queue) + n + (IF storm.batch = NoJobs THEN 0 ELSE 1) <= edits + scans

Counted == \E n \in Nat : Enough(n)

\* What a worker in each role has to do.
Shape(w) ==
    /\ work[w].role = "unused" => work[w].file = NoFile /\ work[w].pc = "idle"
    /\ work[w].role \in {"armed", "patch"} =>
          /\ work[w].path \in Files
          /\ \A g \in Files : g # work[w].path => work[w].todo[g] = "none"
    /\ work[w].role = "armed" => work[w].todo[work[w].path] \in {"index", "evict"}
    /\ work[w].pc # "idle" => Running(w)
    /\ work[w].pc = "idle" <=> work[w].file = NoFile
    /\ work[w].pc \in {"read", "add", "stat"} => work[w].todo[work[w].file] = "index"
    /\ work[w].pc = "forget" => work[w].todo[work[w].file] = "purge"
    /\ work[w].pc \in {"add", "stat"} => work[w].ver # 0
    /\ work[w].role = "janitor" => \A g \in Files : work[w].todo[g] # "evict"
    /\ work[w].role # "janitor" =>
          \A g \in Files : work[w].todo[g] \notin {"walk", "absent", "purge"}
    /\ (work[w].pc # "idle" \/ \E g \in Files : work[w].todo[g] = "purge") =>
          \A g \in Files : work[w].todo[g] \notin {"walk", "absent"}

Shapes == \A w \in Workers : Shape(w)

\* A pending entry names a timer of its path that has not been stopped.
Timers ==
    \A f \in Files : pending[f] # 0 =>
        work[pending[f]].path = f /\ work[pending[f]].role \in {"armed", "patch"}

Armed(f, w) == work[w].role = "armed" /\ work[w].path = f

Holds(w, f) == Running(w) /\ Has(work[w].todo, f)

\* No goroutine is going to touch f, unless it still finds f on record as deleted.
Idle(f) == \A w \in Workers : Holds(w, f) => work[w].todo[f] = "absent"

\* One goroutine, and one timer or batch, for a file that is not raced for.
Alone(f) ==
    /\ \A v, w \in Workers : Holds(v, f) /\ Holds(w, f) => v = w
    /\ \A w \in Workers : Armed(f, w) => pending[f] = w
    /\ storm.batch[f] # "none" => \A w \in Workers : ~Armed(f, w)

\* The sequence q has an event of f; the last one is a deletion.
Names(q, f) == \E i \in 1 .. Len(q) : q[i].file = f

EndsGone(q, f) ==
    \E i \in 1 .. Len(q) : /\ q[i].file = f /\ q[i].job = "evict"
                           /\ \A j \in 1 .. Len(q) : j > i => q[j].file # f

\* There still is a word on f to come.
Due(f) == Names(queue, f) \/ storm.batch[f] # "none" \/ \E w \in Workers : Armed(f, w)

\* Where w is with f, if nothing changed on disk since it began.
Phase(w, f) ==
    /\ work[w].pc \in {"read", "forget"} => graph[f] = {}
    /\ work[w].pc = "add" => graph[f] = {} /\ work[w].ver = disk[f]
    /\ work[w].pc = "stat" => graph[f] = {disk[f]} /\ disk[f] # 0

\* The last word on f that is still to come, if it is a deletion, is true, and
\* if none is to come, the goroutine that has f is at it, or f is in sync.
LastWord(f) ==
    /\ EndsGone(queue, f) => disk[f] = 0
    /\ ~Names(queue, f) /\ storm.batch[f] = "evict" => disk[f] = 0
    /\ ~Names(queue, f) =>
          \A w \in Workers : Armed(f, w) /\ work[w].todo[f] = "evict" => disk[f] = 0
    /\ ~Due(f) =>
          /\ \A w \in Workers : Holds(w, f) =>
                /\ work[w].todo[f] \in {"evict", "absent", "purge"} => disk[f] = 0
                /\ work[w].file = f => Phase(w, f)
          /\ Idle(f) => InSync(f) \/ f \in failed

\* A recorded mtime is that of the version in the graph, or not the file's.
Honest(f) ==
    /\ \A w \in Workers : work[w].file = f => Phase(w, f)
    /\ (\A w \in Workers : work[w].file # f) =>
          graph[f] = {mtimes[f]} \ {0} \/ (graph[f] = {} /\ mtimes[f] # disk[f])

\* An undisturbed janitor has put right what it has no job left for.
Mending(w, f) ==
    /\ work[w].todo[f] = "none" => InSync(f)
    /\ work[w].todo[f] \in {"absent", "purge"} => disk[f] = 0
    /\ work[w].todo[f] # "evict"

Healing ==
    /\ \A v, w \in Workers : work[v].role = "janitor" /\ work[w].role = "janitor" => v = w
    /\ heal # "none" => queue = <<>> /\ storm.batch = NoJobs /\ ~storm.timer
    /\ heal = "running" =>
          \A w \in Workers : /\ work[w].role \in {"unused", "done", "janitor"}
                             /\ work[w].role = "janitor" =>
                                   \A f \in Files \ (raced \cup torn) : Mending(w, f)
    /\ heal = "done" => /\ \A w \in Workers : work[w].role \in {"unused", "done"}
                        /\ \A f \in Files \ (raced \cup torn) : InSync(f)

Inv ==
    /\ Types /\ Threshold /\ Counted /\ Shapes /\ Timers
    /\ \A f \in Files \ raced : Alone(f) /\ (lost = 0 => LastWord(f))
    /\ \A f \in Files \ (raced \cup torn) : Honest(f)
    /\ Healing

-------------------------------------------------------------------------------
(* The queue                                                                 *)

\* Taking the first event from the queue.
LEMMA TailFacts ==
    ASSUME NEW q \in Seq(Event), q # <<>>
    PROVE  /\ Tail(q) \in Seq(Event) /\ Len(Tail(q)) = Len(q) - 1 /\ Len(q) \in Nat /\ Len(q) > 0
           /\ Head(q) = q[1] /\ Head(q) \in Event
           /\ \A i \in 1 .. Len(q) - 1 : Tail(q)[i] = q[i + 1]
  OBVIOUS

\* What is left of the words on f when the first event is taken; if it was the
\* last word, and a deletion, the queue ended with one.
LEMMA NamesTail ==
    ASSUME NEW q \in Seq(Event), q # <<>>, NEW f
    PROVE  /\ Names(q, f) <=> Names(Tail(q), f) \/ Head(q).file = f
           /\ EndsGone(Tail(q), f) => EndsGone(q, f)
           /\ ~Names(Tail(q), f) /\ Head(q).file = f /\ Head(q).job = "evict" => EndsGone(q, f)
  <1> DEFINE p == Tail(q)
  <1>1. /\ Len(p) = Len(q) - 1 /\ Len(q) \in Nat /\ Len(q) > 0 /\ Head(q) = q[1]
        /\ \A i \in 1 .. Len(q) - 1 : p[i] = q[i + 1]
    BY TailFacts
  <1>2. \A j \in 1 .. Len(q) : j = 1 \/ (j - 1 \in 1 .. Len(p) /\ q[j] = p[j - 1])
    BY <1>1
  <1> HIDE DEF p
  <1>3. Names(q, f) => Names(p, f) \/ Head(q).file = f
    BY <1>1, <1>2 DEF Names
  <1>4. Names(p, f) \/ Head(q).file = f => Names(q, f)
    <2>1. CASE Head(q).file = f  BY <1>1, <2>1 DEF Names
    <2>2. CASE Names(p, f)
      <3>1. PICK i \in 1 .. Len(p) : p[i].file = f  BY <2>2 DEF Names
      <3>2. i + 1 \in 1 .. Len(q) /\ q[i + 1].file = f  BY <1>1, <3>1
      <3> QED  BY <3>2 DEF Names
    <2> QED  BY <2>1, <2>2
  <1>5. ASSUME EndsGone(p, f) PROVE EndsGone(q, f)
    <2>1. PICK i \in 1 .. Len(p) : /\ p[i].file = f /\ p[i].job = "evict"
                                   /\ \A j \in 1 .. Len(p) : j > i => p[j].file # f
      BY <1>5 DEF EndsGone
    <2>2. i + 1 \in 1 .. Len(q) /\ q[i + 1] = p[i]  BY <1>1
    <2>3. ASSUME NEW j \in 1 .. Len(q), j > i + 1 PROVE q[j].file # f
      <3>1. j - 1 \in 1 .. Len(p) /\ q[j] = p[j - 1] /\ j - 1 > i  BY <1>2, <2>3
      <3> QED  BY <2>1, <3>1
    <2> QED  BY <2>1, <2>2, <2>3 DEF EndsGone
  <1>6. ASSUME ~Names(p, f), Head(q).file = f, Head(q).job = "evict" PROVE EndsGone(q, f)
    <2>1. 1 \in 1 .. Len(q) /\ q[1].file = f /\ q[1].job = "evict"  BY <1>1, <1>6
    <2>2. ASSUME NEW j \in 1 .. Len(q), j > 1 PROVE q[j].file # f
      <3>1. j - 1 \in 1 .. Len(p) /\ q[j] = p[j - 1]  BY <1>2, <2>2
      <3> QED  BY <1>6, <3>1 DEF Names
    <2> QED  BY <2>1, <2>2 DEF EndsGone
  <1> QED  BY <1>3, <1>4, <1>5, <1>6 DEF p

\* An event of f is the last word on f.
LEMMA NamesAppend ==
    ASSUME NEW q \in Seq(Event), NEW e \in Event, NEW f
    PROVE  /\ Append(q, e) \in Seq(Event) /\ Len(Append(q, e)) = Len(q) + 1
           /\ Names(Append(q, e), f) <=> Names(q, f) \/ e.file = f
           /\ EndsGone(Append(q, e), f) =>
                 (e.file = f /\ e.job = "evict") \/ (e.file # f /\ EndsGone(q, f))
  <1> DEFINE p == Append(q, e)
  <1>1. /\ p \in Seq(Event) /\ Len(p) = Len(q) + 1 /\ Len(q) \in Nat
        /\ \A i \in 1 .. Len(q) : p[i] = q[i]
        /\ p[Len(q) + 1] = e
    OBVIOUS
  <1> HIDE DEF p
  <1>2. Names(p, f) <=> Names(q, f) \/ e.file = f
    <2>1. \A i \in 1 .. Len(p) : i \in 1 .. Len(q) \/ i = Len(q) + 1  BY <1>1
    <2>2. \A i \in 1 .. Len(q) : i \in 1 .. Len(p)  BY <1>1
    <2>3. Len(q) + 1 \in 1 .. Len(p)  BY <1>1
    <2> QED  BY <1>1, <2>1, <2>2, <2>3 DEF Names
  <1>3. ASSUME EndsGone(p, f)
        PROVE  (e.file = f /\ e.job = "evict") \/ (e.file # f /\ EndsGone(q, f))
    <2>1. PICK i \in 1 .. Len(p) : /\ p[i].file = f /\ p[i].job = "evict"
                                   /\ \A j \in 1 .. Len(p) : j > i => p[j].file # f
      BY <1>3 DEF EndsGone
    <2>2. CASE i = Len(q) + 1  BY <1>1, <2>1, <2>2
    <2>3. CASE i # Len(q) + 1
      <3>1. i \in 1 .. Len(q) /\ p[i] = q[i] /\ Len(q) + 1 \in 1 .. Len(p) /\ Len(q) + 1 > i
        BY <1>1, <2>3
      <3>2. e.file # f  BY <1>1, <2>1, <3>1
      <3>3. \A j \in 1 .. Len(q) : j \in 1 .. Len(p) /\ p[j] = q[j]  BY <1>1
      <3>4. EndsGone(q, f)  BY <2>1, <3>1, <3>3 DEF EndsGone
      <3> QED  BY <3>2, <3>4
    <2> QED  BY <2>2, <2>3
  <1> QED  BY <1>1, <1>2, <1>3 DEF p

\* The workers are used in order.
LEMMA NextWorkerIs ==
    ASSUME NEW n \in Workers, \A w \in Workers : work[w].role # "unused" <=> w < n
    PROVE  NextWorker = n
  <1> DEFINE First(w) == work[w].role = "unused" /\ \A v \in 1 .. w - 1 : work[v].role # "unused"
  <1>1. n \in Nat /\ First(n)
    BY MaxAssumption DEF Workers
  <1>2. ASSUME NEW w \in Workers, First(w) PROVE w = n
    <2>1. w \in Nat /\ n \in Nat /\ ~(w < n)  BY <1>2, MaxAssumption DEF Workers
    <2>2. ~(n < w)
      <3>1. SUFFICES ASSUME n < w PROVE FALSE  OBVIOUS
      <3>2. n \in 1 .. w - 1  BY <2>1, <3>1, MaxAssumption DEF Workers
      <3> QED  BY <1>1, <1>2, <3>2
    <2> QED  BY <2>1, <2>2
  <1>3. NextWorker = CHOOSE w \in Workers : First(w)  BY DEF NextWorker
  <1> QED  BY <1>1, <1>2, <1>3

-------------------------------------------------------------------------------
(* The steps of a goroutine                                                  *)

\* The workers other than w.
OthersKept(w) == \A v \in Workers : v # w => work'[v] = work[v]

\* What the steps that only work on one file leave alone.
Quiet ==
    /\ UNCHANGED <<budget, disk, edits, queue, deciding, pending, storm, lost, scans, raced>>
    /\ heal' \in {heal, "none"}

\* w does a step of its job on f and no other file is concerned.
OnJob(w, f) ==
    /\ work'[w].todo[f] \in {work[w].todo[f], "none"}
    /\ OthersKept(w)
    /\ work'[w].role = work[w].role /\ work'[w].path = work[w].path
    /\ work[w].file \in {NoFile, f} /\ work'[w].file \in {NoFile, f}
    /\ \A g \in Files : g # f => /\ work'[w].todo[g] = work[w].todo[g]
                                 /\ graph'[g] = graph[g] /\ mtimes'[g] = mtimes[g]
                                 /\ g \in torn' <=> g \in torn
                                 /\ g \in failed' <=> g \in failed
    /\ torn \subseteq torn'

\* A step of goroutine w at its job on f keeps the invariant if it keeps what the
\* invariant says of w and f.
LEMMA JobStep ==
    ASSUME Inv, NEW w \in Workers, NEW f \in Files, Holds(w, f), OnJob(w, f), Quiet,
           Types', Shape(w)',
           Alone(f) /\ lost = 0 /\ LastWord(f) => LastWord(f)',
           f \notin raced /\ f \notin torn' => Honest(f)',
           heal' = "running" /\ work[w].role = "janitor" /\ f \notin raced /\ f \notin torn'
              => Mending(w, f)'
    PROVE  Inv'
  <1>0. f # NoFile /\ Running(w) /\ work[w].role \in {"patch", "drain", "janitor"}
    BY NoFileAssumption DEF Holds, Has, Running
  <1>1. \A v \in Workers : work'[v].role = work[v].role /\ work'[v].path = work[v].path
    BY DEF OnJob, OthersKept
  <1>2. Threshold'
    BY DEF Inv, Threshold, Quiet, NoJobs
  <1>3. Counted'
    BY <1>1 DEF Inv, Counted, Enough, Quiet, NoJobs
  <1>4. Shapes'
    BY <1>1 DEF Inv, Shapes, Shape, Running, OnJob, OthersKept
  <1>5. Timers'
    <2>1. \A g \in Files : pending[g] # 0 => pending[g] \in Workers  BY DEF Inv, Types
    <2>2. pending' = pending  BY DEF Quiet
    <2> QED  BY <1>1, <2>1, <2>2 DEF Inv, Timers
  <1>6. /\ \A v \in Workers, g \in Files : Holds(v, g)' => Holds(v, g)
        /\ \A v \in Workers, g \in Files : Armed(g, v)' <=> Armed(g, v)
        /\ \A v \in Workers, g \in Files : g # f => (Holds(v, g)' <=> Holds(v, g))
        /\ \A v \in Workers, g \in Files : g # f => (work'[v].file = g <=> work[v].file = g)
    BY <1>0, <1>1, NoFileAssumption DEF Holds, Has, Armed, Running, OnJob, OthersKept
  <1>7. ASSUME NEW g \in Files, g \notin raced' PROVE Alone(g)'
    <2>1. Alone(g)  BY <1>7 DEF Inv, Quiet
    <2> QED  BY <1>6, <2>1 DEF Alone, Quiet
  <1>8. ASSUME NEW g \in Files, g \notin raced', lost' = 0 PROVE LastWord(g)'
    <2>1. Alone(g) /\ LastWord(g) /\ lost = 0  BY <1>8 DEF Inv, Quiet
    <2>2. CASE g = f  BY <2>1, <2>2
    <2>3. CASE g # f
      <3>1. \A v \in Workers : /\ work'[v].todo[g] = work[v].todo[g]
                               /\ work[v].file = g => work'[v] = work[v]
                               /\ work'[v].file = g => work'[v] = work[v]
        BY <1>0, <2>3, NoFileAssumption DEF OnJob, OthersKept
      <3>2. graph'[g] = graph[g]  BY <2>3 DEF OnJob
      <3>3. Due(g)' <=> Due(g)  BY <1>6 DEF Due, Quiet
      <3>4. \A v \in Workers : work[v].file = g /\ Phase(v, g) => Phase(v, g)'
        BY <3>1, <3>2 DEF Phase, Quiet
      <3>5. InSync(g) => InSync(g)'  BY <3>2 DEF InSync, Quiet
      <3>8. (Idle(g)' => Idle(g)) /\ (g \in failed' <=> g \in failed)
        BY <1>6, <2>3, <3>1 DEF Idle, OnJob
      <3>6. ~Due(g)' =>
              /\ \A v \in Workers : Holds(v, g)' =>
                    /\ work'[v].todo[g] \in {"evict", "absent", "purge"} => disk'[g] = 0
                    /\ work'[v].file = g => Phase(v, g)'
              /\ Idle(g)' => InSync(g)' \/ g \in failed'
        BY <1>6, <2>1, <2>3, <3>1, <3>3, <3>4, <3>5, <3>8 DEF LastWord, Quiet
      <3>7. /\ EndsGone(queue, g)' => disk'[g] = 0
            /\ ~Names(queue, g)' /\ storm'.batch[g] = "evict" => disk'[g] = 0
            /\ ~Names(queue, g)' =>
                 \A v \in Workers : Armed(g, v)' /\ work'[v].todo[g] = "evict" => disk'[g] = 0
        BY <1>6, <2>1, <3>1 DEF LastWord, Quiet
      <3> QED  BY <3>6, <3>7 DEF LastWord
    <2> QED  BY <2>2, <2>3
  <1>9. ASSUME NEW g \in Files, g \notin raced', g \notin torn' PROVE Honest(g)'
    <2>1. CASE g = f  BY <1>9, <2>1 DEF Quiet
    <2>2. CASE g # f
      <3>1. Honest(g)  BY <1>9, <2>2 DEF Inv, Quiet, OnJob
      <3>2. \A v \in Workers : work'[v].file = g => work'[v] = work[v]
        BY <1>0, <2>2, NoFileAssumption DEF OnJob, OthersKept
      <3>3. graph'[g] = graph[g] /\ mtimes'[g] = mtimes[g] /\ disk' = disk
        BY <2>2 DEF OnJob, Quiet
      <3> QED  BY <1>6, <2>2, <3>1, <3>2, <3>3 DEF Honest, Phase
    <2> QED  BY <2>1, <2>2
  <1>10. Healing'
    <2>1. /\ queue' = queue /\ storm' = storm /\ heal' \in {heal, "none"} /\ disk' = disk
          /\ raced' = raced /\ torn \subseteq torn'
      BY DEF Quiet, OnJob
    <2>2. heal # "done" /\ heal' # "done" /\ (heal' = "running" => heal = "running")
      BY <1>0, <2>1 DEF Inv, Healing
    <2>3. ASSUME heal' = "running", NEW v \in Workers, work'[v].role = "janitor",
                 NEW g \in Files \ (raced' \cup torn')
          PROVE  Mending(v, g)'
      <3>1. v = w /\ work[w].role = "janitor"  BY <1>0, <1>1, <2>2, <2>3 DEF Inv, Healing
      <3>2. CASE g = f  BY <2>1, <2>3, <3>1, <3>2
      <3>3. CASE g # f
        <4>1. Mending(w, g)  BY <2>1, <2>2, <2>3, <3>1 DEF Inv, Healing
        <4> QED  BY <2>1, <3>1, <3>3, <4>1 DEF Mending, InSync, OnJob
      <3> QED  BY <3>2, <3>3
    <2>4. heal' = "running" =>
            \A v \in Workers : /\ work'[v].role \in {"unused", "done", "janitor"}
                               /\ work'[v].role = "janitor" =>
                                   \A g \in Files \ (raced' \cup torn') : Mending(v, g)'
      BY <1>1, <2>1, <2>2, <2>3 DEF Inv, Healing
    <2>5. heal' # "none" => queue' = <<>> /\ storm'.batch = NoJobs' /\ ~storm'.timer
      BY <2>1 DEF Inv, Healing, NoJobs
    <2> QED  BY <1>1, <2>1, <2>2, <2>4, <2>5 DEF Inv, Healing
  <1> QED  BY <1>2, <1>3, <1>4, <1>5, <1>7, <1>8, <1>9, <1>10 DEF Inv

\* The types of a worker.
LEMMA WorkerFacts ==
    ASSUME Inv, NEW w \in Workers
    PROVE  /\ work \in [Workers -> Worker] /\ work[w] \in Worker /\ Shape(w)
           /\ work[w].todo \in [Files -> Jobs] /\ work[w].file \in Files \cup {NoFile}
  BY DEF Inv, Types, Shapes, Worker

\* Goroutine w is at file f.
LEMMA AtFile ==
    ASSUME Inv, NEW w \in Workers, work[w].pc # "idle"
    PROVE  work[w].file \in Files /\ Holds(w, work[w].file)
  BY WorkerFacts DEF Shape, Holds, Has, Running, Worker

\* A job is done: the worker's fields.
LEMMA JobDoneFacts ==
    ASSUME Inv, NEW w \in Workers, NEW f \in Files, work' = JobDone(w, f)
    PROVE  /\ work' \in [Workers -> Worker] /\ OthersKept(w)
           /\ work'[w].role = work[w].role /\ work'[w].path = work[w].path
           /\ work'[w].file = NoFile /\ work'[w].pc = "idle"
           /\ work'[w].todo[f] = "none"
           /\ \A g \in Files : g # f => work'[w].todo[g] = work[w].todo[g]
  <1>1. work[w] \in Worker /\ work \in [Workers -> Worker]  BY WorkerFacts
  <1> DEFINE r == [work[w] EXCEPT !.todo[f] = "none", !.file = NoFile, !.pc = "idle", !.ver = 0]
  <1>2. /\ r \in Worker /\ r.role = work[w].role /\ r.path = work[w].path
        /\ r.file = NoFile /\ r.pc = "idle" /\ r.todo[f] = "none"
        /\ \A g \in Files : g # f => r.todo[g] = work[w].todo[g]
    BY <1>1 DEF Worker, Jobs
  <1>3. work' = [work EXCEPT ![w] = r]  BY DEF JobDone
  <1> HIDE DEF r
  <1> QED  BY <1>1, <1>2, <1>3 DEF OthersKept

\* After a job the worker is between files.
LEMMA JobDoneShape ==
    ASSUME Inv, NEW w \in Workers, NEW f \in Files, Holds(w, f), work' = JobDone(w, f)
    PROVE  Shape(w)' /\ ~Holds(w, f)'
  <1>1. Shape(w) /\ work[w].role \in {"patch", "drain", "janitor"}
    BY WorkerFacts DEF Holds, Has, Running
  <1>2. \A g \in Files : work'[w].todo[g] \in {work[w].todo[g], "none"}
    BY JobDoneFacts
  <1> QED  BY <1>1, <1>2, JobDoneFacts DEF Shape, Running, Holds, Has

\* If f has no word to come, the one goroutine that had f has done with it.
LEMMA DoneWord ==
    ASSUME Inv, NEW w \in Workers, NEW f \in Files, Holds(w, f), Alone(f), LastWord(f), Quiet,
           work' = JobDone(w, f), ~Due(f) => InSync(f)' \/ f \in failed'
    PROVE  LastWord(f)'
  <1>1. \A v \in Workers : ~Holds(v, f)'
    BY JobDoneFacts, JobDoneShape DEF Alone, Holds, Has, Running, OthersKept
  <1>2. \A v \in Workers : Armed(f, v)' => Armed(f, v) /\ work'[v] = work[v]
    BY JobDoneFacts DEF Holds, Has, Running, Armed, OthersKept
  <1>3. Due(f) => Due(f)'
    BY JobDoneFacts DEF Due, Armed, OthersKept, Quiet, Holds, Has, Running
  <1> QED  BY <1>1, <1>2, <1>3 DEF LastWord, Quiet

\* Only w was at f.
LEMMA OneAtFile ==
    ASSUME Inv, NEW w \in Workers, NEW f \in Files, Holds(w, f), f \notin raced, OthersKept(w)
    PROVE  \A v \in Workers : v # w => work[v].file # f /\ work'[v].file # f
  <1>1. Alone(f)  BY DEF Inv
  <1>2. \A v \in Workers : work[v].file = f => Holds(v, f)
    BY WorkerFacts, AtFile, NoFileAssumption DEF Shape
  <1> QED  BY <1>1, <1>2 DEF Alone, OthersKept

\* When it is done, none is.
LEMMA DoneAtFile ==
    ASSUME Inv, NEW w \in Workers, NEW f \in Files, Holds(w, f), f \notin raced,
           work' = JobDone(w, f)
    PROVE  \A v \in Workers : work'[v].file # f
  BY JobDoneFacts, OneAtFile, NoFileAssumption

\* The janitor forgets the mtime of a file that is gone.
LEMMA ForgetMtimeKeeps ==
    ASSUME Inv, NEW w \in Workers, ForgetMtime(w)
    PROVE  Inv'
  <1>1. PICK f \in Files : f = work[w].file /\ Holds(w, f)  BY AtFile DEF ForgetMtime
  <1>2. /\ work[w].pc = "forget" /\ work' = JobDone(w, f) /\ mtimes' = [mtimes EXCEPT ![f] = 0]
        /\ Quiet /\ graph' = graph /\ torn' = torn /\ failed' = failed /\ faults' = faults
    BY <1>1 DEF ForgetMtime, Quiet
  <1>3. work[w].todo[f] = "purge"  BY <1>1, <1>2, WorkerFacts DEF Shape
  <1>4. OnJob(w, f)
    BY <1>1, <1>2, JobDoneFacts DEF OnJob, Inv, Types
  <1>5. Types'
    BY <1>2, JobDoneFacts DEF Inv, Types, Quiet
  <1>6. Shape(w)'  BY <1>1, <1>2, JobDoneShape
  <1>7. Alone(f) /\ lost = 0 /\ LastWord(f) => LastWord(f)'
    <2>1. LastWord(f) /\ ~Due(f) => InSync(f)'
      BY <1>1, <1>2, <1>3 DEF LastWord, Phase, InSync, Quiet
    <2> QED  BY <1>1, <1>2, <2>1, DoneWord
  <1>8. f \notin raced /\ f \notin torn' => Honest(f)'
    <2>1. SUFFICES ASSUME f \notin raced, f \notin torn PROVE Honest(f)'  BY <1>2
    <2>2. graph'[f] = {}  BY <1>1, <1>2, <2>1 DEF Inv, Honest, Phase
    <2>3. mtimes'[f] = 0  BY <1>2 DEF Inv, Types
    <2>4. \A v \in Workers : work'[v].file # f  BY <1>1, <1>2, <2>1, DoneAtFile
    <2> QED  BY <2>2, <2>3, <2>4 DEF Honest
  <1>9. heal' = "running" /\ work[w].role = "janitor" /\ f \notin raced /\ f \notin torn'
           => Mending(w, f)'
    <2>1. SUFFICES ASSUME heal = "running", work[w].role = "janitor", f \notin raced, f \notin torn
                   PROVE  Mending(w, f)'
      BY <1>2 DEF Quiet
    <2>2. graph[f] = {}  BY <1>1, <1>2, <2>1 DEF Inv, Honest, Phase
    <2>3. disk[f] = 0  BY <1>3, <2>1 DEF Inv, Healing, Mending
    <2> QED  BY <1>2, <2>2, <2>3, JobDoneFacts DEF Mending, InSync, Quiet
  <1> QED  BY <1>1, <1>2, <1>4, <1>5, <1>6, <1>7, <1>8, <1>9, JobStep

\* os.ReadFile: the version that is read is on disk, until something changes.
LEMMA ReadFileKeeps ==
    ASSUME Inv, NEW w \in Workers, ReadFile(w)
    PROVE  Inv'
  <1>a1. PICK f \in Files : f = work[w].file /\ Holds(w, f)  BY AtFile DEF ReadFile
  <1>a2. /\ work[w].pc = "read" /\ Quiet /\ graph' = graph /\ mtimes' = mtimes /\ torn' = torn
         /\ failed' = failed /\ faults' = faults
         /\ work' = [work EXCEPT ![w].ver = disk[f], ![w].pc = "add"]
    BY <1>a1 DEF ReadFile, Quiet
  <1>a3. work[w].todo[f] = "index"  BY <1>a1, <1>a2, WorkerFacts DEF Shape
  <1>a5. disk[f] # 0  BY <1>a1 DEF ReadFile
  <1>1. /\ work' \in [Workers -> Worker] /\ OthersKept(w)
        /\ work'[w].role = work[w].role /\ work'[w].path = work[w].path
        /\ work'[w].file = f /\ work'[w].todo = work[w].todo
        /\ work'[w].pc = "add" /\ work'[w].ver = disk[f]
    <2>1. disk[f] \in Versions \cup {0}
      BY BudgetsAssumption, MaxAssumption DEF Inv, Types, Versions
    <2>2. [work[w] EXCEPT !.ver = disk[f], !.pc = "add"] \in Worker
      BY <2>1, WorkerFacts DEF Worker
    <2>3. work' = [work EXCEPT ![w] = [work[w] EXCEPT !.ver = disk[f], !.pc = "add"]]
      BY <1>a2, <1>a5, WorkerFacts
    <2> QED  BY <1>a1, <2>2, <2>3, WorkerFacts DEF OthersKept, Worker
  <1>2. OnJob(w, f)
    BY <1>a1, <1>a2, <1>1 DEF OnJob
  <1>3. Types'  BY <1>a2, <1>1 DEF Inv, Types, Quiet
  <1>4. Shape(w)'
    BY <1>a1, <1>a2, <1>a3, <1>a5, <1>1, WorkerFacts, NoFileAssumption DEF Shape, Holds, Has, Running
  <1>5. /\ \A v \in Workers : Holds(v, f)' <=> Holds(v, f)
        /\ \A v \in Workers : Armed(f, v)' <=> Armed(f, v)
    BY <1>1 DEF Holds, Has, Armed, Running, OthersKept
  <1>6. Alone(f) /\ lost = 0 /\ LastWord(f) => LastWord(f)'
    <2>1. SUFFICES ASSUME Alone(f), LastWord(f) PROVE LastWord(f)'  OBVIOUS
    <2>2. Due(f)' <=> Due(f)  BY <1>a2, <1>5 DEF Due, Quiet
    <2>3. ~Due(f) => Phase(w, f)'
      BY <1>a1, <1>a2, <1>1, <2>1 DEF LastWord, Phase, Quiet
    <2>4. \A v \in Workers : Holds(v, f) => v = w  BY <1>a1, <2>1 DEF Alone
    <2>5. \A v \in Workers : work'[v].todo = work[v].todo  BY <1>1 DEF OthersKept
    <2>6. ~Idle(f)'  BY <1>a1, <1>a3, <1>5, <2>5 DEF Idle
    <2> QED  BY <1>a1, <1>a2, <1>5, <2>1, <2>2, <2>3, <2>4, <2>5, <2>6 DEF LastWord, Quiet
  <1>7. f \notin raced /\ f \notin torn' => Honest(f)'
    <2>1. SUFFICES ASSUME f \notin raced, f \notin torn PROVE Honest(f)'  BY <1>a2
    <2>2. graph[f] = {}  BY <1>a1, <1>a2, <2>1 DEF Inv, Honest, Phase
    <2>3. \A v \in Workers : work'[v].file = f => v = w  BY <1>a1, <1>1, <2>1, OneAtFile
    <2>4. Phase(w, f)'  BY <1>a2, <1>1, <2>2 DEF Phase, Quiet
    <2> QED  BY <1>1, <2>3, <2>4 DEF Honest
  <1>8. heal' = "running" /\ work[w].role = "janitor" /\ f \notin raced /\ f \notin torn'
           => Mending(w, f)'
    BY <1>a3, <1>1 DEF Mending
  <1> QED  BY <1>a1, <1>a2, <1>2, <1>3, <1>4, <1>6, <1>7, <1>8, JobStep

\* The file is gone: it stays evicted, which is right until something changes.
LEMMA ReadGoneKeeps ==
    ASSUME Inv, NEW w \in Workers, ReadGone(w)
    PROVE  Inv'
  <1>a1. PICK f \in Files : f = work[w].file /\ Holds(w, f)  BY AtFile DEF ReadGone
  <1>a2. /\ work[w].pc = "read" /\ Quiet /\ graph' = graph /\ mtimes' = mtimes /\ torn' = torn
         /\ failed' = failed /\ faults' = faults /\ work' = JobDone(w, f)
    BY <1>a1 DEF ReadGone, Quiet
  <1>a3. work[w].todo[f] = "index"  BY <1>a1, <1>a2, WorkerFacts DEF Shape
  <1>a4. disk[f] = 0  BY <1>a1 DEF ReadGone
  <1>0. work' = JobDone(w, f)  BY <1>a2, <1>a4
  <1>1. OnJob(w, f)
    BY <1>a1, <1>a2, <1>0, JobDoneFacts DEF OnJob
  <1>2. Types'
    BY <1>a2, <1>0, JobDoneFacts DEF Inv, Types, Quiet
  <1>3. Shape(w)'  BY <1>a1, <1>0, JobDoneShape
  <1>4. Alone(f) /\ lost = 0 /\ LastWord(f) => LastWord(f)'
    <2>1. LastWord(f) /\ ~Due(f) => InSync(f)'
      BY <1>a1, <1>a2, <1>a4 DEF LastWord, Phase, InSync, Quiet
    <2> QED  BY <1>a1, <1>a2, <1>0, <2>1, DoneWord
  <1>5. f \notin raced /\ f \notin torn => graph[f] = {}
    BY <1>a1, <1>a2 DEF Inv, Honest, Phase
  <1>6. f \notin raced /\ f \notin torn' => Honest(f)'
    <2>1. SUFFICES ASSUME f \notin raced, f \notin torn PROVE Honest(f)'  BY <1>a2
    <2>2. \A v \in Workers : work'[v].file # f  BY <1>a1, <1>0, <2>1, DoneAtFile
    <2>3. graph'[f] = {} /\ disk'[f] = 0  BY <1>a2, <1>a4, <1>5, <2>1 DEF Quiet
    <2> QED  BY <2>2, <2>3 DEF Honest
  <1>7. heal' = "running" /\ work[w].role = "janitor" /\ f \notin raced /\ f \notin torn'
           => Mending(w, f)'
    BY <1>a2, <1>a4, <1>0, <1>5, JobDoneFacts DEF Mending, InSync, Quiet
  <1> QED  BY <1>a1, <1>a2, <1>1, <1>2, <1>3, <1>4, <1>6, <1>7, JobStep

\* A read or an extraction fails: f stays evicted, which the janitor will see in
\* its mtime, unless f is torn.
LEMMA PatchFailsKeeps ==
    ASSUME Inv, NEW w \in Workers, PatchFails(w)
    PROVE  Inv'
  <1>a1. PICK f \in Files : f = work[w].file /\ Holds(w, f)  BY AtFile DEF PatchFails
  <1>a2. /\ work[w].pc \in {"read", "add"} /\ Quiet /\ graph' = graph /\ mtimes' = mtimes
         /\ failed' = failed \cup {f} /\ work' = JobDone(w, f) /\ heal' = "none"
         /\ torn' = IF mtimes[f] = disk[f] THEN torn \cup {f} ELSE torn
         /\ faults < budget.faults /\ faults' = faults + 1
    BY <1>a1 DEF PatchFails, Quiet
  <1>1. OnJob(w, f)
    BY <1>a1, <1>a2, JobDoneFacts DEF OnJob
  <1>2. Types'
    <2>1. faults' \in 0 .. budget.faults
      BY <1>a2, BudgetsAssumption, MaxAssumption DEF Inv, Types
    <2>2. torn' \in SUBSET Files /\ failed' \in SUBSET Files  BY <1>a2 DEF Inv, Types
    <2> QED  BY <1>a2, <2>1, <2>2, JobDoneFacts DEF Inv, Types, Quiet
  <1>3. Shape(w)'  BY <1>a1, <1>a2, JobDoneShape
  <1>4. Alone(f) /\ lost = 0 /\ LastWord(f) => LastWord(f)'
    BY <1>a1, <1>a2, DoneWord
  <1>5. f \notin raced /\ f \notin torn' => Honest(f)'
    <2>1. SUFFICES ASSUME f \notin raced, f \notin torn' PROVE Honest(f)'  OBVIOUS
    <2>2. f \notin torn /\ mtimes[f] # disk[f]  BY <1>a2, <2>1
    <2>3. graph[f] = {}  BY <1>a1, <1>a2, <2>1, <2>2 DEF Inv, Honest, Phase
    <2>4. \A v \in Workers : work'[v].file # f  BY <1>a1, <1>a2, <2>1, DoneAtFile
    <2> QED  BY <1>a2, <2>2, <2>3, <2>4 DEF Honest, Quiet
  <1>6. heal' # "running"  BY <1>a2
  <1> QED  BY <1>a1, <1>a2, <1>1, <1>2, <1>3, <1>4, <1>5, <1>6, JobStep

\* The nodes of the version that was read go into the graph.
LEMMA AddNodesKeeps ==
    ASSUME Inv, NEW w \in Workers, AddNodes(w)
    PROVE  Inv'
  <1>1. PICK f \in Files : f = work[w].file /\ Holds(w, f)  BY AtFile DEF AddNodes
  <1>2. /\ work[w].pc = "add" /\ Quiet /\ mtimes' = mtimes /\ torn' = torn
        /\ failed' = failed /\ faults' = faults
        /\ graph' = [graph EXCEPT ![f] = @ \cup {work[w].ver}]
        /\ work' = [work EXCEPT ![w].pc = "stat"]
    BY <1>1 DEF AddNodes, Quiet
  <1>3. work[w].todo[f] = "index" /\ work[w].ver # 0 /\ work[w].ver \in Versions
    BY <1>1, <1>2, WorkerFacts DEF Shape, Worker
  <1>4. /\ work' \in [Workers -> Worker] /\ OthersKept(w)
        /\ work'[w].role = work[w].role /\ work'[w].path = work[w].path
        /\ work'[w].file = f /\ work'[w].todo = work[w].todo
        /\ work'[w].pc = "stat" /\ work'[w].ver = work[w].ver
    <2>1. [work[w] EXCEPT !.pc = "stat"] \in Worker  BY WorkerFacts DEF Worker
    <2>2. work' = [work EXCEPT ![w] = [work[w] EXCEPT !.pc = "stat"]]
      BY <1>2, WorkerFacts
    <2> QED  BY <1>1, <2>1, <2>2, WorkerFacts DEF OthersKept, Worker
  <1>5. graph' \in [Files -> SUBSET Versions] /\ graph'[f] = graph[f] \cup {work[w].ver}
    BY <1>2, <1>3 DEF Inv, Types
  <1>6. OnJob(w, f)
    BY <1>1, <1>2, <1>4 DEF OnJob, Inv, Types
  <1>7. Types'  BY <1>2, <1>4, <1>5 DEF Inv, Types, Quiet
  <1>8. Shape(w)'
    BY <1>1, <1>2, <1>3, <1>4, WorkerFacts, NoFileAssumption DEF Shape, Holds, Has, Running
  <1>9. Phase(w, f) => Phase(w, f)'
    BY <1>2, <1>3, <1>4, <1>5 DEF Phase, Quiet
  <1>10. Alone(f) /\ lost = 0 /\ LastWord(f) => LastWord(f)'
    <2>1. SUFFICES ASSUME Alone(f), LastWord(f) PROVE LastWord(f)'  OBVIOUS
    <2>2. /\ \A v \in Workers : Holds(v, f)' <=> Holds(v, f)
          /\ \A v \in Workers : Armed(f, v)' <=> Armed(f, v)
      BY <1>4 DEF Holds, Has, Armed, Running, OthersKept
    <2>3. Due(f)' <=> Due(f)  BY <1>2, <2>2 DEF Due, Quiet
    <2>4. \A v \in Workers : Holds(v, f) => v = w  BY <1>1, <2>1 DEF Alone
    <2>5. \A v \in Workers : work'[v].todo = work[v].todo  BY <1>4 DEF OthersKept
    <2>6. ~Idle(f)'  BY <1>1, <1>3, <2>2, <2>5 DEF Idle
    <2> QED  BY <1>1, <1>2, <1>9, <2>1, <2>2, <2>3, <2>4, <2>5, <2>6 DEF LastWord, Quiet
  <1>11. f \notin raced /\ f \notin torn' => Honest(f)'
    <2>1. SUFFICES ASSUME f \notin raced, f \notin torn PROVE Honest(f)'  BY <1>2
    <2>2. Phase(w, f)  BY <1>1, <2>1 DEF Inv, Honest
    <2>3. \A v \in Workers : work'[v].file = f => v = w  BY <1>1, <1>4, <2>1, OneAtFile
    <2> QED  BY <1>4, <1>9, <2>2, <2>3 DEF Honest
  <1>12. heal' = "running" /\ work[w].role = "janitor" /\ f \notin raced /\ f \notin torn'
           => Mending(w, f)'
    BY <1>3, <1>4 DEF Mending
  <1> QED  BY <1>1, <1>2, <1>6, <1>7, <1>8, <1>10, <1>11, <1>12, JobStep

\* os.Stat: the mtime is that of the version in the graph, unless f is torn.
LEMMA StatFileKeeps ==
    ASSUME Inv, NEW w \in Workers, StatFile(w)
    PROVE  Inv'
  <1>1. PICK f \in Files : f = work[w].file /\ Holds(w, f)  BY AtFile DEF StatFile
  <1>2. /\ work[w].pc = "stat" /\ work' = JobDone(w, f)
        /\ mtimes' = IF disk[f] = 0 THEN mtimes ELSE [mtimes EXCEPT ![f] = disk[f]]
        /\ Quiet /\ graph' = graph /\ torn' = torn /\ failed' = failed /\ faults' = faults
    BY <1>1 DEF StatFile, Quiet
  <1>3. OnJob(w, f)
    BY <1>1, <1>2, JobDoneFacts DEF OnJob, Inv, Types
  <1>4. Types'
    <2>1. mtimes' \in [Files -> 0 .. edits + 1]  BY <1>2 DEF Inv, Types
    <2> QED  BY <1>2, <2>1, JobDoneFacts DEF Inv, Types, Quiet
  <1>5. Shape(w)'  BY <1>1, <1>2, JobDoneShape
  <1>6. Phase(w, f) => InSync(f)' /\ graph'[f] = {mtimes'[f]} \ {0}
    BY <1>2 DEF Phase, InSync, Quiet, Inv, Types
  <1>7. Alone(f) /\ lost = 0 /\ LastWord(f) => LastWord(f)'
    <2>1. LastWord(f) /\ ~Due(f) => InSync(f)'
      BY <1>1, <1>6 DEF LastWord
    <2> QED  BY <1>1, <1>2, <2>1, DoneWord
  <1>8. f \notin raced /\ f \notin torn => Phase(w, f)
    BY <1>1 DEF Inv, Honest
  <1>9. f \notin raced /\ f \notin torn' => Honest(f)'
    BY <1>1, <1>2, <1>6, <1>8, DoneAtFile DEF Honest
  <1>10. heal' = "running" /\ work[w].role = "janitor" /\ f \notin raced /\ f \notin torn'
           => Mending(w, f)'
    BY <1>2, <1>6, <1>8, JobDoneFacts DEF Mending
  <1> QED  BY <1>1, <1>2, <1>3, <1>4, <1>5, <1>7, <1>9, <1>10, JobStep

\* graph.EvictFile: a deletion is done, or an index or a purge of f begins.
LEMMA EvictFileKeeps ==
    ASSUME Inv, NEW w \in Workers, NEW f \in Files, EvictFile(w, f)
    PROVE  Inv'
  <1>1. /\ Holds(w, f) /\ work[w].file = NoFile /\ work[w].todo[f] \in {"index", "evict", "purge"}
        /\ work[w].todo[f] = "index" =>
              \A g \in Files : work[w].todo[g] \notin {"walk", "absent", "purge"}
    BY DEF EvictFile, Holds, Has
  <1>2. /\ Quiet /\ mtimes' = mtimes /\ graph' = [graph EXCEPT ![f] = {}]
        /\ failed' = failed \ {f} /\ faults' = faults
        /\ torn' = IF work[w].todo[f] = "evict" /\ disk[f] # 0 THEN torn \cup {f} ELSE torn
    BY DEF EvictFile, Quiet
  <1>3. /\ graph' \in [Files -> SUBSET Versions] /\ graph'[f] = {}
        /\ torn' \in SUBSET Files /\ failed' \in SUBSET Files
    BY <1>2 DEF Inv, Types
  <1>5. CASE work[w].todo[f] = "evict"
    <2>0. work' = JobDone(w, f)  BY <1>5 DEF EvictFile
    <2>1. OnJob(w, f)
      BY <1>1, <1>2, <2>0, JobDoneFacts DEF OnJob, Inv, Types
    <2>2. Types'
      BY <1>2, <1>3, <2>0, JobDoneFacts DEF Inv, Types, Quiet
    <2>3. Shape(w)'  BY <1>1, <2>0, JobDoneShape
    <2>4. Alone(f) /\ lost = 0 /\ LastWord(f) => LastWord(f)'
      <3>1. LastWord(f) /\ ~Due(f) => InSync(f)'
        BY <1>1, <1>2, <1>3, <1>5 DEF LastWord, InSync, Quiet
      <3> QED  BY <1>1, <1>2, <2>0, <3>1, DoneWord
    <2>5. f \notin raced /\ f \notin torn' => Honest(f)'
      <3>1. SUFFICES ASSUME f \notin raced, f \notin torn' PROVE Honest(f)'  OBVIOUS
      <3>2. \A v \in Workers : work'[v].file # f  BY <1>1, <2>0, <3>1, DoneAtFile
      <3>3. disk'[f] = 0  BY <1>2, <1>5, <3>1 DEF Quiet
      <3> QED  BY <1>3, <3>2, <3>3 DEF Honest
    <2>6. heal' = "running" /\ work[w].role = "janitor" /\ f \notin raced /\ f \notin torn'
             => Mending(w, f)'
      BY <1>2, <1>5, WorkerFacts DEF Shape
    <2> QED  BY <1>1, <1>2, <2>1, <2>2, <2>3, <2>4, <2>5, <2>6, JobStep
  <1>6. CASE work[w].todo[f] \in {"index", "purge"}
    <2>0. torn' = torn  BY <1>2, <1>6
    <2>1. /\ work' \in [Workers -> Worker] /\ OthersKept(w)
          /\ work'[w].role = work[w].role /\ work'[w].path = work[w].path
          /\ work'[w].file = f /\ work'[w].todo = work[w].todo
          /\ work'[w].pc = IF work[w].todo[f] = "index" THEN "read" ELSE "forget"
      <3>1. PICK p \in {"read", "forget"} :
               /\ work' = [work EXCEPT ![w].file = f, ![w].pc = p]
               /\ p = IF work[w].todo[f] = "index" THEN "read" ELSE "forget"
        BY <1>6 DEF EvictFile
      <3>2. [work[w] EXCEPT !.file = f, !.pc = p] \in Worker  BY WorkerFacts DEF Worker
      <3>3. work' = [work EXCEPT ![w] = [work[w] EXCEPT !.file = f, !.pc = p]]
        BY <3>1, WorkerFacts
      <3>4. work' \in [Workers -> Worker] /\ OthersKept(w)
        BY <3>2, <3>3, WorkerFacts DEF OthersKept
      <3>5. work'[w] = [work[w] EXCEPT !.file = f, !.pc = p]  BY <3>3, WorkerFacts
      <3> QED  BY <3>1, <3>4, <3>5, WorkerFacts DEF Worker
    <2>2. OnJob(w, f)
      BY <1>1, <1>2, <2>0, <2>1 DEF OnJob, Inv, Types
    <2>3. Types'  BY <1>2, <1>3, <2>1 DEF Inv, Types, Quiet
    <2>4. Shape(w)'
      BY <1>1, <1>6, <2>1, WorkerFacts, NoFileAssumption DEF Shape, Holds, Has, Running
    <2>5. Phase(w, f)'  BY <1>3, <2>1 DEF Phase
    <2>6. Alone(f) /\ lost = 0 /\ LastWord(f) => LastWord(f)'
      <3>1. SUFFICES ASSUME Alone(f), LastWord(f) PROVE LastWord(f)'  OBVIOUS
      <3>2. /\ \A v \in Workers : Holds(v, f)' <=> Holds(v, f)
            /\ \A v \in Workers : Armed(f, v)' <=> Armed(f, v)
        BY <2>1 DEF Holds, Has, Armed, Running, OthersKept
      <3>3. Due(f)' <=> Due(f)  BY <1>2, <3>2 DEF Due, Quiet
      <3>4. \A v \in Workers : Holds(v, f) => v = w  BY <1>1, <3>1 DEF Alone
      <3>5. \A v \in Workers : work'[v].todo = work[v].todo  BY <2>1 DEF OthersKept
      <3>6. ~Idle(f)'  BY <1>1, <1>6, <3>2, <3>5 DEF Idle
      <3> QED  BY <1>1, <1>2, <2>5, <3>1, <3>2, <3>3, <3>4, <3>5, <3>6 DEF LastWord, Quiet
    <2>7. f \notin raced /\ f \notin torn' => Honest(f)'
      <3>1. SUFFICES ASSUME f \notin raced PROVE Honest(f)'  OBVIOUS
      <3>2. \A v \in Workers : work'[v].file = f => v = w  BY <1>1, <2>1, <3>1, OneAtFile
      <3> QED  BY <2>1, <2>5, <3>2 DEF Honest
    <2>8. heal' = "running" /\ work[w].role = "janitor" /\ f \notin raced /\ f \notin torn'
             => Mending(w, f)'
      BY <1>2, <1>6, <2>0, <2>1 DEF Mending, Inv, Healing, Quiet
    <2> QED  BY <1>1, <1>2, <2>2, <2>3, <2>4, <2>6, <2>7, <2>8, JobStep
  <1> QED  BY <1>1, <1>5, <1>6

\* A worker that is at no file is between jobs.
LEMMA IdleWorker ==
    ASSUME Inv, NEW w \in Workers, ~Running(w) \/ work[w].todo = NoJobs
    PROVE  work[w].file = NoFile /\ work[w].pc = "idle"
  <1>1. Shape(w) /\ work[w].file \in Files \cup {NoFile} /\ work[w] \in Worker  BY WorkerFacts
  <1>2. work[w].pc = "idle"
    <2>1. CASE ~Running(w)  BY <1>1, <2>1 DEF Shape
    <2>2. CASE work[w].todo = NoJobs
      <3>1. \A g \in Files : work[w].todo[g] = "none"  BY <2>2 DEF NoJobs
      <3> QED  BY <1>1, <3>1, AtFile DEF Holds, Has
    <2> QED  BY <2>1, <2>2
  <1> QED  BY <1>1, <1>2 DEF Shape

\* The janitor sorts the files: one that its walk comes to, the ones it did not find.
Sorted(w, g) ==
    \/ work'[w].todo[g] = work[w].todo[g]
    \/ work[w].todo[g] = "walk" /\ work'[w].todo[g] = "absent" /\ disk[g] = 0
    \/ work[w].todo[g] = "walk" /\ work'[w].todo[g] = "index"
    \/ work[w].todo[g] = "walk" /\ work'[w].todo[g] = "none" /\ mtimes[g] = disk[g]
    \/ work[w].todo[g] = "absent" /\ work'[w].todo[g] = "purge"
    \/ work[w].todo[g] = "absent" /\ work'[w].todo[g] = "none" /\ mtimes[g] = 0

\* It may sort as it likes, if what another goroutine has in hand is raced for: what
\* it drops is in sync, because its mtime is that of the disk, and an honest one.
LEMMA SortKeeps ==
    ASSUME Inv, NEW w \in Workers, work[w].role = "janitor", work[w].pc = "idle",
           OthersKept(w), work' \in [Workers -> Worker], Shape(w)',
           work'[w].role = work[w].role /\ work'[w].path = work[w].path,
           work'[w].file = work[w].file /\ work'[w].pc = work[w].pc,
           \A g \in Files : Sorted(w, g),
           raced' \in SUBSET Files, raced \subseteq raced',
           \A v \in Workers, g \in Files :
              v # w /\ Holds(v, g) /\ Holds(w, g)' /\ ~Holds(w, g) => g \in raced',
           UNCHANGED <<budget, disk, edits, queue, deciding, pending, storm, graph,
                       mtimes, lost, scans, faults, heal, torn, failed>>
    PROVE  Inv'
  <1>1. /\ work[w].file = NoFile /\ Running(w) /\ NoJobs' = NoJobs
        /\ \A v \in Workers : /\ work'[v].role = work[v].role /\ work'[v].path = work[v].path
                              /\ work'[v].file = work[v].file /\ work'[v].pc = work[v].pc
    BY WorkerFacts DEF Shape, Running, OthersKept, NoJobs
  <1>2. Types' /\ Threshold' /\ Counted'
    <2>1. Types'  BY DEF Inv, Types
    <2>2. Threshold'  BY <1>1 DEF Inv, Threshold
    <2>3. Counted'  BY <1>1 DEF Inv, Counted, Enough
    <2> QED  BY <2>1, <2>2, <2>3
  <1>3. Shapes' /\ Timers'
    <2>1. Shapes'  BY DEF Inv, Shapes, Shape, Running, OthersKept
    <2>2. \A g \in Files : pending[g] # 0 => pending[g] \in Workers  BY DEF Inv, Types
    <2>3. Timers'  BY <1>1, <2>2 DEF Inv, Timers
    <2> QED  BY <2>1, <2>3
  <1>4. /\ \A v \in Workers, g \in Files : v # w => (Holds(v, g)' <=> Holds(v, g))
        /\ \A v \in Workers, g \in Files : Armed(g, v)' <=> Armed(g, v)
        /\ \A v \in Workers, g \in Files : Armed(g, v) \/ work[v].file = g => work'[v] = work[v]
    BY <1>1, NoFileAssumption DEF Holds, Has, Armed, Running, OthersKept
  <1>5. ASSUME NEW g \in Files, g \notin raced' PROVE Alone(g)'
    <2>1. Alone(g)  BY <1>5 DEF Inv
    <2>2. ASSUME NEW v \in Workers, v # w, Holds(v, g)', Holds(w, g)' PROVE FALSE
      <3>1. Holds(v, g)  BY <1>4, <2>2
      <3>2. ~Holds(w, g)  BY <2>1, <2>2, <3>1 DEF Alone
      <3> QED  BY <1>5, <2>2, <3>1, <3>2
    <2>3. \A u, v \in Workers : Holds(u, g)' /\ Holds(v, g)' => u = v
      BY <1>4, <2>1, <2>2 DEF Alone
    <2> QED  BY <1>4, <2>1, <2>3 DEF Alone
  <1>6. ASSUME NEW g \in Files, g \notin raced', lost' = 0 PROVE LastWord(g)'
    <2>1. LastWord(g) /\ Alone(g) /\ Alone(g)'  BY <1>5, <1>6 DEF Inv
    <2>2. Due(g)' <=> Due(g)  BY <1>4 DEF Due
    <2>3. /\ EndsGone(queue, g)' => disk'[g] = 0
          /\ ~Names(queue, g)' /\ storm'.batch[g] = "evict" => disk'[g] = 0
          /\ ~Names(queue, g)' =>
               \A v \in Workers : Armed(g, v)' /\ work'[v].todo[g] = "evict" => disk'[g] = 0
      BY <1>4, <2>1 DEF LastWord
    <2>4. ASSUME ~Due(g), NEW v \in Workers, Holds(v, g)'
          PROVE  /\ work'[v].todo[g] \in {"evict", "absent", "purge"} => disk'[g] = 0
                 /\ work'[v].file = g => Phase(v, g)'
      <3>1. CASE v # w
        <4>1. work'[v] = work[v] /\ Holds(v, g)  BY <1>4, <2>4, <3>1 DEF OthersKept
        <4>2. /\ work[v].todo[g] \in {"evict", "absent", "purge"} => disk[g] = 0
              /\ work[v].file = g => Phase(v, g)
          BY <2>1, <2>4, <4>1 DEF LastWord
        <4> QED  BY <4>1, <4>2 DEF Phase
      <3>2. CASE v = w
        <4>1. work'[w].file # g  BY <1>1, NoFileAssumption
        <4>2. work[w].todo[g] \in {"evict", "absent", "purge"} => disk[g] = 0
          BY <1>1, <2>1, <2>4 DEF LastWord, Holds, Has
        <4>3. Sorted(w, g)  OBVIOUS
        <4> QED  BY <3>2, <4>1, <4>2, <4>3 DEF Sorted
      <3> QED  BY <3>1, <3>2
    <2>5. Idle(g)' => Idle(g)
      <3>1. SUFFICES ASSUME Idle(g)', NEW v \in Workers, Holds(v, g) PROVE work[v].todo[g] = "absent"
        BY DEF Idle
      <3>2. CASE v # w  BY <1>4, <3>1, <3>2 DEF Idle, OthersKept
      <3>3. CASE v = w
        <4>1. Sorted(w, g) /\ Running(w)'  BY <1>1 DEF Running
        <4>2. work'[w].todo[g] \in {"none", "walk", "absent"}
          BY <3>1, <4>1 DEF Idle, Holds, Has
        <4> QED  BY <3>1, <3>3, <4>1, <4>2 DEF Sorted, Holds, Has
      <3> QED  BY <3>2, <3>3
    <2>6. InSync(g) => InSync(g)'  BY DEF InSync
    <2>7. ~Due(g)' => (Idle(g)' => InSync(g)' \/ g \in failed')
      BY <2>1, <2>2, <2>5, <2>6 DEF LastWord
    <2> QED  BY <2>2, <2>3, <2>4, <2>7 DEF LastWord
  <1>7. ASSUME NEW g \in Files, g \notin raced', g \notin torn' PROVE Honest(g)'
    <2>1. Honest(g)  BY <1>7 DEF Inv
    <2> QED  BY <1>1, <1>4, <2>1 DEF Honest, Phase
  <1>8. Healing'
    <2>1. ASSUME heal = "running", NEW g \in Files \ (raced' \cup torn') PROVE Mending(w, g)'
      <3>1. Mending(w, g) /\ Honest(g)  BY <2>1 DEF Inv, Healing
      <3>2. \A v \in Workers : work[v].file # g
        <4>1. \A v \in Workers : v # w => ~Running(v)
          BY <2>1 DEF Inv, Healing, Running
        <4> QED  BY <1>1, <4>1, IdleWorker, NoFileAssumption
      <3>3. graph[g] = {mtimes[g]} \ {0} \/ (graph[g] = {} /\ mtimes[g] # disk[g])
        BY <3>1, <3>2 DEF Honest
      <3>4. InSync(g)' <=> InSync(g)  BY DEF InSync
      <3>5. mtimes[g] = disk[g] => InSync(g)  BY <3>3 DEF InSync
      <3>6. mtimes[g] = 0 /\ disk[g] = 0 => InSync(g)  BY <3>3 DEF InSync
      <3>7. Sorted(w, g)  OBVIOUS
      <3> QED  BY <3>1, <3>4, <3>5, <3>6, <3>7 DEF Sorted, Mending
    <2>2. \A v \in Workers : work[v].role = "janitor" => v = w  BY DEF Inv, Healing
    <2>3. heal' # "done"  BY DEF Inv, Healing
    <2> QED  BY <1>1, <2>1, <2>2, <2>3 DEF Inv, Healing
  <1> QED  BY <1>2, <1>3, <1>5, <1>6, <1>7, <1>8 DEF Inv

\* The walk comes to a file.
LEMMA WalkFileKeeps ==
    ASSUME Inv, NEW w \in Workers, NEW f \in Files, WalkFile(w, f)
    PROVE  Inv'
  <1> DEFINE job == IF disk[f] = 0 THEN "absent" ELSE IF Stale(f) THEN "index" ELSE "none"
             todo == [work[w].todo EXCEPT ![f] = job]
  <1>1. /\ work[w].todo[f] = "walk" /\ work' = [work EXCEPT ![w].todo = todo]
        /\ raced' = raced \cup {g \in InHand(w) \cap {f} : Has(todo, g)}
        /\ UNCHANGED <<budget, disk, edits, queue, deciding, pending, storm, graph,
                       mtimes, lost, scans, faults, heal, torn, failed>>
    BY DEF WalkFile
  <1>2. Shape(w) /\ work[w] \in Worker /\ work[w].todo \in [Files -> Jobs]  BY WorkerFacts
  <1>3. work[w].role = "janitor" /\ work[w].pc = "idle"  BY <1>1, <1>2 DEF Shape
  <1>4. /\ job \in {"absent", "index", "none"} /\ (job = "absent" => disk[f] = 0)
        /\ (job = "none" => mtimes[f] = disk[f])
    BY DEF Stale
  <1> HIDE DEF job
  <1>5. todo \in [Files -> Jobs] /\ todo[f] = job /\ \A g \in Files : g # f => todo[g] = work[w].todo[g]
    BY <1>2, <1>4 DEF Jobs
  <1> HIDE DEF todo
  <1>6. /\ work' \in [Workers -> Worker] /\ OthersKept(w)
        /\ work'[w].role = work[w].role /\ work'[w].path = work[w].path
        /\ work'[w].file = work[w].file /\ work'[w].pc = work[w].pc /\ work'[w].ver = work[w].ver
        /\ work'[w].todo = todo
    <2>1. [work[w] EXCEPT !.todo = todo] \in Worker  BY <1>2, <1>5 DEF Worker
    <2>2. work' = [work EXCEPT ![w] = [work[w] EXCEPT !.todo = todo]]  BY <1>1, WorkerFacts
    <2> QED  BY <1>2, <2>1, <2>2, WorkerFacts DEF OthersKept, Worker
  <1>7. \A g \in Files : Sorted(w, g)  BY <1>1, <1>4, <1>5, <1>6 DEF Sorted
  <1>8. Shape(w)'
    <2>1. \A g \in Files : work[w].todo[g] # "purge"  BY <1>1, <1>2 DEF Shape
    <2> QED  BY <1>2, <1>3, <1>4, <1>5, <1>6, <2>1 DEF Shape, Running
  <1>9. /\ raced' \in SUBSET Files /\ raced \subseteq raced'
        /\ \A v \in Workers, g \in Files :
              v # w /\ Holds(v, g) /\ Holds(w, g)' /\ ~Holds(w, g) => g \in raced'
    <2>1. raced' \in SUBSET Files /\ raced \subseteq raced'  BY <1>1 DEF Inv, Types, InHand
    <2>2. ASSUME NEW v \in Workers, NEW g \in Files, v # w, Holds(v, g), Holds(w, g)', ~Holds(w, g)
          PROVE  g \in raced'
      <3>1. g \in InHand(w)  BY <2>2 DEF InHand, Holds
      <3>2. Has(todo, g)  BY <1>6, <2>2 DEF Holds
      <3>3. g = f  BY <1>3, <1>5, <2>2, <3>2 DEF Holds, Has, Running
      <3> QED  BY <1>1, <3>1, <3>2, <3>3
    <2> QED  BY <2>1, <2>2
  <1> QED  BY <1>1, <1>3, <1>6, <1>7, <1>8, <1>9, SortKeeps

\* The files with an mtime that the walk did not find are taken for deleted.
LEMMA ScanDeletedKeeps ==
    ASSUME Inv, NEW w \in Workers, ScanDeleted(w)
    PROVE  Inv'
  <1> DEFINE todo == [f \in Files |-> IF work[w].todo[f] # "absent" THEN work[w].todo[f]
                                      ELSE IF mtimes[f] # 0 THEN "purge" ELSE "none"]
  <1>1. /\ work' = [work EXCEPT ![w].todo = todo] /\ raced' = raced
        /\ \E f \in Files : work[w].todo[f] = "absent"
        /\ \A f \in Files : work[w].todo[f] # "walk"
        /\ UNCHANGED <<budget, disk, edits, queue, deciding, pending, storm, graph,
                       mtimes, lost, scans, faults, heal, torn, failed>>
    BY WorkerFacts DEF ScanDeleted
  <1>2. Shape(w) /\ work[w] \in Worker /\ work[w].todo \in [Files -> Jobs]  BY WorkerFacts
  <1>3. work[w].role = "janitor" /\ work[w].pc = "idle"  BY <1>1, <1>2 DEF Shape
  <1>5. /\ todo \in [Files -> Jobs]
        /\ \A g \in Files : \/ todo[g] = work[w].todo[g] /\ work[w].todo[g] # "absent"
                            \/ work[w].todo[g] = "absent" /\ todo[g] = "purge"
                            \/ work[w].todo[g] = "absent" /\ todo[g] = "none" /\ mtimes[g] = 0
    BY <1>2 DEF Jobs
  <1> HIDE DEF todo
  <1>6. /\ work' \in [Workers -> Worker] /\ OthersKept(w)
        /\ work'[w].role = work[w].role /\ work'[w].path = work[w].path
        /\ work'[w].file = work[w].file /\ work'[w].pc = work[w].pc /\ work'[w].ver = work[w].ver
        /\ work'[w].todo = todo
    <2>1. [work[w] EXCEPT !.todo = todo] \in Worker  BY <1>2, <1>5 DEF Worker
    <2>2. work' = [work EXCEPT ![w] = [work[w] EXCEPT !.todo = todo]]  BY <1>1, WorkerFacts
    <2> QED  BY <1>2, <2>1, <2>2, WorkerFacts DEF OthersKept, Worker
  <1>7. \A g \in Files : Sorted(w, g)  BY <1>5, <1>6 DEF Sorted
  <1>8. Shape(w)'
    BY <1>1, <1>2, <1>3, <1>5, <1>6 DEF Shape, Running
  <1>9. /\ raced' \in SUBSET Files /\ raced \subseteq raced'
        /\ \A g \in Files : Holds(w, g)' => Holds(w, g)
    BY <1>1, <1>3, <1>5, <1>6 DEF Inv, Types, Holds, Has, Running
  <1> QED  BY <1>1, <1>3, <1>6, <1>7, <1>8, <1>9, SortKeeps

\* A goroutine ends; a timer callback drops the pending entry of its path, which
\* races for the path if the entry is another timer's.
LEMMA FinishKeeps ==
    ASSUME Inv, NEW w \in Workers, Finish(w)
    PROVE  Inv'
  <1>1. /\ Running(w) /\ work[w].role \in {"patch", "drain", "janitor"}
        /\ work[w].file = NoFile /\ \A g \in Files : work[w].todo[g] = "none"
    BY IdleWorker DEF Finish, Running, NoJobs
  <1>2. /\ work' \in [Workers -> Worker] /\ OthersKept(w)
        /\ work'[w] = [role |-> "done", todo |-> NoJobs, path |-> NoFile,
                       file |-> NoFile, pc |-> "idle", ver |-> 0]
    <2>1. [Unused EXCEPT !.role = "done"] = [role |-> "done", todo |-> NoJobs, path |-> NoFile,
                                             file |-> NoFile, pc |-> "idle", ver |-> 0]
      BY DEF Unused
    <2>2. [role |-> "done", todo |-> NoJobs, path |-> NoFile,
           file |-> NoFile, pc |-> "idle", ver |-> 0] \in Worker
      BY DEF Worker, NoJobs, Jobs
    <2>3. work' = [work EXCEPT ![w] = [role |-> "done", todo |-> NoJobs, path |-> NoFile,
                                       file |-> NoFile, pc |-> "idle", ver |-> 0]]
      BY <2>1 DEF Finish
    <2> QED  BY <2>2, <2>3, WorkerFacts DEF OthersKept
  <1>3. /\ UNCHANGED <<budget, disk, edits, queue, deciding, storm, graph, mtimes, lost,
                       scans, faults, torn, failed>>
        /\ pending' = IF work[w].role = "patch"
                      THEN [pending EXCEPT ![work[w].path] = 0] ELSE pending
        /\ raced' = IF work[w].role = "patch" /\ pending[work[w].path] \notin {0, w}
                    THEN raced \cup {work[w].path} ELSE raced
        /\ heal' = IF work[w].role = "janitor" /\ heal = "running" THEN "done" ELSE heal
    BY DEF Finish
  <1>4. work[w].role = "patch" => work[w].path \in Files  BY WorkerFacts DEF Shape
  <1>5. /\ pending' \in [Files -> Workers \cup {0}] /\ raced' \in SUBSET Files
        /\ raced \subseteq raced'
        /\ \A g \in Files : pending'[g] = pending[g] \/ (g = work[w].path /\ pending'[g] = 0)
        /\ work[w].role = "patch" => pending'[work[w].path] = 0
    BY <1>3, <1>4 DEF Inv, Types
  <1>6. Types'  BY <1>2, <1>3, <1>5 DEF Inv, Types
  <1>7. Threshold' /\ Counted'
    <2>1. Threshold'  BY <1>3 DEF Inv, Threshold, NoJobs
    <2>2. \A v \in Workers : work'[v].role = "unused" <=> work[v].role = "unused"
      BY <1>1, <1>2 DEF OthersKept
    <2>3. Counted'  BY <1>3, <2>2 DEF Inv, Counted, Enough, NoJobs
    <2> QED  BY <2>1, <2>3
  <1>8. Shapes'
    <2>1. Shape(w)'  BY <1>2 DEF Shape, NoJobs
    <2> QED  BY <1>2, <2>1 DEF Inv, Shapes, Shape, Running, OthersKept
  <1>9. Timers'
    <2>1. SUFFICES ASSUME NEW g \in Files, pending'[g] # 0
                   PROVE  work'[pending'[g]].path = g /\ work'[pending'[g]].role \in {"armed", "patch"}
      BY DEF Timers
    <2>2. pending'[g] = pending[g] /\ pending[g] \in Workers  BY <1>5, <2>1 DEF Inv, Types
    <2>3. work[pending[g]].path = g /\ work[pending[g]].role \in {"armed", "patch"}
      BY <2>1, <2>2 DEF Inv, Timers
    <2>4. pending[g] # w  BY <1>1, <1>5, <2>1, <2>2, <2>3
    <2> QED  BY <1>2, <2>2, <2>3, <2>4 DEF OthersKept
  <1>10. /\ \A v \in Workers, g \in Files : Holds(v, g)' <=> Holds(v, g)
         /\ \A v \in Workers, g \in Files : Armed(g, v)' <=> Armed(g, v)
         /\ \A v \in Workers, g \in Files : Holds(v, g) \/ Armed(g, v) \/ work[v].file = g
                                            \/ work'[v].file = g => v # w
    BY <1>1, <1>2, NoFileAssumption DEF Holds, Has, Armed, Running, OthersKept
  <1>11. ASSUME NEW g \in Files, g \notin raced' PROVE Alone(g)'
    <2>1. Alone(g)  BY <1>5, <1>11 DEF Inv
    <2>2. ASSUME NEW v \in Workers, Armed(g, v) PROVE pending'[g] = v
      <3>1. pending[g] = v /\ v # w /\ v # 0
        BY <1>10, <2>1, <2>2 DEF Alone, Workers
      <3>2. ~(work[w].role = "patch" /\ work[w].path = g)  BY <1>3, <1>11, <3>1
      <3> QED  BY <1>3, <3>1, <3>2 DEF Inv, Types
    <2> QED  BY <1>3, <1>10, <2>1, <2>2 DEF Alone
  <1>12. ASSUME NEW g \in Files, g \notin raced', lost' = 0 PROVE LastWord(g)'
    <2>1. LastWord(g)  BY <1>3, <1>5, <1>12 DEF Inv
    <2>2. Due(g)' <=> Due(g)  BY <1>3, <1>10 DEF Due
    <2>3. \A v \in Workers : Holds(v, g) \/ Armed(g, v) => work'[v] = work[v]
      BY <1>2, <1>10 DEF OthersKept
    <2>4. \A v \in Workers : Holds(v, g) /\ Phase(v, g) => Phase(v, g)'
      BY <1>3, <2>3 DEF Phase
    <2>5. InSync(g) => InSync(g)'  BY <1>3 DEF InSync
    <2>6. Idle(g)' => Idle(g)  BY <1>10, <2>3 DEF Idle
    <2> QED  BY <1>3, <1>10, <2>1, <2>2, <2>3, <2>4, <2>5, <2>6 DEF LastWord
  <1>13. ASSUME NEW g \in Files, g \notin raced', g \notin torn' PROVE Honest(g)'
    <2>1. Honest(g)  BY <1>3, <1>5, <1>13 DEF Inv
    <2>2. \A v \in Workers : work'[v].file = g \/ work[v].file = g => work'[v] = work[v]
      BY <1>2, <1>10 DEF OthersKept
    <2> QED  BY <1>3, <2>1, <2>2 DEF Honest, Phase
  <1>14. Healing'
    <2>1. \A u, v \in Workers : work'[u].role = "janitor" /\ work'[v].role = "janitor" => u = v
      BY <1>2 DEF Inv, Healing, OthersKept
    <2>2. heal # "done"  BY <1>1 DEF Inv, Healing
    <2>3. CASE heal = "none"
      <3>1. heal' = "none"  BY <1>3, <2>3
      <3> QED  BY <2>1, <3>1 DEF Healing
    <2>4. CASE heal = "running"
      <3>1. work[w].role = "janitor" /\ heal' = "done"
        BY <1>1, <1>3, <2>4 DEF Inv, Healing
      <3>2. \A v \in Workers : work'[v].role \in {"unused", "done"}
        BY <1>2, <2>4, <3>1 DEF Inv, Healing, OthersKept
      <3>3. \A g \in Files \ (raced' \cup torn') : InSync(g)'
        BY <1>1, <1>3, <1>5, <2>4, <3>1 DEF Inv, Healing, Mending, InSync
      <3>4. queue' = <<>> /\ storm'.batch = NoJobs' /\ ~storm'.timer
        BY <1>3, <2>4 DEF Inv, Healing, NoJobs
      <3> QED  BY <2>1, <3>1, <3>2, <3>3, <3>4 DEF Healing
    <2> QED  BY <2>2, <2>3, <2>4 DEF Inv, Types
  <1> QED  BY <1>6, <1>7, <1>8, <1>9, <1>11, <1>12, <1>13, <1>14 DEF Inv

\* A timer fires: the word that was due is now in hand.
LEMMA FireKeeps ==
    ASSUME Inv, NEW w \in Workers, Fire(w)
    PROVE  Inv'
  <1>1. /\ work[w].role = "armed" /\ ~Running(w) /\ work[w].file = NoFile
    BY IdleWorker DEF Fire, Running
  <1>2. PICK f \in Files : /\ f = work[w].path /\ work[w].todo[f] \in {"index", "evict"}
                           /\ \A g \in Files : g # f => work[w].todo[g] = "none"
    BY <1>1, WorkerFacts DEF Shape
  <1>3. /\ work' \in [Workers -> Worker] /\ OthersKept(w)
        /\ work'[w].role = "patch" /\ work'[w].path = work[w].path /\ work'[w].todo = work[w].todo
        /\ work'[w].file = work[w].file /\ work'[w].pc = work[w].pc /\ work'[w].ver = work[w].ver
    <2>1. [work[w] EXCEPT !.role = "patch"] \in Worker  BY WorkerFacts DEF Worker
    <2>2. work' = [work EXCEPT ![w] = [work[w] EXCEPT !.role = "patch"]]
      BY WorkerFacts DEF Fire
    <2> QED  BY <2>1, <2>2, WorkerFacts DEF OthersKept, Worker
  <1>4. /\ UNCHANGED <<budget, disk, edits, queue, deciding, pending, storm, graph, mtimes, lost,
                       scans, faults, heal, torn, failed>>
        /\ raced' = RacedWith(w, work[w].todo)
    BY DEF Fire
  <1>5. /\ raced' \in SUBSET Files /\ raced \subseteq raced'
        /\ \A v \in Workers : v # w /\ Holds(v, f) => f \in raced'
    BY <1>2, <1>4 DEF RacedWith, InHand, Holds, Has, Inv, Types
  <1>6. Types'  BY <1>3, <1>4, <1>5 DEF Inv, Types
  <1>7. Threshold' /\ Counted'
    <2>1. Threshold'  BY <1>4 DEF Inv, Threshold, NoJobs
    <2>2. \A v \in Workers : work'[v].role = "unused" <=> work[v].role = "unused"
      BY <1>1, <1>3 DEF OthersKept
    <2>3. Counted'  BY <1>4, <2>2 DEF Inv, Counted, Enough, NoJobs
    <2> QED  BY <2>1, <2>3
  <1>8. Shapes'
    <2>1. Shape(w)'  BY <1>1, <1>2, <1>3, WorkerFacts DEF Shape, Running
    <2> QED  BY <1>3, <2>1 DEF Inv, Shapes, Shape, Running, OthersKept
  <1>9. Timers'
    <2>1. \A v \in Workers : /\ work'[v].path = work[v].path
                             /\ work[v].role \in {"armed", "patch"} => work'[v].role \in {"armed", "patch"}
      BY <1>3 DEF OthersKept
    <2>2. \A g \in Files : pending[g] # 0 => pending[g] \in Workers  BY DEF Inv, Types
    <2> QED  BY <1>4, <2>1, <2>2 DEF Inv, Timers
  <1>10. /\ \A v \in Workers, g \in Files : Holds(v, g)' <=> Holds(v, g) \/ (v = w /\ g = f)
         /\ \A v \in Workers, g \in Files : Armed(g, v)' <=> Armed(g, v) /\ v # w
         /\ Armed(f, w) /\ \A g \in Files : Armed(g, w) => g = f
    BY <1>1, <1>2, <1>3 DEF Holds, Has, Armed, Running, OthersKept
  <1>11. ASSUME NEW g \in Files, g \notin raced' PROVE Alone(g)'
    <2>1. Alone(g)  BY <1>5, <1>11 DEF Inv
    <2> QED  BY <1>4, <1>5, <1>10, <1>11, <2>1 DEF Alone
  <1>12. ASSUME NEW g \in Files, g \notin raced', lost' = 0 PROVE LastWord(g)'
    <2>1. LastWord(g) /\ Alone(g)  BY <1>4, <1>5, <1>12 DEF Inv
    <2>2. \A v \in Workers : /\ work'[v].todo = work[v].todo /\ work'[v].file = work[v].file
                             /\ work'[v].pc = work[v].pc /\ work'[v].ver = work[v].ver
      BY <1>3 DEF OthersKept
    <2>3. CASE g # f
      <3>1. Due(g)' <=> Due(g)  BY <1>4, <1>10, <2>3 DEF Due
      <3>2. \A v \in Workers : Phase(v, g) => Phase(v, g)'  BY <1>4, <2>2 DEF Phase
      <3>3. InSync(g) => InSync(g)'  BY <1>4 DEF InSync
      <3>4. Idle(g)' => Idle(g)  BY <1>10, <2>2, <2>3 DEF Idle
      <3> QED  BY <1>4, <1>10, <2>1, <2>2, <2>3, <3>1, <3>2, <3>3, <3>4 DEF LastWord
    <2>4. CASE g = f
      <3>1. \A v \in Workers : Holds(v, f)' <=> v = w
        BY <1>5, <1>10, <1>12, <2>4
      <3>2. \A v \in Workers : ~Armed(f, v)'  BY <1>10, <2>1, <2>4 DEF Alone
      <3>3. ~Due(f)' => ~Names(queue, f)  BY <1>4 DEF Due
      <3>4. ~Due(f)' /\ work'[w].todo[f] \in {"evict", "absent", "purge"} => disk'[f] = 0
        BY <1>2, <1>3, <1>4, <1>10, <2>1, <2>4, <3>3 DEF LastWord
      <3>5. work'[w].file # f  BY <1>1, <1>3, NoFileAssumption
      <3>6. ~Idle(f)'  BY <1>2, <1>3, <3>1 DEF Idle
      <3> QED  BY <1>4, <2>1, <2>4, <3>1, <3>2, <3>4, <3>5, <3>6 DEF LastWord
    <2> QED  BY <2>3, <2>4
  <1>13. ASSUME NEW g \in Files, g \notin raced', g \notin torn' PROVE Honest(g)'
    <2>1. Honest(g)  BY <1>4, <1>5, <1>13 DEF Inv
    <2>2. \A v \in Workers : /\ work'[v].file = work[v].file
                             /\ work'[v].pc = work[v].pc /\ work'[v].ver = work[v].ver
      BY <1>3 DEF OthersKept
    <2> QED  BY <1>4, <2>1, <2>2 DEF Honest, Phase
  <1>14. Healing'
    <2>1. heal = "none" /\ heal' = "none"
      BY <1>1, <1>4 DEF Inv, Healing, Types
    <2> QED  BY <1>3, <2>1 DEF Inv, Healing, OthersKept
  <1> QED  BY <1>6, <1>7, <1>8, <1>9, <1>11, <1>12, <1>13, <1>14 DEF Inv

-------------------------------------------------------------------------------
(* New workers                                                               *)

\* There is room for one more worker than there are.
Room(n) ==
    /\ NextWorker = n
    /\ \A w \in Workers : work[w].role # "unused" <=> w < n
    /\ Len(queue) + n + (IF storm.batch = NoJobs THEN 0 ELSE 1) <= edits + scans + 1

\* There is a worker for every event, batch and tick that needs one.
LEMMA Spawn ==
    ASSUME Inv, queue # <<>> \/ storm.batch # NoJobs \/ scans < budget.scans
    PROVE  \E n \in Workers : Room(n)
  <1>1. PICK m \in Nat : Enough(m)  BY DEF Inv, Counted
  <1>2. /\ edits \in 0 .. budget.edits /\ scans \in 0 .. budget.scans
        /\ budget.edits \in 0 .. MaxEdits /\ budget.scans \in 0 .. MaxScans
        /\ Len(queue) \in Nat /\ queue # <<>> => Len(queue) > 0
    BY BudgetsAssumption, MaxAssumption DEF Inv, Types
  <1>3. Len(queue) + m + (IF storm.batch = NoJobs THEN 0 ELSE 1) <= edits + scans
    BY <1>1 DEF Enough
  <1>4. m + 1 <= MaxEdits + MaxScans
    BY <1>2, <1>3, MaxAssumption
  <1>5. m + 1 \in Workers  BY <1>4, MaxAssumption DEF Workers
  <1>6. \A w \in Workers : work[w].role # "unused" <=> w < m + 1
    BY <1>1, MaxAssumption DEF Enough, Workers
  <1>7. NextWorker = m + 1  BY <1>5, <1>6, NextWorkerIs
  <1>8. Len(queue) + (m + 1) + (IF storm.batch = NoJobs THEN 0 ELSE 1) <= edits + scans + 1
    BY <1>2, <1>3
  <1> QED  BY <1>5, <1>6, <1>7, <1>8 DEF Room

Spawned(n, role, todo) ==
    work' = [work EXCEPT ![n] = [Unused EXCEPT !.role = role, !.todo = todo]]

\* A goroutine with jobs.
LEMMA NewWorker ==
    ASSUME NEW role, NEW todo
    PROVE  [Unused EXCEPT !.role = role, !.todo = todo]
              = [role |-> role, todo |-> todo, path |-> NoFile,
                 file |-> NoFile, pc |-> "idle", ver |-> 0]
  <1> DEFINE u == [role |-> role, todo |-> NoJobs, path |-> NoFile,
                   file |-> NoFile, pc |-> "idle", ver |-> 0]
  <1>1. [Unused EXCEPT !.role = role] = u  BY DEF Unused
  <1>2. [Unused EXCEPT !.role = role, !.todo = todo]
           = [[Unused EXCEPT !.role = role] EXCEPT !.todo = todo]
    BY DEF Unused
  <1>3. [u EXCEPT !.todo = todo] = [role |-> role, todo |-> todo, path |-> NoFile,
                                    file |-> NoFile, pc |-> "idle", ver |-> 0]
    OBVIOUS
  <1> QED  BY <1>1, <1>2, <1>3

\* What a new goroutine changes.
LEMMA SpawnFacts ==
    ASSUME Inv, NEW n \in Workers, Room(n), NEW role \in {"drain", "janitor"},
           NEW todo \in [Files -> Jobs],
           Spawned(n, role, todo)
    PROVE  /\ work[n].role = "unused" /\ ~Running(n) /\ work[n].file = NoFile
           /\ work' \in [Workers -> Worker] /\ OthersKept(n)
           /\ work'[n] = [role |-> role, todo |-> todo, path |-> NoFile,
                          file |-> NoFile, pc |-> "idle", ver |-> 0]
  <1>1. /\ work[n].role = "unused" /\ ~Running(n) /\ work[n].file = NoFile
    <2>1. n \in Nat  BY MaxAssumption DEF Workers
    <2>2. work[n].role = "unused"  BY <2>1 DEF Room
    <2> QED  BY <2>2, IdleWorker DEF Running
  <1> DEFINE r == [role |-> role, todo |-> todo, path |-> NoFile,
                   file |-> NoFile, pc |-> "idle", ver |-> 0]
  <1>2. r \in Worker  BY DEF Worker
  <1>3. work' = [work EXCEPT ![n] = r]  BY NewWorker DEF Spawned
  <1> HIDE DEF r
  <1>4. work' \in [Workers -> Worker] /\ OthersKept(n) /\ work'[n] = r
    BY <1>2, <1>3, WorkerFacts DEF OthersKept
  <1> QED  BY <1>1, <1>4 DEF r

\* A new goroutine keeps the invariant if its jobs take over the words that leave
\* the batch; the janitor has only its walk to do.
LEMMA SpawnKeeps ==
    ASSUME Inv, NEW n \in Workers, Room(n), NEW role \in {"drain", "janitor"},
           NEW todo \in [Files -> Jobs],
           Spawned(n, role, todo), raced' = RacedWith(n, todo), NoJobs' = NoJobs,
           UNCHANGED <<budget, disk, edits, queue, deciding, pending, graph, mtimes, lost, faults, torn, failed>>,
           storm' \in StormState, scans' \in 0 .. budget.scans, heal' \in {"none", "running", "done"},
           Threshold', Len(queue) + n + (IF storm'.batch = NoJobs THEN 0 ELSE 1) <= edits + scans',
           \A g \in Files : \/ storm'.batch[g] = storm.batch[g]
                            \/ storm'.batch[g] = "none" /\ todo[g] = storm.batch[g],
           \A g \in Files : storm'.batch[g] # "none" => todo[g] # "evict",
           \A g \in Files : todo[g] = "evict" => storm.batch[g] = "evict",
           \A g \in Files : todo[g] \notin {"absent", "purge"},
           \A g \in Files : todo[g] = "walk" <=> role = "janitor"
    PROVE  /\ work'[n].role = role /\ work'[n].todo = todo /\ OthersKept(n)
           /\ raced \subseteq raced'
           /\ Healing' => Inv'
  <1>1. /\ work[n].role = "unused" /\ ~Running(n) /\ work[n].file = NoFile
    BY SpawnFacts
  <1>2. /\ work' \in [Workers -> Worker] /\ OthersKept(n)
        /\ work'[n] = [role |-> role, todo |-> todo, path |-> NoFile,
                       file |-> NoFile, pc |-> "idle", ver |-> 0]
    BY SpawnFacts
  <1>3. /\ raced' \in SUBSET Files /\ raced \subseteq raced'
        /\ \A v \in Workers, g \in Files : v # n /\ Holds(v, g) /\ Has(todo, g) => g \in raced'
    BY DEF RacedWith, InHand, Holds, Has, Inv, Types
  <1>4. Types'  BY <1>2, <1>3 DEF Inv, Types
  <1>5. Counted'
    <2>1. n \in Nat /\ \A w \in Workers : w \in Nat  BY MaxAssumption DEF Workers
    <2>2. \A w \in Workers : work'[w].role # "unused" <=> w <= n
      BY <1>2, <2>1 DEF Room, OthersKept
    <2>3. Enough(n)'  BY <2>2 DEF Enough
    <2> QED  BY <2>1, <2>3 DEF Counted
  <1>6. Shapes'
    <2>1. Shape(n)'  BY <1>2 DEF Shape
    <2> QED  BY <1>2, <2>1 DEF Inv, Shapes, Shape, Running, OthersKept
  <1>7. Timers'
    <2>1. \A g \in Files : pending[g] # 0 => pending[g] \in Workers  BY DEF Inv, Types
    <2>2. \A v \in Workers : work[v].role \in {"armed", "patch"} => work'[v] = work[v]
      BY <1>1, <1>2 DEF OthersKept
    <2>3. Timers /\ pending' = pending  BY DEF Inv
    <2>4. SUFFICES ASSUME NEW g \in Files, pending[g] # 0
                   PROVE  work'[pending[g]].path = g /\ work'[pending[g]].role \in {"armed", "patch"}
      BY <2>3 DEF Timers
    <2> QED  BY <2>1, <2>2, <2>3, <2>4 DEF Timers
  <1>8. /\ \A v \in Workers, g \in Files : Holds(v, g)' <=> Holds(v, g) \/ (v = n /\ Has(todo, g))
        /\ \A v \in Workers, g \in Files : Armed(g, v)' <=> Armed(g, v)
        /\ \A v \in Workers, g \in Files : Holds(v, g) \/ Armed(g, v) \/ work[v].file = g
                                           \/ work'[v].file = g => v # n
    BY <1>1, <1>2, NoFileAssumption DEF Holds, Has, Armed, Running, OthersKept
  <1>9. ASSUME NEW g \in Files, g \notin raced' PROVE Alone(g)'
    <2>1. Alone(g)  BY <1>3, <1>9 DEF Inv
    <2>2. storm'.batch[g] # "none" => storm.batch[g] # "none"  OBVIOUS
    <2> QED  BY <1>3, <1>8, <1>9, <2>1, <2>2 DEF Alone
  <1>10. ASSUME NEW g \in Files, g \notin raced', lost' = 0 PROVE LastWord(g)'
    <2>1. LastWord(g) /\ Alone(g)  BY <1>3, <1>10 DEF Inv
    <2>2. \A v \in Workers : Holds(v, g) \/ Armed(g, v) => work'[v] = work[v]
      BY <1>2, <1>8 DEF OthersKept
    <2>3. \A v \in Workers : Holds(v, g) /\ Phase(v, g) => Phase(v, g)'
      BY <2>2 DEF Phase
    <2>4. /\ EndsGone(queue, g)' => disk'[g] = 0
          /\ ~Names(queue, g)' /\ storm'.batch[g] = "evict" => disk'[g] = 0
          /\ ~Names(queue, g)' =>
               \A v \in Workers : Armed(g, v)' /\ work'[v].todo[g] = "evict" => disk'[g] = 0
      BY <1>8, <2>1, <2>2 DEF LastWord
    <2>5. ~Due(g)' => ~Names(queue, g) /\ (Due(g) => Has(todo, g))
      <3>1. storm.batch[g] \in {"none", "index", "evict"}  BY DEF Inv, Types, StormState
      <3>2. storm.batch[g] # "none" /\ storm'.batch[g] = "none" => Has(todo, g)  BY <3>1 DEF Has
      <3> QED  BY <1>8, <3>2 DEF Due
    <2>6. CASE ~Has(todo, g)
      <3>1. ~Due(g)' => ~Due(g)  BY <2>5, <2>6
      <3>2. (InSync(g) => InSync(g)') /\ (Idle(g)' => Idle(g))
        BY <1>8, <2>2 DEF InSync, Idle
      <3>3. ~Due(g)' =>
              /\ \A v \in Workers : Holds(v, g)' =>
                    /\ work'[v].todo[g] \in {"evict", "absent", "purge"} => disk'[g] = 0
                    /\ work'[v].file = g => Phase(v, g)'
              /\ Idle(g)' => InSync(g)' \/ g \in failed'
        BY <1>8, <2>1, <2>2, <2>3, <2>6, <3>1, <3>2 DEF LastWord
      <3> QED  BY <2>4, <3>3 DEF LastWord
    <2>7. CASE Has(todo, g)
      <3>1. \A v \in Workers : Holds(v, g)' <=> v = n  BY <1>3, <1>8, <1>10, <2>7
      <3>2. work'[n].file # g /\ work'[n].todo[g] = todo[g]  BY <1>2, NoFileAssumption
      <3>3. ~Due(g)' /\ todo[g] = "evict" => disk[g] = 0
        BY <2>1, <2>5 DEF LastWord
      <3>4. ~Idle(g)'  BY <3>1, <3>2 DEF Idle
      <3> QED  BY <2>4, <3>1, <3>2, <3>3, <3>4 DEF LastWord
    <2> QED  BY <2>6, <2>7
  <1>11. ASSUME NEW g \in Files, g \notin raced', g \notin torn' PROVE Honest(g)'
    <2>1. Honest(g)  BY <1>3, <1>11 DEF Inv
    <2>2. \A v \in Workers : work'[v].file = g \/ work[v].file = g => work'[v] = work[v]
      BY <1>2, <1>8 DEF OthersKept
    <2> QED  BY <2>1, <2>2 DEF Honest, Phase
  <1> QED  BY <1>2, <1>3, <1>4, <1>5, <1>6, <1>7, <1>9, <1>10, <1>11 DEF Inv

\* drainStorm: the batch is now in the hands of a goroutine.
LEMMA DrainStormKeeps ==
    ASSUME Inv, DrainStorm
    PROVE  Inv'
  <1>1. /\ storm.timer /\ storm' = NoStorm /\ NoJobs' = NoJobs
        /\ UNCHANGED <<budget, disk, edits, queue, deciding, pending, graph, mtimes, lost, scans,
                       faults, heal, torn, failed>>
    BY DEF DrainStorm, NoJobs
  <1>2. heal = "none"  BY <1>1 DEF Inv, Healing
  <1>3. /\ storm' \in StormState /\ storm'.batch = NoJobs /\ ~storm'.active /\ storm'.recent = 0
        /\ \A g \in Files : storm'.batch[g] = "none"
    BY <1>1, StormAssumption DEF NoStorm, StormState, NoJobs
  <1>4. Threshold'  BY <1>1, <1>3, StormAssumption DEF Inv, Threshold
  <1>5. CASE storm.batch = NoJobs
    <2>1. work' = work /\ raced' = raced  BY <1>5 DEF DrainStorm
    <2>2. \A g \in Files : storm.batch[g] = "none"  BY <1>5 DEF NoJobs
    <2>3. Types'  BY <1>1, <1>3, <2>1 DEF Inv, Types
    <2>4. Counted'  BY <1>1, <1>3, <1>5, <2>1 DEF Inv, Counted, Enough
    <2>5. Shapes' /\ Timers'  BY <1>1, <2>1 DEF Inv, Shapes, Shape, Running, Timers
    <2>6. \A v \in Workers, g \in Files : (Holds(v, g)' <=> Holds(v, g)) /\ (Armed(g, v)' <=> Armed(g, v))
      BY <2>1 DEF Holds, Has, Running, Armed
    <2>7. \A g \in Files : Alone(g) => Alone(g)'  BY <1>1, <1>3, <2>2, <2>6 DEF Alone
    <2>8. \A g \in Files : LastWord(g) => LastWord(g)'
      <3>1. SUFFICES ASSUME NEW g \in Files, LastWord(g) PROVE LastWord(g)'  OBVIOUS
      <3>2. Due(g)' <=> Due(g)  BY <1>1, <1>3, <2>2, <2>6 DEF Due
      <3>3. \A v \in Workers : Phase(v, g) => Phase(v, g)'  BY <1>1, <2>1 DEF Phase
      <3>4. InSync(g) => InSync(g)'  BY <1>1 DEF InSync
      <3>5. Idle(g)' => Idle(g)  BY <2>1, <2>6 DEF Idle
      <3> QED  BY <1>1, <1>3, <2>1, <2>2, <2>6, <3>1, <3>2, <3>3, <3>4, <3>5 DEF LastWord
    <2>9. \A g \in Files : Honest(g) => Honest(g)'  BY <1>1, <2>1 DEF Honest, Phase
    <2>10. Healing'  BY <1>1, <1>2, <2>1 DEF Inv, Healing
    <2> QED  BY <1>1, <1>4, <2>1, <2>3, <2>4, <2>5, <2>7, <2>8, <2>9, <2>10 DEF Inv
  <1>6. CASE storm.batch # NoJobs
    <2>1. PICK n \in Workers : Room(n)  BY <1>6, Spawn
    <2>2. /\ Spawned(n, "drain", storm.batch)
          /\ raced' = RacedWith(n, storm.batch)
      BY <1>6, <2>1 DEF DrainStorm, Room, Spawned
    <2>3. storm.batch \in [Files -> {"none", "index", "evict"}] /\ storm.batch \in [Files -> Jobs]
      BY DEF Inv, Types, StormState, Jobs
    <2>4. Len(queue) + n + (IF storm'.batch = NoJobs THEN 0 ELSE 1) <= edits + scans'
      BY <1>1, <1>3, <1>6, <2>1, MaxAssumption, BudgetsAssumption DEF Room, Inv, Types, Workers
    <2>5. scans' \in 0 .. budget.scans /\ heal' \in {"none", "running", "done"}
      BY <1>1 DEF Inv, Types
    <2>6. /\ work'[n].role = "drain" /\ OthersKept(n)
          /\ Healing' => Inv'
      BY <1>1, <1>3, <1>4, <2>1, <2>2, <2>3, <2>4, <2>5, SpawnKeeps
    <2>7. Healing'  BY <1>1, <1>2, <2>6 DEF Inv, Healing, OthersKept
    <2> QED  BY <2>6, <2>7
  <1> QED  BY <1>5, <1>6

\* A tick of the janitor: it has every file to come to.
LEMMA JanitorTickKeeps ==
    ASSUME Inv, JanitorTick
    PROVE  Inv'
  <1> DEFINE jobs == [f \in Files |-> "walk"]
  <1>1. /\ scans < budget.scans /\ scans' = scans + 1 /\ NoJobs' = NoJobs
        /\ \A w \in Workers : work[w].role # "janitor"
        /\ heal' = IF Quiescent THEN "running" ELSE "none"
        /\ UNCHANGED <<budget, disk, edits, queue, deciding, pending, storm, graph,
                       mtimes, lost, faults, torn, failed>>
    BY DEF JanitorTick, NoJobs
  <1>2. PICK n \in Workers : Room(n)  BY <1>1, Spawn
  <1>3. /\ Spawned(n, "janitor", jobs)
        /\ raced' = RacedWith(n, jobs)
    <2>1. Spawned(n, "janitor", jobs) /\ raced' = raced
      BY <1>2 DEF JanitorTick, Room, Spawned
    <2>2. \A g \in InHand(n) : ~Has(jobs, g)  BY DEF InHand, Has
    <2>3. RacedWith(n, jobs) = raced  BY <2>2 DEF RacedWith
    <2> QED  BY <2>1, <2>3
  <1>4. jobs \in [Files -> Jobs] /\ \A g \in Files : jobs[g] = "walk"
    BY DEF Jobs
  <1> HIDE DEF jobs
  <1>5. Threshold'  BY <1>1 DEF Inv, Threshold
  <1>6. Len(queue) + n + (IF storm'.batch = NoJobs THEN 0 ELSE 1) <= edits + scans'
    BY <1>1, <1>2, MaxAssumption, BudgetsAssumption DEF Room, Inv, Types, Workers
  <1>7. storm' \in StormState /\ scans' \in 0 .. budget.scans /\ heal' \in {"none", "running", "done"}
    BY <1>1, BudgetsAssumption, MaxAssumption DEF Inv, Types
  <1>8. /\ work'[n].role = "janitor" /\ work'[n].todo = jobs /\ OthersKept(n) /\ raced \subseteq raced'
        /\ Healing' => Inv'
    <2>1. /\ \A g \in Files : storm'.batch[g] = storm.batch[g]
          /\ \A g \in Files : storm'.batch[g] # "none" => jobs[g] # "evict"
          /\ \A g \in Files : jobs[g] = "evict" => storm.batch[g] = "evict"
      BY <1>1, <1>4
    <2> QED  BY <1>1, <1>2, <1>3, <1>4, <1>5, <1>6, <1>7, <2>1, SpawnKeeps
  <1>9. \A u, v \in Workers : work'[u].role = "janitor" /\ work'[v].role = "janitor" => u = v
    BY <1>1, <1>8 DEF OthersKept
  <1>10. CASE ~Quiescent
    <2>1. heal' = "none"  BY <1>1, <1>10
    <2>2. Healing'  BY <1>9, <2>1 DEF Healing
    <2> QED  BY <1>8, <2>2
  <1>11. CASE Quiescent
    <2>1. heal' = "running"  BY <1>1, <1>11
    <2>2. queue' = <<>> /\ storm'.batch = NoJobs' /\ ~storm'.timer  BY <1>1, <1>11 DEF Quiescent
    <2>3. \A v \in Workers : work[v].role \in {"unused", "done"} /\ work[v].file = NoFile
      BY <1>11, IdleWorker DEF Quiescent, Running
    <2>4. \A v \in Workers : /\ work'[v].role \in {"unused", "done", "janitor"}
                             /\ work'[v].role = "janitor" => v = n
      BY <1>8, <2>3 DEF OthersKept
    <2>5. \A g \in Files : Mending(n, g)'  BY <1>4, <1>8 DEF Mending
    <2>6. Healing'  BY <1>9, <2>1, <2>2, <2>4, <2>5 DEF Healing
    <2> QED  BY <1>8, <2>6
  <1> QED  BY <1>10, <1>11

-------------------------------------------------------------------------------
(* The watcher's loop                                                        *)

\* timer.Stop() ends the timer of the path's pending entry, if it still can.
LEMMA Stopped ==
    ASSUME Inv, NEW f \in Files
    PROVE  /\ StopTimer(work, f) \in [Workers -> Worker]
           /\ \A w \in Workers :
                 /\ StopTimer(work, f)[w].todo = work[w].todo
                 /\ StopTimer(work, f)[w].path = work[w].path
                 /\ StopTimer(work, f)[w].file = work[w].file
                 /\ StopTimer(work, f)[w].pc = work[w].pc
                 /\ StopTimer(work, f)[w].ver = work[w].ver
                 /\ \/ w # pending[f] /\ StopTimer(work, f)[w].role = work[w].role
                    \/ /\ w = pending[f] /\ work[w].path = f /\ work[w].role = "armed"
                       /\ StopTimer(work, f)[w].role = "done"
                    \/ /\ w = pending[f] /\ work[w].path = f /\ work[w].role = "patch"
                       /\ StopTimer(work, f)[w].role = "patch"
  <1>1. work \in [Workers -> Worker] /\ pending[f] \in Workers \cup {0}  BY DEF Inv, Types
  <1>2. \A w \in Workers : w = pending[f] => /\ w # 0 /\ work[w].path = f
                                             /\ work[w].role \in {"armed", "patch"}
    BY DEF Inv, Timers, Workers
  <1>3. CASE pending[f] # 0 /\ work[pending[f]].role = "armed"
    <2>1. PICK p \in Workers : p = pending[f]  BY <1>1, <1>3
    <2>2. work[p] \in Worker /\ [work[p] EXCEPT !.role = "done"] \in Worker
      BY <1>1 DEF Worker
    <2>3. StopTimer(work, f) = [work EXCEPT ![p] = [work[p] EXCEPT !.role = "done"]]
      BY <1>1, <1>3, <2>1 DEF StopTimer
    <2>4. \A w \in Workers : w # p => StopTimer(work, f)[w] = work[w]
      BY <1>1, <2>3
    <2>5. /\ StopTimer(work, f)[p].todo = work[p].todo /\ StopTimer(work, f)[p].path = work[p].path
          /\ StopTimer(work, f)[p].file = work[p].file /\ StopTimer(work, f)[p].pc = work[p].pc
          /\ StopTimer(work, f)[p].ver = work[p].ver /\ StopTimer(work, f)[p].role = "done"
      BY <1>1, <2>2, <2>3 DEF Worker
    <2>6. StopTimer(work, f) \in [Workers -> Worker]  BY <1>1, <2>2, <2>3
    <2> QED  BY <1>2, <1>3, <2>1, <2>4, <2>5, <2>6
  <1>4. CASE ~(pending[f] # 0 /\ work[pending[f]].role = "armed")
    <2>1. StopTimer(work, f) = work  BY <1>4 DEF StopTimer
    <2> QED  BY <1>1, <1>2, <1>4, <2>1
  <1> QED  BY <1>3, <1>4

\* Head(queue) is taken from the queue and becomes the word of its file: in the
\* batch (n = 0) or in the new timer n.  No other timer of the file is left.
TakesOver(f, n) ==
    /\ \A w \in Workers : w # n =>
          /\ work'[w].todo = work[w].todo /\ work'[w].path = work[w].path
          /\ work'[w].file = work[w].file /\ work'[w].pc = work[w].pc
          /\ work'[w].ver = work[w].ver
          /\ \/ w # pending[f] /\ work'[w].role = work[w].role
             \/ w = pending[f] /\ work[w].path = f /\ work[w].role = "armed" /\ work'[w].role = "done"
             \/ w = pending[f] /\ work[w].path = f /\ work[w].role = "patch" /\ work'[w].role = "patch"
    /\ pending' = [pending EXCEPT ![f] = n]
    /\ n \in Workers =>
          /\ work[n].role = "unused" /\ work[n].file = NoFile
          /\ work'[n] = [role |-> "armed", todo |-> [NoJobs EXCEPT ![f] = Head(queue).job],
                         path |-> f, file |-> NoFile, pc |-> "idle", ver |-> 0]
    /\ \A g \in Files : g # f => storm'.batch[g] = storm.batch[g]
    /\ n \in Workers => storm'.batch[f] = "none"
    /\ n \notin Workers => storm'.batch[f] = Head(queue).job

\* An event that moves to a timer or to the batch is still due.
LEMMA TakeOverKeeps ==
    ASSUME Inv, queue # <<>>, NEW f \in Files, f = Head(queue).file,
           NEW n \in Workers \cup {0}, TakesOver(f, n),
           work' \in [Workers -> Worker], storm' \in StormState, deciding' \in BOOLEAN,
           queue' = Tail(queue), Threshold', Counted',
           UNCHANGED <<budget, disk, edits, graph, mtimes, lost, scans, faults, heal, raced, torn, failed>>
    PROVE  Inv'
  <1>0. heal = "none" /\ 0 \notin Workers  BY DEF Inv, Healing, Workers
  <1>1. Head(queue) \in Event /\ Tail(queue) \in Seq(Event) /\ Head(queue).job \in {"index", "evict"}
    BY TailFacts DEF Inv, Types, Event
  <1>2. pending' \in [Files -> Workers \cup {0}] /\ pending'[f] = n
        /\ \A g \in Files : g # f => pending'[g] = pending[g]
    BY DEF TakesOver, Inv, Types
  <1>3. Types'  BY <1>1, <1>2 DEF Inv, Types
  <1>4. \A w \in Workers : w # n =>
          /\ work'[w].todo = work[w].todo /\ work'[w].path = work[w].path
          /\ work'[w].file = work[w].file /\ work'[w].pc = work[w].pc
          /\ work'[w].ver = work[w].ver
          /\ \/ work'[w].role = work[w].role /\ (w = pending[f] => work[w].role = "patch")
             \/ /\ w = pending[f] /\ work[w].path = f
                /\ work[w].role = "armed" /\ work'[w].role = "done"
    BY DEF TakesOver
  <1>5. n \in Workers =>
          /\ work[n].role = "unused" /\ work[n].file = NoFile
          /\ work'[n].role = "armed" /\ work'[n].path = f /\ work'[n].file = NoFile
          /\ work'[n].pc = "idle" /\ work'[n].todo[f] = Head(queue).job
          /\ \A g \in Files : g # f => work'[n].todo[g] = "none"
    BY DEF TakesOver, NoJobs
  <1>6. Shapes'
    <2>1. ASSUME NEW w \in Workers, w # n PROVE Shape(w)'
      <3>1. Shape(w)  BY WorkerFacts
      <3>2. CASE work'[w].role = work[w].role  BY <1>4, <2>1, <3>1, <3>2 DEF Shape, Running
      <3>3. CASE work[w].role = "armed" /\ work'[w].role = "done"
        BY <1>4, <2>1, <3>1, <3>3 DEF Shape, Running
      <3> QED  BY <1>4, <2>1, <3>2, <3>3
    <2>2. n \in Workers => Shape(n)'  BY <1>1, <1>5 DEF Shape
    <2> QED  BY <2>1, <2>2 DEF Shapes
  <1>7. Timers'
    <2>1. SUFFICES ASSUME NEW g \in Files, pending'[g] # 0
                   PROVE  work'[pending'[g]].path = g /\ work'[pending'[g]].role \in {"armed", "patch"}
      BY DEF Timers
    <2>2. CASE g = f  BY <1>2, <1>5, <2>1, <2>2
    <2>3. CASE g # f
      <3>1. pending'[g] = pending[g] /\ pending[g] \in Workers
        BY <1>2, <2>1, <2>3 DEF Inv, Types
      <3>2. work[pending[g]].path = g /\ work[pending[g]].role \in {"armed", "patch"}
        BY <2>1, <3>1 DEF Inv, Timers
      <3>3. pending[g] # n  BY <1>5, <3>1, <3>2
      <3> QED  BY <1>4, <2>3, <3>1, <3>2, <3>3
    <2> QED  BY <2>2, <2>3
  <1>8. \A v \in Workers, g \in Files : Holds(v, g)' <=> Holds(v, g)
    <2>1. n \in Workers => \A g \in Files : ~Holds(n, g) /\ ~Holds(n, g)'  BY <1>5 DEF Holds, Has, Running
    <2>2. \A v \in Workers : v # n => (Running(v)' <=> Running(v))  BY <1>4 DEF Running
    <2>3. \A v \in Workers, g \in Files : v # n => (Holds(v, g)' <=> Holds(v, g))
      BY <1>4, <2>2 DEF Holds, Has
    <2> QED  BY <2>1, <2>3
  <1>9. \A v \in Workers, g \in Files : g # f => (Armed(g, v)' <=> Armed(g, v))
    <2>1. n \in Workers => \A g \in Files : g # f => ~Armed(g, n) /\ ~Armed(g, n)'
      BY <1>5 DEF Armed
    <2>2. \A v \in Workers, g \in Files : v # n /\ g # f => (Armed(g, v)' <=> Armed(g, v))
      BY <1>4 DEF Armed
    <2> QED  BY <2>1, <2>2
  <1>10. Alone(f) => \A v \in Workers : Armed(f, v)' <=> v = n
    <2>1. n \in Workers => Armed(f, n)'  BY <1>5 DEF Armed
    <2>2. ASSUME Alone(f), NEW v \in Workers, v # n PROVE ~Armed(f, v)'
      <3>1. Armed(f, v) => v = pending[f]  BY <2>2 DEF Alone
      <3> QED  BY <1>4, <2>2, <3>1 DEF Armed
    <2> QED  BY <2>1, <2>2
  <1>11. ASSUME NEW g \in Files, g \notin raced' PROVE Alone(g)'
    <2>1. Alone(g)  BY <1>11 DEF Inv
    <2>2. CASE g # f
      BY <1>2, <1>8, <1>9, <2>1, <2>2 DEF Alone, TakesOver
    <2>3. CASE g = f
      <3>1. \A v \in Workers : Armed(f, v)' => pending'[f] = v  BY <1>2, <1>10, <2>1, <2>3
      <3>2. storm'.batch[f] # "none" => \A v \in Workers : ~Armed(f, v)'
        BY <1>0, <1>10, <2>1, <2>3 DEF TakesOver
      <3>3. \A u, v \in Workers : Holds(u, f)' /\ Holds(v, f)' => u = v
        BY <1>8, <2>1, <2>3 DEF Alone
      <3> QED  BY <2>3, <3>1, <3>2, <3>3 DEF Alone
    <2> QED  BY <2>2, <2>3
  <1>12. ASSUME NEW g \in Files, g \notin raced', lost' = 0 PROVE LastWord(g)'
    <2>1. LastWord(g) /\ Alone(g)  BY <1>12 DEF Inv
    <2>2. /\ Names(queue, g) <=> Names(Tail(queue), g) \/ f = g
          /\ EndsGone(Tail(queue), g) => EndsGone(queue, g)
          /\ ~Names(Tail(queue), g) /\ f = g /\ Head(queue).job = "evict" => EndsGone(queue, g)
      BY NamesTail DEF Inv, Types
    <2>3. EndsGone(queue, g)' => disk'[g] = 0  BY <2>1, <2>2 DEF LastWord
    <2>4. CASE g # f
      <3>1. Names(queue, g)' <=> Names(queue, g)  BY <2>2, <2>4
      <3>2. storm'.batch[g] = storm.batch[g]  BY <2>4 DEF TakesOver
      <3>3. Due(g)' <=> Due(g)  BY <1>9, <2>4, <3>1, <3>2 DEF Due
      <3>4. \A v \in Workers : Holds(v, g) \/ Armed(g, v) => v # n
        BY <1>5 DEF Holds, Has, Armed, Running
      <3>5. \A v \in Workers : v # n /\ Phase(v, g) => Phase(v, g)'
        BY <1>4 DEF Phase
      <3>6. (InSync(g) => InSync(g)') /\ (Idle(g)' => Idle(g))
        BY <1>4, <1>8, <3>4 DEF InSync, Idle
      <3>7. ~Names(queue, g)' =>
               \A v \in Workers : Armed(g, v)' /\ work'[v].todo[g] = "evict" => disk'[g] = 0
        BY <1>4, <1>9, <2>1, <2>4, <3>1, <3>4 DEF LastWord
      <3>8. ~Due(g)' =>
              /\ \A v \in Workers : Holds(v, g)' =>
                    /\ work'[v].todo[g] \in {"evict", "absent", "purge"} => disk'[g] = 0
                    /\ work'[v].file = g => Phase(v, g)'
              /\ Idle(g)' => InSync(g)' \/ g \in failed'
        BY <1>4, <1>8, <2>1, <3>3, <3>4, <3>5, <3>6 DEF LastWord
      <3> QED  BY <2>1, <2>3, <3>1, <3>2, <3>7, <3>8 DEF LastWord
    <2>5. CASE g = f
      <3>1. ~Names(queue, f)' /\ Head(queue).job = "evict" => disk'[f] = 0
        BY <2>1, <2>2, <2>5 DEF LastWord
      <3>2. ~Names(queue, f)' /\ storm'.batch[f] = "evict" => disk'[f] = 0
        BY <3>1 DEF TakesOver
      <3>3. ~Names(queue, f)' =>
               \A v \in Workers : Armed(f, v)' /\ work'[v].todo[f] = "evict" => disk'[f] = 0
        BY <1>5, <1>10, <2>1, <2>5, <3>1
      <3>4. Due(f)'
        <4>1. CASE n \in Workers  BY <1>10, <2>1, <2>5, <4>1 DEF Due
        <4>2. CASE n \notin Workers
          <5>1. storm'.batch[f] # "none"  BY <1>1, <4>2 DEF TakesOver
          <5> QED  BY <5>1 DEF Due
        <4> QED  BY <4>1, <4>2
      <3> QED  BY <2>3, <2>5, <3>2, <3>3, <3>4 DEF LastWord
    <2> QED  BY <2>4, <2>5
  <1>13. ASSUME NEW g \in Files, g \notin raced', g \notin torn' PROVE Honest(g)'
    <2>1. Honest(g)  BY <1>13 DEF Inv
    <2>2. \A v \in Workers : /\ work'[v].file = work[v].file
                             /\ v # n => work'[v].pc = work[v].pc /\ work'[v].ver = work[v].ver
      BY <1>4, <1>5
    <2>3. \A v \in Workers : work'[v].file = g => v # n  BY <1>5, NoFileAssumption
    <2> QED  BY <2>1, <2>2, <2>3 DEF Honest, Phase
  <1>14. Healing'
    <2>1. \A v \in Workers : work'[v].role = "janitor" => work[v].role = "janitor"
      BY <1>4, <1>5
    <2> QED  BY <1>0, <2>1 DEF Inv, Healing
  <1> QED  BY <1>3, <1>6, <1>7, <1>11, <1>12, <1>13, <1>14 DEF Inv

\* recordEvent counts one event more in the window, and does nothing else.
LEMMA RecordedFacts ==
    ASSUME Inv, ~deciding, NEW kept \in 0 .. storm.recent
    PROVE  /\ Recorded(kept) \in StormState
           /\ Recorded(kept).active = storm.active /\ Recorded(kept).batch = storm.batch
           /\ Recorded(kept).timer = storm.timer
           /\ ~OverThreshold(kept) => /\ ~storm.active /\ storm.batch = NoJobs
                                      /\ Recorded(kept).recent <= StormThreshold
  <1>1. storm \in StormState /\ StormThreshold \in Nat  BY StormAssumption DEF Inv, Types
  <1>2. storm.recent \in 0 .. StormThreshold + 1 /\ kept \in Nat /\ kept <= storm.recent
    BY <1>1 DEF StormState
  <1>3. CASE StormThreshold > 0 /\ ~storm.active
    <2>1. storm.recent <= StormThreshold  BY <1>3 DEF Inv, Threshold
    <2>2. kept + 1 \in 0 .. StormThreshold + 1  BY <1>1, <1>2, <2>1
    <2>3. Recorded(kept) = [storm EXCEPT !.recent = kept + 1]  BY <1>3 DEF Recorded
    <2>4. Recorded(kept) \in StormState  BY <1>1, <2>2, <2>3 DEF StormState
    <2>5. /\ Recorded(kept).active = storm.active /\ Recorded(kept).batch = storm.batch
          /\ Recorded(kept).timer = storm.timer /\ Recorded(kept).recent = kept + 1
      BY <1>1, <2>3 DEF StormState
    <2>6. ~OverThreshold(kept) => kept + 1 <= StormThreshold
      BY <1>1, <1>2, <1>3 DEF OverThreshold
    <2>7. storm.batch = NoJobs  BY <1>3 DEF Inv, Threshold
    <2> QED  BY <1>3, <2>4, <2>5, <2>6, <2>7
  <1>4. CASE ~(StormThreshold > 0 /\ ~storm.active)
    <2>1. Recorded(kept) = storm  BY <1>4 DEF Recorded
    <2>2. ~OverThreshold(kept) => ~storm.active
      BY <1>4 DEF OverThreshold, Inv, Threshold
    <2>3. ~storm.active => storm.batch = NoJobs /\ storm.recent <= StormThreshold
      BY DEF Inv, Threshold
    <2> QED  BY <1>1, <2>1, <2>2, <2>3
  <1> QED  BY <1>3, <1>4

\* handleEvent below the threshold: the path's timer starts again.
LEMMA DebounceKeeps ==
    ASSUME Inv, NEW kept \in 0 .. storm.recent, Debounce(kept)
    PROVE  Inv'
  <1> DEFINE e == Head(queue)
             timer == [role |-> "armed", todo |-> [NoJobs EXCEPT ![e.file] = e.job],
                       path |-> e.file, file |-> NoFile, pc |-> "idle", ver |-> 0]
  <1>1. /\ queue # <<>> /\ deciding = FALSE /\ ~OverThreshold(kept) /\ storm' = Recorded(kept)
        /\ queue' = Tail(queue) /\ NoJobs' = NoJobs
        /\ UNCHANGED <<budget, disk, edits, deciding, graph, mtimes, lost,
                       scans, faults, heal, raced, torn, failed>>
    BY DEF Debounce, NoJobs, Inv, Types
  <1>2. PICK n \in Workers : Room(n)  BY <1>1, Spawn
  <1>3. PICK f \in Files : f = e.file /\ e \in Event
    BY <1>1, TailFacts DEF Inv, Types, Event
  <1>4. /\ storm' \in StormState /\ storm'.active = storm.active /\ storm'.batch = storm.batch
        /\ ~storm.active /\ storm.batch = NoJobs /\ storm'.recent <= StormThreshold
    BY <1>1, RecordedFacts
  <1>5. Threshold'  BY <1>1, <1>4 DEF Inv, Threshold
  <1>6. timer \in Worker
    BY <1>3 DEF Worker, NoJobs, Jobs, Event
  <1>7. [Unused EXCEPT !.role = "armed", !.path = e.file, !.todo[e.file] = e.job] = timer
    <2>1. [Unused EXCEPT !.role = "armed"] = [role |-> "armed", todo |-> NoJobs, path |-> NoFile,
                                              file |-> NoFile, pc |-> "idle", ver |-> 0]
      BY DEF Unused
    <2>2. [Unused EXCEPT !.role = "armed", !.path = e.file, !.todo[e.file] = e.job]
            = [[[Unused EXCEPT !.role = "armed"] EXCEPT !.path = e.file]
                EXCEPT !.todo = [NoJobs EXCEPT ![e.file] = e.job]]
      BY DEF Unused
    <2>3. [[role |-> "armed", todo |-> NoJobs, path |-> NoFile, file |-> NoFile, pc |-> "idle",
            ver |-> 0] EXCEPT !.path = e.file]
            = [role |-> "armed", todo |-> NoJobs, path |-> e.file, file |-> NoFile, pc |-> "idle",
               ver |-> 0]
      OBVIOUS
    <2>4. [[role |-> "armed", todo |-> NoJobs, path |-> e.file, file |-> NoFile, pc |-> "idle",
            ver |-> 0] EXCEPT !.todo = [NoJobs EXCEPT ![e.file] = e.job]]
            = timer
      OBVIOUS
    <2> QED  BY <2>1, <2>2, <2>3, <2>4
  <1>8. /\ work' = [StopTimer(work, f) EXCEPT ![n] = timer]
        /\ pending' = [pending EXCEPT ![f] = n]
    BY <1>2, <1>3, <1>7 DEF Debounce, Room
  <1> HIDE DEF timer
  <1>9. /\ work' \in [Workers -> Worker] /\ work'[n] = timer
        /\ \A w \in Workers : w # n => work'[w] = StopTimer(work, f)[w]
    BY <1>6, <1>8, Stopped
  <1>10. work[n].role = "unused" /\ work[n].file = NoFile
    <2>1. n \in Nat  BY MaxAssumption DEF Workers
    <2>2. work[n].role = "unused"  BY <1>2, <2>1 DEF Room
    <2> QED  BY <2>2, IdleWorker DEF Running
  <1>11. TakesOver(f, n)
    <2>1. storm'.batch = NoJobs /\ \A g \in Files : storm'.batch[g] = "none"
      BY <1>4 DEF NoJobs
    <2>2. work'[n] = [role |-> "armed", todo |-> [NoJobs EXCEPT ![f] = Head(queue).job],
                      path |-> f, file |-> NoFile, pc |-> "idle", ver |-> 0]
      BY <1>3, <1>9 DEF timer
    <2>3. \A w \in Workers : w # n =>
            /\ work'[w].todo = work[w].todo /\ work'[w].path = work[w].path
            /\ work'[w].file = work[w].file /\ work'[w].pc = work[w].pc
            /\ work'[w].ver = work[w].ver
            /\ \/ w # pending[f] /\ work'[w].role = work[w].role
               \/ w = pending[f] /\ work[w].path = f /\ work[w].role = "armed" /\ work'[w].role = "done"
               \/ w = pending[f] /\ work[w].path = f /\ work[w].role = "patch" /\ work'[w].role = "patch"
      BY <1>9, Stopped
    <2> QED  BY <1>4, <1>8, <1>10, <2>1, <2>2, <2>3 DEF TakesOver
  <1>12. Counted'
    <2>1. n \in Nat /\ \A w \in Workers : w \in Nat  BY MaxAssumption DEF Workers
    <2>2. \A w \in Workers : w # n => (work'[w].role = "unused" <=> work[w].role = "unused")
      BY <1>11 DEF TakesOver
    <2>3. work'[n].role # "unused"  BY <1>9 DEF timer
    <2>4. \A w \in Workers : work'[w].role # "unused" <=> w <= n
      BY <1>2, <2>1, <2>2, <2>3 DEF Room
    <2>5. Len(queue') = Len(queue) - 1 /\ Len(queue) \in Nat  BY <1>1, TailFacts DEF Inv, Types
    <2>6. Len(queue) + n <= edits + scans + 1  BY <1>2, <1>4, <2>1, <2>5 DEF Room
    <2>7. edits \in Nat /\ scans \in Nat  BY BudgetsAssumption, MaxAssumption DEF Inv, Types
    <2>8. Len(queue') + n + 0 <= edits' + scans'  BY <1>1, <2>1, <2>5, <2>6, <2>7
    <2>9. Enough(n)'  BY <1>1, <1>4, <2>4, <2>8 DEF Enough
    <2> QED  BY <2>1, <2>9 DEF Counted
  <1> QED  BY <1>1, <1>3, <1>4, <1>5, <1>9, <1>11, <1>12, TakeOverKeeps

\* recordInStorm: the batch takes over from the timer of the path.
LEMMA RecordInStormKeeps ==
    ASSUME Inv, RecordInStorm
    PROVE  Inv'
  <1>1. /\ deciding = TRUE /\ queue # <<>> /\ StormThreshold > 0 /\ storm' = Batched(Head(queue))
        /\ queue' = Tail(queue) /\ deciding' = FALSE /\ NoJobs' = NoJobs
        /\ UNCHANGED <<budget, disk, edits, graph, mtimes, lost, scans, faults, heal, raced, torn, failed>>
    BY DEF RecordInStorm, NoJobs, Inv, Types, Threshold
  <1>2. PICK f \in Files : f = Head(queue).file /\ Head(queue).job \in {"index", "evict"}
    BY <1>1, TailFacts DEF Inv, Types, Event
  <1>3. /\ storm' \in StormState /\ storm'.active = TRUE
        /\ storm'.batch = [storm.batch EXCEPT ![f] = Head(queue).job]
    BY <1>1, <1>2 DEF Batched, Inv, Types, StormState
  <1>4. /\ storm'.batch[f] = Head(queue).job
        /\ \A g \in Files : g # f => storm'.batch[g] = storm.batch[g]
    BY <1>3 DEF Inv, Types, StormState
  <1>5. Threshold'  BY <1>1, <1>3 DEF Threshold
  <1>6. work' = StopTimer(work, f) /\ pending' = [pending EXCEPT ![f] = 0]
    BY <1>2 DEF RecordInStorm
  <1>7. 0 \notin Workers  BY DEF Workers
  <1>8. work' \in [Workers -> Worker] /\ TakesOver(f, 0)
    BY <1>4, <1>6, <1>7, Stopped DEF TakesOver
  <1>9. Counted'
    <2>1. PICK m \in Nat : Enough(m)  BY DEF Inv, Counted
    <2>2. \A w \in Workers : work'[w].role = "unused" <=> work[w].role = "unused"
      BY <1>7, <1>8 DEF TakesOver
    <2>3. Len(queue') = Len(queue) - 1 /\ Len(queue) \in Nat  BY <1>1, TailFacts DEF Inv, Types
    <2>4. edits \in Nat /\ scans \in Nat  BY BudgetsAssumption, MaxAssumption DEF Inv, Types
    <2>5. Len(queue) + m + (IF storm.batch = NoJobs THEN 0 ELSE 1) <= edits + scans
      BY <2>1 DEF Enough
    <2>6. Len(queue') + m + (IF storm'.batch = NoJobs THEN 0 ELSE 1) <= edits' + scans'
      BY <1>1, <2>3, <2>4, <2>5
    <2>7. Enough(m)'  BY <1>1, <2>1, <2>2, <2>6 DEF Enough
    <2> QED  BY <2>7 DEF Counted
  <1> QED  BY <1>1, <1>2, <1>3, <1>5, <1>8, <1>9, TakeOverKeeps

\* shouldEnterStorm only counts.
LEMMA EnterStormKeeps ==
    ASSUME Inv, NEW kept \in 0 .. storm.recent, EnterStorm(kept)
    PROVE  Inv'
  <1>1. /\ queue # <<>> /\ ~deciding /\ StormThreshold > 0 /\ storm' = Recorded(kept)
        /\ deciding' = TRUE /\ NoJobs' = NoJobs
        /\ UNCHANGED <<budget, disk, edits, queue, pending, work, graph, mtimes, lost,
                       scans, faults, heal, raced, torn, failed>>
    BY DEF EnterStorm, OverThreshold, NoJobs
  <1>2. /\ storm' \in StormState /\ storm'.active = storm.active /\ storm'.batch = storm.batch
        /\ storm'.timer = storm.timer
    BY <1>1, RecordedFacts
  <1>3. Types'  BY <1>1, <1>2 DEF Inv, Types
  <1>4. Threshold'  BY <1>1, <1>2 DEF Inv, Threshold
  <1>5. Counted'  BY <1>1, <1>2 DEF Inv, Counted, Enough
  <1>6. Shapes' /\ Timers'  BY <1>1 DEF Inv, Shapes, Shape, Running, Timers
  <1>7. \A v \in Workers, g \in Files : (Holds(v, g)' <=> Holds(v, g)) /\ (Armed(g, v)' <=> Armed(g, v))
    BY <1>1 DEF Holds, Has, Running, Armed
  <1>8. \A g \in Files : Alone(g) => Alone(g)'  BY <1>1, <1>2, <1>7 DEF Alone
  <1>9. \A g \in Files : LastWord(g) => LastWord(g)'
    <2>1. SUFFICES ASSUME NEW g \in Files, LastWord(g) PROVE LastWord(g)'  OBVIOUS
    <2>2. Due(g)' <=> Due(g)  BY <1>1, <1>2, <1>7 DEF Due
    <2>3. \A v \in Workers : Phase(v, g) => Phase(v, g)'  BY <1>1 DEF Phase
    <2>4. InSync(g) => InSync(g)'  BY <1>1 DEF InSync
    <2>5. Idle(g)' => Idle(g)  BY <1>1, <1>7 DEF Idle
    <2> QED  BY <1>1, <1>2, <1>7, <2>1, <2>2, <2>3, <2>4, <2>5 DEF LastWord
  <1>10. \A g \in Files : Honest(g) => Honest(g)'  BY <1>1 DEF Honest, Phase
  <1>11. Healing'
    <2>1. heal' = "none"  BY <1>1 DEF Inv, Healing
    <2> QED  BY <1>1, <2>1 DEF Inv, Healing
  <1> QED  BY <1>1, <1>3, <1>4, <1>5, <1>6, <1>8, <1>9, <1>10, <1>11 DEF Inv

-------------------------------------------------------------------------------
(* Changes of the file system                                                *)

\* A change of f on disk makes the word on f due, or is lost.
LEMMA ChangeKeeps ==
    ASSUME Inv, NEW f \in Files, NEW v \in {0, edits + 2}, Change(f, v)
    PROVE  Inv'
  <1> DEFINE e == [file |-> f, job |-> IF v = 0 THEN "evict" ELSE "index"]
  <1>1. /\ edits < budget.edits /\ edits' = edits + 1 /\ disk' = [disk EXCEPT ![f] = v]
        /\ heal' = "none" /\ NoJobs' = NoJobs
        /\ UNCHANGED <<budget, deciding, pending, storm, work, graph, mtimes, scans, faults, raced,
                       failed>>
    BY DEF Change, NoJobs
  <1>2. \/ queue' = Append(queue, e) /\ lost' = lost
        \/ queue' = queue /\ lost < budget.lost /\ lost' = lost + 1
    BY DEF Change
  <1>3. torn' = IF \E w \in Workers : work[w].file = f /\ work[w].pc \in {"add", "stat"}
                THEN torn \cup {f} ELSE torn
    BY DEF Change
  <1>4. e \in Event /\ e.file = f /\ (e.job = "evict" => v = 0)  BY DEF Event
  <1> HIDE DEF e
  <1>5. /\ edits \in Nat /\ scans \in Nat /\ budget.edits \in Nat /\ budget.lost \in Nat
        /\ lost \in Nat /\ edits' \in 0 .. budget.edits /\ lost' \in 0 .. budget.lost
    <2>1. /\ budget.edits \in Nat /\ budget.lost \in Nat /\ budget.scans \in Nat
          /\ edits \in 0 .. budget.edits /\ lost \in 0 .. budget.lost /\ scans \in 0 .. budget.scans
      BY BudgetsAssumption, MaxAssumption DEF Inv, Types
    <2>2. edits' \in 0 .. budget.edits  BY <1>1, <2>1
    <2>3. lost' \in 0 .. budget.lost  BY <1>2, <2>1
    <2> QED  BY <2>1, <2>2, <2>3
  <1>6. /\ disk' \in [Files -> 0 .. edits' + 1] /\ disk'[f] = v
        /\ \A g \in Files : g # f => disk'[g] = disk[g]
        /\ mtimes' \in [Files -> 0 .. edits' + 1]
    BY <1>1, <1>5 DEF Inv, Types
  <1>7. /\ queue' \in Seq(Event) /\ Len(queue') <= Len(queue) + 1
        /\ Len(queue') \in Nat /\ Len(queue) \in Nat
    <2>1. queue \in Seq(Event) /\ Len(queue) \in Nat  BY DEF Inv, Types
    <2>2. CASE queue' = Append(queue, e)  BY <1>4, <2>1, <2>2, NamesAppend
    <2>3. CASE queue' = queue  BY <2>1, <2>3
    <2> QED  BY <1>2, <2>2, <2>3
  <1>8. /\ torn' \in SUBSET Files /\ torn \subseteq torn'
        /\ f \notin torn' => \A w \in Workers : work[w].file = f => work[w].pc \notin {"add", "stat"}
    BY <1>3 DEF Inv, Types
  <1>9. Types'  BY <1>1, <1>5, <1>6, <1>7, <1>8 DEF Inv, Types
  <1>10. Threshold'
    <2>1. queue # <<>> => queue' # <<>>  BY <1>2, <1>4 DEF Inv, Types
    <2> QED  BY <1>1, <2>1 DEF Inv, Threshold
  <1>11. Counted'
    <2>1. PICK m \in Nat : Enough(m)  BY DEF Inv, Counted
    <2>2. Len(queue) + m + (IF storm.batch = NoJobs THEN 0 ELSE 1) <= edits + scans
      BY <2>1 DEF Enough
    <2>3. Len(queue') + m + (IF storm'.batch = NoJobs' THEN 0 ELSE 1) <= edits' + scans'
      BY <1>1, <1>5, <1>7, <2>2
    <2>4. Enough(m)'  BY <1>1, <2>1, <2>3 DEF Enough
    <2> QED  BY <2>4 DEF Counted
  <1>12. Shapes' /\ Timers'  BY <1>1 DEF Inv, Shapes, Shape, Running, Timers
  <1>13. \A w \in Workers, g \in Files : (Holds(w, g)' <=> Holds(w, g)) /\ (Armed(g, w)' <=> Armed(g, w))
    BY <1>1 DEF Holds, Has, Running, Armed
  <1>14. \A g \in Files : Alone(g) => Alone(g)'  BY <1>1, <1>13 DEF Alone
  <1>15. ASSUME NEW g \in Files, g \notin raced', lost' = 0 PROVE LastWord(g)'
    <2>1. queue' = Append(queue, e) /\ lost = 0  BY <1>2, <1>5, <1>15
    <2>2. LastWord(g)  BY <1>1, <1>15, <2>1 DEF Inv
    <2>3. /\ Names(queue', g) <=> Names(queue, g) \/ f = g
          /\ EndsGone(queue', g) => (f = g /\ v = 0) \/ (f # g /\ EndsGone(queue, g))
      BY <1>4, <2>1, NamesAppend DEF Inv, Types
    <2>4. EndsGone(queue, g)' => disk'[g] = 0  BY <1>6, <2>2, <2>3 DEF LastWord
    <2>5. CASE g = f
      <3>1. Names(queue, g)'  BY <2>3, <2>5
      <3>2. Due(g)'  BY <3>1 DEF Due
      <3> QED  BY <2>4, <3>1, <3>2 DEF LastWord
    <2>6. CASE g # f
      <3>1. Names(queue, g)' <=> Names(queue, g)  BY <2>3, <2>6
      <3>2. Due(g)' <=> Due(g)  BY <1>1, <1>13, <3>1 DEF Due
      <3>3. \A w \in Workers : Phase(w, g) => Phase(w, g)'  BY <1>1, <1>6, <2>6 DEF Phase
      <3>4. InSync(g) => InSync(g)'  BY <1>1, <1>6, <2>6 DEF InSync
      <3>5. Idle(g)' => Idle(g)  BY <1>1, <1>13 DEF Idle
      <3> QED  BY <1>1, <1>6, <1>13, <2>2, <2>4, <2>6, <3>1, <3>2, <3>3, <3>4, <3>5 DEF LastWord
    <2> QED  BY <2>5, <2>6
  <1>16. ASSUME NEW g \in Files, g \notin raced', g \notin torn' PROVE Honest(g)'
    <2>1. Honest(g)  BY <1>1, <1>8, <1>16 DEF Inv
    <2>2. CASE g # f  BY <1>1, <1>6, <2>1, <2>2 DEF Honest, Phase
    <2>3. CASE g = f
      <3>1. \A w \in Workers : work[w].file = f => Phase(w, f)'
        BY <1>1, <1>8, <1>16, <2>1, <2>3 DEF Honest, Phase
      <3>2. mtimes[f] \in 0 .. edits + 1  BY DEF Inv, Types
      <3>3. graph[f] = {} => graph[f] = {mtimes[f]} \ {0} \/ mtimes[f] # v
        <4>1. CASE mtimes[f] = 0  BY <4>1
        <4>2. CASE mtimes[f] # 0  BY <1>5, <3>2, <4>2
        <4> QED  BY <4>1, <4>2
      <3>4. (\A w \in Workers : work[w].file # f) =>
               graph[f] = {mtimes[f]} \ {0} \/ (graph[f] = {} /\ mtimes[f] # v)
        BY <2>1, <2>3, <3>3 DEF Honest
      <3> QED  BY <1>1, <1>6, <2>3, <3>1, <3>4 DEF Honest
    <2> QED  BY <2>2, <2>3
  <1>17. Healing'  BY <1>1 DEF Inv, Healing
  <1> QED  BY <1>1, <1>9, <1>10, <1>11, <1>12, <1>14, <1>15, <1>16, <1>17 DEF Inv

-------------------------------------------------------------------------------
(* The theorems                                                              *)

\* After a full index nothing is due, and everything is in sync.
LEMMA InitInv ==
    ASSUME Init
    PROVE  Inv
  <1>1. /\ \A w \in Workers : work[w] = Unused
        /\ \A w \in Workers : /\ work[w].role = "unused" /\ work[w].file = NoFile
                              /\ work[w].pc = "idle"
        /\ Unused \in Worker
    BY DEF Init, Unused, Worker, NoJobs, Jobs
  <1>2. \A w \in Workers, g \in Files : ~Holds(w, g) /\ ~Armed(g, w)
    BY <1>1 DEF Holds, Has, Armed, Running
  <1>3. /\ storm \in StormState /\ storm.batch = NoJobs /\ ~storm.active /\ ~storm.timer
        /\ storm.recent = 0 /\ \A g \in Files : storm.batch[g] = "none"
    BY StormAssumption DEF Init, NoStorm, NoJobs, StormState
  <1>4. /\ budget.edits \in 0 .. MaxEdits /\ budget.lost \in 0 .. MaxLost /\ budget.scans \in 0 .. MaxScans
        /\ budget.faults \in 0 .. MaxFaults
    BY BudgetsAssumption, MaxAssumption DEF Init
  <1>5. queue = <<>> /\ queue \in Seq(Event) /\ Len(queue) = 0  BY DEF Init
  <1>6. Types
    <2>1. work \in [Workers -> Worker]  BY <1>1 DEF Init
    <2>2. graph \in [Files -> SUBSET Versions]  BY MaxAssumption DEF Init, Versions
    <2>3. disk \in [Files -> 0 .. edits + 1] /\ mtimes = disk  BY DEF Init
    <2>4. /\ edits \in 0 .. budget.edits /\ lost \in 0 .. budget.lost /\ scans \in 0 .. budget.scans
          /\ faults \in 0 .. budget.faults
      BY <1>4, MaxAssumption DEF Init
    <2> QED  BY <1>3, <1>5, <2>1, <2>2, <2>3, <2>4 DEF Init, Types
  <1>7. Threshold  BY <1>3, StormAssumption DEF Init, Threshold
  <1>8. Counted
    <2>1. \A w \in Workers : ~(w <= 0)  BY MaxAssumption DEF Workers
    <2>2. Enough(0)  BY <1>1, <1>3, <1>5, <2>1 DEF Enough, Init
    <2> QED  BY <2>2 DEF Counted
  <1>9. Shapes /\ Timers
    <2>1. \A w \in Workers, g \in Files : work[w].todo[g] = "none"  BY <1>1 DEF Unused, NoJobs
    <2> QED  BY <1>1, <2>1 DEF Shapes, Shape, Timers, Init
  <1>10. ASSUME NEW g \in Files PROVE Alone(g) /\ LastWord(g) /\ Honest(g)
    <2>1. ~EndsGone(queue, g) /\ InSync(g) /\ graph[g] = {mtimes[g]} \ {0}
      BY <1>5 DEF EndsGone, InSync, Init
    <2>2. \A w \in Workers : work[w].file # g  BY <1>1, NoFileAssumption
    <2> QED  BY <1>2, <1>3, <2>1, <2>2 DEF Alone, LastWord, Honest
  <1>11. Healing  BY <1>1 DEF Healing, Init
  <1> QED  BY <1>6, <1>7, <1>8, <1>9, <1>10, <1>11 DEF Inv

\* Every step keeps the invariant.
LEMMA NextInv ==
    ASSUME Inv, [Next]_vars
    PROVE  Inv'
  <1>1. ASSUME NEW f \in Files, Edit(f) PROVE Inv'
    BY <1>1, ChangeKeeps DEF Edit
  <1>2. ASSUME NEW f \in Files, Delete(f) PROVE Inv'
    BY <1>2, ChangeKeeps DEF Delete
  <1>3. CASE HandleEvent
    BY <1>3, DebounceKeeps, EnterStormKeeps, RecordInStormKeeps DEF HandleEvent
  <1>4. ASSUME NEW w \in Workers, Step(w) PROVE Inv'
    BY <1>4, WalkFileKeeps, EvictFileKeeps, ScanDeletedKeeps, ForgetMtimeKeeps, ReadFileKeeps,
       ReadGoneKeeps, PatchFailsKeeps, AddNodesKeeps, StatFileKeeps, FinishKeeps DEF Step
  <1>5. CASE UNCHANGED vars
    <2>1. Types' /\ Threshold' /\ Counted'
      BY <1>5 DEF vars, Inv, Types, Threshold, Counted, Enough, NoJobs
    <2>2. Shapes' /\ Timers'
      BY <1>5 DEF vars, Inv, Shapes, Shape, Running, Timers
    <2>3. \A g \in Files : Alone(g) => Alone(g)'
      BY <1>5 DEF vars, Alone, Holds, Has, Running, Armed
    <2>4. \A g \in Files : LastWord(g) => LastWord(g)'
      BY <1>5 DEF vars, LastWord, Names, EndsGone, Due, Idle, Holds, Has, Running, Armed, Phase, InSync
    <2>5. \A g \in Files : Honest(g) => Honest(g)'
      BY <1>5 DEF vars, Honest, Phase
    <2>6. Healing'
      BY <1>5 DEF vars, Inv, Healing, Mending, InSync, NoJobs
    <2> QED  BY <1>5, <2>1, <2>2, <2>3, <2>4, <2>5, <2>6 DEF Inv, vars
  <1> QED  BY <1>1, <1>2, <1>3, <1>4, <1>5, FireKeeps, DrainStormKeeps, JanitorTickKeeps DEF Next

\* The inductive invariant of FileSync.
LEMMA Inductive == Spec => []Inv
  BY InitInv, NextInv, PTL DEF Spec

\* The variables keep their types, the event times stay within the threshold, and
\* there is a worker for every timer and goroutine.
THEOREM TypeCorrect == Spec => []TypeOK
  <1>1. Inv => TypeOK
    <2>1. SUFFICES ASSUME Inv PROVE TypeOK  OBVIOUS
    <2>2. /\ budget.edits \in 0 .. MaxEdits /\ budget.lost \in 0 .. MaxLost /\ budget.scans \in 0 .. MaxScans
          /\ budget.faults \in 0 .. MaxFaults
      BY <2>1, BudgetsAssumption DEF Inv, Types
    <2>3. 0 .. edits + 1 \subseteq Versions \cup {0} /\ edits \in 0 .. MaxEdits
      BY <2>1, <2>2, MaxAssumption DEF Inv, Types, Versions
    <2>4. /\ disk \in [Files -> Versions \cup {0}] /\ mtimes \in [Files -> Versions \cup {0}]
      BY <2>1, <2>3 DEF Inv, Types
    <2>5. lost \in 0 .. MaxLost /\ scans \in 0 .. MaxScans /\ faults \in 0 .. MaxFaults
      BY <2>1, <2>2, MaxAssumption DEF Inv, Types
    <2>6. \A i \in 1 .. Len(queue) : queue[i] \in [file : Files, job : {"index", "evict"}]
      <3>1. queue \in Seq(Event)  BY <2>1 DEF Inv, Types
      <3>2. \A i \in 1 .. Len(queue) : queue[i] \in Event  BY <3>1
      <3> QED  BY <3>2 DEF Event
    <2> QED  BY <2>1, <2>3, <2>4, <2>5, <2>6 DEF Inv, Types, StormState, TypeOK
  <1> QED  BY <1>1, Inductive, PTL

\* When every event has been worked off and none was lost, the graph agrees with
\* the disk about each file that was never raced for and whose latest patch did not
\* fail: neither the debounce, nor the storm batch, nor a cancelled timer, nor a
\* janitor whose walk is out of date loses the last word (handleEvent, drainStorm,
\* patchGraph, IncrementalReindex), for any number of files, edits and failures.
THEOREM Synced == Spec => []SyncedUnlessRaced
  <1>1. Inv => SyncedUnlessRaced
    <2>1. SUFFICES ASSUME Inv, Quiescent, lost = 0, NEW f \in Files \ (raced \cup failed)
                   PROVE  InSync(f)
      BY DEF SyncedUnlessRaced
    <2>2. \A w \in Workers : ~Holds(w, f) /\ ~Armed(f, w)
      BY <2>1 DEF Quiescent, Holds, Has, Running, Armed
    <2>3. ~Names(queue, f) /\ storm.batch[f] = "none"
      BY <2>1 DEF Quiescent, Names, NoJobs
    <2>4. Idle(f)  BY <2>2 DEF Idle
    <2> QED  BY <2>1, <2>2, <2>3, <2>4 DEF Inv, LastWord, Due
  <1> QED  BY <1>1, Inductive, PTL

\* An undisturbed tick of the janitor puts right what lost events and failed patches
\* left wrong, for each file that is neither raced for nor torn: its walk, its search
\* for deleted files and its patches (IncrementalReindex, IsStale, indexFile).
THEOREM Healed == Spec => []HealedUnlessRacedOrTorn
  <1>1. Inv => HealedUnlessRacedOrTorn
    BY DEF Inv, Healing, HealedUnlessRacedOrTorn
  <1> QED  BY <1>1, Inductive, PTL
===============================================================================
