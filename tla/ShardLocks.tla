------------------------------ MODULE ShardLocks ------------------------------
(***************************************************************************)
(* The locking protocol of the sharded graph (internal/graph/graph.go).    *)
(*                                                                         *)
(* Every method of Graph takes the read or the write lock of the shards it *)
(* works on.  lockTwoWrite, lockThreeWrite and lockAllWrite/lockAllRead    *)
(* acquire several of them one after the other, always in ascending order; *)
(* the look-ups that ask every shard in turn (FindNodesByName,             *)
(* GetFileNodes, NodeCount, ...) hold one shard at a time.  A thread here  *)
(* is a goroutine inside one such call: it computes the shards to lock     *)
(* from the IDs it was given, acquires them, runs its critical section,    *)
(* and releases them in descending order.                                  *)
(*                                                                         *)
(* A sync.RWMutex is modelled by its documented behaviour: a writer first  *)
(* claims the mutex, which keeps new readers out, and then waits for the   *)
(* readers inside to leave.                                                *)
(***************************************************************************)
EXTENDS Integers, Sequences

CONSTANTS
    Threads,     \* goroutines calling into the graph
    NumShards,   \* numShards; 16 in the code
    None         \* no thread

Shards == 0 .. NumShards - 1

ASSUME NumShardsAssumption == NumShards \in Nat \ {0}
ASSUME NoneAssumption == None \notin Threads

VARIABLES
    pc,       \* pc[t]: where t is in its call
    op,       \* op[t]: the mode of the call and the shards its body touches
    plan,     \* plan[t]: the shards the call locks, in the order of locking
    n,        \* n[t]: how many shards of plan[t] have been locked
    claim,    \* claim[s]: the writer inside, or waiting for readers to leave
    readers   \* readers[s]: the threads that hold s for read

vars == <<pc, op, plan, n, claim, readers>>

-------------------------------------------------------------------------------
(* The lock plans: which shards a call locks, in which order.              *)

\* Mutant of PlanTwo: the two shards in the order of the arguments.
PlanTwoUnordered(a, b) == IF a = b THEN <<a>> ELSE <<a, b>>

\* lockTwoWrite: one lock when the shards coincide, else the lower first.
PlanTwo(a, b) ==
    IF a = b THEN <<a>>
    ELSE IF a > b THEN <<b, a>> ELSE <<a, b>>

\* "if a > b { a, b = b, a }" leaves the lower in a, the higher in b.
Lower(a, b) == IF a > b THEN b ELSE a
Higher(a, b) == IF a > b THEN a ELSE b

\* Mutant of Dedupe: the last index is compared with the first only once the
\* first two differ.
DedupeDropsThird(a, b, c) ==
    IF b # a THEN IF c # b THEN <<a, b, c>> ELSE <<a, b>> ELSE <<a>>

\* idxs[n] = x; n++ when x is not an index already recorded.
Dedupe(a, b, c) ==
    LET two == IF b # a THEN Append(<<a>>, b) ELSE <<a>>
    IN  IF c # b /\ c # a THEN Append(two, c) ELSE two

\* lockThreeWrite: three comparators, (a,b) (b,c) (a,b), then the dedupe.
PlanThree(a, b, c) ==
    LET lo == Lower(a, b)
        hi == Higher(a, b)
        mid == Lower(hi, c)
    IN  Dedupe(Lower(lo, mid), Higher(lo, mid), Higher(hi, c))

\* Mutant of PlanAll: shards counted from one.
PlanAllFromOne == [i \in 1 .. NumShards |-> i]

\* lockAllWrite, lockAllRead, and the one-shard-at-a-time scans.
PlanAll == [i \in 1 .. NumShards |-> i - 1]

NoCall == [mode |-> "none", touches |-> {}]

\* The shard a goroutine locks next, and the one it locked last.
NextShard(t) == plan[t][n[t] + 1]
LastShard(t) == plan[t][n[t]]

\* The shards a goroutine holds.  A scan holds one at a time.
Held(t) ==
    IF op[t].mode = "scan"
    THEN IF pc[t] \in {"body", "unlock"} THEN {LastShard(t)} ELSE {}
    ELSE {plan[t][i] : i \in 1 .. n[t]}

-------------------------------------------------------------------------------
Init ==
    /\ pc = [t \in Threads |-> "idle"]
    /\ op = [t \in Threads |-> NoCall]
    /\ plan = [t \in Threads |-> <<>>]
    /\ n = [t \in Threads |-> 0]
    /\ claim = [s \in Shards |-> None]
    /\ readers = [s \in Shards |-> {}]

\* A goroutine enters a method of Graph: mode and touched shards are the
\* method's, the plan is computed by the helper it calls.
Call(t, mode, touches, p) ==
    /\ pc[t] = "idle"
    /\ pc' = [pc EXCEPT ![t] = "lock"]
    /\ op' = [op EXCEPT ![t] = [mode |-> mode, touches |-> touches]]
    /\ plan' = [plan EXCEPT ![t] = p]
    /\ n' = [n EXCEPT ![t] = 0]
    /\ UNCHANGED <<claim, readers>>

\* AddNode: the node's shard.
CallAddNode(t) == \E a \in Shards : Call(t, "write", {a}, <<a>>)

\* AddEdge, RemoveEdge: the shards of both end points.
CallEdge(t) == \E a, b \in Shards : Call(t, "write", {a, b}, PlanTwo(a, b))

\* ReindexEdge: the shards of From, of the old To and of the new To.
CallReindexEdge(t) ==
    \E a, b, c \in Shards : Call(t, "write", {a, b, c}, PlanThree(a, b, c))

\* EvictFile, EvictRepo.
CallEvict(t) == Call(t, "write", Shards, PlanAll)

\* GetNode, GetOutEdges, GetInEdges.
CallGet(t) == \E a \in Shards : Call(t, "read", {a}, <<a>>)

\* AllNodes, AllEdges, Stats, RepoStats, RepoMemoryEstimate.
CallAll(t) == Call(t, "read", Shards, PlanAll)

\* FindNodesByName, GetFileNodes, GetNodeByQualName, GetRepoNodes, NodeCount,
\* EdgeCount, RepoPrefixes: RLock, read, RUnlock, shard after shard.
CallScan(t) == Call(t, "scan", {}, PlanAll)

-------------------------------------------------------------------------------
(* sync.RWMutex.                                                           *)

\* Lock, first half: no other writer is inside; readers are kept out from now.
ClaimWrite(t) ==
    /\ pc[t] = "lock"
    /\ op[t].mode = "write"
    /\ claim[NextShard(t)] = None
    /\ claim' = [claim EXCEPT ![NextShard(t)] = t]
    /\ pc' = [pc EXCEPT ![t] = "drain"]
    /\ UNCHANGED <<op, plan, n, readers>>

\* What follows an acquired lock: the next lock of the plan, or the body.
Acquired(t) ==
    /\ n' = [n EXCEPT ![t] = @ + 1]
    /\ pc' = [pc EXCEPT ![t] =
                IF op[t].mode # "scan" /\ n[t] + 1 < Len(plan[t])
                THEN "lock" ELSE "body"]

\* Lock, second half: the last reader has left.
DrainWrite(t) ==
    /\ pc[t] = "drain"
    /\ readers[NextShard(t)] = {}
    /\ Acquired(t)
    /\ UNCHANGED <<op, plan, claim, readers>>

\* RLock: no writer is inside or waiting.
LockRead(t) ==
    /\ pc[t] = "lock"
    /\ op[t].mode \in {"read", "scan"}
    /\ claim[NextShard(t)] = None
    /\ readers' = [readers EXCEPT ![NextShard(t)] = @ \cup {t}]
    /\ Acquired(t)
    /\ UNCHANGED <<op, plan, claim>>

\* The critical section ends.
Body(t) ==
    /\ pc[t] = "body"
    /\ pc' = [pc EXCEPT ![t] = "unlock"]
    /\ UNCHANGED <<op, plan, n, claim, readers>>

\* The call returns: its local state is gone.
Return(t) ==
    /\ pc' = [pc EXCEPT ![t] = "idle"]
    /\ op' = [op EXCEPT ![t] = NoCall]
    /\ plan' = [plan EXCEPT ![t] = <<>>]
    /\ n' = [n EXCEPT ![t] = 0]

\* Unlock of a write call: the lock acquired last is released first.
UnlockWrite(t) ==
    /\ pc[t] = "unlock"
    /\ op[t].mode = "write"
    /\ claim' = [claim EXCEPT ![LastShard(t)] = None]
    /\ IF n[t] > 1
       THEN n' = [n EXCEPT ![t] = @ - 1] /\ UNCHANGED <<pc, op, plan>>
       ELSE Return(t)
    /\ UNCHANGED readers

\* RUnlock of a read call, likewise.
UnlockRead(t) ==
    /\ pc[t] = "unlock"
    /\ op[t].mode = "read"
    /\ readers' = [readers EXCEPT ![LastShard(t)] = @ \ {t}]
    /\ IF n[t] > 1
       THEN n' = [n EXCEPT ![t] = @ - 1] /\ UNCHANGED <<pc, op, plan>>
       ELSE Return(t)
    /\ UNCHANGED claim

\* RUnlock of a scan, which goes on with the next shard.
UnlockScan(t) ==
    /\ pc[t] = "unlock"
    /\ op[t].mode = "scan"
    /\ readers' = [readers EXCEPT ![LastShard(t)] = @ \ {t}]
    /\ IF n[t] < Len(plan[t])
       THEN pc' = [pc EXCEPT ![t] = "lock"] /\ UNCHANGED <<op, plan, n>>
       ELSE Return(t)
    /\ UNCHANGED claim

-------------------------------------------------------------------------------
Enter(t) ==
    \/ CallAddNode(t) \/ CallEdge(t) \/ CallReindexEdge(t) \/ CallEvict(t)
    \/ CallGet(t) \/ CallAll(t) \/ CallScan(t)

Step(t) ==
    \/ Enter(t)
    \/ ClaimWrite(t) \/ DrainWrite(t) \/ LockRead(t)
    \/ Body(t)
    \/ UnlockWrite(t) \/ UnlockRead(t) \/ UnlockScan(t)

Next == \E t \in Threads : Step(t)

\* A goroutine inside a call keeps running.  The acquisitions are strongly
\* fair: sync.Mutex hands the mutex to the longest waiter once it has waited
\* for a millisecond, and Unlock admits the readers blocked behind the writer
\* before the next writer.  Entering a call is the caller's choice.
Fairness ==
    \A t \in Threads :
        /\ SF_vars(ClaimWrite(t)) /\ SF_vars(LockRead(t))
        /\ WF_vars(DrainWrite(t)) /\ WF_vars(Body(t))
        /\ WF_vars(UnlockWrite(t) \/ UnlockRead(t) \/ UnlockScan(t))

Spec == Init /\ [][Next]_vars
FairSpec == Spec /\ Fairness

-------------------------------------------------------------------------------
\* The variables have the types the code gives them; every plan names shards
\* that exist.
TypeOK ==
    /\ pc \in [Threads -> {"idle", "lock", "drain", "body", "unlock"}]
    /\ op \in [Threads -> [mode : {"none", "write", "read", "scan"},
                           touches : SUBSET Shards]]
    /\ plan \in [Threads -> Seq(Shards)]
    /\ n \in [Threads -> Nat]
    /\ claim \in [Shards -> Threads \cup {None}]
    /\ readers \in [Shards -> SUBSET Threads]

\* The body of a method touches only shards whose lock its goroutine holds in
\* the method's mode, and while a writer is in its body nobody else holds any
\* of its shards: no body races with another on the maps of a shard (the
\* "concurrent map read and map write" that the comments of lockThreeWrite
\* and ReindexEdge are about).
NoConflict ==
    \A t \in Threads :
        pc[t] = "body" =>
            /\ op[t].touches \subseteq Held(t)
            /\ op[t].mode = "write" =>
                 \A u \in Threads \ {t} : Held(t) \cap Held(u) = {}

\* A goroutine waits only for a shard above every shard it holds, so no cycle
\* of goroutines waits for itself (the comment on numShards: "To avoid
\* deadlock we always acquire shards in ascending index order").
LockOrder ==
    \A t \in Threads :
        pc[t] \in {"lock", "drain"} => \A s \in Held(t) : s < NextShard(t)

\* Every call into the graph returns: no deadlock and no starvation among the
\* lock helpers, whatever the other goroutines call.
CallsReturn == \A t \in Threads : (pc[t] # "idle") ~> (pc[t] = "idle")

===============================================================================
