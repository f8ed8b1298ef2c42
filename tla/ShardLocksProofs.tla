--------------------------- MODULE ShardLocksProofs ---------------------------
(***************************************************************************)
(* The lock protocol of the sharded graph, for every number of goroutines  *)
(* and of shards: no two bodies conflict on a shard, and locks are taken   *)
(* in ascending order.                                                     *)
(***************************************************************************)
EXTENDS ShardLocks, TLAPS

Ascending(p) == \A i, j \in 1 .. Len(p) : i < j => p[i] < p[j]

Members(p) == {p[i] : i \in 1 .. Len(p)}

\* The plan of a call is ascending and covers what the body touches.
PlanInv(t) ==
    pc[t] # "idle" =>
        /\ op[t].mode \in {"write", "read", "scan"}
        /\ Ascending(plan[t])
        /\ op[t].touches \subseteq Members(plan[t])
        /\ op[t].mode = "scan" => op[t].touches = {}

\* How far the call is.
CursorInv(t) ==
    /\ pc[t] = "idle" => n[t] = 0 /\ op[t].mode = "none"
    /\ pc[t] \in {"lock", "drain"} => n[t] < Len(plan[t])
    /\ pc[t] \in {"body", "unlock"} => n[t] \in 1 .. Len(plan[t])
    /\ pc[t] = "body" /\ op[t].mode # "scan" => n[t] = Len(plan[t])

\* What the mutexes know of the call.
MutexInv(t) ==
    /\ pc[t] = "drain" => op[t].mode = "write" /\ claim[NextShard(t)] = t
    /\ op[t].mode = "write" =>
         \A s \in Held(t) : claim[s] = t /\ readers[s] = {}
    /\ op[t].mode \in {"read", "scan"} =>
         \A s \in Held(t) : t \in readers[s]

ThreadInv(t) == PlanInv(t) /\ CursorInv(t) /\ MutexInv(t)

\* The inductive invariant: NoConflict and LockOrder speak of what is held,
\* ThreadInv adds why the mutexes and the plans guarantee it.
IInv == TypeOK /\ \A t \in Threads : ThreadInv(t)

-------------------------------------------------------------------------------
\* lockTwoWrite's order is ascending and covers both shards.
LEMMA PlanTwoCorrect ==
    ASSUME NEW a \in Shards, NEW b \in Shards
    PROVE  /\ PlanTwo(a, b) \in Seq(Shards)
           /\ Len(PlanTwo(a, b)) > 0
           /\ Ascending(PlanTwo(a, b))
           /\ {a, b} \subseteq Members(PlanTwo(a, b))
<1>1. CASE a = b
  BY <1>1 DEF PlanTwo, Ascending, Members, Shards
<1>2. CASE a > b
  <2>1. PlanTwo(a, b) = <<b, a>>
    BY <1>2, NumShardsAssumption DEF PlanTwo, Shards
  <2>2. /\ a = <<b, a>>[2] /\ b = <<b, a>>[1]
        /\ Len(<<b, a>>) = 2
    OBVIOUS
  <2> QED
    BY <1>2, <2>1, <2>2, NumShardsAssumption DEF Ascending, Members, Shards
<1>3. CASE a < b
  <2>1. PlanTwo(a, b) = <<a, b>>
    BY <1>3, NumShardsAssumption DEF PlanTwo, Shards
  <2>2. /\ a = <<a, b>>[1] /\ b = <<a, b>>[2]
        /\ Len(<<a, b>>) = 2
    OBVIOUS
  <2> QED
    BY <1>3, <2>1, <2>2, NumShardsAssumption DEF Ascending, Members, Shards
<1> QED
  BY <1>1, <1>2, <1>3, NumShardsAssumption DEF Shards

\* Appending a larger index keeps a plan ascending.
LEMMA AppendAscending ==
    ASSUME NEW p \in Seq(Shards), Len(p) > 0, Ascending(p),
           NEW x \in Shards, p[Len(p)] < x
    PROVE  /\ Append(p, x) \in Seq(Shards)
           /\ Len(Append(p, x)) = Len(p) + 1
           /\ Append(p, x)[Len(p) + 1] = x
           /\ Ascending(Append(p, x))
           /\ Members(p) \cup {x} \subseteq Members(Append(p, x))
<1> DEFINE q == Append(p, x)
<1>1. /\ q \in Seq(Shards) /\ Len(q) = Len(p) + 1 /\ q[Len(p) + 1] = x
      /\ \A i \in 1 .. Len(p) : q[i] = p[i]
  OBVIOUS
<1> HIDE DEF q
<1>2. \A i \in 1 .. Len(p) : p[i] \in Shards /\ p[i] <= p[Len(p)]
  BY NumShardsAssumption DEF Ascending, Shards
<1>3. ASSUME NEW i \in 1 .. Len(q), NEW j \in 1 .. Len(q), i < j
      PROVE  q[i] < q[j]
  <2>1. i \in 1 .. Len(p) /\ q[i] = p[i]
    BY <1>1, <1>3
  <2>2. CASE j = Len(p) + 1
    <3>1. p[i] \in Int /\ p[Len(p)] \in Int /\ x \in Int
      BY <1>2, <2>1, NumShardsAssumption DEF Shards
    <3> QED
      BY <1>1, <1>2, <2>1, <2>2, <3>1
  <2>3. CASE j # Len(p) + 1
    BY <1>1, <1>3, <2>1, <2>3 DEF Ascending
  <2> QED
    BY <2>2, <2>3
<1>4. Members(p) \cup {x} \subseteq Members(q)
  BY <1>1 DEF Members
<1> QED
  BY <1>1, <1>3, <1>4 DEF q, Ascending

\* The dedupe of lockThreeWrite keeps a sorted triple's members, once each.
LEMMA DedupeCorrect ==
    ASSUME NEW a \in Shards, NEW b \in Shards, NEW c \in Shards,
           a <= b, b <= c
    PROVE  /\ Dedupe(a, b, c) \in Seq(Shards)
           /\ Len(Dedupe(a, b, c)) > 0
           /\ Ascending(Dedupe(a, b, c))
           /\ {a, b, c} \subseteq Members(Dedupe(a, b, c))
<1> DEFINE one == <<a>>
           two == IF b # a THEN Append(one, b) ELSE one
<1>1. /\ one \in Seq(Shards) /\ Len(one) = 1 /\ one[1] = a
      /\ Ascending(one) /\ a \in Members(one)
  BY DEF Ascending, Members
<1>3. Dedupe(a, b, c) = IF c # b /\ c # a THEN Append(two, c) ELSE two
  BY DEF Dedupe
<1> HIDE DEF one
<1>2. /\ two \in Seq(Shards) /\ Len(two) > 0 /\ Ascending(two)
      /\ two[Len(two)] = b
      /\ a \in Members(two) /\ b \in Members(two)
  <2>1. CASE b = a
    <3>1. two = one
      BY <2>1
    <3>2. one[Len(one)] = b /\ b \in Members(one) /\ Len(one) > 0
      BY <1>1, <2>1
    <3> QED
      BY <1>1, <3>1, <3>2, Zenon
  <2>2. CASE b # a
    <3>1. one[Len(one)] < b /\ Len(one) > 0
      BY <1>1, <2>2, NumShardsAssumption DEF Shards
    <3>2. /\ Append(one, b) \in Seq(Shards)
          /\ Len(Append(one, b)) = Len(one) + 1
          /\ Append(one, b)[Len(one) + 1] = b
          /\ Ascending(Append(one, b))
          /\ Members(one) \cup {b} \subseteq Members(Append(one, b))
      BY <1>1, <3>1, AppendAscending
    <3> QED
      BY <1>1, <2>2, <3>2
  <2> QED
    BY <2>1, <2>2
<1> HIDE DEF two
<1>4. CASE c # b /\ c # a
  <2>1. b < c
    BY <1>4, NumShardsAssumption DEF Shards
  <2> QED
    BY <1>2, <1>3, <1>4, <2>1, AppendAscending
<1>5. CASE c = b \/ c = a
  BY <1>2, <1>3, <1>5
<1> QED
  BY <1>4, <1>5

\* lockThreeWrite's order is ascending and covers the three shards.
LEMMA PlanThreeCorrect ==
    ASSUME NEW a \in Shards, NEW b \in Shards, NEW c \in Shards
    PROVE  /\ PlanThree(a, b, c) \in Seq(Shards)
           /\ Len(PlanThree(a, b, c)) > 0
           /\ Ascending(PlanThree(a, b, c))
           /\ {a, b, c} \subseteq Members(PlanThree(a, b, c))
<1> USE NumShardsAssumption DEF Shards
<1> DEFINE lo == Lower(a, b)
           hi == Higher(a, b)
           mid == Lower(hi, c)
           x == Lower(lo, mid)
           y == Higher(lo, mid)
           z == Higher(hi, c)
<1>1. /\ x \in Shards /\ y \in Shards /\ z \in Shards
      /\ x <= y /\ y <= z
      /\ {a, b, c} \subseteq {x, y, z}
  BY DEF Lower, Higher
<1>2. PlanThree(a, b, c) = Dedupe(x, y, z)
  BY DEF PlanThree
<1> HIDE DEF x, y, z
<1> QED
  BY <1>1, <1>2, DedupeCorrect

\* lockAllWrite and lockAllRead cover every shard in ascending order.
LEMMA PlanAllCorrect ==
    /\ PlanAll \in Seq(Shards)
    /\ Len(PlanAll) > 0
    /\ Ascending(PlanAll)
    /\ Shards \subseteq Members(PlanAll)
<1> USE NumShardsAssumption DEF Shards
<1>1. PlanAll \in Seq(Shards) /\ Len(PlanAll) = NumShards
  BY DEF PlanAll
<1>2. \A i \in 1 .. NumShards : PlanAll[i] = i - 1
  BY DEF PlanAll
<1>3. ASSUME NEW s \in Shards PROVE s \in Members(PlanAll)
  <2>1. s + 1 \in 1 .. NumShards /\ PlanAll[s + 1] = s
    BY <1>2
  <2> QED
    BY <1>1, <2>1 DEF Members
<1> QED
  BY <1>1, <1>2, <1>3 DEF Ascending

-------------------------------------------------------------------------------
\* A plan that is ascending and covers what the body of the call touches.
GoodPlan(mode, touches, p) ==
    /\ mode \in {"write", "read", "scan"}
    /\ touches \in SUBSET Shards
    /\ p \in Seq(Shards)
    /\ Len(p) > 0
    /\ Ascending(p)
    /\ touches \subseteq Members(p)
    /\ mode = "scan" => touches = {}

\* Every call starts with such a plan.
LEMMA EnterPlan ==
    ASSUME NEW t \in Threads, Enter(t)
    PROVE  \E mode, touches, p :
             Call(t, mode, touches, p) /\ GoodPlan(mode, touches, p)
<1>1. ASSUME NEW a \in Shards
      PROVE  GoodPlan("write", {a}, <<a>>) /\ GoodPlan("read", {a}, <<a>>)
  BY DEF GoodPlan, Ascending, Members
<1>2. ASSUME NEW a \in Shards, NEW b \in Shards
      PROVE  GoodPlan("write", {a, b}, PlanTwo(a, b))
  BY PlanTwoCorrect DEF GoodPlan
<1>3. ASSUME NEW a \in Shards, NEW b \in Shards, NEW c \in Shards
      PROVE  GoodPlan("write", {a, b, c}, PlanThree(a, b, c))
  BY PlanThreeCorrect DEF GoodPlan
<1>4. /\ GoodPlan("write", Shards, PlanAll) /\ GoodPlan("read", Shards, PlanAll)
      /\ GoodPlan("scan", {}, PlanAll)
  BY PlanAllCorrect DEF GoodPlan
<1> QED
  BY <1>1, <1>2, <1>3, <1>4, Zenon
     DEF Enter, CallAddNode, CallEdge, CallReindexEdge, CallEvict, CallGet,
         CallAll, CallScan

\* The initial state satisfies the inductive invariant.
LEMMA InitIInv == Init => IInv
BY NoneAssumption DEF Init, IInv, TypeOK, ThreadInv, PlanInv, CursorInv,
   MutexInv, Held, NoCall

\* A call changes nothing but the caller's own local state.
LEMMA EnterIInv ==
    ASSUME IInv, NEW t \in Threads, Enter(t)
    PROVE  IInv'
<1>0. PICK mode, touches, p :
        Call(t, mode, touches, p) /\ GoodPlan(mode, touches, p)
  BY EnterPlan
<1>1. /\ Call(t, mode, touches, p)
      /\ mode \in {"write", "read", "scan"}
      /\ touches \in SUBSET Shards
      /\ p \in Seq(Shards)
      /\ Len(p) > 0
      /\ Ascending(p)
      /\ touches \subseteq Members(p)
      /\ mode = "scan" => touches = {}
  BY <1>0 DEF GoodPlan
<1>2. TypeOK'
  BY <1>1 DEF IInv, TypeOK, Call
<1>3. ThreadInv(t)'
  <2>1. Held(t)' = {}
    BY <1>1 DEF IInv, TypeOK, Call, Held
  <2>2. PlanInv(t)' /\ CursorInv(t)'
    BY <1>1 DEF IInv, TypeOK, Call, PlanInv, CursorInv
  <2> QED
    BY <1>1, <2>1, <2>2 DEF IInv, TypeOK, Call, ThreadInv, MutexInv
<1>4. ASSUME NEW u \in Threads, u # t PROVE ThreadInv(u)'
  <2>1. ThreadInv(u)
    BY DEF IInv
  <2>2. /\ pc'[u] = pc[u] /\ op'[u] = op[u] /\ plan'[u] = plan[u]
        /\ n'[u] = n[u] /\ claim' = claim /\ readers' = readers
    BY <1>1, <1>4 DEF IInv, TypeOK, Call
  <2> QED
    BY <2>1, <2>2 DEF ThreadInv, PlanInv, CursorInv, MutexInv, Held,
                      NextShard, LastShard
<1> QED
  BY <1>2, <1>3, <1>4 DEF IInv

\* What the plan of a call in progress gives: its members are shards, and
\* distinct positions hold distinct shards.
LEMMA PlanFacts ==
    ASSUME IInv, NEW t \in Threads, pc[t] # "idle"
    PROVE  /\ plan[t] \in Seq(Shards) /\ n[t] \in Nat
           /\ \A i \in 1 .. Len(plan[t]) : plan[t][i] \in Shards
           /\ \A i, j \in 1 .. Len(plan[t]) : i < j => plan[t][i] # plan[t][j]
BY NumShardsAssumption
   DEF IInv, TypeOK, ThreadInv, PlanInv, Ascending, Shards

\* A writer claims its next shard.
LEMMA ClaimWriteIInv ==
    ASSUME IInv, NEW t \in Threads, ClaimWrite(t)
    PROVE  IInv'
<1>1. NextShard(t) \in Shards /\ n[t] + 1 \in 1 .. Len(plan[t])
  BY PlanFacts DEF IInv, ThreadInv, CursorInv, ClaimWrite, NextShard
<1>2. TypeOK'
  BY <1>1 DEF IInv, TypeOK, ClaimWrite
<1>3. ASSUME NEW u \in Threads PROVE ThreadInv(u)'
  <2>1. PlanInv(u)' /\ CursorInv(u)'
    BY DEF IInv, TypeOK, ThreadInv, PlanInv, CursorInv, ClaimWrite
  <2>2. /\ Held(u)' = Held(u) /\ NextShard(u)' = NextShard(u)
        /\ op'[u] = op[u] /\ readers' = readers
    BY DEF IInv, TypeOK, ClaimWrite, Held, NextShard, LastShard
  <2>3. \A s \in Held(u) : op[u].mode = "write" => claim'[s] = claim[s]
    BY <1>1, NoneAssumption DEF IInv, TypeOK, ThreadInv, MutexInv, ClaimWrite
  <2>4. pc'[u] = "drain" => op[u].mode = "write" /\ claim'[NextShard(u)] = u
    BY <1>1, NoneAssumption DEF IInv, TypeOK, ThreadInv, MutexInv, ClaimWrite
  <2>5. MutexInv(u)'
    BY <2>2, <2>3, <2>4 DEF IInv, ThreadInv, MutexInv
  <2> QED
    BY <2>1, <2>5 DEF ThreadInv
<1> QED
  BY <1>2, <1>3 DEF IInv

\* What an acquisition does to the caller's plan and to what it holds.
LEMMA AcquiredFacts ==
    ASSUME IInv, NEW t \in Threads, pc[t] \in {"lock", "drain"}, Acquired(t),
           op' = op, plan' = plan
    PROVE  /\ n'[t] = n[t] + 1 /\ n' \in [Threads -> Nat]
           /\ pc' \in [Threads -> {"idle", "lock", "drain", "body", "unlock"}]
           /\ \A u \in Threads :
                /\ PlanInv(u)' /\ CursorInv(u)'
                /\ u # t => Held(u)' = Held(u) /\ NextShard(u)' = NextShard(u)
                            /\ pc'[u] = pc[u]
           /\ pc'[t] # "drain"
           /\ NextShard(t) \in Shards
           /\ Held(t)' \subseteq Held(t) \cup {NextShard(t)}
<1>1. plan[t] \in Seq(Shards) /\ n[t] < Len(plan[t]) /\ n[t] \in Nat
      /\ NextShard(t) \in Shards
  BY PlanFacts DEF IInv, TypeOK, ThreadInv, CursorInv, NextShard
<1>2. /\ n'[t] = n[t] + 1 /\ n' \in [Threads -> Nat]
      /\ pc' \in [Threads -> {"idle", "lock", "drain", "body", "unlock"}]
      /\ pc'[t] # "drain"
  BY DEF IInv, TypeOK, Acquired
<1>3. ASSUME NEW u \in Threads PROVE PlanInv(u)' /\ CursorInv(u)'
  BY <1>1 DEF IInv, TypeOK, ThreadInv, PlanInv, CursorInv, Acquired
<1>4. ASSUME NEW u \in Threads, u # t
      PROVE  /\ Held(u)' = Held(u) /\ NextShard(u)' = NextShard(u)
             /\ pc'[u] = pc[u]
  BY <1>4 DEF IInv, TypeOK, Acquired, Held, NextShard, LastShard
<1>5. Held(t)' \subseteq Held(t) \cup {NextShard(t)}
  BY <1>1, <1>2 DEF Held, NextShard, LastShard
<1> QED
  BY <1>1, <1>2, <1>3, <1>4, <1>5

\* A writer's claim becomes a lock once the readers have left.
LEMMA DrainWriteIInv ==
    ASSUME IInv, NEW t \in Threads, DrainWrite(t)
    PROVE  IInv'
<1>1. TypeOK'
  BY AcquiredFacts DEF IInv, TypeOK, DrainWrite
<1>2. ASSUME NEW u \in Threads PROVE MutexInv(u)'
  <2>1. CASE u # t
    BY <2>1, AcquiredFacts DEF IInv, ThreadInv, MutexInv, DrainWrite
  <2>2. CASE u = t
    <3>1. /\ op[t].mode = "write" /\ claim[NextShard(t)] = t
          /\ readers[NextShard(t)] = {}
      BY DEF IInv, ThreadInv, MutexInv, DrainWrite
    <3> QED
      BY <2>2, <3>1, AcquiredFacts DEF IInv, ThreadInv, MutexInv, DrainWrite
  <2> QED
    BY <2>1, <2>2
<1> QED
  BY <1>1, <1>2, AcquiredFacts DEF IInv, ThreadInv, DrainWrite

\* A reader enters a shard no writer has claimed.
LEMMA LockReadIInv ==
    ASSUME IInv, NEW t \in Threads, LockRead(t)
    PROVE  IInv'
<1>1. TypeOK'
  BY AcquiredFacts DEF IInv, TypeOK, LockRead
<1>2. ASSUME NEW u \in Threads PROVE MutexInv(u)'
  <2>1. CASE u # t
    <3>1. /\ Held(u)' = Held(u) /\ NextShard(u)' = NextShard(u)
          /\ pc'[u] = pc[u] /\ op' = op /\ claim' = claim
          /\ NextShard(t) \in Shards
      BY <2>1, AcquiredFacts DEF LockRead
    <3>2. op[u].mode = "write" =>
            \A s \in Held(u) : claim[s] = u /\ readers'[s] = {}
      BY <3>1, NoneAssumption DEF IInv, TypeOK, ThreadInv, MutexInv, LockRead
    <3>3. op[u].mode \in {"read", "scan"} => \A s \in Held(u) : u \in readers'[s]
      BY <3>1 DEF IInv, TypeOK, ThreadInv, MutexInv, LockRead
    <3> QED
      BY <3>1, <3>2, <3>3 DEF IInv, ThreadInv, MutexInv
  <2>2. CASE u = t
    <3>1. /\ Held(t)' \subseteq Held(t) \cup {NextShard(t)}
          /\ NextShard(t) \in Shards /\ op' = op /\ pc'[t] # "drain"
      BY AcquiredFacts DEF LockRead
    <3>2. \A s \in Held(t) \cup {NextShard(t)} : t \in readers'[s]
      BY <3>1 DEF IInv, TypeOK, ThreadInv, MutexInv, LockRead
    <3> QED
      BY <2>2, <3>1, <3>2 DEF MutexInv, LockRead
  <2> QED
    BY <2>1, <2>2
<1> QED
  BY <1>1, <1>2, AcquiredFacts DEF IInv, ThreadInv, LockRead

\* The body leaves the locks alone.
LEMMA BodyIInv ==
    ASSUME IInv, NEW t \in Threads, Body(t)
    PROVE  IInv'
<1>1. TypeOK'
  BY DEF IInv, TypeOK, Body
<1>2. ASSUME NEW u \in Threads PROVE ThreadInv(u)'
  <2>1. Held(u)' = Held(u) /\ NextShard(u)' = NextShard(u)
    BY DEF IInv, TypeOK, Body, Held, NextShard, LastShard
  <2>2. PlanInv(u)' /\ CursorInv(u)'
    BY DEF IInv, TypeOK, ThreadInv, PlanInv, CursorInv, Body
  <2>3. MutexInv(u)'
    BY <2>1 DEF IInv, TypeOK, ThreadInv, MutexInv, Body
  <2> QED
    BY <2>2, <2>3 DEF ThreadInv
<1> QED
  BY <1>1, <1>2 DEF IInv

\* What a release leaves held: a write or a read call gives up its last shard
\* and, when it was the only one, returns.
LEMMA ReleaseFacts ==
    ASSUME IInv, NEW t \in Threads, pc[t] = "unlock",
           op[t].mode \in {"write", "read"},
           IF n[t] > 1
           THEN n' = [n EXCEPT ![t] = @ - 1] /\ UNCHANGED <<pc, op, plan>>
           ELSE Return(t)
    PROVE  /\ LastShard(t) \in Held(t) /\ LastShard(t) \in Shards
           /\ Held(t)' \subseteq Held(t) \ {LastShard(t)}
           /\ pc'[t] \in {"idle", "unlock"}
           /\ op'[t].mode \in {"none", op[t].mode}
           /\ op'[t].mode = "none" => Held(t)' = {}
           /\ \A u \in Threads :
                /\ PlanInv(u)' /\ CursorInv(u)'
                /\ u # t => /\ Held(u)' = Held(u) /\ NextShard(u)' = NextShard(u)
                            /\ pc'[u] = pc[u] /\ op'[u] = op[u]
<1>1. /\ plan[t] \in Seq(Shards) /\ n[t] \in 1 .. Len(plan[t])
      /\ \A i \in 1 .. Len(plan[t]) : plan[t][i] \in Shards
      /\ \A i, j \in 1 .. Len(plan[t]) : i < j => plan[t][i] # plan[t][j]
  BY PlanFacts DEF IInv, ThreadInv, CursorInv
<1>2. LastShard(t) \in Held(t) /\ LastShard(t) \in Shards
  BY <1>1 DEF LastShard, Held
<1>3. CASE n[t] > 1
  <2>1. /\ n' = [n EXCEPT ![t] = n[t] - 1] /\ pc' = pc /\ op' = op
        /\ plan' = plan /\ n'[t] = n[t] - 1
    BY <1>3 DEF IInv, TypeOK
  <2>2. Held(t)' = {plan[t][i] : i \in 1 .. n[t] - 1}
    BY <2>1 DEF Held
  <2>3. Held(t) = {plan[t][i] : i \in 1 .. n[t]}
    BY DEF Held
  <2>4. Held(t)' \subseteq Held(t) \ {LastShard(t)}
    BY <1>1, <2>2, <2>3 DEF LastShard
  <2>5. ASSUME NEW u \in Threads PROVE PlanInv(u)' /\ CursorInv(u)'
    BY <1>1, <1>3, <2>1 DEF IInv, TypeOK, ThreadInv, PlanInv, CursorInv
  <2>6. ASSUME NEW u \in Threads, u # t
        PROVE  Held(u)' = Held(u) /\ NextShard(u)' = NextShard(u)
    BY <2>1, <2>6 DEF IInv, TypeOK, Held, NextShard, LastShard
  <2> QED
    BY <1>2, <2>1, <2>4, <2>5, <2>6
<1>4. CASE ~(n[t] > 1)
  <2>1. /\ pc' = [pc EXCEPT ![t] = "idle"] /\ op' = [op EXCEPT ![t] = NoCall]
        /\ plan' = [plan EXCEPT ![t] = <<>>] /\ n' = [n EXCEPT ![t] = 0]
    BY <1>4 DEF Return
  <2>2. /\ pc'[t] = "idle" /\ op'[t] = NoCall /\ n'[t] = 0
        /\ op'[t].mode = "none"
    BY <2>1 DEF IInv, TypeOK, NoCall
  <2>3. Held(t)' = {}
    BY <2>2 DEF Held
  <2>4. ASSUME NEW u \in Threads PROVE PlanInv(u)' /\ CursorInv(u)'
    BY <2>1, <2>2 DEF IInv, TypeOK, ThreadInv, PlanInv, CursorInv
  <2>5. ASSUME NEW u \in Threads, u # t
        PROVE  /\ Held(u)' = Held(u) /\ NextShard(u)' = NextShard(u)
               /\ pc'[u] = pc[u] /\ op'[u] = op[u]
    BY <2>1, <2>5 DEF IInv, TypeOK, Held, NextShard, LastShard
  <2> QED
    BY <1>2, <2>2, <2>3, <2>4, <2>5
<1> QED
  BY <1>3, <1>4

\* Locals of a call after a release.
LEMMA ReleaseType ==
    ASSUME IInv, NEW t \in Threads,
           \/ Return(t)
           \/ n[t] > 1 /\ n' = [n EXCEPT ![t] = @ - 1] /\ UNCHANGED <<pc, op, plan>>
           \/ pc' = [pc EXCEPT ![t] = "lock"] /\ UNCHANGED <<op, plan, n>>
    PROVE  /\ pc' \in [Threads -> {"idle", "lock", "drain", "body", "unlock"}]
           /\ op' \in [Threads -> [mode : {"none", "write", "read", "scan"},
                                   touches : SUBSET Shards]]
           /\ plan' \in [Threads -> Seq(Shards)]
           /\ n' \in [Threads -> Nat]
<1>1. CASE Return(t)
  <2>1. NoCall \in [mode : {"none", "write", "read", "scan"},
                    touches : SUBSET Shards]
    BY DEF NoCall
  <2>2. <<>> \in Seq(Shards)
    OBVIOUS
  <2> QED
    BY <1>1, <2>1, <2>2 DEF IInv, TypeOK, Return
<1>2. CASE n[t] > 1 /\ n' = [n EXCEPT ![t] = @ - 1] /\ UNCHANGED <<pc, op, plan>>
  BY <1>2 DEF IInv, TypeOK
<1>3. CASE pc' = [pc EXCEPT ![t] = "lock"] /\ UNCHANGED <<op, plan, n>>
  BY <1>3 DEF IInv, TypeOK
<1> QED
  BY <1>1, <1>2, <1>3

\* A writer gives up its last shard.
LEMMA UnlockWriteIInv ==
    ASSUME IInv, NEW t \in Threads, UnlockWrite(t)
    PROVE  IInv'
<1>1. TypeOK'
  BY ReleaseType, ReleaseFacts DEF IInv, TypeOK, UnlockWrite
<1>2. /\ readers' = readers /\ claim' = [claim EXCEPT ![LastShard(t)] = None]
      /\ LastShard(t) \in Held(t) /\ LastShard(t) \in Shards
      /\ claim[LastShard(t)] = t /\ op[t].mode = "write"
  BY ReleaseFacts DEF UnlockWrite, IInv, ThreadInv, MutexInv
<1>3. ASSUME NEW u \in Threads PROVE MutexInv(u)'
  <2>1. CASE u # t
    <3>1. /\ Held(u)' = Held(u) /\ NextShard(u)' = NextShard(u)
          /\ pc'[u] = pc[u] /\ op'[u] = op[u]
      BY <2>1, ReleaseFacts DEF UnlockWrite
    <3>2. \A s : claim[s] = u => claim'[s] = u
      BY <1>2, <2>1 DEF IInv, TypeOK
    <3> QED
      BY <1>2, <3>1, <3>2 DEF IInv, ThreadInv, MutexInv
  <2>2. CASE u = t
    <3>1. /\ Held(t)' \subseteq Held(t) \ {LastShard(t)}
          /\ pc'[t] \in {"idle", "unlock"} /\ op'[t].mode \in {"none", "write"}
      BY <1>2, ReleaseFacts DEF UnlockWrite
    <3>2. \A s \in Held(t) \ {LastShard(t)} : claim'[s] = t /\ readers'[s] = {}
      BY <1>2 DEF IInv, TypeOK, ThreadInv, MutexInv
    <3> QED
      BY <2>2, <3>1, <3>2 DEF MutexInv
  <2> QED
    BY <2>1, <2>2
<1> QED
  BY <1>1, <1>3, ReleaseFacts DEF IInv, ThreadInv, UnlockWrite

\* A reader gives up its last shard.
LEMMA UnlockReadIInv ==
    ASSUME IInv, NEW t \in Threads, UnlockRead(t)
    PROVE  IInv'
<1>1. TypeOK'
  BY ReleaseType, ReleaseFacts DEF IInv, TypeOK, UnlockRead
<1>2. /\ claim' = claim
      /\ readers' = [readers EXCEPT ![LastShard(t)] = @ \ {t}]
      /\ LastShard(t) \in Held(t) /\ LastShard(t) \in Shards
      /\ op[t].mode = "read"
  BY ReleaseFacts DEF UnlockRead
<1>3. ASSUME NEW u \in Threads PROVE MutexInv(u)'
  <2>1. CASE u # t
    <3>1. /\ Held(u)' = Held(u) /\ NextShard(u)' = NextShard(u)
          /\ pc'[u] = pc[u] /\ op'[u] = op[u]
      BY <2>1, ReleaseFacts DEF UnlockRead
    <3>2. \A s : /\ readers[s] = {} => readers'[s] = {}
                 /\ u \in readers[s] => u \in readers'[s]
      BY <1>2, <2>1 DEF IInv, TypeOK
    <3> QED
      BY <1>2, <3>1, <3>2 DEF IInv, ThreadInv, MutexInv
  <2>2. CASE u = t
    <3>1. /\ Held(t)' \subseteq Held(t) \ {LastShard(t)}
          /\ pc'[t] \in {"idle", "unlock"} /\ op'[t].mode \in {"none", "read"}
      BY <1>2, ReleaseFacts DEF UnlockRead
    <3>2. \A s \in Held(t) \ {LastShard(t)} : t \in readers'[s]
      BY <1>2 DEF IInv, TypeOK, ThreadInv, MutexInv
    <3> QED
      BY <2>2, <3>1, <3>2 DEF MutexInv
  <2> QED
    BY <2>1, <2>2
<1> QED
  BY <1>1, <1>3, ReleaseFacts DEF IInv, ThreadInv, UnlockRead

\* A scan gives up its shard and goes on or returns.
LEMMA UnlockScanIInv ==
    ASSUME IInv, NEW t \in Threads, UnlockScan(t)
    PROVE  IInv'
<1>1. /\ op[t].mode = "scan" /\ pc[t] = "unlock" /\ Held(t) = {LastShard(t)}
      /\ plan[t] \in Seq(Shards) /\ n[t] \in 1 .. Len(plan[t])
      /\ LastShard(t) \in Shards
  BY PlanFacts DEF UnlockScan, Held, LastShard, IInv, ThreadInv, CursorInv
<1>2. TypeOK'
  BY <1>1, ReleaseType DEF IInv, TypeOK, UnlockScan
<1>3. /\ pc'[t] \in {"idle", "lock"} /\ Held(t)' = {}
      /\ op'[t].mode \in {"none", "scan"}
  BY <1>1 DEF UnlockScan, Return, NoCall, Held, IInv, TypeOK
<1>4. ASSUME NEW u \in Threads PROVE PlanInv(u)' /\ CursorInv(u)'
  BY <1>1 DEF UnlockScan, Return, NoCall, IInv, TypeOK, ThreadInv, PlanInv,
              CursorInv
<1>5. ASSUME NEW u \in Threads, u # t
      PROVE  /\ Held(u)' = Held(u) /\ NextShard(u)' = NextShard(u)
             /\ pc'[u] = pc[u] /\ op'[u] = op[u]
  <2>1. /\ pc'[u] = pc[u] /\ op'[u] = op[u] /\ plan'[u] = plan[u]
        /\ n'[u] = n[u]
    BY <1>5 DEF UnlockScan, Return, IInv, TypeOK
  <2> QED
    BY <2>1 DEF Held, NextShard, LastShard
<1>6. ASSUME NEW u \in Threads PROVE MutexInv(u)'
  <2>1. CASE u # t
    <3>1. \A s : /\ readers[s] = {} => readers'[s] = {}
                 /\ u \in readers[s] => u \in readers'[s]
      BY <1>1, <2>1 DEF UnlockScan, IInv, TypeOK
    <3>2. claim' = claim
      BY DEF UnlockScan
    <3> QED
      BY <1>5, <2>1, <3>1, <3>2 DEF IInv, ThreadInv, MutexInv
  <2>2. CASE u = t
    BY <1>3, <2>2 DEF MutexInv
  <2> QED
    BY <2>1, <2>2
<1> QED
  BY <1>2, <1>4, <1>6 DEF IInv, ThreadInv

-------------------------------------------------------------------------------
\* The inductive invariant holds in every reachable state.
THEOREM Inductive == Spec => []IInv
<1>1. Init => IInv
  BY InitIInv
<1>2. IInv /\ [Next]_vars => IInv'
  <2> SUFFICES ASSUME IInv, [Next]_vars PROVE IInv'
    OBVIOUS
  <2>1. ASSUME NEW t \in Threads, Step(t) PROVE IInv'
    BY <2>1, EnterIInv, ClaimWriteIInv, DrainWriteIInv, LockReadIInv, BodyIInv,
       UnlockWriteIInv, UnlockReadIInv, UnlockScanIInv DEF Step
  <2>2. CASE UNCHANGED vars
    BY <2>2 DEF vars, IInv, TypeOK, ThreadInv, PlanInv, CursorInv, MutexInv,
                Held, NextShard, LastShard
  <2> QED
    BY <2>1, <2>2 DEF Next
<1> QED
  BY <1>1, <1>2, PTL DEF Spec

\* Type correctness of the lock protocol.
THEOREM TypeCorrect == Spec => []TypeOK
<1>1. IInv => TypeOK
  BY DEF IInv
<1> QED
  BY <1>1, Inductive, PTL

\* A body touches only shards its goroutine holds, and a writer's shards are
\* held by nobody else, for every number of goroutines and shards.
THEOREM NoConflictHolds == Spec => []NoConflict
<1>1. IInv => NoConflict
  <2> SUFFICES ASSUME IInv, NEW t \in Threads, pc[t] = "body"
               PROVE  /\ op[t].touches \subseteq Held(t)
                      /\ op[t].mode = "write" =>
                           \A u \in Threads \ {t} : Held(t) \cap Held(u) = {}
    BY DEF NoConflict
  <2>1. op[t].touches \subseteq Held(t)
    <3>1. CASE op[t].mode = "scan"
      BY <3>1 DEF IInv, ThreadInv, PlanInv
    <3>2. CASE op[t].mode # "scan"
      <4>1. n[t] = Len(plan[t]) /\ op[t].touches \subseteq Members(plan[t])
        BY <3>2 DEF IInv, ThreadInv, PlanInv, CursorInv
      <4> QED
        BY <3>2, <4>1 DEF Held, Members
    <3> QED
      BY <3>1, <3>2
  <2>2. ASSUME op[t].mode = "write", NEW u \in Threads \ {t},
               NEW s \in Held(t), s \in Held(u)
        PROVE  FALSE
    <3>1. claim[s] = t /\ readers[s] = {}
      BY <2>2 DEF IInv, ThreadInv, MutexInv
    <3>2. op[u].mode \in {"write", "read", "scan"}
      <4>1. CASE pc[u] # "idle"
        BY <4>1 DEF IInv, ThreadInv, PlanInv
      <4>2. CASE pc[u] = "idle"
        <5>1. n[u] = 0 /\ op[u].mode = "none"
          BY <4>2 DEF IInv, ThreadInv, CursorInv
        <5> QED
          BY <2>2, <5>1 DEF Held
      <4> QED
        BY <4>1, <4>2
    <3>3. claim[s] = u \/ u \in readers[s]
      BY <2>2, <3>2 DEF IInv, ThreadInv, MutexInv
    <3> QED
      BY <2>2, <3>1, <3>3
  <2> QED
    BY <2>1, <2>2
<1> QED
  BY <1>1, Inductive, PTL

\* No goroutine ever waits for a shard at or below one it holds.
THEOREM LockOrderHolds == Spec => []LockOrder
<1>1. IInv => LockOrder
  <2> SUFFICES ASSUME IInv, NEW t \in Threads, pc[t] \in {"lock", "drain"},
                      NEW s \in Held(t)
               PROVE  s < NextShard(t)
    BY DEF LockOrder
  <2>1. /\ Ascending(plan[t]) /\ n[t] < Len(plan[t])
        /\ plan[t] \in Seq(Shards) /\ n[t] \in Nat
    BY DEF IInv, TypeOK, ThreadInv, PlanInv, CursorInv
  <2>2. PICK i \in 1 .. n[t] : s = plan[t][i]
    BY DEF Held
  <2> QED
    BY <2>1, <2>2 DEF Ascending, NextShard
<1> QED
  BY <1>1, Inductive, PTL
===============================================================================
