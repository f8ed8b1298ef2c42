-------------------------- MODULE SavingsStoreProofs --------------------------
(***************************************************************************)
(* Proofs about SavingsStore, for any set of processes: the lock has one   *)
(* holder, no observation is counted twice, and without a reset none is    *)
(* lost.                                                                   *)
(***************************************************************************)
EXTENDS SavingsStore, TLAPS

\* What a set of totals t may hold of process q for p to keep or write it: the
\* totals of p contain its own delta, those of others do not.
Bounded(t, p) ==
    \A q \in Procs :
        IF q = p THEN t[q] + lost[q] <= observed[q]
                 ELSE t[q] + delta[q] + lost[q] <= observed[q]

\* The inductive strengthening of NeverOvercounts: the view of every process and
\* what it is about to write are bounded as the file is.
CountInv ==
    /\ TypeOK
    /\ NeverOvercounts
    /\ \A p \in Procs : Bounded(view[p], p)
    /\ \A p \in Procs : pc[p] = "write" => Bounded(merged[p], p)

\* The inductive strengthening of NothingLost: a process that is down holds no
\* delta, before there is a file a process knows of nothing but its own, and the
\* holder of the lock writes the file as it is with its delta added.
LossInv ==
    /\ TypeOK
    /\ NothingLost
    /\ \A p \in Procs : pc[p] = "down" => delta[p] = 0
    /\ resets = 0 /\ ~file.exists =>
          \A p, q \in Procs : /\ file.n[q] = 0
                              /\ view[p][q] = IF q = p THEN delta[p] ELSE 0
    /\ resets = 0 =>
          \A p, q \in Procs : pc[p] = "write" =>
              merged[p][q] = file.n[q] + (IF q = p THEN delta[p] ELSE 0)

-------------------------------------------------------------------------------
\* Init gives every variable its type.
LEMMA TypeInit == Init => TypeOK
BY ProcsAssumption DEF Init, TypeOK, NoFile, Zero, States

\* What a flush writes has the type of a set of totals.
LEMMA MergeType == ASSUME TypeOK, NEW p \in Procs PROVE Merge(p) \in [Procs -> Nat]
BY DEF TypeOK, Merge

\* Every step of a process keeps the types and the holder of the lock.
LEMMA TypeNext == TypeOK /\ [Next]_vars => TypeOK'
<1> SUFFICES ASSUME TypeOK, [Next]_vars PROVE TypeOK'
  OBVIOUS
<1> USE ProcsAssumption
<1>1. CASE UNCHANGED vars
  BY <1>1 DEF vars, TypeOK
<1>2. ASSUME NEW p \in Procs, Step(p) PROVE TypeOK'
  <2>1. CASE Open(p)
    BY <2>1 DEF Open, TypeOK, States
  <2>2. CASE AddObservation(p)
    BY <2>2 DEF AddObservation, TypeOK, States
  <2>3. CASE Flush(p)
    BY <2>3 DEF Flush, TypeOK, States
  <2>4. CASE Lock(p)
    BY <2>4 DEF Lock, TypeOK, States
  <2>5. CASE LockFails(p)
    BY <2>5 DEF LockFails, TypeOK, States
  <2>6. CASE FlushFails(p)
    BY <2>6 DEF FlushFails, TypeOK, States, Zero
  <2>7. CASE Read(p)
    BY <2>7, MergeType DEF Read, TypeOK, States
  <2>8. CASE Write(p)
    BY <2>8 DEF Write, TypeOK, States, Zero
  <2>9. CASE Unlock(p)
    BY <2>9 DEF Unlock, TypeOK, States
  <2>10. CASE Reset(p)
    <3>1. Zero \in [Procs -> Nat]
      BY DEF Zero
    <3>2. NoFile \in [exists : BOOLEAN, n : [Procs -> Nat]]
      BY <3>1 DEF NoFile
    <3>3. file' \in [exists : BOOLEAN, n : [Procs -> Nat]]
      BY <2>10, <3>2 DEF Reset, TypeOK
    <3>4. view' \in [Procs -> [Procs -> Nat]]
      BY <2>10, <3>1 DEF Reset, TypeOK
    <3>5. resets' \in Nat
      BY <2>10 DEF Reset, TypeOK
    <3> QED BY <2>10, <3>3, <3>4, <3>5 DEF Reset, TypeOK
  <2>11. CASE Crash(p)
    BY <2>11 DEF Crash, TypeOK, States, Zero
  <2> QED BY <1>2, <2>1, <2>2, <2>3, <2>4, <2>5, <2>6, <2>7, <2>8, <2>9, <2>10, <2>11 DEF Step
<1> QED BY <1>1, <1>2 DEF Next

\* The types hold, and at most one process is inside flushLocked's critical
\* section, for any number of processes.
THEOREM TypeCorrect == Spec => []TypeOK
<1>1. TypeOK /\ [Next]_vars => TypeOK'
  BY TypeNext
<1> QED BY TypeInit, <1>1, PTL DEF Spec

-------------------------------------------------------------------------------
\* At the start there is nothing to count.
LEMMA CountInit == Init => CountInv
<1> SUFFICES ASSUME Init PROVE CountInv
  OBVIOUS
<1>1. TypeOK
  BY TypeInit
<1> QED BY <1>1 DEF Init, CountInv, NeverOvercounts, Bounded, NoFile, Zero

\* Every step keeps the file, the views and the totals to be written bounded.
LEMMA CountNext == CountInv /\ [Next]_vars => CountInv'
<1> SUFFICES ASSUME CountInv, [Next]_vars PROVE CountInv'
  OBVIOUS
<1>t. TypeOK /\ TypeOK'
  BY TypeNext DEF CountInv
<1> USE <1>t
<1>1. CASE UNCHANGED vars
  BY <1>1 DEF vars, CountInv, NeverOvercounts, Bounded
<1>2. ASSUME NEW p \in Procs, Step(p) PROVE CountInv'
  <2>1. CASE Open(p)
    BY <2>1 DEF Open, CountInv, NeverOvercounts, Bounded, TypeOK
  <2>2. CASE AddObservation(p)
    BY <2>2 DEF AddObservation, CountInv, NeverOvercounts, Bounded, TypeOK
  <2>3. CASE Flush(p)
    BY <2>3 DEF Flush, CountInv, NeverOvercounts, Bounded, TypeOK
  <2>4. CASE Lock(p)
    BY <2>4 DEF Lock, CountInv, NeverOvercounts, Bounded, TypeOK
  <2>5. CASE LockFails(p)
    BY <2>5 DEF LockFails, CountInv, NeverOvercounts, Bounded, TypeOK
  <2>6. CASE FlushFails(p)
    BY <2>6 DEF FlushFails, CountInv, NeverOvercounts, Bounded, TypeOK
  <2>7. CASE Read(p)
    <3>1. Bounded(Merge(p), p)
      BY DEF Merge, CountInv, NeverOvercounts, Bounded, TypeOK
    <3> QED BY <2>7, <3>1 DEF Read, CountInv, NeverOvercounts, Bounded, TypeOK
  <2>8. CASE Write(p)
    BY <2>8 DEF Write, CountInv, NeverOvercounts, Bounded, TypeOK
  <2>9. CASE Unlock(p)
    BY <2>9 DEF Unlock, CountInv, NeverOvercounts, Bounded, TypeOK
  <2>10. CASE Reset(p)
    BY <2>10 DEF Reset, CountInv, NeverOvercounts, Bounded, TypeOK, NoFile, Zero
  <2>11. CASE Crash(p)
    BY <2>11 DEF Crash, CountInv, NeverOvercounts, Bounded, TypeOK, Zero
  <2> QED BY <1>2, <2>1, <2>2, <2>3, <2>4, <2>5, <2>6, <2>7, <2>8, <2>9, <2>10, <2>11 DEF Step
<1> QED BY <1>1, <1>2 DEF Next

\* No observation is counted twice, by any number of processes that flush, fail,
\* end and reset the store in any order (NeverOvercounts).
THEOREM CountsOnce == Spec => []NeverOvercounts
<1>1. CountInv /\ [Next]_vars => CountInv'
  BY CountNext
<1>2. CountInv => NeverOvercounts
  BY DEF CountInv
<1> QED BY CountInit, <1>1, <1>2, PTL DEF Spec

-------------------------------------------------------------------------------
\* At the start there is no file, and nothing to lose.
LEMMA LossInit == Init => LossInv
<1> SUFFICES ASSUME Init PROVE LossInv
  OBVIOUS
<1>1. TypeOK
  BY TypeInit
<1> QED BY <1>1 DEF Init, LossInv, NothingLost, NoFile, Zero

\* Every step but a reset keeps the books balanced.
LEMMA LossNext == LossInv /\ [Next]_vars => LossInv'
<1> SUFFICES ASSUME LossInv, [Next]_vars PROVE LossInv'
  OBVIOUS
<1>t. TypeOK /\ TypeOK'
  BY TypeNext DEF LossInv
<1> USE <1>t
<1>1. CASE UNCHANGED vars
  BY <1>1 DEF vars, LossInv, NothingLost
<1>2. ASSUME NEW p \in Procs, Step(p) PROVE LossInv'
  <2>1. CASE Open(p)
    BY <2>1 DEF Open, LossInv, NothingLost, TypeOK
  <2>2. CASE AddObservation(p)
    <3>1. NothingLost'
      BY <2>2 DEF AddObservation, LossInv, NothingLost, TypeOK
    <3>2. \A q \in Procs : (pc[q] = "down" => delta[q] = 0)'
      BY <2>2 DEF AddObservation, LossInv, TypeOK
    <3>3. (resets = 0 /\ ~file.exists =>
              \A r, q \in Procs : /\ file.n[q] = 0
                                  /\ view[r][q] = IF q = r THEN delta[r] ELSE 0)'
      <4> SUFFICES ASSUME resets = 0, ~file.exists, NEW r \in Procs, NEW q \in Procs
                   PROVE  /\ file.n[q] = 0
                          /\ view'[r][q] = IF q = r THEN delta'[r] ELSE 0
        BY <2>2 DEF AddObservation
      <4>1. file.n[q] = 0 /\ view[r][q] = IF q = r THEN delta[r] ELSE 0
        BY DEF LossInv
      <4> QED BY <2>2, <4>1 DEF AddObservation, TypeOK
    <3>4. (resets = 0 =>
              \A r, q \in Procs : pc[r] = "write" =>
                  merged[r][q] = file.n[q] + (IF q = r THEN delta[r] ELSE 0))'
      BY <2>2 DEF AddObservation, LossInv, TypeOK
    <3> QED BY <3>1, <3>2, <3>3, <3>4 DEF LossInv
  <2>3. CASE Flush(p)
    BY <2>3 DEF Flush, LossInv, NothingLost, TypeOK
  <2>4. CASE Lock(p)
    BY <2>4 DEF Lock, LossInv, NothingLost, TypeOK
  <2>5. CASE LockFails(p)
    BY <2>5 DEF LockFails, LossInv, NothingLost, TypeOK
  <2>6. CASE FlushFails(p)
    BY <2>6 DEF FlushFails, LossInv, NothingLost, TypeOK
  <2>7. CASE Read(p)
    BY <2>7 DEF Read, Merge, LossInv, NothingLost, TypeOK
  <2>8. CASE Write(p)
    BY <2>8 DEF Write, LossInv, NothingLost, TypeOK
  <2>9. CASE Unlock(p)
    BY <2>9 DEF Unlock, LossInv, NothingLost, TypeOK
  <2>10. CASE Reset(p)
    BY <2>10 DEF Reset, LossInv, NothingLost, TypeOK
  <2>11. CASE Crash(p)
    BY <2>11 DEF Crash, LossInv, NothingLost, TypeOK, Zero
  <2> QED BY <1>2, <2>1, <2>2, <2>3, <2>4, <2>5, <2>6, <2>7, <2>8, <2>9, <2>10, <2>11 DEF Step
<1> QED BY <1>1, <1>2 DEF Next

\* Without a reset every observation is in the file, pending, or was pending in
\* a process that died; for any number of processes (NothingLost).
THEOREM KeepsAll == Spec => []NothingLost
<1>1. LossInv /\ [Next]_vars => LossInv'
  BY LossNext
<1>2. LossInv => NothingLost
  BY DEF LossInv
<1> QED BY LossInit, <1>1, <1>2, PTL DEF Spec
===============================================================================
