----------------------------- MODULE GraphProofs -----------------------------
(***************************************************************************)
(* Proofs about the graph, for any sets of IDs, shards, files, names,      *)
(* repositories, sites and edge objects.                                   *)
(*                                                                         *)
(* Adjacency: the sidecars mirror the lists, the two directions agree      *)
(* outside an eviction and an eviction leaves nothing behind; and the      *)
(* lists implement the set of edges of EdgeSet.  NodeIndex: the secondary  *)
(* indexes list exactly the nodes of the graph, and no slot of byQual is   *)
(* stale.                                                                  *)
(*                                                                         *)
(* First the bucket operations, which both use; then a family of adjacency *)
(* lists and each step on them; then one secondary index and each step on  *)
(* the nodes.                                                              *)
(***************************************************************************)
EXTENDS Adjacency, NodeIndex, TLAPS

\* A bucket of entries from E whose identities are in K.
BucketOf(E, K) == [slice : Seq(E), idx : UNION {[D -> Nat] : D \in SUBSET K}]

\* A slice and a sidecar make a bucket.
LEMMA MakeBucket ==
    ASSUME NEW E, NEW K, NEW s \in Seq(E), NEW D \in SUBSET K, NEW f \in [D -> Nat]
    PROVE  /\ [slice |-> s, idx |-> f] \in BucketOf(E, K)
           /\ [slice |-> s, idx |-> f].slice = s
           /\ [slice |-> s, idx |-> f].idx = f
BY DEF BucketOf

\* What the sidecar and the slice of a bucket are.
LEMMA BucketParts ==
    ASSUME NEW E, NEW K, NEW b \in BucketOf(E, K)
    PROVE  /\ b.slice \in Seq(E)
           /\ Len(b.slice) \in Nat
           /\ \A i \in 1 .. Len(b.slice) : b.slice[i] \in E
           /\ DOMAIN b.idx \in SUBSET K
           /\ b.idx \in [DOMAIN b.idx -> Nat]
           /\ b = [slice |-> b.slice, idx |-> b.idx]
BY DEF BucketOf

\* The bucket that is not there.
LEMMA EmptyProperties ==
    ASSUME NEW E, NEW K, NEW ident
    PROVE  /\ EmptyBucket \in BucketOf(E, K)
           /\ Mirrors(EmptyBucket, ident)
           /\ Entries(EmptyBucket) = {}
<1>1. [k \in {} |-> 0] \in [{} -> Nat] /\ {} \in SUBSET K
  OBVIOUS
<1>2. <<>> \in Seq(E) /\ Len(<<>>) = 0
  OBVIOUS
<1>3. QED
  BY <1>1, <1>2 DEF EmptyBucket, BucketOf, Mirrors, Entries

\* addNodeToBucket, addEdgeToBucket: the sidecar stays the inverse of the slice,
\* and the new entry takes the place of the one with its identity.
LEMMA AddProperties ==
    ASSUME NEW E, NEW K, NEW ident \in [E -> K], NEW x \in E,
           NEW b \in BucketOf(E, K), Mirrors(b, ident)
    PROVE  /\ AddToBucket(b, ident[x], x) \in BucketOf(E, K)
           /\ Mirrors(AddToBucket(b, ident[x], x), ident)
           /\ Entries(AddToBucket(b, ident[x], x)) =
                 {y \in Entries(b) : ident[y] # ident[x]} \cup {x}
<1> DEFINE c == AddToBucket(b, ident[x], x)
           L == Len(b.slice)
<1>1. /\ b.slice \in Seq(E) /\ L \in Nat
      /\ \A i \in 1 .. L : b.slice[i] \in E
      /\ DOMAIN b.idx \in SUBSET K /\ b.idx \in [DOMAIN b.idx -> Nat]
      /\ b = [slice |-> b.slice, idx |-> b.idx]
  BY BucketParts
<1>2. /\ \A k : k \in DOMAIN b.idx <=> \E i \in 1 .. L : k = ident[b.slice[i]]
      /\ \A i \in 1 .. L : b.idx[ident[b.slice[i]]] = i
  BY DEF Mirrors
<1>3. CASE ident[x] \in DOMAIN b.idx
  <2> DEFINE pos == b.idx[ident[x]]
             s == [b.slice EXCEPT ![pos] = x]
  <2>1. pos \in 1 .. L /\ ident[b.slice[pos]] = ident[x]
    BY <1>2, <1>3
  <2>2. s \in Seq(E) /\ Len(s) = L
    BY <2>1, <1>1
  <2>3. \A i \in 1 .. L : s[i] = IF i = pos THEN x ELSE b.slice[i]
    BY <1>1
  <2> HIDE DEF c, s
  <2>4. c = [slice |-> s, idx |-> b.idx]
    BY <1>1, <1>3 DEF c, s, AddToBucket
  <2>5. c \in BucketOf(E, K) /\ c.slice = s /\ c.idx = b.idx
    BY <2>2, <2>4, <1>1, MakeBucket
  <2>6. \A i \in 1 .. L : ident[s[i]] = ident[b.slice[i]]
    BY <2>1, <2>3
  <2>7. Mirrors(c, ident)
    <3>1. \A k : k \in {ident[s[i]] : i \in 1 .. L} <=> k \in DOMAIN b.idx
      BY <2>6, <1>2
    <3>2. \A i \in 1 .. L : b.idx[ident[s[i]]] = i
      BY <2>6, <1>2
    <3>3. DOMAIN b.idx = {ident[s[i]] : i \in 1 .. L}
      BY <3>1
    <3>4. QED
      BY <2>2, <2>5, <3>2, <3>3 DEF Mirrors
  <2>8. Entries(c) = {y \in Entries(b) : ident[y] # ident[x]} \cup {x}
    BY <2>1, <2>2, <2>3, <2>5, <1>2 DEF Entries
  <2>9. QED
    BY <2>5, <2>7, <2>8 DEF c
<1>4. CASE ident[x] \notin DOMAIN b.idx
  <2> DEFINE s == Append(b.slice, x)
             f == Point(b.idx, ident[x], L + 1)
  <2>1. s \in Seq(E) /\ Len(s) = L + 1
    BY <1>1
  <2>2. \A i \in 1 .. L + 1 : s[i] = IF i = L + 1 THEN x ELSE b.slice[i]
    BY <1>1
  <2>3. f \in [DOMAIN b.idx \cup {ident[x]} -> Nat] /\ DOMAIN b.idx \cup {ident[x]} \in SUBSET K
    BY <1>1 DEF Point
  <2>4. \A k \in DOMAIN b.idx \cup {ident[x]} : f[k] = IF k = ident[x] THEN L + 1 ELSE b.idx[k]
    BY DEF Point
  <2> HIDE DEF c, s, f
  <2>5. c = [slice |-> s, idx |-> f]
    BY <1>4 DEF c, s, f, AddToBucket
  <2>6. c \in BucketOf(E, K) /\ c.slice = s /\ c.idx = f
    BY <2>1, <2>3, <2>5, MakeBucket
  <2>7. \A i \in 1 .. L + 1 : ident[s[i]] = IF i = L + 1 THEN ident[x] ELSE ident[b.slice[i]]
    BY <2>2
  <2>8. Mirrors(c, ident)
    <3>1. \A k : k \in {ident[s[i]] : i \in 1 .. L + 1} <=> k \in DOMAIN b.idx \cup {ident[x]}
      <4>1. L + 1 \in 1 .. L + 1 /\ ident[s[L + 1]] = ident[x]
        BY <2>7, <1>1
      <4>2. \A i \in 1 .. L : i \in 1 .. L + 1 /\ ident[s[i]] = ident[b.slice[i]]
        BY <2>7, <1>1
      <4>3. \A i \in 1 .. L + 1 : i = L + 1 \/ i \in 1 .. L
        BY <1>1
      <4>4. QED
        BY <4>1, <4>2, <4>3, <1>2
    <3>2. \A i \in 1 .. L + 1 : f[ident[s[i]]] = i
      BY <2>4, <2>7, <1>1, <1>2, <1>4
    <3>3. DOMAIN f = {ident[s[i]] : i \in 1 .. L + 1}
      BY <2>3, <3>1
    <3>4. QED
      BY <2>1, <2>6, <3>2, <3>3 DEF Mirrors
  <2>9. Entries(c) = {y \in Entries(b) : ident[y] # ident[x]} \cup {x}
    <3>1. L + 1 \in 1 .. L + 1 /\ s[L + 1] = x
      BY <2>2, <1>1
    <3>2. \A i \in 1 .. L : i \in 1 .. L + 1 /\ s[i] = b.slice[i] /\ ident[s[i]] # ident[x]
      BY <2>2, <1>1, <1>2, <1>4
    <3>3. \A i \in 1 .. L + 1 : i = L + 1 \/ i \in 1 .. L
      BY <1>1
    <3>4. QED
      BY <2>1, <2>6, <3>1, <3>2, <3>3 DEF Entries
  <2>10. QED
    BY <2>6, <2>8, <2>9 DEF c
<1>5. QED
  BY <1>3, <1>4

\* removeNodeFromBucket, removeEdgeFromBucket: the sidecar stays the inverse of
\* the slice, and the entry with the identity, if there is one, is gone.
LEMMA RemoveProperties ==
    ASSUME NEW E, NEW K, NEW ident \in [E -> K], NEW k \in K,
           NEW b \in BucketOf(E, K), Mirrors(b, ident)
    PROVE  /\ RemoveFromBucket(b, k, ident) \in BucketOf(E, K)
           /\ Mirrors(RemoveFromBucket(b, k, ident), ident)
           /\ Entries(RemoveFromBucket(b, k, ident)) = {y \in Entries(b) : ident[y] # k}
<1> DEFINE c == RemoveFromBucket(b, k, ident)
           L == Len(b.slice)
<1>1. /\ b.slice \in Seq(E) /\ L \in Nat
      /\ \A i \in 1 .. L : b.slice[i] \in E
      /\ DOMAIN b.idx \in SUBSET K /\ b.idx \in [DOMAIN b.idx -> Nat]
  BY BucketParts
<1>2. /\ \A j : j \in DOMAIN b.idx <=> \E i \in 1 .. L : j = ident[b.slice[i]]
      /\ \A i \in 1 .. L : b.idx[ident[b.slice[i]]] = i
  BY DEF Mirrors
<1>3. CASE k \notin DOMAIN b.idx
  BY <1>2, <1>3 DEF RemoveFromBucket, Entries
<1>4. CASE k \in DOMAIN b.idx
  <2> DEFINE pos == b.idx[k]
             f == IF pos # L THEN Forget(Point(b.idx, ident[b.slice[L]], pos), k)
                             ELSE Forget(b.idx, k)
             s == SubSeq([b.slice EXCEPT ![pos] = b.slice[L]], 1, L - 1)
  <2>1. pos \in 1 .. L /\ ident[b.slice[pos]] = k /\ L \in 1 .. L
    BY <1>1, <1>2, <1>4
  <2>2. \A i \in 1 .. L : i # pos => ident[b.slice[i]] # k
    BY <1>2, <2>1
  <2>3. s \in Seq(E) /\ Len(s) = L - 1
    BY <1>1, <2>1
  <2>4. \A i \in 1 .. L - 1 : s[i] = IF i = pos THEN b.slice[L] ELSE b.slice[i]
    BY <1>1, <2>1
  <2>5. ident[b.slice[L]] \in DOMAIN b.idx
    BY <1>2, <2>1
  <2>6. f \in [DOMAIN b.idx \ {k} -> Nat] /\ DOMAIN b.idx \ {k} \in SUBSET K
    BY <1>1, <2>1, <2>5 DEF Forget, Point
  <2>7. \A j \in DOMAIN b.idx \ {k} :
            f[j] = IF j = ident[b.slice[L]] /\ pos # L THEN pos ELSE b.idx[j]
    BY <2>5 DEF Forget, Point
  <2> HIDE DEF c, f, s
  <2>8. c = IF DOMAIN f = {} THEN EmptyBucket ELSE [slice |-> s, idx |-> f]
    BY <1>4 DEF c, f, s, RemoveFromBucket
  <2>9. CASE DOMAIN f = {}
    <3>1. L = 1
      <4>1. \A i \in 1 .. L : ident[b.slice[i]] = k
        BY <1>2, <2>6, <2>9
      <4>2. pos = L
        BY <2>1, <2>2, <4>1
      <4>3. 1 \in 1 .. L
        BY <1>1, <2>1
      <4>4. QED
        BY <2>2, <4>1, <4>2, <4>3
    <3>2. {y \in Entries(b) : ident[y] # k} = {}
      BY <2>1, <3>1 DEF Entries
    <3>3. QED
      BY <2>8, <2>9, <3>2, EmptyProperties DEF c
  <2>10. CASE DOMAIN f # {}
    <3>1. c \in BucketOf(E, K) /\ c.slice = s /\ c.idx = f
      BY <2>3, <2>6, <2>8, <2>10, MakeBucket
    <3>2. \A i \in 1 .. L - 1 : ident[s[i]] = IF i = pos THEN ident[b.slice[L]]
                                                         ELSE ident[b.slice[i]]
      BY <2>4
    <3>3. \A j : j \in {ident[s[i]] : i \in 1 .. L - 1} <=> j \in DOMAIN b.idx \ {k}
      <4>1. ASSUME NEW i \in 1 .. L - 1 PROVE ident[s[i]] \in DOMAIN b.idx \ {k}
        BY <1>1, <1>2, <2>1, <2>2, <3>2
      <4>2. ASSUME NEW j \in DOMAIN b.idx \ {k} PROVE \E i \in 1 .. L - 1 : j = ident[s[i]]
        <5>1. PICK i \in 1 .. L : j = ident[b.slice[i]]
          BY <1>2
        <5>2. i # pos
          BY <2>1, <5>1
        <5>3. CASE i = L
          BY <1>1, <2>1, <3>2, <5>1, <5>2, <5>3
        <5>4. CASE i # L
          BY <1>1, <3>2, <5>1, <5>2, <5>4
        <5>5. QED
          BY <5>3, <5>4
      <4>3. QED
        BY <4>1, <4>2
    <3>4. \A i \in 1 .. L - 1 : f[ident[s[i]]] = i
      BY <1>1, <1>2, <2>1, <2>2, <2>7, <3>2
    <3>5. DOMAIN f = {ident[s[i]] : i \in 1 .. L - 1}
      BY <2>6, <3>3
    <3>6. Mirrors(c, ident)
      BY <2>3, <3>1, <3>4, <3>5 DEF Mirrors
    <3>7. Entries(c) = {y \in Entries(b) : ident[y] # k}
      <4>1. ASSUME NEW i \in 1 .. L - 1 PROVE s[i] \in Entries(b) /\ ident[s[i]] # k
        <5>1. i \in 1 .. L /\ L \in 1 .. L /\ i # L
          BY <1>1, <2>1
        <5>2. s[i] \in Entries(b)
          BY <2>4, <5>1 DEF Entries
        <5>3. QED
          BY <2>1, <2>2, <2>4, <5>1, <5>2
      <4>2. ASSUME NEW y \in Entries(b), ident[y] # k PROVE \E i \in 1 .. L - 1 : y = s[i]
        <5>1. PICK i \in 1 .. L : y = b.slice[i]
          BY DEF Entries
        <5>2. i # pos
          BY <2>1, <4>2, <5>1
        <5>3. CASE i = L
          BY <1>1, <2>1, <2>4, <5>1, <5>2, <5>3
        <5>4. CASE i # L
          BY <1>1, <2>4, <5>1, <5>2, <5>4
        <5>5. QED
          BY <5>3, <5>4
      <4>3. Entries(c) = {s[i] : i \in 1 .. L - 1}
        BY <2>3, <3>1 DEF Entries
      <4>4. QED
        BY <4>1, <4>2, <4>3
    <3>8. QED
      BY <3>1, <3>6, <3>7 DEF c
  <2>11. QED
    BY <2>9, <2>10
<1>5. QED
  BY <1>3, <1>4

\* The sidecar of b is right, and has the position of every entry with an
\* identity in S; with all identities in S it mirrors the slice.
Records(b, ident, S) ==
    /\ Located(b, ident)
    /\ \A i \in 1 .. Len(b.slice) : ident[b.slice[i]] \in S =>
           ident[b.slice[i]] \in DOMAIN b.idx /\ b.idx[ident[b.slice[i]]] = i

\* addEdgeToBucket on a bucket that may hold an identity twice: the new entry
\* takes the place of the recorded one with its identity.
LEMMA AddRecords ==
    ASSUME NEW E, NEW K, NEW ident \in [E -> K], NEW x \in E, NEW S,
           NEW b \in BucketOf(E, K), Records(b, ident, S)
    PROVE  LET c == AddToBucket(b, ident[x], x)
           IN  /\ c \in BucketOf(E, K) /\ Records(c, ident, S)
               /\ x \in Entries(c) /\ \A y \in Entries(c) : y = x \/ y \in Entries(b)
               /\ \A y \in Entries(b) :
                     /\ ident[y] # ident[x] => y \in Entries(c)
                     /\ ident[y] = ident[x] /\ ident[x] \in S /\ y # x => y \notin Entries(c)
               /\ DOMAIN c.idx = DOMAIN b.idx \cup {ident[x]}
<1> DEFINE c == AddToBucket(b, ident[x], x)
           L == Len(b.slice)
<1>1. /\ b.slice \in Seq(E) /\ L \in Nat
      /\ \A i \in 1 .. L : b.slice[i] \in E
      /\ DOMAIN b.idx \in SUBSET K /\ b.idx \in [DOMAIN b.idx -> Nat]
      /\ b = [slice |-> b.slice, idx |-> b.idx]
  BY BucketParts
<1>2. /\ \A k \in DOMAIN b.idx : b.idx[k] \in 1 .. L /\ ident[b.slice[b.idx[k]]] = k
      /\ \A i \in 1 .. L : ident[b.slice[i]] \in S =>
             ident[b.slice[i]] \in DOMAIN b.idx /\ b.idx[ident[b.slice[i]]] = i
  BY DEF Records, Located
<1>3. CASE ident[x] \in DOMAIN b.idx
  <2> DEFINE pos == b.idx[ident[x]]
             s == [b.slice EXCEPT ![pos] = x]
  <2>1. pos \in 1 .. L /\ ident[b.slice[pos]] = ident[x]
    BY <1>2, <1>3
  <2>2. s \in Seq(E) /\ Len(s) = L
    BY <2>1, <1>1
  <2>3. \A i \in 1 .. L : s[i] = IF i = pos THEN x ELSE b.slice[i]
    BY <1>1
  <2> HIDE DEF c, s
  <2>4. c = [slice |-> s, idx |-> b.idx]
    BY <1>1, <1>3 DEF c, s, AddToBucket
  <2>5. c \in BucketOf(E, K) /\ c.slice = s /\ c.idx = b.idx
    BY <2>2, <2>4, <1>1, MakeBucket
  <2>6. \A i \in 1 .. L : ident[s[i]] = ident[b.slice[i]]
    BY <2>1, <2>3
  <2>7. Records(c, ident, S)
    <3>1. \A k \in DOMAIN b.idx : b.idx[k] \in 1 .. L /\ ident[s[b.idx[k]]] = k
      BY <1>2, <2>6
    <3>2. \A i \in 1 .. L : ident[s[i]] \in S => ident[s[i]] \in DOMAIN b.idx /\ b.idx[ident[s[i]]] = i
      BY <1>2, <2>6
    <3>3. QED
      BY <2>2, <2>5, <3>1, <3>2 DEF Records, Located
  <2>8. Entries(c) = {s[i] : i \in 1 .. L}
    BY <2>2, <2>5 DEF Entries
  <2>9. x \in Entries(c) /\ \A y \in Entries(c) : y = x \/ y \in Entries(b)
    BY <2>1, <2>3, <2>8 DEF Entries
  <2>10. ASSUME NEW y \in Entries(b)
         PROVE  /\ ident[y] # ident[x] => y \in Entries(c)
                /\ ident[y] = ident[x] /\ ident[x] \in S /\ y # x => y \notin Entries(c)
    <3>1. PICK i \in 1 .. L : y = b.slice[i]
      BY DEF Entries
    <3>2. ident[y] # ident[x] => i # pos /\ s[i] = y
      BY <2>1, <2>3, <3>1
    <3>3. ASSUME ident[y] = ident[x], ident[x] \in S, y # x, NEW j \in 1 .. L PROVE s[j] # y
      BY <1>2, <2>3, <3>1, <3>3
    <3>4. QED
      BY <2>8, <3>2, <3>3
  <2>11. QED
    BY <1>3, <2>5, <2>7, <2>9, <2>10 DEF c
<1>4. CASE ident[x] \notin DOMAIN b.idx
  <2> DEFINE s == Append(b.slice, x)
             f == Point(b.idx, ident[x], L + 1)
  <2>1. s \in Seq(E) /\ Len(s) = L + 1
    BY <1>1
  <2>2. \A i \in 1 .. L + 1 : s[i] = IF i = L + 1 THEN x ELSE b.slice[i]
    BY <1>1
  <2>3. f \in [DOMAIN b.idx \cup {ident[x]} -> Nat] /\ DOMAIN b.idx \cup {ident[x]} \in SUBSET K
    BY <1>1 DEF Point
  <2>4. \A k \in DOMAIN b.idx \cup {ident[x]} : f[k] = IF k = ident[x] THEN L + 1 ELSE b.idx[k]
    BY DEF Point
  <2> HIDE DEF c, s, f
  <2>5. c = [slice |-> s, idx |-> f]
    BY <1>4 DEF c, s, f, AddToBucket
  <2>6. c \in BucketOf(E, K) /\ c.slice = s /\ c.idx = f
    BY <2>1, <2>3, <2>5, MakeBucket
  <2>7. \A i \in 1 .. L + 1 : ident[s[i]] = IF i = L + 1 THEN ident[x] ELSE ident[b.slice[i]]
    BY <2>2
  <2>8. \A k \in DOMAIN f : f[k] \in 1 .. L + 1 /\ ident[s[f[k]]] = k
    BY <1>1, <1>2, <2>3, <2>4, <2>7
  <2>9. \A i \in 1 .. L + 1 : ident[s[i]] \in S => ident[s[i]] \in DOMAIN f /\ f[ident[s[i]]] = i
    <3> SUFFICES ASSUME NEW i \in 1 .. L + 1, ident[s[i]] \in S
                 PROVE  ident[s[i]] \in DOMAIN f /\ f[ident[s[i]]] = i
      OBVIOUS
    <3>1. CASE i = L + 1
      BY <2>3, <2>4, <2>7, <3>1
    <3>2. CASE i # L + 1
      <4>1. i \in 1 .. L /\ ident[s[i]] = ident[b.slice[i]]
        BY <1>1, <2>7, <3>2
      <4>2. QED
        BY <1>2, <1>4, <2>3, <2>4, <4>1
    <3>3. QED
      BY <3>1, <3>2
  <2>10. Records(c, ident, S)
    BY <2>1, <2>6, <2>8, <2>9 DEF Records, Located
  <2>11. Entries(c) = {s[i] : i \in 1 .. L + 1}
    BY <2>1, <2>6 DEF Entries
  <2>12. /\ L + 1 \in 1 .. L + 1 /\ s[L + 1] = x
         /\ \A i \in 1 .. L : i \in 1 .. L + 1 /\ s[i] = b.slice[i]
         /\ \A i \in 1 .. L + 1 : i = L + 1 \/ i \in 1 .. L
    BY <1>1, <2>2
  <2>13. x \in Entries(c) /\ \A y : y \in Entries(c) <=> y = x \/ y \in Entries(b)
    BY <2>11, <2>12 DEF Entries
  <2>14. \A y \in Entries(b) : ident[y] \in S => ident[y] # ident[x]
    BY <1>2, <1>4 DEF Entries
  <2>15. QED
    BY <2>3, <2>6, <2>10, <2>13, <2>14 DEF c
<1>5. QED
  BY <1>3, <1>4

\* removeEdgeFromBucket on a bucket that may hold an identity twice: the
\* recorded entry with the identity goes, every other recorded one stays.
LEMMA RemoveRecords ==
    ASSUME NEW E, NEW K, NEW ident \in [E -> K], NEW k \in K, NEW S,
           NEW b \in BucketOf(E, K), Records(b, ident, S)
    PROVE  LET c == RemoveFromBucket(b, k, ident)
           IN  /\ c \in BucketOf(E, K) /\ Records(c, ident, S)
               /\ Entries(c) \subseteq Entries(b)
               /\ \A y \in Entries(b) :
                     /\ ident[y] # k /\ ident[y] \in DOMAIN b.idx =>
                           y \in Entries(c) /\ ident[y] \in DOMAIN c.idx
                     /\ ident[y] = k /\ k \in S => y \notin Entries(c)
<1> DEFINE c == RemoveFromBucket(b, k, ident)
           L == Len(b.slice)
<1>1. /\ b.slice \in Seq(E) /\ L \in Nat
      /\ \A i \in 1 .. L : b.slice[i] \in E
      /\ DOMAIN b.idx \in SUBSET K /\ b.idx \in [DOMAIN b.idx -> Nat]
  BY BucketParts
<1>2. /\ \A j \in DOMAIN b.idx : b.idx[j] \in 1 .. L /\ ident[b.slice[b.idx[j]]] = j
      /\ \A i \in 1 .. L : ident[b.slice[i]] \in S =>
             ident[b.slice[i]] \in DOMAIN b.idx /\ b.idx[ident[b.slice[i]]] = i
  BY DEF Records, Located
<1>3. CASE k \notin DOMAIN b.idx
  <2>1. c = b
    BY <1>3 DEF RemoveFromBucket
  <2>2. \A y \in Entries(b) : ident[y] \in S => ident[y] # k
    BY <1>2, <1>3 DEF Entries
  <2>3. QED
    BY <2>1, <2>2 DEF c
<1>4. CASE k \in DOMAIN b.idx
  <2> DEFINE pos == b.idx[k]
             w == ident[b.slice[L]]
             f == IF pos # L THEN Forget(Point(b.idx, w, pos), k) ELSE Forget(b.idx, k)
             s == SubSeq([b.slice EXCEPT ![pos] = b.slice[L]], 1, L - 1)
             D == IF pos # L THEN (DOMAIN b.idx \cup {w}) \ {k} ELSE DOMAIN b.idx \ {k}
  <2>1. pos \in 1 .. L /\ ident[b.slice[pos]] = k /\ L \in 1 .. L /\ w \in K
    BY <1>1, <1>2, <1>4
  <2>2. k \in S => \A i \in 1 .. L : i # pos => ident[b.slice[i]] # k
    BY <1>2, <2>1
  <2>3. s \in Seq(E) /\ Len(s) = L - 1
    BY <1>1, <2>1
  <2>4. \A i \in 1 .. L - 1 : s[i] = IF i = pos THEN b.slice[L] ELSE b.slice[i]
    BY <1>1, <2>1
  <2>5. D \in SUBSET K /\ f \in [D -> Nat]
    BY <1>1, <2>1 DEF Forget, Point
  <2>6. \A j \in D : f[j] = IF j = w /\ pos # L THEN pos ELSE b.idx[j]
    BY DEF Forget, Point
  <2>7. DOMAIN f = D
    BY <2>5
  <2> HIDE DEF c, f, s
  <2>8. c = IF DOMAIN f = {} THEN EmptyBucket ELSE [slice |-> s, idx |-> f]
    BY <1>4 DEF c, f, s, RemoveFromBucket
  <2>9. CASE D = {}
    <3>1. c = EmptyBucket
      BY <2>7, <2>8, <2>9
    <3>2. c \in BucketOf(E, K) /\ Entries(c) = {}
      BY <3>1, EmptyProperties
    <3>3. c.slice = <<>> /\ DOMAIN c.idx = {}
      BY <3>1 DEF EmptyBucket
    <3>4. Records(c, ident, S)
      BY <3>3 DEF Records, Located
    <3>5. \A j \in DOMAIN b.idx : j = k
      BY <2>9
    <3>6. QED
      BY <3>2, <3>4, <3>5 DEF c
  <2>10. CASE D # {}
    <3>1. c \in BucketOf(E, K) /\ c.slice = s /\ c.idx = f
      BY <2>3, <2>5, <2>7, <2>8, <2>10, MakeBucket
    <3>2. \A i \in 1 .. L - 1 : ident[s[i]] = IF i = pos THEN w ELSE ident[b.slice[i]]
      BY <2>4
    <3>3. ASSUME NEW j \in D PROVE f[j] \in 1 .. L - 1 /\ ident[s[f[j]]] = j
      <4>1. CASE j = w /\ pos # L
        <5>1. f[j] = pos /\ pos \in 1 .. L - 1
          BY <1>1, <2>1, <2>6, <4>1
        <5>2. QED
          BY <3>2, <4>1, <5>1
      <4>2. CASE ~(j = w /\ pos # L)
        <5>1. j \in DOMAIN b.idx /\ j # k /\ f[j] = b.idx[j]
          BY <2>6, <4>2
        <5>2. b.idx[j] \in 1 .. L /\ ident[b.slice[b.idx[j]]] = j /\ b.idx[j] # pos
          BY <1>2, <2>1, <5>1
        <5>3. b.idx[j] # L
          BY <4>2, <5>2
        <5>4. b.idx[j] \in 1 .. L - 1
          BY <1>1, <5>2, <5>3
        <5>5. QED
          BY <3>2, <5>1, <5>2, <5>4
      <4>3. QED
        BY <4>1, <4>2
    <3>4. ASSUME NEW i \in 1 .. L - 1, ident[s[i]] \in S
          PROVE  ident[s[i]] \in D /\ f[ident[s[i]]] = i
      <4>1. i \in 1 .. L /\ i # L
        BY <1>1
      <4>2. CASE i = pos
        <5>1. ident[s[i]] = w /\ pos # L
          BY <3>2, <4>1, <4>2
        <5>2. w # k
          BY <1>2, <2>1, <3>4, <5>1
        <5>3. w \in D
          BY <5>1, <5>2
        <5>4. QED
          BY <2>6, <4>2, <5>1, <5>3
      <4>3. CASE i # pos
        <5>1. ident[s[i]] = ident[b.slice[i]]
          BY <3>2, <4>3
        <5>2. ident[b.slice[i]] \in DOMAIN b.idx /\ b.idx[ident[b.slice[i]]] = i
          BY <1>2, <3>4, <4>1, <5>1
        <5>3. ident[b.slice[i]] # k /\ ident[b.slice[i]] # w
          BY <1>2, <2>1, <3>4, <4>1, <4>3, <5>1, <5>2
        <5>4. ident[b.slice[i]] \in D
          BY <5>2, <5>3
        <5>5. QED
          BY <2>6, <5>1, <5>2, <5>3, <5>4
      <4>4. QED
        BY <4>2, <4>3
    <3>5. Records(c, ident, S)
      BY <2>3, <2>7, <3>1, <3>3, <3>4 DEF Records, Located
    <3>6. Entries(c) = {s[i] : i \in 1 .. L - 1}
      BY <2>3, <3>1 DEF Entries
    <3>7. Entries(c) \subseteq Entries(b)
      <4>1. ASSUME NEW i \in 1 .. L - 1 PROVE s[i] \in Entries(b)
        BY <1>1, <2>1, <2>4 DEF Entries
      <4>2. QED
        BY <3>6, <4>1
    <3>8. ASSUME NEW y \in Entries(b), ident[y] # k, ident[y] \in DOMAIN b.idx
          PROVE  y \in Entries(c) /\ ident[y] \in DOMAIN c.idx
      <4>1. PICK i \in 1 .. L : y = b.slice[i]
        BY DEF Entries
      <4>2. i # pos
        BY <2>1, <3>8, <4>1
      <4>3. ident[y] \in D
        BY <3>8
      <4>4. CASE i = L
        <5>1. pos \in 1 .. L - 1 /\ s[pos] = y
          BY <1>1, <2>1, <2>4, <4>1, <4>2, <4>4
        <5>2. QED
          BY <2>7, <3>1, <3>6, <4>3, <5>1
      <4>5. CASE i # L
        <5>1. i \in 1 .. L - 1 /\ s[i] = y
          BY <1>1, <2>4, <4>1, <4>2, <4>5
        <5>2. QED
          BY <2>7, <3>1, <3>6, <4>3, <5>1
      <4>6. QED
        BY <4>4, <4>5
    <3>9. ASSUME NEW y \in Entries(b), ident[y] = k, k \in S PROVE y \notin Entries(c)
      <4>1. ASSUME NEW i \in 1 .. L - 1 PROVE ident[s[i]] # k
        <5>1. i \in 1 .. L /\ L \in 1 .. L /\ i # L
          BY <1>1, <2>1
        <5>2. QED
          BY <2>2, <3>2, <3>9, <5>1
      <4>2. QED
        BY <3>6, <3>9, <4>1
    <3>10. QED
      BY <3>1, <3>5, <3>7, <3>8, <3>9 DEF c
  <2>11. QED
    BY <2>9, <2>10
<1>5. QED
  BY <1>3, <1>4

-------------------------------------------------------------------------------
(* Adjacency                                                                 *)

EdgeBucket == BucketOf(Ptrs, EdgeKey)

\* A family of lists by node ID, each with a sidecar that mirrors it.
ListsOf(h) == {L \in [Ids -> EdgeBucket] : \A a \in Ids : Mirrors(L[a], h)}

\* A family of lists whose sidecars record every entry with an identity in S.
RecordsOf(h, S) == {L \in [Ids -> EdgeBucket] : \A a \in Ids : Records(L[a], h, S)}

\* The identities no entry of an out list may share: those of the nodes where
\* identities never clashed, and, anywhere, those of the edges to stubs, which
\* no retarget makes.
Sound == {k \in EdgeKey : k.from \notin clashed \/ k.to \in Unresolved}

EvictState == [phase : {"none", "out", "in"}, ids : SUBSET NodeIds, todo : SUBSET NodeIds,
               cur : NodeIds \cup {None}, rest : SUBSET Ptrs]

\* The types of the variables, that every sidecar of the in lists is the inverse
\* of its slice, and that those of the out lists have every sound identity.
Types ==
    /\ heap \in [Ptrs -> EdgeKey]
    /\ used \in SUBSET Ptrs
    /\ out \in RecordsOf(heap, Sound)
    /\ in \in ListsOf(heap)
    /\ ev \in EvictState
    /\ clashed \in SUBSET Ids

\* A list holds edges of its node.
Owned ==
    \A a \in Ids, p \in Ptrs :
        /\ p \in Entries(out[a]) => p \in used /\ heap[p].from = a
        /\ p \in Entries(in[a]) => p \in used /\ heap[p].to = a

\* Where the loops of an eviction are.
Visits ==
    /\ ev.phase = "none" => ev = NoEvict
    /\ ev.todo \subseteq ev.ids
    /\ ev.cur # None => ev.cur \in ev.ids \ ev.todo
    /\ ev.cur = None => ev.rest = {}
    /\ ev.rest \subseteq used

\* The current loop is through with the list of node a, or with the edge p of it.
Left(a, p) == a \in ev.ids \ ev.todo /\ ~(a = ev.cur /\ p \in ev.rest)
ListGone(a) == a \in ev.ids \ ev.todo /\ a # ev.cur

InOut(p) == p \in Entries(out[heap[p].from])
InIn(p) == p \in Entries(in[heap[p].to])

\* The list of b has the entry q and a position for its identity, be it that of
\* another entry with the same one.
Listed(L, h, b, q) == q \in Entries(L[b]) /\ h[q] \in DOMAIN L[b].idx

Known(p) == Listed(out, heap, heap[p].from, p)

\* An edge of an in list is known to the out list; the other way round for the
\* edges with a sound identity.
Paired(p) ==
    /\ InIn(p) => Known(p)
    /\ heap[p] \in Sound => (InOut(p) => InIn(p))

\* How far the two directions agree: outside an eviction, as Paired says.  The
\* first loop takes an edge from the in list of a survivor, then drops the out
\* list; the second takes an edge from the out list of a survivor, then drops
\* the in list.
Agrees(p) ==
    /\ ev.phase = "none" => Paired(p)
    /\ ev.phase = "out" =>
          /\ p \in ev.rest => InOut(p) /\ heap[p].from = ev.cur
          /\ ListGone(heap[p].from) => ~InOut(p)
          /\ IF Left(heap[p].from, p) THEN InIn(p) => heap[p].to \in ev.ids
                                      ELSE Paired(p)
    /\ ev.phase = "in" =>
          /\ p \in ev.rest => InIn(p) /\ heap[p].to = ev.cur
          /\ heap[p].from \in ev.ids => ~InOut(p) /\ (InIn(p) => heap[p].to \in ev.ids)
          /\ ListGone(heap[p].to) => ~InIn(p)
          /\ Left(heap[p].to, p) /\ heap[p] \in Sound => ~InOut(p)
          /\ heap[p].from \notin ev.ids /\ ~Left(heap[p].to, p) => Paired(p)

Agreement == \A p \in used : Agrees(p)

Inv == Types /\ Owned /\ Visits /\ Agreement

\* Every entry of a list has another identity.
LEMMA EntriesUnique ==
    ASSUME NEW b, NEW h, Mirrors(b, h), NEW p \in Entries(b), NEW q \in Entries(b), h[p] = h[q]
    PROVE  p = q
<1>1. PICK i \in 1 .. Len(b.slice) : p = b.slice[i]
  BY DEF Entries
<1>2. PICK j \in 1 .. Len(b.slice) : q = b.slice[j]
  BY DEF Entries
<1>3. QED
  BY <1>1, <1>2 DEF Mirrors

\* An identity is recorded exactly if an entry has it, at its position.
LEMMA SidecarDomain ==
    ASSUME NEW b, NEW h, Mirrors(b, h)
    PROVE  \A k : k \in DOMAIN b.idx <=> \E p \in Entries(b) : h[p] = k
BY DEF Mirrors, Entries

\* The sidecar of a list mirrors it for as long as its own edges keep their
\* identities.
LEMMA MirrorsAgain ==
    ASSUME NEW b, NEW h, NEW g, Mirrors(b, h), \A p \in Entries(b) : g[p] = h[p]
    PROVE  Mirrors(b, g)
<1>1. \A i \in 1 .. Len(b.slice) : g[b.slice[i]] = h[b.slice[i]]
  BY DEF Entries
<1>2. \A k : (\E i \in 1 .. Len(b.slice) : k = g[b.slice[i]])
                 <=> (\E i \in 1 .. Len(b.slice) : k = h[b.slice[i]])
  BY <1>1
<1>3. {g[b.slice[i]] : i \in 1 .. Len(b.slice)} = {h[b.slice[i]] : i \in 1 .. Len(b.slice)}
  BY <1>2
<1>4. QED
  BY <1>1, <1>3 DEF Mirrors

\* Edge objects are in the lists.
LEMMA EntriesType == ASSUME NEW b \in EdgeBucket PROVE Entries(b) \subseteq Ptrs
BY BucketParts DEF Entries, EdgeBucket

\* removeEdgeFromBucket, addEdgeToBucket and delete on one list of a family.
Removed(L, a, e, h) == [L EXCEPT ![a] = RemoveFromBucket(@, e, h)]
Added(L, a, e, p) == [L EXCEPT ![a] = AddToBucket(@, e, p)]
Deleted(L, a) == [L EXCEPT ![a] = EmptyBucket]

\* The edge with an identity leaves one list of a family.
LEMMA RemoveFromList ==
    ASSUME NEW h \in [Ptrs -> EdgeKey], NEW L \in ListsOf(h), NEW a \in Ids, NEW e \in EdgeKey
    PROVE  /\ Removed(L, a, e, h) \in ListsOf(h)
           /\ \A b \in Ids : \A q \in Ptrs :
                 q \in Entries(Removed(L, a, e, h)[b]) <=> q \in Entries(L[b]) /\ ~(b = a /\ h[q] = e)
<1> DEFINE c == RemoveFromBucket(L[a], e, h)
           M == Removed(L, a, e, h)
<1>1. L[a] \in EdgeBucket /\ Mirrors(L[a], h)
  BY DEF ListsOf
<1> HIDE DEF c
<1>2. c \in EdgeBucket /\ Mirrors(c, h) /\ Entries(c) = {q \in Entries(L[a]) : h[q] # e}
  BY <1>1, RemoveProperties DEF c, EdgeBucket
<1>3. M = [L EXCEPT ![a] = c] /\ \A b \in Ids : M[b] = IF b = a THEN c ELSE L[b]
  BY DEF c, ListsOf, Removed
<1> HIDE DEF M
<1>4. M \in ListsOf(h)
  BY <1>2, <1>3 DEF ListsOf
<1>5. QED
  BY <1>2, <1>3, <1>4 DEF M

\* An edge takes the place of the one with its identity in one list of a family.
LEMMA AddToList ==
    ASSUME NEW h \in [Ptrs -> EdgeKey], NEW L \in ListsOf(h), NEW a \in Ids, NEW p \in Ptrs
    PROVE  /\ Added(L, a, h[p], p) \in ListsOf(h)
           /\ \A b \in Ids : \A q \in Ptrs :
                 q \in Entries(Added(L, a, h[p], p)[b]) <=>
                     (b = a /\ q = p) \/ (q \in Entries(L[b]) /\ ~(b = a /\ h[q] = h[p]))
<1> DEFINE c == AddToBucket(L[a], h[p], p)
           M == Added(L, a, h[p], p)
<1>1. L[a] \in EdgeBucket /\ Mirrors(L[a], h)
  BY DEF ListsOf
<1> HIDE DEF c
<1>2. /\ c \in EdgeBucket /\ Mirrors(c, h)
      /\ Entries(c) = {q \in Entries(L[a]) : h[q] # h[p]} \cup {p}
  BY <1>1, AddProperties DEF c, EdgeBucket
<1>3. M = [L EXCEPT ![a] = c] /\ \A b \in Ids : M[b] = IF b = a THEN c ELSE L[b]
  BY DEF c, ListsOf, Added
<1> HIDE DEF M
<1>4. M \in ListsOf(h)
  BY <1>2, <1>3 DEF ListsOf
<1>5. QED
  BY <1>2, <1>3, <1>4 DEF M

\* One list of a family is dropped.
LEMMA DropList ==
    ASSUME NEW h \in [Ptrs -> EdgeKey], NEW L \in ListsOf(h), NEW a \in Ids
    PROVE  /\ Deleted(L, a) \in ListsOf(h)
           /\ \A b \in Ids : \A q \in Ptrs : q \in Entries(Deleted(L, a)[b]) <=> q \in Entries(L[b]) /\ b # a
<1> DEFINE M == Deleted(L, a)
<1>1. EmptyBucket \in EdgeBucket /\ Mirrors(EmptyBucket, h) /\ Entries(EmptyBucket) = {}
  BY EmptyProperties DEF EdgeBucket
<1>2. M = [L EXCEPT ![a] = EmptyBucket] /\ \A b \in Ids : M[b] = IF b = a THEN EmptyBucket ELSE L[b]
  BY DEF ListsOf, Deleted
<1> HIDE DEF M
<1>3. M \in ListsOf(h)
  BY <1>1, <1>2 DEF ListsOf
<1>4. QED
  BY <1>1, <1>2, <1>3 DEF M

\* A family of lists none of which holds an edge whose identity changes.
LEMMA ListsAgain ==
    ASSUME NEW h \in [Ptrs -> EdgeKey], NEW g \in [Ptrs -> EdgeKey], NEW L \in ListsOf(h),
           \A a \in Ids : \A p \in Entries(L[a]) : g[p] = h[p]
    PROVE  L \in ListsOf(g)
BY MirrorsAgain DEF ListsOf

\* No two entries share an identity in S.
LEMMA RecordsUnique ==
    ASSUME NEW b, NEW h, NEW S, Records(b, h, S), NEW p \in Entries(b), NEW q \in Entries(b),
           h[p] = h[q], h[p] \in S
    PROVE  p = q
<1>1. PICK i \in 1 .. Len(b.slice) : p = b.slice[i]
  BY DEF Entries
<1>2. PICK j \in 1 .. Len(b.slice) : q = b.slice[j]
  BY DEF Entries
<1>3. QED
  BY <1>1, <1>2 DEF Records

\* Every entry with an identity in S is recorded.
LEMMA RecordsDomain ==
    ASSUME NEW b, NEW h, NEW S, Records(b, h, S), NEW p \in Entries(b), h[p] \in S
    PROVE  h[p] \in DOMAIN b.idx
BY DEF Records, Entries

\* With every identity in S the sidecar is the inverse of the slice.
LEMMA RecordsMirror ==
    ASSUME NEW b, NEW h, NEW S, Records(b, h, S), \A p \in Entries(b) : h[p] \in S
    PROVE  Mirrors(b, h)
<1>1. \A i \in 1 .. Len(b.slice) : h[b.slice[i]] \in S
  BY DEF Entries
<1>2. \A i \in 1 .. Len(b.slice) : h[b.slice[i]] \in DOMAIN b.idx /\ b.idx[h[b.slice[i]]] = i
  BY <1>1 DEF Records
<1>3. \A k \in DOMAIN b.idx : \E i \in 1 .. Len(b.slice) : k = h[b.slice[i]]
  BY DEF Records, Located
<1>4. DOMAIN b.idx = {h[b.slice[i]] : i \in 1 .. Len(b.slice)}
  BY <1>2, <1>3
<1>5. QED
  BY <1>2, <1>4 DEF Mirrors

\* Positions stay right for as long as the edges of the list keep their
\* identities.
LEMMA RecordsAgain ==
    ASSUME NEW b, NEW h, NEW g, NEW S, NEW R, Records(b, h, S), R \subseteq S,
           \A p \in Entries(b) : g[p] = h[p]
    PROVE  Records(b, g, R)
<1>1. \A i \in 1 .. Len(b.slice) : g[b.slice[i]] = h[b.slice[i]]
  BY DEF Entries
<1>2. QED
  BY <1>1 DEF Records, Located

\* removeEdgeFromBucket on one list of a family with recorded identities.
LEMMA RemoveFromRecords ==
    ASSUME NEW h \in [Ptrs -> EdgeKey], NEW S, NEW L \in RecordsOf(h, S), NEW a \in Ids,
           NEW e \in EdgeKey
    PROVE  LET M == Removed(L, a, e, h)
           IN  /\ M \in RecordsOf(h, S)
               /\ \A b \in Ids : \A q \in Ptrs :
                     /\ q \in Entries(M[b]) => q \in Entries(L[b])
                     /\ b = a /\ h[q] = e /\ e \in S => q \notin Entries(M[b])
                     /\ Listed(L, h, b, q) /\ ~(b = a /\ h[q] = e) => Listed(M, h, b, q)
<1> DEFINE c == RemoveFromBucket(L[a], e, h)
           M == Removed(L, a, e, h)
<1>1. L[a] \in BucketOf(Ptrs, EdgeKey) /\ Records(L[a], h, S)
  BY DEF RecordsOf, EdgeBucket
<1>2. /\ c \in BucketOf(Ptrs, EdgeKey) /\ Records(c, h, S) /\ Entries(c) \subseteq Entries(L[a])
      /\ \A q \in Entries(L[a]) :
            /\ h[q] # e /\ h[q] \in DOMAIN L[a].idx => q \in Entries(c) /\ h[q] \in DOMAIN c.idx
            /\ h[q] = e /\ e \in S => q \notin Entries(c)
  <2> HIDE DEF c
  <2>1. \A b \in BucketOf(Ptrs, EdgeKey) : Records(b, h, S) =>
            LET d == RemoveFromBucket(b, e, h)
            IN  /\ d \in BucketOf(Ptrs, EdgeKey) /\ Records(d, h, S) /\ Entries(d) \subseteq Entries(b)
                /\ \A q \in Entries(b) :
                      /\ h[q] # e /\ h[q] \in DOMAIN b.idx =>
                            q \in Entries(d) /\ h[q] \in DOMAIN d.idx
                      /\ h[q] = e /\ e \in S => q \notin Entries(d)
    BY RemoveRecords
  <2>2. QED
    BY <1>1, <2>1 DEF c
<1> HIDE DEF c
<1>3. M = [L EXCEPT ![a] = c] /\ \A b \in Ids : M[b] = IF b = a THEN c ELSE L[b]
  BY DEF c, RecordsOf, Removed
<1> HIDE DEF M
<1>4. M \in RecordsOf(h, S)
  BY <1>2, <1>3 DEF RecordsOf, EdgeBucket
<1>5. QED
  BY <1>2, <1>3, <1>4 DEF M, Listed

\* addEdgeToBucket on one list of a family with recorded identities.
LEMMA AddToRecords ==
    ASSUME NEW h \in [Ptrs -> EdgeKey], NEW S, NEW L \in RecordsOf(h, S), NEW a \in Ids,
           NEW p \in Ptrs
    PROVE  LET M == Added(L, a, h[p], p)
           IN  /\ M \in RecordsOf(h, S) /\ Listed(M, h, a, p)
               /\ \A b \in Ids : \A q \in Ptrs :
                     /\ q \in Entries(M[b]) => (b = a /\ q = p) \/ q \in Entries(L[b])
                     /\ b = a /\ h[q] = h[p] /\ h[p] \in S /\ q # p => q \notin Entries(M[b])
                     /\ Listed(L, h, b, q) /\ ~(b = a /\ h[q] = h[p]) => Listed(M, h, b, q)
<1> DEFINE c == AddToBucket(L[a], h[p], p)
           M == Added(L, a, h[p], p)
<1>1. L[a] \in BucketOf(Ptrs, EdgeKey) /\ Records(L[a], h, S)
  BY DEF RecordsOf, EdgeBucket
<1>2. /\ c \in BucketOf(Ptrs, EdgeKey) /\ Records(c, h, S)
      /\ p \in Entries(c) /\ \A q \in Entries(c) : q = p \/ q \in Entries(L[a])
      /\ \A q \in Entries(L[a]) :
            /\ h[q] # h[p] => q \in Entries(c)
            /\ h[q] = h[p] /\ h[p] \in S /\ q # p => q \notin Entries(c)
      /\ DOMAIN c.idx = DOMAIN L[a].idx \cup {h[p]}
  <2> HIDE DEF c
  <2>1. \A b \in BucketOf(Ptrs, EdgeKey) : Records(b, h, S) =>
            LET d == AddToBucket(b, h[p], p)
            IN  /\ d \in BucketOf(Ptrs, EdgeKey) /\ Records(d, h, S)
                /\ p \in Entries(d) /\ \A q \in Entries(d) : q = p \/ q \in Entries(b)
                /\ \A q \in Entries(b) :
                      /\ h[q] # h[p] => q \in Entries(d)
                      /\ h[q] = h[p] /\ h[p] \in S /\ q # p => q \notin Entries(d)
                /\ DOMAIN d.idx = DOMAIN b.idx \cup {h[p]}
    BY AddRecords
  <2>2. QED
    BY <1>1, <2>1 DEF c
<1> HIDE DEF c
<1>3. M = [L EXCEPT ![a] = c] /\ \A b \in Ids : M[b] = IF b = a THEN c ELSE L[b]
  BY DEF c, RecordsOf, Added
<1> HIDE DEF M
<1>4. M \in RecordsOf(h, S) /\ Listed(M, h, a, p)
  BY <1>2, <1>3 DEF RecordsOf, Listed, EdgeBucket
<1>5. QED
  BY <1>2, <1>3, <1>4 DEF M, Listed

\* One list of a family with recorded identities is dropped.
LEMMA DropRecords ==
    ASSUME NEW h \in [Ptrs -> EdgeKey], NEW S, NEW L \in RecordsOf(h, S), NEW a \in Ids
    PROVE  /\ Deleted(L, a) \in RecordsOf(h, S)
           /\ \A b \in Ids : Deleted(L, a)[b] = IF b = a THEN EmptyBucket ELSE L[b]
           /\ Entries(EmptyBucket) = {}
<1> DEFINE M == Deleted(L, a)
<1>1. EmptyBucket \in EdgeBucket /\ Entries(EmptyBucket) = {}
  BY EmptyProperties DEF EdgeBucket
<1>2. EmptyBucket.slice = <<>> /\ DOMAIN EmptyBucket.idx = {}
  BY DEF EmptyBucket
<1>3. Records(EmptyBucket, h, S)
  BY <1>2 DEF Records, Located
<1>4. M = [L EXCEPT ![a] = EmptyBucket] /\ \A b \in Ids : M[b] = IF b = a THEN EmptyBucket ELSE L[b]
  BY DEF RecordsOf, Deleted
<1> HIDE DEF M
<1>5. M \in RecordsOf(h, S)
  BY <1>1, <1>3, <1>4 DEF RecordsOf
<1>6. QED
  BY <1>1, <1>4, <1>5 DEF M

-------------------------------------------------------------------------------
\* Outside an eviction there is nothing to visit.
LEMMA Unlocked ==
    ASSUME Types, NoShardLocked
    PROVE  /\ ev.phase = "none" /\ ev.ids = {} /\ ev.todo = {} /\ ev.cur = None /\ ev.rest = {}
           /\ ev = NoEvict
BY DEF NoShardLocked, NoEvict

\* The parts of an identity.
LEMMA EdgeParts == \A e \in EdgeKey : e.from \in NodeIds /\ e.from \in Ids /\ e.to \in Ids
BY DEF EdgeKey, NodeIds

\* Init satisfies the inductive invariant.
LEMMA InvInit == Init => Inv
<1> SUFFICES ASSUME Init PROVE Inv
  OBVIOUS
<1>1. EmptyBucket \in EdgeBucket /\ Mirrors(EmptyBucket, heap) /\ Entries(EmptyBucket) = {}
  BY EmptyProperties DEF EdgeBucket
<1>2. heap \in [Ptrs -> EdgeKey]
  BY EdgeKeyAssumption DEF Init
<1>3. out \in RecordsOf(heap, Sound) /\ in \in ListsOf(heap)
  <2>1. EmptyBucket.slice = <<>> /\ DOMAIN EmptyBucket.idx = {}
    BY DEF EmptyBucket
  <2>2. Records(EmptyBucket, heap, Sound)
    BY <2>1 DEF Records, Located
  <2>3. QED
    BY <1>1, <2>2 DEF Init, ListsOf, RecordsOf
<1>4. used = {} /\ ev = NoEvict /\ NoEvict \in EvictState /\ clashed = {}
  BY DEF Init, NoEvict, EvictState
<1>5. Types /\ Visits
  BY <1>2, <1>3, <1>4 DEF Types, Visits, NoEvict
<1>6. Owned
  BY <1>1 DEF Init, Owned
<1>7. QED
  BY <1>4, <1>5, <1>6 DEF Inv, Agreement

\* What AddEdge does: the new object takes the place of the one with its identity
\* in both lists.
LEMMA AddEdgeEffect ==
    ASSUME Inv, NEW p \in Ptrs, NEW e \in EdgeKey, AddEdge(p, e)
    PROVE  /\ heap' \in [Ptrs -> EdgeKey] /\ heap'[p] = e
           /\ p \notin used /\ \A q \in used : heap'[q] = heap[q]
           /\ out' \in RecordsOf(heap', Sound) /\ in' \in ListsOf(heap')
           /\ Listed(out', heap', e.from, p)
           /\ \A a \in Ids : \A q \in Ptrs :
                 /\ q \in Entries(out'[a]) =>
                        (a = e.from /\ q = p) \/ (q \in Entries(out[a]) /\ (e \in Sound => heap[q] # e))
                 /\ Listed(out, heap, a, q) /\ heap[q] # e => Listed(out', heap', a, q)
                 /\ q \in Entries(in'[a]) <=>
                        (a = e.to /\ q = p) \/ (q \in Entries(in[a]) /\ heap[q] # e)
<1>1. /\ heap' \in [Ptrs -> EdgeKey] /\ heap'[p] = e
      /\ p \notin used /\ \A q \in used : heap'[q] = heap[q]
  BY DEF AddEdge, Inv, Types
<1>2. /\ \A a \in Ids : \A q \in Entries(out[a]) : q \in used /\ heap[q].from = a
      /\ \A a \in Ids : \A q \in Entries(in[a]) : q \in used /\ heap[q].to = a
  BY EntriesType DEF Inv, Types, Owned, ListsOf, RecordsOf
<1>3. out \in RecordsOf(heap', Sound) /\ in \in ListsOf(heap')
  <2>1. in \in ListsOf(heap')
    BY <1>1, <1>2, ListsAgain DEF Inv, Types
  <2>2. out \in [Ids -> EdgeBucket] /\ \A a \in Ids : Records(out[a], heap, Sound)
    BY DEF Inv, Types, RecordsOf
  <2>3. \A a \in Ids : Records(out[a], heap', Sound)
    BY <1>1, <1>2, <2>2, RecordsAgain
  <2>4. QED
    BY <2>1, <2>2, <2>3 DEF RecordsOf
<1>4. out' = Added(out, e.from, heap'[p], p) /\ in' = Added(in, e.to, heap'[p], p)
  BY <1>1 DEF AddEdge, Added
<1>5. e.from \in Ids /\ e.to \in Ids
  BY EdgeParts
<1>6. /\ out' \in RecordsOf(heap', Sound) /\ Listed(out', heap', e.from, p)
      /\ \A a \in Ids : \A q \in Ptrs :
            /\ q \in Entries(out'[a]) => (a = e.from /\ q = p) \/ q \in Entries(out[a])
            /\ a = e.from /\ heap'[q] = e /\ e \in Sound /\ q # p => q \notin Entries(out'[a])
            /\ Listed(out, heap', a, q) /\ ~(a = e.from /\ heap'[q] = e) => Listed(out', heap', a, q)
  BY <1>1, <1>3, <1>4, <1>5, AddToRecords
<1>7. /\ in' \in ListsOf(heap')
      /\ \A a \in Ids : \A q \in Ptrs :
            q \in Entries(in'[a]) <=>
               \/ a = e.to /\ q = p
               \/ q \in Entries(in[a]) /\ ~(a = e.to /\ heap'[q] = heap'[p])
  BY <1>1, <1>3, <1>4, <1>5, AddToList
<1>8. ASSUME NEW a \in Ids, NEW q \in Ptrs
      PROVE  /\ q \in Entries(out'[a]) =>
                    (a = e.from /\ q = p) \/ (q \in Entries(out[a]) /\ (e \in Sound => heap[q] # e))
             /\ Listed(out, heap, a, q) /\ heap[q] # e => Listed(out', heap', a, q)
  <2>1. q \in Entries(out[a]) => q \in used /\ q # p /\ heap'[q] = heap[q] /\ heap[q].from = a
    BY <1>1, <1>2
  <2>2. Listed(out, heap, a, q) => Listed(out, heap', a, q)
    BY <2>1 DEF Listed
  <2>3. Listed(out, heap, a, q) => q \in Entries(out[a])
    BY DEF Listed
  <2>4. QED
    BY <1>6, <2>1, <2>2, <2>3
<1>9. \A a \in Ids : \A q \in Ptrs :
         q \in Entries(in'[a]) <=> (a = e.to /\ q = p) \/ (q \in Entries(in[a]) /\ heap[q] # e)
  BY <1>1, <1>2, <1>7
<1>10. QED
  BY <1>1, <1>6, <1>7, <1>8, <1>9

\* What DropEdge does: the edge with the identity leaves both lists.
LEMMA DropEdgeEffect ==
    ASSUME Inv, NEW e \in EdgeKey, DropEdge(e)
    PROVE  /\ out' \in RecordsOf(heap, Sound) /\ in' \in ListsOf(heap)
           /\ \A a \in Ids : \A q \in Ptrs :
                 /\ q \in Entries(out'[a]) => q \in Entries(out[a]) /\ (e \in Sound => heap[q] # e)
                 /\ Listed(out, heap, a, q) /\ heap[q] # e => Listed(out', heap, a, q)
                 /\ q \in Entries(in'[a]) <=> q \in Entries(in[a]) /\ heap[q] # e
<1>1. /\ \A a \in Ids : \A q \in Entries(out[a]) : q \in used /\ heap[q].from = a
      /\ \A a \in Ids : \A q \in Entries(in[a]) : q \in used /\ heap[q].to = a
  BY EntriesType DEF Inv, Types, Owned, ListsOf, RecordsOf
<1>2. /\ out' \in RecordsOf(heap, Sound)
      /\ \A a \in Ids : \A q \in Ptrs :
            /\ q \in Entries(out'[a]) => q \in Entries(out[a])
            /\ a = e.from /\ heap[q] = e /\ e \in Sound => q \notin Entries(out'[a])
            /\ Listed(out, heap, a, q) /\ ~(a = e.from /\ heap[q] = e) => Listed(out', heap, a, q)
  <2>1. e.from \in Ids /\ out' = Removed(out, e.from, e, heap)
    BY EdgeParts DEF DropEdge, Removed
  <2>2. heap \in [Ptrs -> EdgeKey] /\ out \in RecordsOf(heap, Sound)
    BY DEF Inv, Types
  <2>3. QED
    BY <2>1, <2>2, RemoveFromRecords
<1>3. /\ in' \in ListsOf(heap)
      /\ \A a \in Ids : \A q \in Ptrs :
            q \in Entries(in'[a]) <=> q \in Entries(in[a]) /\ ~(a = e.to /\ heap[q] = e)
  <2>1. e.to \in Ids /\ in' = Removed(in, e.to, e, heap)
    BY EdgeParts DEF DropEdge, Removed
  <2>2. heap \in [Ptrs -> EdgeKey] /\ in \in ListsOf(heap)
    BY DEF Inv, Types
  <2>3. QED
    BY <2>1, <2>2, RemoveFromList
<1>4. QED
  BY <1>1, <1>2, <1>3

\* What Retarget does: the edge keeps its place in the out list, under the new
\* identity, and moves to the in list of its new target.  When the identity was
\* taken it is no longer sound.
LEMMA RetargetEffect ==
    ASSUME Inv, NEW p \in used, NEW t \in Ids, Retarget(p, t)
    PROVE  /\ heap' \in [Ptrs -> EdgeKey] /\ heap'[p] = [heap[p] EXCEPT !.to = t]
           /\ \A q \in used \ {p} : heap'[q] = heap[q]
           /\ heap[p].to # t
           /\ p \in Entries(out[heap[p].from]) /\ p \in Entries(in[heap[p].to])
           /\ \A q \in Entries(out[heap[p].from]) : heap[q] = heap[p] => q = p
           /\ Sound' \subseteq Sound /\ clashed' \in SUBSET Ids
           /\ \A q \in Entries(out[heap[p].from]) : heap[q] = heap'[p] => heap[q] \notin Sound'
           /\ out' \in RecordsOf(heap', Sound') /\ in' \in ListsOf(heap')
           /\ Listed(out', heap', heap[p].from, p)
           /\ \A a \in Ids : \A q \in Ptrs :
                 /\ q \in Entries(out'[a]) <=> q \in Entries(out[a])
                 /\ Listed(out, heap, a, q) => Listed(out', heap', a, q)
                 /\ q \in Entries(in'[a]) <=>
                        \/ a = t /\ q = p
                        \/ q \in Entries(in[a]) /\ q # p /\ heap[q] # heap'[p]
<1> DEFINE from == heap[p].from
           old == heap[p]
           new == [heap[p] EXCEPT !.to = t]
           h == [heap EXCEPT ![p].to = t]
<1>1. /\ heap \in [Ptrs -> EdgeKey] /\ p \in Ptrs /\ out \in RecordsOf(heap, Sound)
      /\ in \in ListsOf(heap) /\ used \in SUBSET Ptrs /\ clashed \in SUBSET Ids
  BY DEF Inv, Types
<1>2. /\ \A a \in Ids : \A q \in Entries(out[a]) : q \in used /\ heap[q].from = a
      /\ \A a \in Ids : \A q \in Entries(in[a]) : q \in used /\ heap[q].to = a
  BY EntriesType DEF Inv, Types, Owned, ListsOf, RecordsOf
<1>3. /\ old \in EdgeKey /\ new \in EdgeKey /\ from \in Ids /\ old.to \in Ids
      /\ new.from = from /\ new.to = t /\ old = [new EXCEPT !.to = old.to]
  BY <1>1 DEF EdgeKey, NodeIds
<1>4. old.to # t
  BY DEF Retarget
<1>5. h \in [Ptrs -> EdgeKey] /\ h[p] = new /\ \A q \in Ptrs \ {p} : h[q] = heap[q]
  BY <1>1, <1>3
<1>6. heap' = h /\ Reindexed(h, p, old.to)
  BY DEF Retarget
<1>7. old \in Sound /\ p \in Entries(out[from]) /\ p \in Entries(in[old.to])
  <2>1. p \in Entries(out[from]) /\ old.to \in Unresolved
    BY DEF Retarget
  <2>2. ev.phase = "none"
    BY Unlocked DEF Inv, Retarget
  <2>3. old \in Sound
    BY <1>3, <2>1 DEF Sound
  <2>4. QED
    BY <2>1, <2>2, <2>3 DEF Inv, Agreement, Agrees, Paired, InOut, InIn
<1>8. Records(out[from], heap, Sound) /\ Mirrors(in[old.to], heap) /\ Mirrors(in[t], heap)
  BY <1>1, <1>3 DEF ListsOf, RecordsOf
<1>9. old \in DOMAIN out[from].idx
  BY <1>7, <1>8, RecordsDomain
<1>10. \A q \in Entries(out[from]) : heap[q] = old => q = p
  BY <1>7, <1>8, RecordsUnique
<1> HIDE DEF h, new, old, from
<1>14. /\ clashed' = clashed \cup {a \in {from} : new \in DOMAIN out[from].idx}
       /\ new.to \notin Unresolved
  <2>1. h[p] = new /\ new.from = from /\ new.to = t
    BY <1>3, <1>5
  <2>2. QED
    BY <1>6, <2>1 DEF Reindexed, Retarget
<1>15. /\ Sound' \subseteq Sound /\ clashed' \in SUBSET Ids
       /\ new \in DOMAIN out[from].idx => new \notin Sound'
  BY <1>1, <1>3, <1>14 DEF Sound
<1>16. \A q \in Entries(out[from]) : heap[q] = new => new \notin Sound'
  BY <1>8, <1>15, RecordsDomain
<1> HIDE DEF Sound
<1>11. /\ out' \in RecordsOf(h, Sound') /\ Listed(out', h, from, p)
       /\ \A a \in Ids : \A q \in Ptrs :
             /\ q \in Entries(out'[a]) <=> q \in Entries(out[a])
             /\ Listed(out, heap, a, q) => Listed(out', h, a, q)
  <2> DEFINE b == out[from]
             f == Point(Forget(b.idx, old), new, b.idx[old])
             c == [slice |-> b.slice, idx |-> f]
  <2>1. b \in EdgeBucket
    BY <1>1, <1>3 DEF RecordsOf
  <2>2. /\ b = [slice |-> b.slice, idx |-> b.idx] /\ b.slice \in Seq(Ptrs)
        /\ DOMAIN b.idx \in SUBSET EdgeKey /\ b.idx \in [DOMAIN b.idx -> Nat]
    BY <2>1, BucketParts DEF EdgeBucket
  <2>3. out' = [out EXCEPT ![from] = c]
    <3>1. h[p] = new /\ new.from = from /\ [new EXCEPT !.to = old.to] = old
      BY <1>3, <1>5
    <3>2. out' = [out EXCEPT ![from].idx = f]
      BY <1>6, <1>9, <3>1 DEF Reindexed
    <3>3. [b EXCEPT !.idx = f] = c
      BY <2>2
    <3>4. QED
      BY <3>2, <3>3
  <2> DEFINE D == (DOMAIN b.idx \ {old}) \cup {new}
  <2>4. D \in SUBSET EdgeKey /\ f \in [D -> Nat]
    BY <1>3, <1>9, <2>2 DEF Point, Forget
  <2>5. \A k \in D : f[k] = IF k = new THEN b.idx[old] ELSE b.idx[k]
    BY <1>9 DEF Point, Forget
  <2> HIDE DEF b, f, c
  <2>6. c \in EdgeBucket /\ c.slice = b.slice /\ c.idx = f
    BY <2>2, <2>4, MakeBucket DEF c, EdgeBucket
  <2>7. /\ \A k \in DOMAIN b.idx :
              b.idx[k] \in 1 .. Len(b.slice) /\ heap[b.slice[b.idx[k]]] = k
        /\ \A i \in 1 .. Len(b.slice) :
              heap[b.slice[i]] \in Sound =>
                  heap[b.slice[i]] \in DOMAIN b.idx /\ b.idx[heap[b.slice[i]]] = i
    BY <1>8 DEF Records, Located, b
  <2>8. \A i \in 1 .. Len(b.slice) :
           /\ b.slice[i] \in Entries(out[from])
           /\ h[b.slice[i]] = IF b.slice[i] = p THEN new ELSE heap[b.slice[i]]
    <3>1. \A i \in 1 .. Len(b.slice) : b.slice[i] \in Entries(out[from]) /\ b.slice[i] \in Ptrs
      BY <2>1, EntriesType DEF Entries, b
    <3>2. QED
      BY <1>5, <3>1
  <2>9. b.slice[b.idx[old]] = p
    BY <1>9, <1>10, <2>7, <2>8 DEF b
  <2>10. \A k \in D : f[k] \in 1 .. Len(b.slice) /\ h[b.slice[f[k]]] = k
    <3> SUFFICES ASSUME NEW k \in D PROVE f[k] \in 1 .. Len(b.slice) /\ h[b.slice[f[k]]] = k
      OBVIOUS
    <3>1. CASE k = new
      BY <1>9, <2>5, <2>7, <2>8, <2>9, <3>1 DEF b
    <3>2. CASE k # new
      <4>1. k \in DOMAIN b.idx /\ k # old /\ f[k] = b.idx[k]
        BY <2>5, <3>2
      <4>2. b.slice[b.idx[k]] # p
        BY <2>7, <4>1 DEF old
      <4>3. QED
        BY <2>7, <2>8, <4>1, <4>2
    <3>3. QED
      BY <3>1, <3>2
  <2>11. ASSUME NEW i \in 1 .. Len(b.slice), h[b.slice[i]] \in Sound'
         PROVE  h[b.slice[i]] \in D /\ f[h[b.slice[i]]] = i
    <3>1. CASE b.slice[i] = p
      <4>1. h[b.slice[i]] = new /\ heap[b.slice[i]] = old
        BY <2>8, <3>1 DEF old
      <4>2. b.idx[old] = i
        BY <1>7, <2>7, <4>1
      <4>3. QED
        BY <2>5, <4>1, <4>2
    <3>2. CASE b.slice[i] # p
      <4>1. h[b.slice[i]] = heap[b.slice[i]] /\ heap[b.slice[i]] \in Sound
        BY <1>15, <2>8, <2>11, <3>2
      <4>2. heap[b.slice[i]] # old /\ heap[b.slice[i]] # new
        BY <1>10, <1>16, <2>8, <2>11, <3>2, <4>1
      <4>3. heap[b.slice[i]] \in DOMAIN b.idx /\ b.idx[heap[b.slice[i]]] = i
        BY <2>7, <4>1
      <4>4. QED
        BY <2>5, <4>1, <4>2, <4>3
    <3>3. QED
      BY <3>1, <3>2
  <2>12. Records(c, h, Sound') /\ DOMAIN c.idx = D
    <3>1. DOMAIN f = D
      BY <2>4
    <3>2. QED
      BY <2>6, <2>10, <2>11, <3>1 DEF Records, Located
  <2>13. Entries(c) = Entries(b)
    BY <2>6 DEF Entries
  <2>14. \A a \in Ids : out'[a] = IF a = from THEN c ELSE out[a]
    BY <1>1, <2>3 DEF RecordsOf
  <2>15. ASSUME NEW a \in Ids, a # from
         PROVE  Records(out[a], h, Sound') /\ \A q \in Entries(out[a]) : h[q] = heap[q]
    <3>1. Records(out[a], heap, Sound)
      BY <1>1 DEF RecordsOf
    <3>2. \A q \in Entries(out[a]) : h[q] = heap[q]
      BY <1>1, <1>2, <1>5, <2>15 DEF from
    <3>3. QED
      BY <1>15, <3>1, <3>2, RecordsAgain
  <2>16. out' \in RecordsOf(h, Sound')
    BY <1>1, <2>3, <2>6, <2>12, <2>14, <2>15 DEF RecordsOf
  <2>17. Listed(out', h, from, p)
    BY <1>3, <1>5, <1>7, <2>12, <2>13, <2>14 DEF Listed, b
  <2>18. ASSUME NEW a \in Ids, NEW q \in Ptrs, Listed(out, heap, a, q) PROVE Listed(out', h, a, q)
    <3>1. q \in Entries(out[a]) /\ heap[q] \in DOMAIN out[a].idx
      BY <2>18 DEF Listed
    <3>2. CASE a # from
      BY <2>14, <2>15, <3>1, <3>2 DEF Listed
    <3>3. CASE a = from /\ q = p
      BY <2>17, <3>3
    <3>4. CASE a = from /\ q # p
      <4>1. heap[q] # old /\ h[q] = heap[q]
        BY <1>5, <1>10, <3>1, <3>4
      <4>2. h[q] \in D
        BY <3>1, <3>4, <4>1 DEF b
      <4>3. QED
        BY <2>12, <2>13, <2>14, <3>1, <3>4, <4>2 DEF Listed, b
    <3>5. QED
      BY <3>2, <3>3, <3>4
  <2>19. QED
    BY <2>13, <2>14, <2>16, <2>17, <2>18 DEF b
<1>12. /\ in' \in ListsOf(h)
       /\ \A a \in Ids : \A q \in Ptrs :
             q \in Entries(in'[a]) <=>
                 (a = t /\ q = p) \/ (q \in Entries(in[a]) /\ q # p /\ heap[q] # new)
  <2> DEFINE b == in[old.to]
             mid == Removed(in, old.to, old, heap)
  <2>1. RemoveFromBucket(b, old, h) = RemoveFromBucket(b, old, heap)
    <3>1. b \in EdgeBucket /\ Mirrors(b, heap) /\ p \in Entries(b)
      BY <1>1, <1>3, <1>7, <1>8 DEF ListsOf
    <3>2. Len(b.slice) \in Nat /\ \A i \in 1 .. Len(b.slice) : b.slice[i] \in Ptrs
      BY <3>1, BucketParts DEF EdgeBucket
    <3>3. PICK i \in 1 .. Len(b.slice) : b.slice[i] = p
      BY <3>1 DEF Entries
    <3>4. b.idx[old] = i
      BY <3>1, <3>3 DEF Mirrors, old
    <3>5. Len(b.slice) \in 1 .. Len(b.slice)
      BY <3>2, <3>3
    <3>6. b.slice[Len(b.slice)] = p => b.idx[old] = Len(b.slice)
      BY <3>1, <3>5 DEF Mirrors, old
    <3>7. b.slice[Len(b.slice)] # p => h[b.slice[Len(b.slice)]] = heap[b.slice[Len(b.slice)]]
      BY <1>5, <3>2, <3>5
    <3>8. QED
      BY <3>6, <3>7 DEF RemoveFromBucket
  <2>2. /\ mid \in ListsOf(heap)
        /\ \A a \in Ids : \A q \in Ptrs :
              q \in Entries(mid[a]) <=> q \in Entries(in[a]) /\ ~(a = old.to /\ heap[q] = old)
    <3>1. old \in EdgeKey /\ old.to \in Ids /\ heap \in [Ptrs -> EdgeKey] /\ in \in ListsOf(heap)
      BY <1>1, <1>3
    <3>2. QED
      BY <3>1, RemoveFromList
  <2>3. in' = Added(mid, t, h[p], p)
    BY <1>3, <1>5, <1>6, <2>1 DEF Reindexed, Added, Removed
  <2> HIDE DEF mid, b
  <2>4. \A a \in Ids : \A q \in Ptrs : q \in Entries(mid[a]) <=> q \in Entries(in[a]) /\ q # p
    BY <1>2, <1>7, <1>8, <2>2, EntriesUnique DEF old
  <2>5. \A a \in Ids : \A q \in Entries(mid[a]) : h[q] = heap[q]
    BY <1>5, <2>2, <2>4, EntriesType DEF ListsOf
  <2>6. mid \in ListsOf(h)
    BY <1>1, <1>5, <2>2, <2>5, ListsAgain
  <2>7. /\ in' \in ListsOf(h)
        /\ \A a \in Ids : \A q \in Ptrs :
              q \in Entries(in'[a]) <=>
                  (a = t /\ q = p) \/ (q \in Entries(mid[a]) /\ ~(a = t /\ h[q] = h[p]))
    BY <1>1, <1>5, <2>3, <2>6, AddToList
  <2>8. QED
    BY <1>2, <1>3, <1>5, <2>4, <2>5, <2>7
<1>13. QED
  BY <1>1, <1>4, <1>5, <1>6, <1>7, <1>10, <1>11, <1>12, <1>15, <1>16 DEF old, new, from

-------------------------------------------------------------------------------
\* AddEdge keeps the invariant.
LEMMA AddEdgeInv == ASSUME Inv, NEW p \in Ptrs, NEW e \in EdgeKey, AddEdge(p, e) PROVE Inv'
<1>1. ev' = ev /\ used' = used \cup {p} /\ ev = NoEvict /\ ev.phase = "none"
  BY Unlocked DEF AddEdge, Inv
<1>2. used \in SUBSET Ptrs /\ heap \in [Ptrs -> EdgeKey]
  BY DEF Inv, Types
<1>3. Types' /\ Visits'
  <2>1. Sound' = Sound /\ clashed' = clashed
    BY DEF AddEdge, Sound
  <2>2. Types'
    BY <1>1, <1>2, <2>1, AddEdgeEffect DEF Inv, Types
  <2>3. QED
    BY <1>1, <2>2 DEF Inv, Visits, NoEvict
<1>4. Owned'
  BY <1>1, <1>2, AddEdgeEffect DEF Inv, Owned
<1>5. Agreement'
  <2> SUFFICES ASSUME NEW q \in used' PROVE Paired(q)'
    BY <1>1 DEF Agreement, Agrees
  <2>0. Sound' = Sound
    BY DEF AddEdge, Sound
  <2>1. CASE q = p
    BY <1>1, <2>1, EdgeParts, AddEdgeEffect DEF Paired, Known, InOut, InIn
  <2>2. CASE q # p
    <3>1. q \in used /\ q \in Ptrs /\ heap[q] \in EdgeKey
      BY <1>1, <1>2, <2>2
    <3>2. Paired(q)
      BY <1>1, <3>1 DEF Inv, Agreement, Agrees
    <3>3. heap'[q] = heap[q]
      BY <3>1, AddEdgeEffect
    <3>4. QED
      BY <2>0, <2>2, <3>1, <3>2, <3>3, EdgeParts, AddEdgeEffect DEF Paired, Known, InOut, InIn
  <2>3. QED
    BY <2>1, <2>2
<1>6. QED
  BY <1>3, <1>4, <1>5 DEF Inv

\* RemoveEdge takes one edge out of both lists.
LEMMA RemoveEdgeDrops ==
    ASSUME Inv, NEW from \in NodeIds, NEW to \in Ids, NEW kind, RemoveEdge(from, to, kind)
    PROVE  \E p \in used : /\ p \in Entries(out[from]) /\ heap[p] \in EdgeKey
                           /\ heap[p].from = from /\ heap[p].to = to
                           /\ KindOf(heap[p].site) = kind /\ DropEdge(heap[p])
<1>1. PICK i \in 1 .. Len(out[from].slice) :
          LET e == heap[out[from].slice[i]]
          IN  e.to = to /\ KindOf(e.site) = kind /\ DropEdge(e)
  BY DEF RemoveEdge
<1> DEFINE p == out[from].slice[i]
<1>2. p \in Entries(out[from]) /\ from \in Ids
  BY DEF Entries, NodeIds
<1>3. p \in Ptrs
  BY <1>2, EntriesType DEF Inv, Types, RecordsOf
<1>4. p \in used /\ heap[p].from = from /\ heap[p] \in EdgeKey
  BY <1>2, <1>3 DEF Inv, Types, Owned
<1> HIDE DEF p
<1>5. heap[p].to = to /\ KindOf(heap[p].site) = kind /\ DropEdge(heap[p])
  BY <1>1 DEF p
<1>6. QED
  BY <1>2, <1>4, <1>5

\* RemoveEdge keeps the invariant.
LEMMA RemoveEdgeInv ==
    ASSUME Inv, NEW from \in NodeIds, NEW to \in Ids, NEW kind, RemoveEdge(from, to, kind)
    PROVE  Inv'
<1>1. ev' = ev /\ used' = used /\ heap' = heap /\ ev = NoEvict /\ ev.phase = "none"
  BY Unlocked DEF RemoveEdge, Inv
<1>2. used \in SUBSET Ptrs /\ heap \in [Ptrs -> EdgeKey]
  BY DEF Inv, Types
<1>3. PICK e \in EdgeKey : DropEdge(e)
  BY RemoveEdgeDrops
<1>4. Sound' = Sound /\ clashed' = clashed
  BY DEF RemoveEdge, Sound
<1>5. Types' /\ Visits'
  <2>1. Types'
    BY <1>1, <1>3, <1>4, DropEdgeEffect DEF Inv, Types
  <2>2. QED
    BY <1>1, <2>1 DEF Inv, Visits, NoEvict
<1>6. Owned'
  BY <1>1, <1>3, DropEdgeEffect DEF Inv, Owned
<1>7. Agreement'
  <2> SUFFICES ASSUME NEW q \in used PROVE Paired(q)'
    BY <1>1 DEF Agreement, Agrees
  <2>1. q \in Ptrs /\ heap[q] \in EdgeKey /\ Paired(q)
    BY <1>1, <1>2 DEF Inv, Agreement, Agrees
  <2>2. QED
    BY <1>1, <1>3, <1>4, <2>1, EdgeParts, DropEdgeEffect DEF Paired, Known, InOut, InIn
<1>8. QED
  BY <1>5, <1>6, <1>7 DEF Inv

\* Retarget keeps the invariant.
LEMMA RetargetInv ==
    ASSUME Inv, NEW p \in used, NEW t \in Ids, Retarget(p, t)
    PROVE  Inv'
<1>1. ev' = ev /\ used' = used /\ ev = NoEvict /\ ev.phase = "none"
  BY Unlocked DEF Retarget, Inv
<1>2. used \in SUBSET Ptrs /\ heap \in [Ptrs -> EdgeKey] /\ heap[p] \in EdgeKey
  BY DEF Inv, Types
<1>3. heap'[p].from = heap[p].from /\ heap'[p].to = t
  <2>1. heap'[p] = [heap[p] EXCEPT !.to = t]
    BY RetargetEffect
  <2>2. QED
    BY <1>2, <2>1 DEF EdgeKey
<1>4. Types' /\ Visits'
  <2>1. Types'
    BY <1>1, RetargetEffect DEF Inv, Types
  <2>2. QED
    BY <1>1, <2>1 DEF Inv, Visits, NoEvict
<1>5. Owned'
  <2> SUFFICES ASSUME NEW a \in Ids, NEW q \in Ptrs
               PROVE  /\ q \in Entries(out'[a]) => q \in used /\ heap'[q].from = a
                      /\ q \in Entries(in'[a]) => q \in used /\ heap'[q].to = a
    BY <1>1 DEF Owned
  <2>1. /\ q \in Entries(out[a]) => q \in used /\ heap[q].from = a
        /\ q \in Entries(in[a]) => q \in used /\ heap[q].to = a
    BY DEF Inv, Owned
  <2>2. CASE q = p
    BY <1>3, <2>1, <2>2, RetargetEffect
  <2>3. CASE q # p
    BY <2>1, <2>3, RetargetEffect
  <2>4. QED
    BY <2>2, <2>3
<1>6. Agreement'
  <2> SUFFICES ASSUME NEW q \in used PROVE Paired(q)'
    BY <1>1 DEF Agreement, Agrees
  <2>1. q \in Ptrs /\ heap[q] \in EdgeKey /\ Paired(q)
    BY <1>1, <1>2 DEF Inv, Agreement, Agrees
  <2>2. CASE q = p
    BY <1>2, <1>3, <2>2, EdgeParts, RetargetEffect DEF Paired, Known, InOut, InIn
  <2>3. CASE q # p
    <3>1. heap'[q] = heap[q] /\ heap[q].from \in Ids /\ heap[q].to \in Ids
      BY <2>1, <2>3, EdgeParts, RetargetEffect
    <3>2. (InOut(q)' <=> InOut(q)) /\ (Known(q) => Known(q)')
      BY <2>1, <3>1, RetargetEffect DEF InOut, Known
    <3>3. InOut(q) /\ heap[q] \in Sound' => heap[q] # heap'[p]
      BY <1>3, RetargetEffect DEF InOut
    <3>4. InIn(q)' <=> InIn(q) /\ heap[q] # heap'[p]
      <4>1. \A a \in Ids : q \in Entries(in'[a]) <=>
                             \/ a = t /\ q = p
                             \/ q \in Entries(in[a]) /\ q # p /\ heap[q] # heap'[p]
        BY <2>1, RetargetEffect
      <4>2. QED
        BY <2>3, <3>1, <4>1 DEF InIn
    <3>5. Sound' \subseteq Sound
      BY RetargetEffect
    <3>6. QED
      BY <2>1, <3>1, <3>2, <3>3, <3>4, <3>5 DEF Paired
  <2>4. QED
    BY <2>2, <2>3
<1>7. QED
  BY <1>4, <1>5, <1>6 DEF Inv

\* The start of an eviction keeps the invariant.
LEMMA StartEvictInv == ASSUME Inv, NEW ids \in SUBSET NodeIds, StartEvict(ids) PROVE Inv'
<1>1. /\ heap' = heap /\ used' = used /\ out' = out /\ in' = in /\ ev.phase = "none"
      /\ ev' = [phase |-> "out", ids |-> ids, todo |-> ids, cur |-> None, rest |-> {}]
  BY Unlocked DEF StartEvict, Inv
<1>2. /\ ev'.phase = "out" /\ ev'.ids = ids /\ ev'.todo = ids /\ ev'.cur = None
      /\ ev'.rest = {} /\ ev' \in EvictState
  BY <1>1 DEF EvictState
<1>3. Sound' = Sound /\ clashed' = clashed
  BY DEF StartEvict, Sound
<1>4. Types' /\ Owned' /\ Visits'
  BY <1>1, <1>2, <1>3 DEF Inv, Types, Owned, Visits
<1>5. Agreement'
  BY <1>1, <1>2, <1>3 DEF Inv, Agreement, Agrees, Paired, Known, InOut, InIn, Left, ListGone
<1>6. QED
  BY <1>4, <1>5 DEF Inv

\* The choice of the next list keeps the invariant.
LEMMA EvictPickInv == ASSUME Inv, NEW id \in Ids, EvictPick(id) PROVE Inv'
<1>1. heap' = heap /\ used' = used /\ out' = out /\ in' = in /\ clashed' = clashed /\ Sound' = Sound
  BY DEF EvictPick, Sound
<1>2. /\ ev \in EvictState /\ ev.phase # "none" /\ ev.cur = None /\ id \in ev.todo
      /\ ev.todo \subseteq ev.ids /\ id # None
  BY NoneAssumption DEF Inv, Types, Visits, EvictPick
<1>3. /\ ev'.phase = ev.phase /\ ev'.ids = ev.ids /\ ev'.todo = ev.todo \ {id} /\ ev'.cur = id
      /\ ev'.rest = Entries(IF ev.phase = "out" THEN out[id] ELSE in[id])
  BY <1>2 DEF EvictPick, EvictState
<1>4. out[id] \in EdgeBucket /\ in[id] \in EdgeBucket
  BY DEF Inv, Types, ListsOf, RecordsOf
<1>5. ev'.rest \in SUBSET Ptrs /\ ev'.rest \in SUBSET used
  BY <1>3, <1>4, EntriesType DEF Inv, Owned
<1>6. ev' \in EvictState
  BY <1>2, <1>3, <1>5 DEF EvictPick, EvictState
<1>7. Types' /\ Owned' /\ Visits'
  BY <1>1, <1>2, <1>3, <1>5, <1>6 DEF Inv, Types, Owned, Visits
<1>8. Agreement'
  <2> SUFFICES ASSUME NEW q \in used PROVE Agrees(q)'
    BY <1>1 DEF Agreement
  <2>1. q \in Ptrs /\ Agrees(q) /\ heap[q].from # None /\ heap[q].to # None
    BY EdgeParts, NoneAssumption DEF Inv, Types, Agreement
  <2>2. /\ q \in Entries(out[id]) => heap[q].from = id
        /\ q \in Entries(in[id]) => heap[q].to = id
    BY <2>1 DEF Inv, Owned
  <2>3. (InOut(q)' <=> InOut(q)) /\ (InIn(q)' <=> InIn(q)) /\ (Paired(q)' <=> Paired(q))
    BY <1>1 DEF Paired, Known, InOut, InIn
  <2>4. /\ q \in Entries(out[id]) <=> InOut(q) /\ heap[q].from = id
        /\ q \in Entries(in[id]) <=> InIn(q) /\ heap[q].to = id
    BY <2>2 DEF InOut, InIn
  <2>5. heap[q] \in Sound /\ Paired(q) => (InOut(q) => InIn(q))
    BY DEF Paired
  <2>6. CASE ev.phase = "out"
    <3>1. /\ ListGone(heap[q].from)' <=> ListGone(heap[q].from)
          /\ q \in ev'.rest <=> InOut(q) /\ heap[q].from = id
      BY <1>1, <1>2, <1>3, <2>1, <2>4, <2>6 DEF ListGone
    <3>2. heap[q].from # id => (Left(heap[q].from, q)' <=> Left(heap[q].from, q))
      BY <1>1, <1>2, <1>3, <2>1 DEF Left
    <3>3. /\ heap[q].from = id => ~Left(heap[q].from, q)
          /\ heap[q].from = id => (Left(heap[q].from, q)' <=> ~InOut(q))
      BY <1>1, <1>2, <1>3, <2>6, <3>1 DEF Left
    <3>4. InIn(q) /\ Paired(q) => InOut(q)
      BY DEF Paired, Known, Listed, InOut
    <3>5. QED
      BY <1>1, <1>3, <2>1, <2>3, <2>6, <3>1, <3>2, <3>3, <3>4 DEF Agrees
  <2>7. CASE ev.phase = "in"
    BY <1>1, <1>2, <1>3, <2>1, <2>3, <2>4, <2>5, <2>7 DEF Agrees, Left, ListGone
  <2>8. QED
    BY <1>2, <2>6, <2>7 DEF EvictState
<1>9. QED
  BY <1>7, <1>8 DEF Inv

\* Both inner loops go through the edges of the current list.
LEMMA RestStep ==
    ASSUME Inv, NEW p \in ev.rest, ev' = [ev EXCEPT !.rest = @ \ {p}]
    PROVE  /\ ev' \in EvictState /\ ev'.phase = ev.phase /\ ev'.ids = ev.ids
           /\ ev'.todo = ev.todo /\ ev'.cur = ev.cur /\ ev'.rest = ev.rest \ {p}
           /\ ev.cur # None /\ ev.cur \in ev.ids \ ev.todo /\ p \in used /\ p \in Ptrs
           /\ heap[p] \in EdgeKey /\ ev.phase # "none"
<1>1. ev \in EvictState
  BY DEF Inv, Types
<1>2. /\ ev'.phase = ev.phase /\ ev'.ids = ev.ids
      /\ ev'.todo = ev.todo /\ ev'.cur = ev.cur /\ ev'.rest = ev.rest \ {p}
  BY <1>1 DEF EvictState
<1>3. ev' \in EvictState
  BY <1>1 DEF EvictState
<1>4. ev.cur # None /\ ev.cur \in ev.ids \ ev.todo /\ p \in used /\ p \in Ptrs
  BY <1>1 DEF Inv, Types, Visits
<1>5. ev.phase # "none"
  BY DEF Inv, Visits, NoEvict
<1>6. QED
  BY <1>2, <1>3, <1>4, <1>5 DEF Inv, Types

\* A step of the first loop takes the identity out of the in list of a survivor.
LEMMA EvictOutEdgeEffect ==
    ASSUME Inv, NEW p \in Ptrs, EvictOutEdge(p)
    PROVE  /\ in' \in ListsOf(heap)
           /\ \A a \in Ids : \A q \in Ptrs :
                 q \in Entries(in'[a]) <=>
                     q \in Entries(in[a]) /\ ~(heap[q] = heap[p] /\ heap[p].to \notin ev.ids)
<1>1. /\ p \in ev.rest /\ ev' = [ev EXCEPT !.rest = @ \ {p}]
      /\ heap \in [Ptrs -> EdgeKey] /\ in \in ListsOf(heap)
  BY DEF EvictOutEdge, Inv, Types
<1>2. heap[p] \in EdgeKey /\ heap[p].to \in Ids
  BY <1>1, EdgeParts
<1>3. CASE heap[p].to \in ev.ids
  BY <1>1, <1>3 DEF EvictOutEdge
<1>4. CASE heap[p].to \notin ev.ids
  <2>1. in' = Removed(in, heap[p].to, heap[p], heap)
    BY <1>4 DEF EvictOutEdge, Removed
  <2>2. /\ in' \in ListsOf(heap)
        /\ \A a \in Ids : \A q \in Ptrs :
              q \in Entries(in'[a]) <=>
                  q \in Entries(in[a]) /\ ~(a = heap[p].to /\ heap[q] = heap[p])
    BY <1>1, <1>2, <2>1, RemoveFromList
  <2>3. \A a \in Ids, q \in Ptrs : q \in Entries(in[a]) => a = heap[q].to
    BY DEF Inv, Owned
  <2>4. QED
    BY <1>4, <2>2, <2>3
<1>5. QED
  BY <1>3, <1>4

\* A step of the first loop keeps the invariant.
LEMMA EvictOutEdgeInv == ASSUME Inv, NEW p \in Ptrs, EvictOutEdge(p) PROVE Inv'
<1>1. /\ p \in ev.rest /\ ev' = [ev EXCEPT !.rest = @ \ {p}] /\ ev.phase = "out"
      /\ heap' = heap /\ used' = used /\ out' = out /\ clashed' = clashed /\ Sound' = Sound
  BY DEF EvictOutEdge, Sound
<1>2. /\ ev' \in EvictState /\ ev'.phase = ev.phase /\ ev'.ids = ev.ids
      /\ ev'.todo = ev.todo /\ ev'.cur = ev.cur /\ ev'.rest = ev.rest \ {p}
      /\ ev.cur # None /\ ev.cur \in ev.ids \ ev.todo /\ p \in used /\ heap[p] \in EdgeKey
  BY <1>1, RestStep
<1>3. Types' /\ Visits'
  BY <1>1, <1>2, EvictOutEdgeEffect DEF Inv, Types, Visits
<1>4. Owned'
  BY <1>1, EvictOutEdgeEffect DEF Inv, Owned
<1>5. Agreement'
  <2> SUFFICES ASSUME NEW q \in used PROVE Agrees(q)'
    BY <1>1 DEF Agreement
  <2>1. q \in Ptrs /\ Agrees(q) /\ Agrees(p) /\ heap[q].from \in Ids /\ heap[q].to \in Ids
    BY <1>2, EdgeParts DEF Inv, Types, Agreement
  <2>2. (InOut(q)' <=> InOut(q)) /\ (Known(q)' <=> Known(q))
    BY <1>1 DEF InOut, Known
  <2>3. InIn(q)' <=> InIn(q) /\ ~(heap[q] = heap[p] /\ heap[p].to \notin ev.ids)
    BY <1>1, <2>1, EvictOutEdgeEffect DEF InIn
  <2>4. InOut(p) /\ heap[p].from = ev.cur
    BY <1>1, <2>1 DEF Agrees
  <2>5. InOut(q) /\ heap[q] = heap[p] /\ heap[p] \in Sound => q = p
    <3>1. Records(out[heap[p].from], heap, Sound)
      BY <1>2, EdgeParts DEF Inv, Types, RecordsOf
    <3>2. QED
      BY <2>4, <3>1, RecordsUnique DEF InOut
  <2>6. q # p /\ Paired(q) => Paired(q)'
    BY <1>1, <2>2, <2>3, <2>5 DEF Paired
  <2>7. Left(heap[p].from, p)'
    BY <1>1, <1>2, <2>4 DEF Left
  <2>8. CASE q = p
    BY <1>1, <1>2, <2>1, <2>2, <2>3, <2>7, <2>8 DEF Agrees, ListGone
  <2>9. CASE q # p
    <3>1. /\ Left(heap[q].from, q)' <=> Left(heap[q].from, q)
          /\ ListGone(heap[q].from)' <=> ListGone(heap[q].from)
      BY <1>1, <1>2, <2>9 DEF Left, ListGone
    <3>2. QED
      BY <1>1, <1>2, <2>1, <2>2, <2>3, <2>6, <2>9, <3>1 DEF Agrees
  <2>10. QED
    BY <2>8, <2>9
<1>6. QED
  BY <1>3, <1>4, <1>5 DEF Inv

\* A step of the second loop takes the identity out of the out list of a survivor.
LEMMA EvictInEdgeEffect ==
    ASSUME Inv, NEW p \in Ptrs, EvictInEdge(p)
    PROVE  /\ out' \in RecordsOf(heap, Sound)
           /\ \A a \in Ids : \A q \in Ptrs :
                 /\ q \in Entries(out'[a]) => q \in Entries(out[a])
                 /\ heap[q] = heap[p] /\ heap[p] \in Sound => q \notin Entries(out'[a])
                 /\ Listed(out, heap, a, q) /\ heap[q] # heap[p] => Listed(out', heap, a, q)
<1>1. /\ p \in ev.rest /\ ev' = [ev EXCEPT !.rest = @ \ {p}] /\ ev.phase = "in"
      /\ heap \in [Ptrs -> EdgeKey] /\ out \in RecordsOf(heap, Sound)
  BY DEF EvictInEdge, Inv, Types
<1>2. heap[p] \in EdgeKey /\ heap[p].from \in Ids
  BY <1>1, EdgeParts
<1>3. \A a \in Ids, q \in Ptrs : q \in Entries(out[a]) => a = heap[q].from /\ q \in used
  BY DEF Inv, Owned
<1>4. CASE heap[p].from \in ev.ids
  <2>1. \A q \in used : heap[q] = heap[p] => q \notin Entries(out[heap[q].from])
    BY <1>1, <1>4 DEF Inv, Agreement, Agrees, InOut
  <2>2. out' = out
    BY <1>4 DEF EvictInEdge
  <2>3. QED
    BY <1>1, <1>3, <2>1, <2>2
<1>5. CASE heap[p].from \notin ev.ids
  <2>1. out' = Removed(out, heap[p].from, heap[p], heap)
    BY <1>5 DEF EvictInEdge, Removed
  <2>2. /\ out' \in RecordsOf(heap, Sound)
        /\ \A a \in Ids : \A q \in Ptrs :
              /\ q \in Entries(out'[a]) => q \in Entries(out[a])
              /\ a = heap[p].from /\ heap[q] = heap[p] /\ heap[p] \in Sound => q \notin Entries(out'[a])
              /\ Listed(out, heap, a, q) /\ ~(a = heap[p].from /\ heap[q] = heap[p]) =>
                    Listed(out', heap, a, q)
    BY <1>1, <1>2, <2>1, RemoveFromRecords
  <2>3. QED
    BY <1>3, <2>2
<1>6. QED
  BY <1>4, <1>5

\* A step of the second loop keeps the invariant.
LEMMA EvictInEdgeInv == ASSUME Inv, NEW p \in Ptrs, EvictInEdge(p) PROVE Inv'
<1>1. /\ p \in ev.rest /\ ev' = [ev EXCEPT !.rest = @ \ {p}] /\ ev.phase = "in"
      /\ heap' = heap /\ used' = used /\ in' = in /\ clashed' = clashed /\ Sound' = Sound
  BY DEF EvictInEdge, Sound
<1>2. /\ ev' \in EvictState /\ ev'.phase = ev.phase /\ ev'.ids = ev.ids
      /\ ev'.todo = ev.todo /\ ev'.cur = ev.cur /\ ev'.rest = ev.rest \ {p}
      /\ ev.cur # None /\ ev.cur \in ev.ids \ ev.todo /\ p \in used /\ heap[p] \in EdgeKey
  BY <1>1, RestStep
<1>3. Types' /\ Visits'
  BY <1>1, <1>2, EvictInEdgeEffect DEF Inv, Types, Visits
<1>4. Owned'
  BY <1>1, EvictInEdgeEffect DEF Inv, Owned
<1>5. Agreement'
  <2> SUFFICES ASSUME NEW q \in used PROVE Agrees(q)'
    BY <1>1 DEF Agreement
  <2>1. q \in Ptrs /\ Agrees(q) /\ Agrees(p) /\ heap[q].from \in Ids /\ heap[q].to \in Ids
    BY <1>2, EdgeParts DEF Inv, Types, Agreement
  <2>2. InIn(q)' <=> InIn(q)
    BY <1>1 DEF InIn
  <2>3. /\ InOut(q)' => InOut(q)
        /\ heap[q] = heap[p] /\ heap[p] \in Sound => ~InOut(q)'
        /\ Known(q) /\ heap[q] # heap[p] => Known(q)'
    BY <1>1, <2>1, EvictInEdgeEffect DEF InOut, Known
  <2>4. InIn(p) /\ heap[p].to = ev.cur
    BY <1>1, <2>1 DEF Agrees
  <2>5. InIn(q) /\ heap[q] = heap[p] => q = p
    <3>1. Mirrors(in[heap[p].to], heap)
      BY <1>2, EdgeParts DEF Inv, Types, ListsOf
    <3>2. QED
      BY <2>4, <3>1, EntriesUnique DEF InIn
  <2>6. q # p /\ Paired(q) => Paired(q)'
    BY <1>1, <2>2, <2>3, <2>5 DEF Paired
  <2>7. Left(heap[p].to, p)'
    BY <1>1, <1>2, <2>4 DEF Left
  <2>8. CASE q = p
    BY <1>1, <1>2, <2>1, <2>2, <2>3, <2>7, <2>8 DEF Agrees, ListGone
  <2>9. CASE q # p
    <3>1. /\ Left(heap[q].to, q)' <=> Left(heap[q].to, q)
          /\ ListGone(heap[q].to)' <=> ListGone(heap[q].to)
      BY <1>1, <1>2, <2>9 DEF Left, ListGone
    <3>2. QED
      BY <1>1, <1>2, <2>1, <2>2, <2>3, <2>6, <2>9, <3>1 DEF Agrees
  <2>10. QED
    BY <2>8, <2>9
<1>6. QED
  BY <1>3, <1>4, <1>5 DEF Inv

\* The end of a list in the first loop keeps the invariant.
LEMMA EvictOutListInv == ASSUME Inv, EvictOutList PROVE Inv'
<1>1. /\ ev \in EvictState /\ ev.phase = "out" /\ ev.cur # None /\ ev.rest = {}
      /\ heap' = heap /\ used' = used /\ in' = in /\ heap \in [Ptrs -> EdgeKey]
      /\ out \in RecordsOf(heap, Sound) /\ clashed' = clashed /\ Sound' = Sound
  BY DEF EvictOutList, Inv, Types, Sound
<1>2. ev.cur \in ev.ids \ ev.todo /\ ev.cur \in Ids /\ ev.todo \subseteq ev.ids
  BY <1>1 DEF Inv, Visits, EvictState, NodeIds
<1>3. /\ out' \in RecordsOf(heap, Sound) /\ \A a \in Ids \ {ev.cur} : out'[a] = out[a]
      /\ Entries(out'[ev.cur]) = {}
  <2>1. out' = Deleted(out, ev.cur)
    BY DEF EvictOutList, Deleted
  <2>2. QED
    BY <1>1, <1>2, <2>1, DropRecords
<1>4. /\ ev' \in EvictState /\ ev'.ids = ev.ids /\ ev'.cur = None /\ ev'.rest = {}
      /\ IF ev.todo # {} THEN ev'.phase = "out" /\ ev'.todo = ev.todo
                         ELSE ev'.phase = "in" /\ ev'.todo = ev.ids
  BY <1>1 DEF EvictOutList, EvictState
<1>5. Types' /\ Visits'
  BY <1>1, <1>2, <1>3, <1>4 DEF Inv, Types, Visits
<1>8. Owned'
  BY <1>1, <1>3 DEF Inv, Owned
<1>6. Agreement'
  <2> SUFFICES ASSUME NEW q \in used PROVE Agrees(q)'
    BY <1>1 DEF Agreement
  <2>1. /\ q \in Ptrs /\ Agrees(q) /\ heap[q].from \in Ids /\ heap[q].to \in Ids
        /\ heap[q].from # None /\ heap[q].to # None
    BY EdgeParts, NoneAssumption DEF Inv, Types, Agreement
  <2>2. InIn(q)' <=> InIn(q)
    BY <1>1 DEF InIn
  <2>3. /\ InOut(q)' <=> InOut(q) /\ heap[q].from # ev.cur
        /\ heap[q].from # ev.cur => (Paired(q)' <=> Paired(q))
    BY <1>1, <1>3, <2>1, <2>2 DEF InOut, Known, Listed, Paired
  <2>4. CASE ev.todo # {}
    BY <1>1, <1>2, <1>4, <2>1, <2>2, <2>3, <2>4 DEF Agrees, Left, ListGone
  <2>5. CASE ev.todo = {}
    BY <1>1, <1>2, <1>4, <2>1, <2>2, <2>3, <2>5 DEF Agrees, Left, ListGone
  <2>6. QED
    BY <2>4, <2>5
<1>7. QED
  BY <1>5, <1>6, <1>8 DEF Inv

\* What the end of a list in the second loop does.
LEMMA EvictInListEffect ==
    ASSUME Inv, EvictInList
    PROVE  /\ ev \in EvictState /\ ev.phase = "in" /\ ev.cur # None /\ ev.rest = {}
           /\ heap' = heap /\ used' = used /\ out' = out /\ heap \in [Ptrs -> EdgeKey]
           /\ clashed' = clashed /\ Sound' = Sound
           /\ ev.cur \in ev.ids \ ev.todo /\ ev.cur \in Ids /\ ev.todo \subseteq ev.ids
           /\ in' \in ListsOf(heap)
           /\ \A a \in Ids : \A q \in Ptrs : q \in Entries(in'[a]) <=> q \in Entries(in[a]) /\ a # ev.cur
<1>1. /\ ev \in EvictState /\ ev.phase = "in" /\ ev.cur # None /\ ev.rest = {}
      /\ heap' = heap /\ used' = used /\ out' = out /\ heap \in [Ptrs -> EdgeKey]
      /\ clashed' = clashed /\ Sound' = Sound
      /\ in \in ListsOf(heap)
  BY DEF EvictInList, Inv, Types, Sound
<1>2. ev.cur \in ev.ids \ ev.todo /\ ev.cur \in Ids /\ ev.todo \subseteq ev.ids
  BY <1>1 DEF Inv, Visits, EvictState, NodeIds
<1>3. in' = Deleted(in, ev.cur)
  BY DEF EvictInList, Deleted
<1>4. QED
  BY <1>1, <1>2, <1>3, DropList

\* When the eviction ends no edge in an in list touches an evicted node, and none
\* with a sound identity in an out list.
LEMMA EvictionComplete ==
    ASSUME Inv, EvictInList, ev.todo = {}, NEW a \in Ids, NEW q \in Ptrs
    PROVE  /\ q \in Entries(out'[a]) =>
                  heap[q].from \notin ev.ids /\ (heap[q].to \in ev.ids => a \in clashed)
           /\ q \in Entries(in'[a]) => heap[q].from \notin ev.ids /\ heap[q].to \notin ev.ids
<1>1. /\ q \in Entries(out[a]) => q \in used /\ heap[q].from = a
      /\ q \in Entries(in[a]) => q \in used /\ heap[q].to = a
  BY DEF Inv, Owned
<1>2. q \in used => Agrees(q)
  BY DEF Inv, Agreement
<1>3. heap[q] \in EdgeKey
  BY DEF Inv, Types
<1>4. heap[q] \in Sound \/ heap[q].from \in clashed
  BY <1>3 DEF Sound
<1>5. QED
  BY <1>1, <1>2, <1>4, EvictInListEffect DEF Agrees, InOut, InIn, Left, ListGone

\* The end of a list in the second loop keeps the invariant.
LEMMA EvictInListInv == ASSUME Inv, EvictInList PROVE Inv'
<1>1. IF ev.todo # {}
      THEN /\ ev' \in EvictState /\ ev'.ids = ev.ids /\ ev'.cur = None /\ ev'.rest = {}
           /\ ev'.phase = "in" /\ ev'.todo = ev.todo
      ELSE ev' = NoEvict
  BY EvictInListEffect DEF EvictInList, EvictState
<1>2. /\ NoEvict \in EvictState /\ NoEvict.ids = {} /\ NoEvict.cur = None /\ NoEvict.rest = {}
      /\ NoEvict.phase = "none" /\ NoEvict.todo = {}
  BY DEF NoEvict, EvictState
<1>3. Types' /\ Visits' /\ Owned'
  BY <1>1, <1>2, EvictInListEffect DEF Inv, Types, Visits, Owned
<1>4. Agreement'
  <2> SUFFICES ASSUME NEW q \in used PROVE Agrees(q)'
    BY EvictInListEffect DEF Agreement
  <2>1. /\ q \in Ptrs /\ Agrees(q) /\ heap[q].from \in Ids /\ heap[q].to \in Ids
        /\ heap[q].from # None /\ heap[q].to # None
    BY EdgeParts, NoneAssumption DEF Inv, Types, Agreement
  <2>2. (InOut(q)' <=> InOut(q)) /\ (Known(q)' <=> Known(q))
    BY EvictInListEffect DEF InOut, Known
  <2>3. InIn(q)' <=> InIn(q) /\ heap[q].to # ev.cur
    BY <2>1, EvictInListEffect DEF InIn
  <2>4. CASE ev.todo # {}
    BY <1>1, <2>1, <2>2, <2>3, <2>4, EvictInListEffect DEF Agrees, Paired, Left, ListGone
  <2>5. CASE ev.todo = {}
    BY <1>1, <1>2, <2>1, <2>2, <2>3, <2>5, EvictInListEffect DEF Agrees, Paired, Left, ListGone
  <2>6. QED
    BY <2>4, <2>5
<1>5. QED
  BY <1>3, <1>4 DEF Inv

-------------------------------------------------------------------------------
\* Every step keeps the inductive invariant.
LEMMA Inductive == Spec => []Inv
<1>1. Inv /\ [Next]_vars => Inv'
  <2> SUFFICES ASSUME Inv, [Next]_vars PROVE Inv'
    OBVIOUS
  <2>1. ASSUME NEW p \in Ptrs, NEW e \in EdgeKey, AddEdge(p, e) PROVE Inv'
    BY <2>1, AddEdgeInv
  <2>2. ASSUME NEW from \in NodeIds, NEW to \in Ids, NEW s \in Sites, RemoveEdge(from, to, KindOf(s))
        PROVE  Inv'
    BY <2>2, RemoveEdgeInv
  <2>3. ASSUME NEW ids \in SUBSET NodeIds, StartEvict(ids) PROVE Inv'
    BY <2>3, StartEvictInv
  <2>4. ASSUME NEW id \in Ids, EvictPick(id) PROVE Inv'
    BY <2>4, EvictPickInv
  <2>5. ASSUME NEW p \in Ptrs, EvictOutEdge(p) PROVE Inv'
    BY <2>5, EvictOutEdgeInv
  <2>6. ASSUME NEW p \in Ptrs, EvictInEdge(p) PROVE Inv'
    BY <2>6, EvictInEdgeInv
  <2>7. CASE EvictOutList
    BY <2>7, EvictOutListInv
  <2>8. CASE EvictInList
    BY <2>8, EvictInListInv
  <2>9. ASSUME NEW p \in used, NEW t \in Ids, Retarget(p, t) PROVE Inv'
    BY <2>9, RetargetInv
  <2>10. CASE UNCHANGED vars
    BY <2>10
    DEF vars, Inv, Types, Owned, Visits, Agreement, Agrees, Paired, Known, InOut, InIn, Left,
        ListGone, Sound
  <2>11. QED
    BY <2>1, <2>2, <2>3, <2>4, <2>5, <2>6, <2>7, <2>8, <2>9, <2>10 DEF Next, Write, EvictStep
<1>2. QED
  BY <1>1, InvInit, PTL DEF Spec

\* The adjacency lists, the edge objects and an eviction in progress keep their
\* types.
THEOREM TypeCorrect == Spec => []TypeOK
<1>1. Inv => TypeOK
  <2> SUFFICES ASSUME Inv PROVE TypeOK
    OBVIOUS
  <2>1. \A a \in Ids : out[a] \in EdgeBucket /\ in[a] \in EdgeBucket
    BY DEF Inv, Types, ListsOf, RecordsOf
  <2>2. \A a \in Ids : /\ Entries(out[a]) \subseteq used /\ Entries(in[a]) \subseteq used
                       /\ DOMAIN out[a].idx \subseteq EdgeKey /\ DOMAIN in[a].idx \subseteq EdgeKey
    BY <2>1, BucketParts, EntriesType DEF EdgeBucket, Inv, Owned
  <2>3. heap \in [Ptrs -> EdgeKey] /\ used \in SUBSET Ptrs /\ ev \in EvictState /\ Visits
    BY DEF Inv, Types
  <2>4. QED
    BY <2>2, <2>3 DEF TypeOK, Visits, EvictState, NodeIds
<1>2. QED
  BY <1>1, Inductive, PTL

\* Every sidecar is the inverse of its slice, whatever the order of the writes
\* (addEdgeToBucket, removeEdgeFromBucket, ReindexEdge); where a retarget met a
\* taken identity, the positions of the out list are still right.
THEOREM SidecarsRight == Spec => []SidecarsMirror
<1>1. Inv => SidecarsMirror
  <2> SUFFICES ASSUME Inv, NEW a \in Ids
               PROVE  /\ Mirrors(in[a], heap)
                      /\ IF a \in clashed THEN Located(out[a], heap) ELSE Mirrors(out[a], heap)
    BY DEF SidecarsMirror
  <2>1. Mirrors(in[a], heap) /\ Records(out[a], heap, Sound)
    BY DEF Inv, Types, ListsOf, RecordsOf
  <2>2. ASSUME a \notin clashed PROVE \A p \in Entries(out[a]) : heap[p] \in Sound
    <3>1. \A p \in Entries(out[a]) : p \in Ptrs
      BY EntriesType DEF Inv, Types, RecordsOf
    <3>2. \A p \in Entries(out[a]) : heap[p].from = a /\ heap[p] \in EdgeKey
      BY <3>1 DEF Inv, Owned, Types
    <3>3. QED
      BY <2>2, <3>2 DEF Sound
  <2>3. a \notin clashed => Mirrors(out[a], heap)
    BY <2>1, <2>2, RecordsMirror
  <2>4. QED
    BY <2>1, <2>3 DEF Records
<1>2. QED
  BY <1>1, Inductive, PTL

\* Outside an eviction every edge of inEdges is in outEdges, and every edge of
\* outEdges in inEdges unless identities clashed at its source.
THEOREM DirectionsRight == Spec => []DirectionsAgree
<1>1. Inv => DirectionsAgree
  <2> SUFFICES ASSUME Inv, NoShardLocked, NEW p \in used
               PROVE  /\ InIn(p) => InOut(p)
                      /\ heap[p].from \notin clashed => (InOut(p) => InIn(p))
    BY DEF DirectionsAgree, InIn, InOut
  <2>1. Paired(p) /\ heap[p] \in EdgeKey
    BY Unlocked DEF Inv, Types, Agreement, Agrees
  <2>2. heap[p].from \notin clashed => heap[p] \in Sound
    BY <2>1 DEF Sound
  <2>3. QED
    BY <2>1, <2>2 DEF Paired, Known, Listed, InOut
<1>2. QED
  BY <1>1, Inductive, PTL

\* GetOutEdges(a) and GetInEdges(a) never return someone else's edge.
THEOREM OwnLists == Spec => []ListsOwnEdges
<1>1. Inv => ListsOwnEdges
  <2> SUFFICES ASSUME Inv, NEW a \in Ids
               PROVE  /\ \A p \in Entries(out[a]) : heap[p].from = a
                      /\ \A p \in Entries(in[a]) : heap[p].to = a
    BY DEF ListsOwnEdges
  <2>1. Entries(out[a]) \subseteq Ptrs /\ Entries(in[a]) \subseteq Ptrs
    BY EntriesType DEF Inv, Types, ListsOf, RecordsOf
  <2>2. QED
    BY <2>1 DEF Inv, Owned
<1>2. QED
  BY <1>1, Inductive, PTL

\* When an eviction ends, no edge that touches an evicted node is left in any
\* list (EvictFile, EvictRepo), unless in the out list of a node where
\* identities clashed.
THEOREM EvictsAll == Spec => EvictsExactly
<1>1. Inv /\ [Next]_vars =>
        [(ev.phase # "none" /\ ev'.phase = "none") =>
           \A a \in Ids :
              /\ \A p \in Entries(out'[a]) :
                    heap[p].from \notin ev.ids /\ (heap[p].to \in ev.ids => a \in clashed)
              /\ \A p \in Entries(in'[a]) : {heap[p].from, heap[p].to} \cap ev.ids = {}]_vars
  <2> SUFFICES ASSUME Inv, [Next]_vars, ev.phase # "none", ev'.phase = "none", NEW a \in Ids
               PROVE  /\ \A p \in Entries(out'[a]) :
                            heap[p].from \notin ev.ids /\ (heap[p].to \in ev.ids => a \in clashed)
                      /\ \A p \in Entries(in'[a]) : {heap[p].from, heap[p].to} \cap ev.ids = {}
    OBVIOUS
  <2>1. ev # NoEvict /\ ev' # ev
    BY DEF NoEvict
  <2>2. ev \in EvictState
    BY DEF Inv, Types
  <2>3. \A id \in Ids : ~EvictPick(id)
    BY <2>2 DEF EvictPick, EvictState
  <2>4. \A p \in Ptrs : ~EvictOutEdge(p) /\ ~EvictInEdge(p)
    BY <2>2 DEF EvictOutEdge, EvictInEdge, EvictState
  <2>5. ~EvictOutList
    BY <2>2 DEF EvictOutList, EvictState
  <2>6. EvictInList
    BY <2>1, <2>3, <2>4, <2>5
    DEF Next, Write, EvictStep, AddEdge, RemoveEdge, StartEvict, Retarget, NoShardLocked, vars
  <2>7. ev.todo = {}
    BY <2>2, <2>6 DEF EvictInList, EvictState
  <2>8. out'[a] \in EdgeBucket /\ in'[a] \in EdgeBucket
    BY <2>6, EvictInListEffect DEF ListsOf, RecordsOf, Inv, Types
  <2>9. Entries(out'[a]) \subseteq Ptrs /\ Entries(in'[a]) \subseteq Ptrs
    BY <2>8, EntriesType
  <2>10. QED
    BY <2>6, <2>7, <2>9, EvictionComplete
<1>2. QED
  BY <1>1, Inductive, PTL DEF Spec, EvictsExactly

-------------------------------------------------------------------------------
(* The refinement of EdgeSet: what each step does to AbstractEdges.          *)

\* A reader sees the edge p, or would once the eviction is over.
Shown(p) == InIn(p) /\ heap[p].from \notin ev.ids /\ heap[p].to \notin ev.ids

Members == \A k : k \in AbstractEdges <=> \E p \in used : Shown(p) /\ heap[p] = k

\* The abstract edges are those of the shown edge objects.
LEMMA AbstractMembers == Inv => Members
<1> SUFFICES ASSUME Inv, NEW k
             PROVE  k \in AbstractEdges <=> \E p \in used : Shown(p) /\ heap[p] = k
  BY DEF Members
<1>1. \A a \in Ids : Entries(in[a]) \subseteq Ptrs
  BY EntriesType DEF Inv, Types, ListsOf
<1>2. \A p \in InPtrs : p \in used /\ InIn(p)
  BY <1>1 DEF InPtrs, Inv, Owned, InIn
<1>3. \A p \in used : heap[p].to \in Ids
  BY EdgeParts DEF Inv, Types
<1>4. \A p \in used : InIn(p) => p \in InPtrs
  BY <1>3 DEF InPtrs, InIn
<1>5. \A p : {heap[p].from, heap[p].to} \cap ev.ids = {}
             <=> heap[p].from \notin ev.ids /\ heap[p].to \notin ev.ids
  OBVIOUS
<1>6. QED
  BY <1>2, <1>4, <1>5 DEF AbstractEdges, Shown

\* The same after a step.
LEMMA AbstractMembersNext == Inv' => Members'
BY AbstractMembers, PTL

\* A step that leaves what is shown alone is invisible.
LEMMA Invisible ==
    ASSUME Inv, Inv', used' = used, heap' = heap, \A p \in used : Shown(p)' <=> Shown(p)
    PROVE  AbstractEdges' = AbstractEdges
<1>1. Members /\ Members'
  BY AbstractMembers, AbstractMembersNext
<1>2. \A k : k \in AbstractEdges' <=> k \in AbstractEdges
  BY <1>1 DEF Members
<1>3. QED
  BY <1>2

\* AddEdge adds the edge to the set.
LEMMA AddEdgeMaps ==
    ASSUME Inv, Inv', NEW p \in Ptrs, NEW e \in EdgeKey, AddEdge(p, e)
    PROVE  AbstractEdges' = AbstractEdges \cup {e}
<1>1. Members /\ Members'
  BY AbstractMembers, AbstractMembersNext
<1>2. used' = used \cup {p} /\ ev' = ev /\ ev.ids = {}
  BY Unlocked DEF AddEdge, Inv
<1>3. /\ e.from \in Ids /\ e.to \in Ids
      /\ \A q \in used : q \in Ptrs /\ heap[q].from \in Ids /\ heap[q].to \in Ids
  BY EdgeParts DEF Inv, Types
<1>4. Shown(p)' /\ heap'[p] = e
  BY <1>2, <1>3, AddEdgeEffect DEF Shown, InIn
<1>5. \A q \in used : heap'[q] = heap[q] /\ (Shown(q)' <=> Shown(q) /\ heap[q] # e)
  BY <1>2, <1>3, AddEdgeEffect DEF Shown, InIn
<1>6. \A k : k \in AbstractEdges' <=> k \in AbstractEdges \/ k = e
  BY <1>1, <1>2, <1>4, <1>5 DEF Members
<1>7. QED
  BY <1>6

\* RemoveEdge takes one matching edge out of the set, or, when it met an entry
\* that only the out list has, none.
LEMMA RemoveEdgeMaps ==
    ASSUME Inv, Inv', NEW from \in NodeIds, NEW to \in Ids, NEW kind, RemoveEdge(from, to, kind)
    PROVE  \/ \E e \in AbstractEdges : /\ e.from = from /\ e.to = to /\ KindOf(e.site) = kind
                                       /\ AbstractEdges' = AbstractEdges \ {e}
           \/ AbstractEdges' = AbstractEdges
<1>1. Members /\ Members'
  BY AbstractMembers, AbstractMembersNext
<1>2. used' = used /\ heap' = heap /\ ev' = ev /\ ev.ids = {}
  BY Unlocked DEF RemoveEdge, Inv
<1>3. PICK p \in used : /\ p \in Entries(out[from]) /\ heap[p] \in EdgeKey
                        /\ heap[p].from = from /\ heap[p].to = to
                        /\ KindOf(heap[p].site) = kind /\ DropEdge(heap[p])
  BY RemoveEdgeDrops
<1>4. \A q \in used : q \in Ptrs /\ heap[q].to \in Ids
  BY EdgeParts DEF Inv, Types
<1>5. \A q \in used : Shown(q)' <=> Shown(q) /\ heap[q] # heap[p]
  BY <1>2, <1>3, <1>4, DropEdgeEffect DEF Shown, InIn
<1>6. \A k : k \in AbstractEdges' <=> k \in AbstractEdges /\ k # heap[p]
  BY <1>1, <1>2, <1>5 DEF Members
<1>7. AbstractEdges' = AbstractEdges \ {heap[p]}
  BY <1>6
<1>8. QED
  BY <1>3, <1>7

\* ReindexEdge replaces the unresolved edge by the resolved one.
LEMMA RetargetMaps ==
    ASSUME Inv, Inv', NEW p \in used, NEW t \in Ids, Retarget(p, t)
    PROVE  /\ heap[p] \in AbstractEdges
           /\ AbstractEdges' = (AbstractEdges \ {heap[p]}) \cup {[heap[p] EXCEPT !.to = t]}
<1>1. Members /\ Members'
  BY AbstractMembers, AbstractMembersNext
<1>2. used' = used /\ ev' = ev /\ ev.ids = {}
  BY Unlocked DEF Retarget, Inv
<1>3. \A q \in used : q \in Ptrs /\ heap[q] \in EdgeKey /\ heap[q].to \in Ids
  BY EdgeParts DEF Inv, Types
<1>4. Shown(p) /\ heap'[p] = [heap[p] EXCEPT !.to = t]
  BY <1>2, RetargetEffect DEF Shown, InIn
<1>5. heap'[p].to = t
  BY <1>3, <1>4 DEF EdgeKey
<1>6. Shown(p)'
  BY <1>2, <1>3, <1>4, <1>5, RetargetEffect DEF Shown, InIn
<1>7. \A a \in Ids : \A q \in Ptrs :
         q \in Entries(in'[a]) <=>
             \/ a = t /\ q = p
             \/ q \in Entries(in[a]) /\ q # p /\ heap[q] # heap'[p]
  BY RetargetEffect
<1>12. \A q \in used \ {p} : heap'[q] = heap[q] /\ (Shown(q)' <=> Shown(q) /\ heap[q] # heap'[p])
  <2> SUFFICES ASSUME NEW q \in used \ {p}
               PROVE  heap'[q] = heap[q] /\ (Shown(q)' <=> Shown(q) /\ heap[q] # heap'[p])
    OBVIOUS
  <2>0. q \in Ptrs
    BY <1>3
  <2>1. heap'[q] = heap[q]
    BY RetargetEffect
  <2>2. \A a \in Ids : q \in Entries(in'[a]) <=>
                         \/ a = t /\ q = p
                         \/ q \in Entries(in[a]) /\ q # p /\ heap[q] # heap'[p]
    BY <1>7, <2>0
  <2>3. QED
    BY <1>2, <1>3, <2>1, <2>2 DEF Shown, InIn
<1>8. \A q \in used : Shown(q) /\ heap[q] = heap[p] => q = p
  <2> SUFFICES ASSUME NEW q \in used, Shown(q), heap[q] = heap[p] PROVE q = p
    OBVIOUS
  <2>1. Mirrors(in[heap[p].to], heap)
    BY <1>3 DEF Inv, Types, ListsOf
  <2>2. QED
    BY <1>4, <2>1, EntriesUnique DEF Shown, InIn
<1>9. heap[p] \in AbstractEdges
  BY <1>1, <1>4 DEF Members
<1>10. \A k : k \in AbstractEdges' <=> (k \in AbstractEdges /\ k # heap[p]) \/ k = heap'[p]
  BY <1>1, <1>2, <1>4, <1>6, <1>8, <1>12 DEF Members
<1>11. QED
  BY <1>4, <1>9, <1>10

\* An eviction removes from the set, as it starts, the edges it will remove.
LEMMA StartEvictMaps ==
    ASSUME Inv, Inv', NEW ids \in SUBSET NodeIds, StartEvict(ids)
    PROVE  AbstractEdges' = {e \in AbstractEdges : {e.from, e.to} \cap ids = {}}
<1>1. Members /\ Members'
  BY AbstractMembers, AbstractMembersNext
<1>2. heap' = heap /\ used' = used /\ in' = in /\ ev.ids = {} /\ ev'.ids = ids
  BY Unlocked DEF StartEvict, Inv
<1>3. \A q \in used : Shown(q)' <=> Shown(q) /\ heap[q].from \notin ids /\ heap[q].to \notin ids
  BY <1>2 DEF Shown, InIn
<1>4. \A k : k \in AbstractEdges' <=> k \in AbstractEdges /\ k.from \notin ids /\ k.to \notin ids
  BY <1>1, <1>2, <1>3 DEF Members
<1>5. QED
  BY <1>4

\* The steps of an eviction are invisible.
LEMMA EvictStepMaps == ASSUME Inv, Inv', EvictStep PROVE AbstractEdges' = AbstractEdges
<1> USE DEF Shown, InIn
<1>0. /\ ev \in EvictState /\ heap \in [Ptrs -> EdgeKey]
      /\ \A q \in used : q \in Ptrs /\ heap[q] \in EdgeKey /\ heap[q].to \in Ids
  BY EdgeParts DEF Inv, Types
<1>1. ASSUME NEW id \in Ids, EvictPick(id) PROVE AbstractEdges' = AbstractEdges
  <2>1. heap' = heap /\ used' = used /\ in' = in /\ ev'.ids = ev.ids
    BY <1>0, <1>1 DEF EvictPick, EvictState
  <2>2. QED
    BY <2>1, Invisible
<1>2. ASSUME NEW p \in Ptrs, EvictOutEdge(p) PROVE AbstractEdges' = AbstractEdges
  <2>1. heap' = heap /\ used' = used /\ ev'.ids = ev.ids
    BY <1>0, <1>2 DEF EvictOutEdge, EvictState
  <2>2. ev.phase = "out" /\ p \in ev.rest /\ p \in used /\ ev.cur \in ev.ids
    BY <1>0, <1>2 DEF EvictOutEdge, Inv, Visits
  <2>3. heap[p].from \in ev.ids
    BY <2>2 DEF Inv, Agreement, Agrees
  <2>4. \A q \in used : Shown(q)' <=> Shown(q)
    BY <1>0, <1>2, <2>1, <2>3, EvictOutEdgeEffect
  <2>5. QED
    BY <2>1, <2>4, Invisible
<1>3. ASSUME NEW p \in Ptrs, EvictInEdge(p) PROVE AbstractEdges' = AbstractEdges
  <2>1. heap' = heap /\ used' = used /\ in' = in /\ ev'.ids = ev.ids
    BY <1>0, <1>3 DEF EvictInEdge, EvictState
  <2>2. QED
    BY <2>1, Invisible
<1>4. CASE EvictOutList
  <2>1. heap' = heap /\ used' = used /\ in' = in /\ ev'.ids = ev.ids
    BY <1>0, <1>4 DEF EvictOutList, EvictState
  <2>2. QED
    BY <2>1, Invisible
<1>5. CASE EvictInList
  <2>1. /\ heap' = heap /\ used' = used /\ ev.cur \in ev.ids
        /\ \A a \in Ids : \A q \in Ptrs : q \in Entries(in'[a]) <=> q \in Entries(in[a]) /\ a # ev.cur
    BY <1>5, EvictInListEffect
  <2>2. CASE ev.todo # {}
    <3>1. ev'.ids = ev.ids
      BY <1>0, <1>5, <2>2 DEF EvictInList, EvictState
    <3>2. \A q \in used : Shown(q)' <=> Shown(q)
      BY <1>0, <2>1, <3>1
    <3>3. QED
      BY <2>1, <3>2, Invisible
  <2>3. CASE ev.todo = {}
    <3>1. ev'.ids = {}
      BY <1>5, <2>3 DEF EvictInList, NoEvict
    <3>2. \A q \in used : InIn(q)' => heap[q].from \notin ev.ids /\ heap[q].to \notin ev.ids
      BY <1>0, <1>5, <2>1, <2>3, EvictionComplete
    <3>3. \A q \in used : Shown(q)' <=> Shown(q)
      BY <1>0, <2>1, <3>1, <3>2
    <3>4. QED
      BY <2>1, <3>3, Invisible
  <2>4. QED
    BY <2>2, <2>3
<1>6. QED
  BY <1>1, <1>2, <1>3, <1>4, <1>5 DEF EvictStep

\* The adjacency lists implement the set of edges: AddEdge, RemoveEdge,
\* ReindexEdge and evictEdgesLocked act on it as single steps.
THEOREM RefinesEdgeSet == Spec => ImplementsEdgeSet
<1>1. Init => EdgeSetSpec!Init
  <2> SUFFICES ASSUME Init PROVE AbstractEdges = {} /\ NoShardLocked
    BY Zenon DEF EdgeSetSpec!Init
  <2>1. Members /\ used = {}
    BY InvInit, AbstractMembers DEF Init
  <2>2. \A k : k \notin AbstractEdges
    BY <2>1 DEF Members
  <2>3. QED
    BY <2>2 DEF Init, NoShardLocked
<1>2. Inv /\ Inv' /\ [Next]_vars => [EdgeSetSpec!Next]_(EdgeSetSpec!vars)
  <2> SUFFICES ASSUME Inv, Inv', [Next]_vars PROVE EdgeSetSpec!Next \/ UNCHANGED EdgeSetSpec!vars
    OBVIOUS
  <2>1. ASSUME NEW p \in Ptrs, NEW e \in EdgeKey, AddEdge(p, e) PROVE EdgeSetSpec!AddEdge(e)
    <3>1. NoShardLocked /\ (NoShardLocked' <=> NoShardLocked)
      BY <2>1 DEF AddEdge, NoShardLocked
    <3>2. QED
      BY <2>1, <3>1, AddEdgeMaps DEF EdgeSetSpec!AddEdge, EdgeSetSpec!Replace
  <2>2. ASSUME NEW from \in NodeIds, NEW to \in Ids, NEW s \in Sites, RemoveEdge(from, to, KindOf(s))
        PROVE  EdgeSetSpec!RemoveEdge(from, to, KindOf(s)) \/ UNCHANGED EdgeSetSpec!vars
    <3>1. NoShardLocked /\ (NoShardLocked' <=> NoShardLocked)
      BY <2>2 DEF RemoveEdge, NoShardLocked
    <3>2. QED
      BY <2>2, <3>1, RemoveEdgeMaps
      DEF EdgeSetSpec!RemoveEdge, EdgeSetSpec!Replace, EdgeSetSpec!vars
  <2>3. ASSUME NEW ids \in SUBSET NodeIds, StartEvict(ids) PROVE EdgeSetSpec!Evict(ids)
    <3>1. NoShardLocked /\ ~NoShardLocked'
      BY <2>3 DEF StartEvict, NoShardLocked, NoEvict
    <3>2. QED
      BY <2>3, <3>1, StartEvictMaps DEF EdgeSetSpec!Evict
  <2>4. CASE EvictStep
    <3>1. AbstractEdges' = AbstractEdges
      BY <2>4, EvictStepMaps
    <3>2. ~NoShardLocked
      BY <2>4, Unlocked
      DEF EvictStep, EvictPick, EvictOutEdge, EvictInEdge, EvictOutList, EvictInList, Inv
    <3>3. EdgeSetSpec!EndEvict \/ UNCHANGED EdgeSetSpec!vars
      BY <3>1, <3>2 DEF EdgeSetSpec!EndEvict, EdgeSetSpec!vars
    <3>4. QED
      BY <3>3 DEF EdgeSetSpec!Next
  <2>5. ASSUME NEW p \in used, NEW t \in Ids, Retarget(p, t)
        PROVE  heap[p] \in AbstractEdges /\ EdgeSetSpec!Retarget(heap[p], t)
    <3>1. NoShardLocked /\ (NoShardLocked' <=> NoShardLocked)
      BY <2>5 DEF Retarget, NoShardLocked
    <3>2. heap[p].to \in Unresolved /\ t \notin Unresolved
      BY <2>5 DEF Retarget
    <3>3. QED
      BY <2>5, <3>1, <3>2, RetargetMaps DEF EdgeSetSpec!Retarget, EdgeSetSpec!Replace
  <2>6. CASE UNCHANGED vars
    <3>1. AbstractEdges' = AbstractEdges /\ (NoShardLocked' <=> NoShardLocked)
      BY <2>6 DEF vars, AbstractEdges, InPtrs, NoShardLocked
    <3>2. QED
      BY <3>1 DEF EdgeSetSpec!vars
  <2>7. QED
    BY <2>1, <2>2, <2>3, <2>4, <2>5, <2>6
    DEF Next, Write, EdgeSetSpec!Next, EdgeSetSpec!EdgeKey, EdgeSetSpec!NodeIds, EdgeKey, NodeIds
<1>3. QED
  BY <1>1, <1>2, Inductive, PTL DEF Spec, ImplementsEdgeSet, EdgeSetSpec!Spec

-------------------------------------------------------------------------------
(* NodeIndex                                                                 *)

\* A secondary index with its buckets by shard and key.
IndexOf(Keys) == [Shards -> [Keys -> BucketOf(Node, GraphIds)]]

\* The key under which an index lists a node; Empty if it does not.
KeyOf(Keys) == {key \in [Node \cup {NoNode} -> Keys \cup {Empty}] : key[NoNode] = Empty}

FileOf == [n \in Node \cup {NoNode} |-> n.file]
NameOf == [n \in Node \cup {NoNode} |-> n.name]
RepoOf == [n \in Node \cup {NoNode} |-> n.repo]

\* The maps nodes of all shards: every node is stored under its ID.
NodeMap == {ns \in [GraphIds -> Node \cup {NoNode}] :
                \A id \in GraphIds : ns[id] # NoNode => ns[id].id = id}

\* Every bucket of the index has a sidecar that mirrors it.
AllMirror(index, Keys) ==
    \A s \in Shards, k \in Keys : Mirrors(index[s][k], IdOf)

\* The index lists exactly the nodes in ns.
Lists(index, Keys, key, ns) ==
    \A s \in Shards, k \in Keys : \A m :
        m \in Entries(index[s][k]) <=>
            m \in Node /\ ns[m.id] = m /\ ShardOf(m.id) = s /\ key[m] = k

\* What makes one index right for the nodes in ns.
IndexRight(index, Keys, key, ns) ==
    index \in IndexOf(Keys) /\ AllMirror(index, Keys) /\ Lists(index, Keys, key, ns)

\* The identity of a node is its ID.
LEMMA IdOfType == IdOf \in [Node -> GraphIds] /\ \A n \in Node : IdOf[n] = n.id /\ n.id \in GraphIds
BY DEF IdOf, Node

\* The nodes of a bucket are nodes.
LEMMA EntriesAreNodes == ASSUME NEW b \in BucketOf(Node, GraphIds) PROVE Entries(b) \subseteq Node
BY BucketParts DEF Entries

\* Removing an ID from the bucket of a key leaves every other entry alone.
LEMMA WithoutProperties ==
    ASSUME NEW Keys, Empty \notin Keys, NEW index \in IndexOf(Keys), AllMirror(index, Keys),
           NEW id \in GraphIds, NEW key \in Keys \cup {Empty}
    PROVE  /\ Without(index, id, key) \in IndexOf(Keys)
           /\ AllMirror(Without(index, id, key), Keys)
           /\ \A s \in Shards, k \in Keys : \A m :
                 m \in Entries(Without(index, id, key)[s][k]) <=>
                     m \in Entries(index[s][k]) /\ ~(s = ShardOf(id) /\ k = key /\ m.id = id)
<1> DEFINE new == Without(index, id, key)
           t == ShardOf(id)
<1>1. CASE key = Empty
  BY <1>1 DEF Without
<1>2. CASE key # Empty
  <2> DEFINE b == index[t][key]
             c == RemoveFromBucket(b, id, IdOf)
  <2>1. t \in Shards /\ key \in Keys
    BY <1>2, ShardOfAssumption
  <2>2. b \in BucketOf(Node, GraphIds) /\ Mirrors(b, IdOf)
    BY <2>1 DEF IndexOf, AllMirror
  <2> HIDE DEF c
  <2>3. /\ c \in BucketOf(Node, GraphIds) /\ Mirrors(c, IdOf)
        /\ Entries(c) = {m \in Entries(b) : IdOf[m] # id}
    BY <2>2, IdOfType, RemoveProperties DEF c
  <2>4. new = [index EXCEPT ![t][key] = c]
    BY <1>2 DEF Without, c
  <2> HIDE DEF new
  <2>5. \A s \in Shards, k \in Keys :
            new[s][k] = IF s = t /\ k = key THEN c ELSE index[s][k]
    BY <2>1, <2>4 DEF IndexOf
  <2>6. new \in IndexOf(Keys)
    BY <2>3, <2>4 DEF IndexOf
  <2>7. AllMirror(new, Keys)
    BY <2>3, <2>5 DEF AllMirror
  <2>8. \A m : m \in Entries(c) <=> m \in Entries(b) /\ m.id # id
    BY <2>2, <2>3, IdOfType, EntriesAreNodes
  <2>9. \A s \in Shards, k \in Keys : \A m :
            m \in Entries(new[s][k]) <=>
                m \in Entries(index[s][k]) /\ ~(s = t /\ k = key /\ m.id = id)
    BY <2>5, <2>8
  <2>10. QED
    BY <2>6, <2>7, <2>9 DEF new
<1>3. QED
  BY <1>1, <1>2

\* Adding a node to the bucket of a key replaces the entry with its ID there.
LEMMA WithProperties ==
    ASSUME NEW Keys, Empty \notin Keys, NEW index \in IndexOf(Keys), AllMirror(index, Keys),
           NEW n \in Node, NEW key \in Keys \cup {Empty}
    PROVE  /\ With(index, n, key) \in IndexOf(Keys)
           /\ AllMirror(With(index, n, key), Keys)
           /\ \A s \in Shards, k \in Keys : \A m :
                 m \in Entries(With(index, n, key)[s][k]) <=>
                     IF s = ShardOf(n.id) /\ k = key
                     THEN m = n \/ (m \in Entries(index[s][k]) /\ m.id # n.id)
                     ELSE m \in Entries(index[s][k])
<1> DEFINE new == With(index, n, key)
           t == ShardOf(n.id)
<1>1. CASE key = Empty
  BY <1>1 DEF With
<1>2. CASE key # Empty
  <2> DEFINE b == index[t][key]
             c == AddToBucket(b, n.id, n)
  <2>1. t \in Shards /\ key \in Keys /\ n.id = IdOf[n]
    BY <1>2, ShardOfAssumption, IdOfType
  <2>2. b \in BucketOf(Node, GraphIds) /\ Mirrors(b, IdOf)
    BY <2>1 DEF IndexOf, AllMirror
  <2> HIDE DEF c
  <2>3. /\ c \in BucketOf(Node, GraphIds) /\ Mirrors(c, IdOf)
        /\ Entries(c) = {m \in Entries(b) : IdOf[m] # IdOf[n]} \cup {n}
    BY <2>1, <2>2, IdOfType, AddProperties DEF c
  <2>4. new = [index EXCEPT ![t][key] = c]
    BY <1>2 DEF With, c
  <2> HIDE DEF new
  <2>5. \A s \in Shards, k \in Keys :
            new[s][k] = IF s = t /\ k = key THEN c ELSE index[s][k]
    BY <2>1, <2>4 DEF IndexOf
  <2>6. new \in IndexOf(Keys)
    BY <2>3, <2>4 DEF IndexOf
  <2>7. AllMirror(new, Keys)
    BY <2>3, <2>5 DEF AllMirror
  <2>8. \A m : m \in Entries(c) <=> m = n \/ (m \in Entries(b) /\ m.id # n.id)
    BY <2>2, <2>3, IdOfType, EntriesAreNodes
  <2>9. \A s \in Shards, k \in Keys : \A m :
            m \in Entries(new[s][k]) <=>
                IF s = t /\ k = key THEN m = n \/ (m \in Entries(index[s][k]) /\ m.id # n.id)
                                    ELSE m \in Entries(index[s][k])
    BY <2>5, <2>8
  <2>10. QED
    BY <2>6, <2>7, <2>9 DEF new
<1>3. QED
  BY <1>1, <1>2

\* AddNode: one index follows the node that is inserted or replaced.
LEMMA AddIndex ==
    ASSUME NEW Keys, Empty \notin Keys, NEW key \in KeyOf(Keys), NEW ns \in NodeMap,
           NEW index, IndexRight(index, Keys, key, ns), NEW n \in Node
    PROVE  IndexRight(With(Migrated(index, n.id, key[ns[n.id]], key[n]), n, key[n]),
                      Keys, key, [ns EXCEPT ![n.id] = n])
<1> DEFINE prev == ns[n.id]
           mid == Migrated(index, n.id, key[prev], key[n])
           new == With(mid, n, key[n])
           after == [ns EXCEPT ![n.id] = n]
<1>1. /\ n.id \in GraphIds /\ prev \in Node \cup {NoNode} /\ (prev # NoNode => prev.id = n.id)
      /\ key[n] \in Keys \cup {Empty} /\ key[prev] \in Keys \cup {Empty}
      /\ key[NoNode] = Empty
  BY IdOfType DEF NodeMap, KeyOf
<1>2. index \in IndexOf(Keys) /\ AllMirror(index, Keys) /\ Lists(index, Keys, key, ns)
  BY DEF IndexRight
<1>3. /\ mid \in IndexOf(Keys) /\ AllMirror(mid, Keys)
      /\ \A s \in Shards, k \in Keys : \A m :
            m \in Entries(mid[s][k]) <=>
                /\ m \in Entries(index[s][k])
                /\ ~(key[prev] # key[n] /\ s = ShardOf(n.id) /\ k = key[prev] /\ m.id = n.id)
  <2>1. CASE key[prev] # key[n]
    <3> DEFINE old == key[prev]
    <3>1. old \in Keys \cup {Empty} /\ n.id \in GraphIds /\ mid = Without(index, n.id, old)
      BY <1>1, <2>1 DEF Migrated
    <3> HIDE DEF mid, old
    <3>2. mid \in IndexOf(Keys) /\ AllMirror(mid, Keys)
      BY <1>2, <3>1, WithoutProperties
    <3>3. \A s \in Shards, k \in Keys : \A m :
              m \in Entries(Without(index, n.id, old)[s][k]) <=>
                  m \in Entries(index[s][k]) /\ ~(s = ShardOf(n.id) /\ k = old /\ m.id = n.id)
      BY <1>2, <3>1, WithoutProperties
    <3>4. QED
      BY <2>1, <3>1, <3>2, <3>3 DEF old
  <2>2. CASE key[prev] = key[n]
    BY <1>2, <2>2 DEF Migrated
  <2>3. QED
    BY <2>1, <2>2
<1> HIDE DEF mid
<1>4. /\ new \in IndexOf(Keys) /\ AllMirror(new, Keys)
      /\ \A s \in Shards, k \in Keys : \A m :
            m \in Entries(new[s][k]) <=>
                IF s = ShardOf(n.id) /\ k = key[n]
                THEN m = n \/ (m \in Entries(mid[s][k]) /\ m.id # n.id)
                ELSE m \in Entries(mid[s][k])
  BY <1>1, <1>3, WithProperties
<1> HIDE DEF new
<1>5. \A m \in Node : after[m.id] = IF m.id = n.id THEN n ELSE ns[m.id]
  BY <1>1, IdOfType DEF NodeMap
<1>6. ASSUME NEW s \in Shards, NEW k \in Keys, NEW m
      PROVE  m \in Entries(new[s][k]) <=>
                 m \in Node /\ after[m.id] = m /\ ShardOf(m.id) = s /\ key[m] = k
  <2>1. m \in Entries(index[s][k]) <=>
            m \in Node /\ ns[m.id] = m /\ ShardOf(m.id) = s /\ key[m] = k
    BY <1>2 DEF Lists
  <2>2. CASE m = n
    BY <1>3, <1>4, <1>5, <2>1, <2>2
  <2>3. CASE m # n /\ m \in Node /\ m.id = n.id
    BY <1>1, <1>3, <1>4, <1>5, <2>1, <2>3
  <2>4. CASE m \notin Node \/ (m \in Node /\ m.id # n.id)
    BY <1>3, <1>4, <1>5, <2>1, <2>4
  <2>5. QED
    BY <2>2, <2>3, <2>4
<1>7. QED
  BY <1>4, <1>6 DEF IndexRight, Lists, new, mid

\* One iteration of an eviction: one index loses the node.
LEMMA EvictIndex ==
    ASSUME NEW Keys, Empty \notin Keys, NEW key \in KeyOf(Keys), NEW ns \in NodeMap,
           NEW index, IndexRight(index, Keys, key, ns), NEW n \in Node, ns[n.id] = n
    PROVE  IndexRight(Without(index, n.id, key[n]), Keys, key, [ns EXCEPT ![n.id] = NoNode])
<1> DEFINE new == Without(index, n.id, key[n])
           after == [ns EXCEPT ![n.id] = NoNode]
<1>1. n.id \in GraphIds /\ key[n] \in Keys \cup {Empty} /\ NoNode.id = Empty
  BY IdOfType DEF KeyOf, NoNode
<1>2. index \in IndexOf(Keys) /\ AllMirror(index, Keys) /\ Lists(index, Keys, key, ns)
  BY DEF IndexRight
<1>3. /\ new \in IndexOf(Keys) /\ AllMirror(new, Keys)
      /\ \A s \in Shards, k \in Keys : \A m :
            m \in Entries(new[s][k]) <=>
                m \in Entries(index[s][k]) /\ ~(s = ShardOf(n.id) /\ k = key[n] /\ m.id = n.id)
  BY <1>1, <1>2, WithoutProperties
<1> HIDE DEF new
<1>4. \A m \in Node : m.id # Empty /\ after[m.id] = IF m.id = n.id THEN NoNode ELSE ns[m.id]
  BY <1>1, IdOfType, EmptyAssumption DEF NodeMap
<1>5. ASSUME NEW s \in Shards, NEW k \in Keys, NEW m
      PROVE  m \in Entries(new[s][k]) <=>
                 m \in Node /\ after[m.id] = m /\ ShardOf(m.id) = s /\ key[m] = k
  <2>1. m \in Entries(index[s][k]) <=>
            m \in Node /\ ns[m.id] = m /\ ShardOf(m.id) = s /\ key[m] = k
    BY <1>2 DEF Lists
  <2>2. QED
    BY <1>1, <1>3, <1>4, <2>1
<1>6. QED
  BY <1>3, <1>5 DEF IndexRight, Lists, new

-------------------------------------------------------------------------------
\* A qualified-name slot answers with a node of its shard and its name.
SlotsRight ==
    \A s \in Shards, q \in Quals :
        byQual[s][q] # NoNode =>
            /\ byQual[s][q] \in Node /\ nodes[byQual[s][q].id] = byQual[s][q]
            /\ ShardOf(byQual[s][q].id) = s /\ byQual[s][q].qual = q

\* The inductive invariant: with the indexes and the slots, that nodes are stored
\* under their IDs and that what an eviction has gathered is still there.
NodeInv ==
    /\ nodes \in NodeMap
    /\ IndexRight(byFile, Files, FileOf, nodes)
    /\ IndexRight(byName, Names, NameOf, nodes)
    /\ IndexRight(byRepo, Repos, RepoOf, nodes)
    /\ byQual \in [Shards -> [Quals -> Node \cup {NoNode}]]
    /\ SlotsRight
    /\ evict \in SUBSET Node
    /\ \A n \in evict : nodes[n.id] = n

\* The keys of the three indexes; the empty string is none.
LEMMA KeysType ==
    /\ FileOf \in KeyOf(Files) /\ Empty \notin Files
    /\ NameOf \in KeyOf(Names) /\ Empty \notin Names
    /\ RepoOf \in KeyOf(Repos) /\ Empty \notin Repos
    /\ \A n \in Node \cup {NoNode} : FileOf[n] = n.file /\ NameOf[n] = n.name /\ RepoOf[n] = n.repo
<1>1. \A n \in Node : n.file \in Files /\ n.name \in Names /\ n.repo \in Repos \cup {Empty}
  BY DEF Node
<1>2. NoNode.file = Empty /\ NoNode.name = Empty /\ NoNode.repo = Empty
  BY DEF NoNode
<1>3. QED
  BY <1>1, <1>2, EmptyAssumption DEF KeyOf, FileOf, NameOf, RepoOf

\* An index without entries lists a graph without nodes.
LEMMA EmptyIndex ==
    ASSUME NEW Keys, NEW key
    PROVE  IndexRight([s \in Shards |-> [k \in Keys |-> EmptyBucket]], Keys, key,
                      [id \in GraphIds |-> NoNode])
<1> DEFINE index == [s \in Shards |-> [k \in Keys |-> EmptyBucket]]
           ns == [id \in GraphIds |-> NoNode]
<1>1. EmptyBucket \in BucketOf(Node, GraphIds) /\ Mirrors(EmptyBucket, IdOf) /\ Entries(EmptyBucket) = {}
  BY EmptyProperties
<1>2. index \in IndexOf(Keys) /\ AllMirror(index, Keys)
  BY <1>1 DEF IndexOf, AllMirror
<1>3. \A m \in Node : ns[m.id] # m
  BY IdOfType, EmptyAssumption DEF NoNode
<1>4. Lists(index, Keys, key, ns)
  BY <1>1, <1>3 DEF Lists
<1>5. QED
  BY <1>2, <1>4 DEF IndexRight

\* NodeInit satisfies the inductive invariant.
LEMMA NodeInvInit == NodeInit => NodeInv
<1> SUFFICES ASSUME NodeInit PROVE NodeInv
  OBVIOUS
<1>1. nodes \in NodeMap
  BY DEF NodeInit, NodeMap
<1>2. /\ IndexRight(byFile, Files, FileOf, nodes)
      /\ IndexRight(byName, Names, NameOf, nodes)
      /\ IndexRight(byRepo, Repos, RepoOf, nodes)
  BY EmptyIndex DEF NodeInit
<1>3. byQual \in [Shards -> [Quals -> Node \cup {NoNode}]] /\ SlotsRight
  BY DEF NodeInit, SlotsRight
<1>4. evict \in SUBSET Node /\ \A n \in evict : nodes[n.id] = n
  BY DEF NodeInit
<1>5. QED
  BY <1>1, <1>2, <1>3, <1>4 DEF NodeInv

\* What Released leaves in the slots.
LEMMA ReleasedProperties ==
    ASSUME NEW slots \in [Shards -> [Quals -> Node \cup {NoNode}]], NEW id \in GraphIds,
           NEW q \in Quals \cup {Empty}
    PROVE  /\ Released(slots, id, q) \in [Shards -> [Quals -> Node \cup {NoNode}]]
           /\ \A s \in Shards, p \in Quals :
                 Released(slots, id, q)[s][p] =
                     IF s = ShardOf(id) /\ p = q /\ slots[s][p].id = id THEN NoNode
                                                                      ELSE slots[s][p]
BY ShardOfAssumption, EmptyAssumption DEF Released

\* AddNode keeps the invariant.
LEMMA AddNodeInv == ASSUME NodeInv, NEW n \in Node, AddNode(n) PROVE NodeInv'
<1> DEFINE prev == nodes[n.id]
           slots == IF prev.qual # n.qual THEN Released(byQual, n.id, prev.qual) ELSE byQual
<1>1. /\ n.id \in GraphIds /\ n \in Node \cup {NoNode} /\ nodes \in NodeMap
      /\ prev \in Node \cup {NoNode} /\ (prev # NoNode => prev.id = n.id)
      /\ NoNode \notin Node /\ NoNode.id = Empty /\ NoNode.qual = Empty
  <2>1. NoNode.id = Empty /\ NoNode.qual = Empty
    BY DEF NoNode
  <2>2. QED
    BY <2>1, IdOfType, EmptyAssumption DEF NodeInv, NodeMap
<1>2. nodes' = [nodes EXCEPT ![n.id] = n]
  BY DEF AddNode
<1>3. nodes' \in NodeMap
  BY <1>1, <1>2 DEF NodeMap
<1>4. IndexRight(byFile', Files, FileOf, nodes')
  <2>1. byFile' = With(Migrated(byFile, n.id, FileOf[prev], FileOf[n]), n, FileOf[n])
    BY <1>1, KeysType DEF AddNode
  <2>2. QED
    BY <1>1, <1>2, <2>1, KeysType, AddIndex DEF NodeInv
<1>5. IndexRight(byName', Names, NameOf, nodes')
  <2>1. byName' = With(Migrated(byName, n.id, NameOf[prev], NameOf[n]), n, NameOf[n])
    BY <1>1, KeysType DEF AddNode
  <2>2. QED
    BY <1>1, <1>2, <2>1, KeysType, AddIndex DEF NodeInv
<1>6. IndexRight(byRepo', Repos, RepoOf, nodes')
  <2>1. byRepo' = With(Migrated(byRepo, n.id, RepoOf[prev], RepoOf[n]), n, RepoOf[n])
    BY <1>1, KeysType DEF AddNode
  <2>2. QED
    BY <1>1, <1>2, <2>1, KeysType, AddIndex DEF NodeInv
<1>7. prev.qual \in Quals \cup {Empty} /\ n.qual \in Quals \cup {Empty} /\ Empty \notin Quals
  BY <1>1, EmptyAssumption DEF Node
<1>8. /\ slots \in [Shards -> [Quals -> Node \cup {NoNode}]]
      /\ \A s \in Shards, p \in Quals :
            slots[s][p] =
                IF /\ prev.qual # n.qual
                   /\ s = ShardOf(n.id) /\ p = prev.qual /\ byQual[s][p].id = n.id
                THEN NoNode ELSE byQual[s][p]
  <2>1. CASE prev.qual # n.qual
    BY <1>1, <1>7, <2>1, ReleasedProperties DEF NodeInv
  <2>2. CASE prev.qual = n.qual
    BY <2>2 DEF NodeInv
  <2>3. QED
    BY <2>1, <2>2
<1>9. byQual' = IF n.qual = Empty THEN slots ELSE [slots EXCEPT ![ShardOf(n.id)][n.qual] = n]
  BY DEF AddNode
<1> HIDE DEF slots
<1>10. byQual' \in [Shards -> [Quals -> Node \cup {NoNode}]]
  BY <1>7, <1>8, <1>9
<1>11. \A s \in Shards, p \in Quals :
           byQual'[s][p] = IF s = ShardOf(n.id) /\ p = n.qual THEN n ELSE slots[s][p]
  BY <1>1, <1>7, <1>8, <1>9, ShardOfAssumption
<1>12. SlotsRight'
  <2> SUFFICES ASSUME NEW s \in Shards, NEW q \in Quals, byQual'[s][q] # NoNode
               PROVE  /\ byQual'[s][q] \in Node /\ nodes'[byQual'[s][q].id] = byQual'[s][q]
                      /\ ShardOf(byQual'[s][q].id) = s /\ byQual'[s][q].qual = q
    BY DEF SlotsRight
  <2>1. CASE s = ShardOf(n.id) /\ q = n.qual
    BY <1>1, <1>2, <1>11, <2>1 DEF NodeMap
  <2>2. CASE ~(s = ShardOf(n.id) /\ q = n.qual)
    <3> DEFINE old == byQual[s][q]
    <3>1. byQual'[s][q] = old /\ old # NoNode
      BY <1>8, <1>11, <2>2
    <3>2. old \in Node /\ nodes[old.id] = old /\ ShardOf(old.id) = s /\ old.qual = q
      BY <3>1 DEF NodeInv, SlotsRight
    <3>3. old.id # n.id
      BY <1>8, <1>11, <2>2, <3>1, <3>2
    <3>4. nodes'[old.id] = old
      BY <1>1, <1>2, <3>2, <3>3, IdOfType DEF NodeMap
    <3>5. QED
      BY <3>1, <3>2, <3>4
  <2>3. QED
    BY <2>1, <2>2
<1>13. evict' = {}
  BY DEF AddNode, NotEvicting
<1>14. QED
  BY <1>3, <1>4, <1>5, <1>6, <1>10, <1>12, <1>13 DEF NodeInv

\* An iteration of an eviction keeps the invariant.
LEMMA EvictNodeInv == ASSUME NodeInv, NEW n \in Node, EvictNode(n) PROVE NodeInv'
<1>1. /\ n.id \in GraphIds /\ nodes \in NodeMap /\ nodes[n.id] = n /\ n \in evict
      /\ n.qual \in Quals \cup {Empty} /\ Empty \notin Quals /\ NoNode \notin Node
  <2>1. NoNode.id = Empty
    BY DEF NoNode
  <2>2. n.qual \in Quals \cup {Empty}
    BY DEF Node
  <2>3. QED
    BY <2>1, <2>2, IdOfType, EmptyAssumption DEF NodeInv, EvictNode
<1>2. nodes' = [nodes EXCEPT ![n.id] = NoNode]
  BY DEF EvictNode
<1>3. nodes' \in NodeMap
  BY <1>1, <1>2 DEF NodeMap
<1>4. IndexRight(byFile', Files, FileOf, nodes')
  <2>1. byFile' = Without(byFile, n.id, FileOf[n])
    BY KeysType DEF EvictNode
  <2>2. QED
    BY <1>1, <1>2, <2>1, KeysType, EvictIndex DEF NodeInv
<1>5. IndexRight(byName', Names, NameOf, nodes')
  <2>1. byName' = Without(byName, n.id, NameOf[n])
    BY KeysType DEF EvictNode
  <2>2. QED
    BY <1>1, <1>2, <2>1, KeysType, EvictIndex DEF NodeInv
<1>6. IndexRight(byRepo', Repos, RepoOf, nodes')
  <2>1. byRepo' = Without(byRepo, n.id, RepoOf[n])
    BY KeysType DEF EvictNode
  <2>2. QED
    BY <1>1, <1>2, <2>1, KeysType, EvictIndex DEF NodeInv
<1>7. /\ byQual' \in [Shards -> [Quals -> Node \cup {NoNode}]]
      /\ \A s \in Shards, p \in Quals :
            byQual'[s][p] = IF s = ShardOf(n.id) /\ p = n.qual /\ byQual[s][p].id = n.id
                            THEN NoNode ELSE byQual[s][p]
  BY <1>1, ReleasedProperties DEF NodeInv, EvictNode
<1>8. SlotsRight'
  <2> SUFFICES ASSUME NEW s \in Shards, NEW q \in Quals, byQual'[s][q] # NoNode
               PROVE  /\ byQual'[s][q] \in Node /\ nodes'[byQual'[s][q].id] = byQual'[s][q]
                      /\ ShardOf(byQual'[s][q].id) = s /\ byQual'[s][q].qual = q
    BY DEF SlotsRight
  <2> DEFINE old == byQual[s][q]
  <2>1. byQual'[s][q] = old /\ old # NoNode
    BY <1>7
  <2>2. old \in Node /\ nodes[old.id] = old /\ ShardOf(old.id) = s /\ old.qual = q
    BY <2>1 DEF NodeInv, SlotsRight
  <2>3. old.id # n.id
    BY <1>1, <1>7, <2>1, <2>2
  <2>4. nodes'[old.id] = old
    BY <1>1, <1>2, <2>2, <2>3, IdOfType DEF NodeMap
  <2>5. QED
    BY <2>1, <2>2, <2>4
<1>9. evict' \in SUBSET Node /\ \A m \in evict' : nodes'[m.id] = m
  <2>1. evict' = evict \ {n} /\ evict \in SUBSET Node
    BY DEF EvictNode, NodeInv
  <2>2. ASSUME NEW m \in evict' PROVE nodes'[m.id] = m
    <3>1. m \in Node /\ nodes[m.id] = m /\ m # n
      BY <2>1, <2>2 DEF NodeInv
    <3>2. QED
      BY <1>1, <1>2, <3>1, IdOfType DEF NodeMap
  <2>3. QED
    BY <2>1, <2>2
<1>10. QED
  BY <1>3, <1>4, <1>5, <1>6, <1>7, <1>8, <1>9 DEF NodeInv

\* What an eviction gathers is in the graph.
LEMMA GatheredLive ==
    ASSUME NodeInv, NEW Keys, NEW key, NEW index, IndexRight(index, Keys, key, nodes), NEW k \in Keys
    PROVE  Gathered(index, k) \in SUBSET Node /\ \A n \in Gathered(index, k) : nodes[n.id] = n
BY DEF Gathered, IndexRight, Lists

\* The inductive invariant holds in every reachable state.
LEMMA NodeInductive == NodeSpec => []NodeInv
<1>1. NodeInv /\ [NodeNext]_nodeVars => NodeInv'
  <2> SUFFICES ASSUME NodeInv, [NodeNext]_nodeVars PROVE NodeInv'
    OBVIOUS
  <2>1. CASE UNCHANGED nodeVars
    BY <2>1 DEF nodeVars, NodeInv, SlotsRight
  <2>2. ASSUME NEW n \in Node, AddNode(n) PROVE NodeInv'
    BY <2>2, AddNodeInv
  <2>3. ASSUME NEW n \in Node, EvictNode(n) PROVE NodeInv'
    BY <2>3, EvictNodeInv
  <2>4. ASSUME NEW f \in Files, StartEvictFile(f) PROVE NodeInv'
    <3>1. evict' \in SUBSET Node /\ \A n \in evict' : nodes[n.id] = n
      BY <2>4, GatheredLive DEF NodeInv, StartEvictFile
    <3>2. QED
      BY <2>4, <3>1 DEF NodeInv, SlotsRight, StartEvictFile
  <2>5. ASSUME NEW r \in Repos, StartEvictRepo(r) PROVE NodeInv'
    <3>1. evict' \in SUBSET Node /\ \A n \in evict' : nodes[n.id] = n
      BY <2>5, GatheredLive DEF NodeInv, StartEvictRepo
    <3>2. QED
      BY <2>5, <3>1 DEF NodeInv, SlotsRight, StartEvictRepo
  <2>6. QED
    BY <2>1, <2>2, <2>3, <2>4, <2>5 DEF NodeNext
<1>2. QED
  BY NodeInvInit, <1>1, PTL DEF NodeSpec

\* The nodes of a shard, in terms of the map of nodes.
LEMMA LiveNodes ==
    ASSUME NodeInv, NEW s \in Shards
    PROVE  \A m : m \in Live(s) <=> m \in Node /\ nodes[m.id] = m /\ ShardOf(m.id) = s
<1>1. \A n \in Node : n # NoNode /\ n.id \in GraphIds
  <2>1. NoNode.id = Empty
    BY DEF NoNode
  <2>2. QED
    BY <2>1, IdOfType, EmptyAssumption
<1>2. QED
  BY <1>1 DEF NodeInv, NodeMap, Live

-------------------------------------------------------------------------------
\* The variables keep the types the code gives them.
THEOREM NodeTypeCorrect == NodeSpec => []NodeTypeOK
<1>1. NodeInv => NodeTypeOK
  BY EntriesAreNodes DEF NodeInv, NodeMap, IndexRight, IndexOf, NodeTypeOK
<1>2. QED
  BY <1>1, NodeInductive, PTL

\* After any number of inserts, replacements and evictions, and in the middle of
\* one, each index lists exactly the current nodes of its key (AddNode,
\* EvictFile, EvictRepo).
THEOREM IndexesRight == NodeSpec => []IndexesMatchNodes
<1>1. ASSUME NodeInv PROVE IndexesMatchNodes
  <2> SUFFICES ASSUME NEW s \in Shards
               PROVE  /\ \A f \in Files : Entries(byFile[s][f]) = {n \in Live(s) : n.file = f}
                      /\ \A m \in Names : Entries(byName[s][m]) = {n \in Live(s) : n.name = m}
                      /\ \A r \in Repos : Entries(byRepo[s][r]) = {n \in Live(s) : n.repo = r}
    BY DEF IndexesMatchNodes
  <2>1. \A n \in Node : FileOf[n] = n.file /\ NameOf[n] = n.name /\ RepoOf[n] = n.repo
    BY KeysType
  <2>2. \A f \in Files : \A n : n \in Entries(byFile[s][f]) <=> n \in Live(s) /\ n.file = f
    BY <1>1, <2>1, LiveNodes DEF NodeInv, IndexRight, Lists
  <2>3. \A f \in Names : \A n : n \in Entries(byName[s][f]) <=> n \in Live(s) /\ n.name = f
    BY <1>1, <2>1, LiveNodes DEF NodeInv, IndexRight, Lists
  <2>4. \A f \in Repos : \A n : n \in Entries(byRepo[s][f]) <=> n \in Live(s) /\ n.repo = f
    BY <1>1, <2>1, LiveNodes DEF NodeInv, IndexRight, Lists
  <2>5. QED
    BY <2>2, <2>3, <2>4
<1>2. QED
  BY <1>1, NodeInductive, PTL

\* Every sidecar of an index is the inverse of its slice (addNodeToBucket,
\* removeNodeFromBucket).
THEOREM NodeSidecarsRight == NodeSpec => []NodeSidecarsMirror
<1>1. NodeInv => NodeSidecarsMirror
  BY DEF NodeInv, IndexRight, AllMirror, NodeSidecarsMirror
<1>2. QED
  BY <1>1, NodeInductive, PTL

\* No qualified-name slot answers with an evicted or replaced node (AddNode,
\* EvictFile, EvictRepo).
THEOREM QualSlotsLive == NodeSpec => []QualSlotLive
<1>1. NodeInv => QualSlotLive
  BY LiveNodes DEF NodeInv, SlotsRight, QualSlotLive
<1>2. QED
  BY <1>1, NodeInductive, PTL
===============================================================================
