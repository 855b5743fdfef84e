-------------------------- MODULE ShopRedeemProofs --------------------------
(***************************************************************************)
(* Safety of ShopRedeem for any number of requests, users, pods and        *)
(* buckets, any stock and any quantities, any number of faults, expiries   *)
(* and crashes.                                                            *)
(***************************************************************************)
EXTENDS ShopRedeem, SumTheorems

\* The part of the state the row locks and the bucket scan live in.
StockTypeOK ==
    /\ bucket \in [Buckets -> Int]
    /\ took \in [Requests -> Buckets \cup {NoBucket}]
    /\ attempt \in [Requests -> 0 .. N]
    /\ pc \in [Requests -> Pc]

\* Exactly the transactions about to commit hold a row, ...
HoldersCommit ==
    \A r \in Requests : pc[r] = "commit" <=> took[r] \in Buckets

\* ... the row still has what they will deduct, ...
HeldRowsSuffice ==
    \A r \in Requests : took[r] \in Buckets => bucket[took[r]] >= Qty[r]

\* ... and no two of them hold the same row.
OneHolderPerRow ==
    \A r, s \in Requests : took[r] = took[s] /\ took[r] \in Buckets => r = s

StockInv ==
    /\ StockTypeOK
    /\ NoOversell
    /\ HoldersCommit
    /\ HeldRowsSuffice
    /\ OneHolderPerRow

\* A number modulo N names a bucket.
LEMMA ModRange ==
  ASSUME NEW a \in Nat
  PROVE  a % N \in Buckets
  BY ShopAssumption DEF Buckets

\* makeBuckets never gives a bucket a negative share.
LEMMA MakeBucketsNat == MakeBuckets \in [Buckets -> Nat]
<1>1. N \in Nat /\ N > 0 /\ Total \in Nat
  BY ShopAssumption
<1>2. Total \div N \in Nat
  BY <1>1
<1> QED
  BY <1>2 DEF MakeBuckets

\* The seeded buckets satisfy the invariant.
LEMMA StockInit == Init => StockInv
<1> SUFFICES ASSUME Init PROVE StockInv
  OBVIOUS
<1>1. NoBucket \notin Buckets
  BY ShopAssumption DEF NoBucket, Buckets
<1>2. StockTypeOK
  BY MakeBucketsNat, ShopAssumption DEF Init, StockTypeOK, Pc
<1>3. NoOversell
  BY MakeBucketsNat DEF Init, NoOversell
<1> QED
  BY <1>1, <1>2, <1>3
  DEF Init, StockInv, HoldersCommit, HeldRowsSuffice, OneHolderPerRow

-----------------------------------------------------------------------------
\* A step that touches no row and opens or ends no deduction.
LEMMA StockFrame ==
  ASSUME StockInv, UNCHANGED <<bucket, took>>,
         attempt' \in [Requests -> 0 .. N],
         pc' \in [Requests -> Pc],
         \A r \in Requests : pc'[r] = "commit" <=> pc[r] = "commit"
  PROVE  StockInv'
BY DEF StockInv, StockTypeOK, NoOversell, HoldersCommit, HeldRowsSuffice,
       OneHolderPerRow

\* Moving one request between steps that hold no row.
LEMMA StockGoto ==
  ASSUME StockInv, UNCHANGED <<bucket, took>>,
         attempt' \in [Requests -> 0 .. N],
         NEW r \in Requests, NEW to \in Pc \ {"commit"},
         Goto(r, to), pc[r] # "commit"
  PROVE  StockInv'
<1>1. pc \in [Requests -> Pc]
  BY DEF StockInv, StockTypeOK
<1>2. pc' \in [Requests -> Pc]
  BY <1>1 DEF Goto
<1>3. \A s \in Requests : pc'[s] = "commit" <=> pc[s] = "commit"
  BY <1>1 DEF Goto
<1> QED
  BY <1>2, <1>3, StockFrame

\* DeductStock takes a row that nobody holds and that has enough.
LEMMA StockDeduct ==
  ASSUME StockInv, NEW r \in Requests, DeductStock(r)
  PROVE  StockInv'
<1> DEFINE b == NextRow(r)
<1>1. /\ pc \in [Requests -> Pc] /\ attempt \in [Requests -> 0 .. N]
      /\ took \in [Requests -> Buckets \cup {NoBucket}]
      /\ UNCHANGED bucket
  BY DEF StockInv, StockTypeOK, DeductStock
<1>2. b \in Buckets
  <2>1. Home[KeyOf[r]] \in Nat
    BY ShopAssumption, LockAssumption DEF Users, Requests, Buckets
  <2>2. Home[KeyOf[r]] + attempt[r] \in Nat
    BY <2>1, <1>1
  <2> QED
    BY <2>2, ModRange DEF NextRow
<1>3. NoBucket \notin Buckets
  BY ShopAssumption DEF NoBucket, Buckets
<1> HIDE DEF b
<1>4. CASE /\ DeductReady(r) /\ BucketFits(r, b)
           /\ took' = [took EXCEPT ![r] = b]
           /\ Goto(r, "commit") /\ UNCHANGED attempt
  <2>1. \A s \in Requests : took[s] # b
    <3>1. SUFFICES ASSUME NEW s \in Requests, took[s] = b PROVE FALSE
      OBVIOUS
    <3>2. pc[s] = "commit" /\ pc[r] = "deduct"
      BY <1>2, <3>1 DEF StockInv, HoldersCommit, DeductStock
    <3>3. b \in RowLocks(s) /\ r # s
      BY <3>1, <3>2 DEF RowLocks
    <3> QED
      BY <1>4, <3>2, <3>3 DEF DeductReady, WaitsFor, b
  <2>2. pc' \in [Requests -> Pc] /\ pc'[r] = "commit"
        /\ \A s \in Requests \ {r} : pc'[s] = pc[s]
    BY <1>1, <1>4 DEF Goto, Pc
  <2>3. took' \in [Requests -> Buckets \cup {NoBucket}] /\ took'[r] = b
        /\ \A s \in Requests \ {r} : took'[s] = took[s]
    BY <1>1, <1>2, <1>4
  <2>4. StockTypeOK' /\ NoOversell'
    BY <1>1, <1>4, <2>2, <2>3 DEF StockInv, StockTypeOK, NoOversell
  <2>5. HoldersCommit'
    BY <1>2, <2>2, <2>3 DEF StockInv, HoldersCommit
  <2>6. HeldRowsSuffice'
    BY <1>1, <1>4, <2>3 DEF StockInv, HeldRowsSuffice, BucketFits
  <2>7. OneHolderPerRow'
    BY <2>1, <2>3 DEF StockInv, OneHolderPerRow
  <2> QED
    BY <2>4, <2>5, <2>6, <2>7 DEF StockInv
<1>5. CASE /\ DeductReady(r)
           /\ attempt' = [attempt EXCEPT ![r] = @ + 1]
           /\ UNCHANGED <<pc, took>>
  <2>1. attempt[r] + 1 \in 0 .. N
    BY <1>1, <1>5, ShopAssumption DEF DeductReady
  <2>2. attempt' \in [Requests -> 0 .. N]
    BY <1>1, <1>5, <2>1
  <2> QED
    BY <1>1, <1>5, <2>2, StockFrame
<1>6. CASE Goto(r, "settle") /\ UNCHANGED <<took, attempt>>
  BY <1>1, <1>6, StockGoto DEF DeductStock, Pc
<1> QED
  BY <1>4, <1>5, <1>6 DEF DeductStock, b

\* A commit deducts from the row it holds, which had enough.
LEMMA StockCommit ==
  ASSUME StockInv, NEW r \in Requests, Commit(r)
  PROVE  StockInv'
<1>1. /\ pc \in [Requests -> Pc] /\ bucket \in [Buckets -> Int]
      /\ took \in [Requests -> Buckets \cup {NoBucket}]
      /\ UNCHANGED attempt /\ Qty \in [Requests -> Nat]
      /\ NoBucket \notin Buckets
  BY ShopAssumption DEF StockInv, StockTypeOK, Commit, NoBucket, Buckets
<1>2. took[r] \in Buckets
  BY DEF StockInv, HoldersCommit, Commit
<1>3. took' = [took EXCEPT ![r] = NoBucket]
  BY DEF Commit, EndTx
<1>4. /\ pc' \in [Requests -> Pc] /\ pc'[r] # "commit"
      /\ \A s \in Requests \ {r} : pc'[s] = pc[s]
  BY <1>1 DEF Commit, Goto, Pc
<1>5. bucket' = bucket \/ bucket' = [bucket EXCEPT ![took[r]] = @ - Qty[r]]
  BY DEF Commit, CommitTx
<1>6. /\ bucket' \in [Buckets -> Int]
      /\ \A b \in Buckets : b # took[r] => bucket'[b] = bucket[b]
  BY <1>1, <1>2, <1>5
<1>7. bucket'[took[r]] >= 0
  BY <1>1, <1>2, <1>5 DEF StockInv, HeldRowsSuffice, NoOversell
<1>8. StockTypeOK' /\ NoOversell'
  BY <1>1, <1>3, <1>4, <1>6, <1>7 DEF StockInv, StockTypeOK, NoOversell
<1>9. HoldersCommit'
  BY <1>1, <1>3, <1>4 DEF StockInv, HoldersCommit
<1>10. HeldRowsSuffice'
  <2>1. ASSUME NEW s \in Requests, took'[s] \in Buckets
        PROVE  bucket'[took'[s]] >= Qty[s]
    <3>1. s # r /\ took'[s] = took[s]
      BY <1>1, <1>3, <2>1
    <3>2. took[s] # took[r]
      BY <1>2, <3>1 DEF StockInv, OneHolderPerRow
    <3> QED
      BY <1>6, <2>1, <3>1, <3>2 DEF StockInv, HeldRowsSuffice
  <2> QED
    BY <2>1, <1>1 DEF HeldRowsSuffice
<1>11. OneHolderPerRow'
  BY <1>1, <1>3 DEF StockInv, OneHolderPerRow
<1> QED
  BY <1>8, <1>9, <1>10, <1>11 DEF StockInv

\* Requests that are cut off give up their rows with their transactions.
LEMMA StockStop ==
  ASSUME StockInv, NEW R, Stop(R)
  PROVE  StockInv'
<1>1. NoBucket \notin Buckets
  BY ShopAssumption DEF NoBucket, Buckets
<1>2. StockTypeOK' /\ NoOversell'
  BY DEF StockInv, StockTypeOK, NoOversell, Stop, Pc
<1>3. HoldersCommit' /\ HeldRowsSuffice' /\ OneHolderPerRow'
  BY <1>1 DEF StockInv, StockTypeOK, HoldersCommit, HeldRowsSuffice,
     OneHolderPerRow, Stop
<1> QED
  BY <1>2, <1>3 DEF StockInv

\* Every step keeps the row-lock invariant.
LEMMA StockStep == StockInv /\ [Next]_vars => StockInv'
<1> SUFFICES ASSUME StockInv, [Next]_vars PROVE StockInv'
  OBVIOUS
<1> USE DEF reqVars
<1>0. attempt \in [Requests -> 0 .. N]
  BY DEF StockInv, StockTypeOK
<1>1. ASSUME NEW r \in Requests, AcquireLock(r) PROVE StockInv'
  BY <1>0, <1>1, StockGoto DEF AcquireLock, Pc
<1>2. ASSUME NEW r \in Requests, IsRedeemSoldOut(r) PROVE StockInv'
  BY <1>0, <1>2, StockGoto DEF IsRedeemSoldOut, Pc
<1>3. ASSUME NEW r \in Requests, FindItem(r) PROVE StockInv'
  <2>1. PICK to \in {"unlock", "acquire"} : Goto(r, to)
    BY <1>3 DEF FindItem
  <2> QED
    BY <1>0, <1>3, <2>1, StockGoto DEF FindItem, Pc
<1>4. ASSUME NEW r \in Requests, TryAcquireRedeem(r) PROVE StockInv'
  BY <1>0, <1>4, StockGoto DEF TryAcquireRedeem, Pc
<1>5. ASSUME NEW r \in Requests, CheckPoints(r) PROVE StockInv'
  BY <1>0, <1>5, StockGoto DEF CheckPoints, Pc
<1>6. ASSUME NEW r \in Requests, DeductStock(r) PROVE StockInv'
  BY <1>6, StockDeduct
<1>7. ASSUME NEW r \in Requests, Commit(r) PROVE StockInv'
  BY <1>7, StockCommit
<1>8. ASSUME NEW r \in Requests, Settle(r) PROVE StockInv'
  BY <1>0, <1>8, StockGoto DEF Settle, Pc
<1>9. ASSUME NEW r \in Requests, ReleaseLock(r) PROVE StockInv'
  BY <1>0, <1>9, StockGoto DEF ReleaseLock, Pc
<1>10. ASSUME NEW r \in Requests, Cancel(r) PROVE StockInv'
  BY <1>10, StockStop DEF Cancel
<1>11. ASSUME NEW p \in Pods, Crash(p) PROVE StockInv'
  BY <1>11, StockStop DEF Crash
<1>12. CASE \/ \E u \in Users : ExpireLock(u)
            \/ ExpireCounter \/ Replicate \/ ReconcileRead \/ ReconcileSet
            \/ UNCHANGED vars
  <2>1. UNCHANGED <<bucket, took, attempt, pc>>
    BY <1>12 DEF ExpireLock, ExpireCounter, Replicate, ReconcileRead,
       ReconcileSet, vars
  <2> QED
    BY <2>1, StockFrame DEF StockInv, StockTypeOK
<1> QED
  BY <1>1, <1>2, <1>3, <1>4, <1>5, <1>6, <1>7, <1>8, <1>9, <1>10, <1>11, <1>12
  DEF Next, Redeem

\* Zero oversell, for every number of buckets and requests: no interleaving of
\* transactions, faults and crashes takes a bucket of DeductStock below zero.
THEOREM ShopNoOversell == Spec => []NoOversell
<1>1. StockInv => NoOversell
  BY DEF StockInv
<1> QED
  BY <1>1, StockInit, StockStep, PTL DEF Spec

-----------------------------------------------------------------------------
\* A bucket the scan has passed was too small, and stays so: stock only falls.
PassedTooSmall ==
    faults = 0 =>
        \A r \in Requests : \A k \in 0 .. attempt[r] - 1 :
            bucket[(Home[KeyOf[r]] + k) % N] < Qty[r]

\* All requests are for one quantity.
OneQuantity == \A r, s \in Requests : Qty[r] = Qty[s]

\* Without faults, "sold out" is the end of a complete scan or of a circle of
\* waits; in both cases no bucket was large enough, nor ever will be.
SoldOutIsRight ==
    faults = 0 =>
        \A r \in Requests :
            soldOut[r] /\ (attempt[r] = N \/ OneQuantity) =>
                \A b \in Buckets : bucket[b] < Qty[r]

ScanInv ==
    /\ faults \in Nat
    /\ soldOut \in [Requests -> BOOLEAN]
    /\ \A r \in Requests : soldOut[r] => pc[r] \in {"settle", "unlock", "end"}
    /\ PassedTooSmall
    /\ SoldOutIsRight

\* Starting from any bucket, N steps modulo N visit every bucket.
LEMMA ScanCoversAll ==
  ASSUME NEW h \in Buckets, NEW b \in Buckets
  PROVE  \E k \in 0 .. N - 1 : (h + k) % N = b
<1>1. N \in Nat /\ N > 0 /\ h \in 0 .. N - 1 /\ b \in 0 .. N - 1
  BY ShopAssumption DEF Buckets
<1>2. CASE b >= h
  <2>1. b - h \in 0 .. N - 1 /\ h + (b - h) = b
    BY <1>1, <1>2
  <2>2. b % N = b
    BY <1>1
  <2> QED
    BY <2>1, <2>2
<1>3. CASE b < h
  <2>1. b - h + N \in 0 .. N - 1 /\ h + (b - h + N) = b + N
    BY <1>1, <1>3
  <2>2. (b + N) % N = b
    BY <1>1
  <2> QED
    BY <2>1, <2>2
<1> QED
  BY <1>1, <1>2, <1>3

\* The remainder of a number below 2 * N.
LEMMA ModSmall ==
  ASSUME NEW x \in 0 .. 2 * N - 1
  PROVE  (x < N => x % N = x) /\ (x >= N => x % N = x - N)
<1>1. N \in Nat /\ N > 0 /\ x \in Nat /\ x < 2 * N
  BY ShopAssumption
<1>2. CASE x < N
  BY <1>1, <1>2
<1>3. CASE x >= N
  <2>1. x - N \in 0 .. N - 1 /\ x = (x - N) + N
    BY <1>1, <1>3
  <2>2. (x - N) % N = x - N
    BY <1>1, <2>1
  <2> QED
    BY <1>1, <1>3, <2>1, <2>2
<1> QED
  BY <1>1, <1>2, <1>3

\* The request r is g rows before bucket b, and has not passed b.
Ahead(r, b, g) == g \in 0 .. N - 1 /\ (NextRow(r) + g) % N = b

\* r has examined row b.
Passed(r, b) == \E k \in 0 .. attempt[r] - 1 : b = (Home[KeyOf[r]] + k) % N

\* Who waits for d, and is before a bucket d has not passed, is further from
\* it than d: d has passed the row the other one waits for.
LEMMA BlockerIsNearer ==
  ASSUME StockInv, NEW c \in Requests, NEW d \in Requests, NEW b \in Buckets,
         NEW g \in 0 .. N - 1, Ahead(c, b, g),
         Passed(d, NextRow(c)), ~Passed(d, b), attempt[d] < N
  PROVE  \E f \in 0 .. N - 1 : f < g /\ Ahead(d, b, f)
<1> DEFINE h == Home[KeyOf[d]]
           a == attempt[d]
<1>1. /\ N \in Nat /\ N > 0 /\ h \in 0 .. N - 1 /\ a \in 0 .. N - 1 /\ b \in 0 .. N - 1
  BY ShopAssumption, LockAssumption DEF StockInv, StockTypeOK, Users, Requests, Buckets
<1>2. PICK k \in 0 .. a - 1 : NextRow(c) = (h + k) % N
  BY DEF Passed
<1>3. PICK D \in 0 .. N - 1 : (h + D) % N = b
  BY <1>1, ScanCoversAll DEF Buckets
<1>4. D >= a
  BY <1>1, <1>3 DEF Passed
<1> DEFINE u == h + k
           v == h + D
           w == h + a
<1>5. NextRow(c) = u % N /\ b = v % N /\ NextRow(d) = w % N
  BY <1>2, <1>3 DEF NextRow
<1>6. /\ u \in 0 .. 2 * N - 1 /\ v \in 0 .. 2 * N - 1 /\ w \in 0 .. 2 * N - 1
      /\ D - a \in 0 .. N - 1 /\ D - k \in 0 .. N - 1 /\ D - a < D - k
      /\ v = w + (D - a) /\ v = u + (D - k)
      /\ D - a \in Int /\ D - k \in Int
  BY <1>1, <1>2, <1>3, <1>4
<1> HIDE DEF h, a, u, v, w
<1>7. /\ (u < N => u % N = u) /\ (u >= N => u % N = u - N)
      /\ (v < N => v % N = v) /\ (v >= N => v % N = v - N)
      /\ (w < N => w % N = w) /\ (w >= N => w % N = w - N)
  BY <1>6, ModSmall, Zenon
<1>8. /\ NextRow(d) \in 0 .. N - 1 /\ NextRow(c) \in 0 .. N - 1
      /\ NextRow(d) + (D - a) \in 0 .. 2 * N - 1
      /\ NextRow(c) + g \in 0 .. 2 * N - 1
  BY <1>1, <1>2, <1>5, <1>6, <1>7
<1> DEFINE x == NextRow(d) + (D - a)
           y == NextRow(c) + g
<1> HIDE DEF x, y
<1>9. (x < N => x % N = x) /\ (x >= N => x % N = x - N)
  BY <1>8, ModSmall, Zenon DEF x
<1>12. (y < N => y % N = y) /\ (y >= N => y % N = y - N)
  BY <1>8, ModSmall, Zenon DEF y
<1>10. x % N = b
  BY <1>1, <1>5, <1>6, <1>7, <1>8, <1>9 DEF x
<1>13. y % N = b
  BY DEF Ahead, y
<1>11. g = D - k
  BY <1>1, <1>5, <1>6, <1>7, <1>8, <1>12, <1>13 DEF y
<1> QED
  BY <1>6, <1>10, <1>11 DEF Ahead, x

\* The rows that a circle of waiting requests has examined are all rows.
LEMMA CircleCoversAll ==
  ASSUME StockInv, NEW C \in SUBSET Requests, C # {},
         \A c \in C : \E d \in C : WaitsFor(c, d), NEW b \in Buckets
  PROVE  \E c \in C : Passed(c, b)
<1> SUFFICES ASSUME \A c \in C : ~Passed(c, b) PROVE FALSE
  OBVIOUS
<1> DEFINE G == {n \in Nat : \A c \in C : \A g \in 0 .. N - 1 : g <= n => ~Ahead(c, b, g)}
<1>0. N \in Nat /\ N > 0 /\ b \in 0 .. N - 1 /\ NoBucket \notin Buckets
  BY ShopAssumption DEF Buckets, NoBucket
<1>1. ASSUME NEW c \in C, NEW g \in 0 .. N - 1, Ahead(c, b, g)
      PROVE  \E d \in C : \E f \in 0 .. N - 1 : f < g /\ Ahead(d, b, f)
  <2>1. PICK d \in C : WaitsFor(c, d)
    OBVIOUS
  <2>2. PICK e \in C : WaitsFor(d, e)
    OBVIOUS
  <2>3. pc[d] = "deduct" /\ attempt[d] < N
    BY <2>2 DEF WaitsFor
  <2>4. took[d] = NoBucket
    BY <2>3 DEF StockInv, StockTypeOK, HoldersCommit
  <2>5. NextRow(c) \in Buckets
    <3>1. c \in Requests /\ Home[KeyOf[c]] \in Nat /\ attempt[c] \in Nat
      BY ShopAssumption, LockAssumption DEF StockInv, StockTypeOK, Users, Requests, Buckets
    <3>2. Home[KeyOf[c]] + attempt[c] \in Nat
      BY <3>1
    <3> QED
      BY <3>2, ModRange DEF NextRow
  <2>6. Passed(d, NextRow(c))
    BY <1>0, <2>1, <2>3, <2>4, <2>5 DEF WaitsFor, RowLocks, Passed
  <2> QED
    BY <1>1, <2>3, <2>6, BlockerIsNearer
<1>2. 0 \in G
  BY <1>0, <1>1
<1>3. ASSUME NEW n \in Nat, n \in G PROVE n + 1 \in G
  <2>1. ASSUME NEW c \in C, NEW g \in 0 .. N - 1, g <= n + 1, Ahead(c, b, g) PROVE FALSE
    <3>1. PICK d \in C, f \in 0 .. N - 1 : f < g /\ Ahead(d, b, f)
      BY <1>1, <2>1
    <3>2. f <= n
      BY <1>0, <2>1, <3>1
    <3> QED
      BY <1>3, <3>1, <3>2
  <2> QED
    BY <2>1
<1> HIDE DEF G
<1>4. N \in G
  BY <1>0, <1>2, <1>3, SetOfNat
<1>5. PICK c : c \in C
  OBVIOUS
<1>6. NextRow(c) \in Buckets
  <2>1. c \in Requests /\ Home[KeyOf[c]] \in Nat /\ attempt[c] \in Nat
    BY <1>5, ShopAssumption, LockAssumption DEF StockInv, StockTypeOK, Users, Requests, Buckets
  <2>2. Home[KeyOf[c]] + attempt[c] \in Nat
    BY <2>1
  <2> QED
    BY <2>2, ModRange DEF NextRow
<1>7. PICK g \in 0 .. N - 1 : (NextRow(c) + g) % N = b
  BY <1>6, ScanCoversAll
<1> QED
  BY <1>0, <1>4, <1>5, <1>7 DEF G, Ahead

\* Every step of a request, of a pod or of Redis leaves the stock as it is or
\* lowers it, and counts its fault if it has one.
LEMMA ScanFrame ==
  ASSUME StockInv, ScanInv,
         UNCHANGED <<attempt, soldOut>>, faults' \in {faults, faults + 1},
         \A r \in Requests : pc[r] \in {"settle", "unlock", "end"}
                              => pc'[r] \in {"settle", "unlock", "end"},
         \A b \in Buckets : bucket'[b] <= bucket[b], bucket' \in [Buckets -> Int]
  PROVE  ScanInv'
<1>0. bucket \in [Buckets -> Int] /\ Qty \in [Requests -> Nat]
  BY ShopAssumption DEF StockInv, StockTypeOK
<1>1. faults' \in Nat /\ (faults' = 0 => faults = 0)
  BY DEF ScanInv
<1>2. PassedTooSmall'
  <2> SUFFICES ASSUME faults = 0, NEW r \in Requests, NEW k \in 0 .. attempt[r] - 1
               PROVE  bucket'[(Home[KeyOf[r]] + k) % N] < Qty[r]
    BY <1>1 DEF PassedTooSmall
  <2>1. Home[KeyOf[r]] \in Nat /\ attempt[r] \in 0 .. N /\ Qty[r] \in Nat
    BY ShopAssumption, LockAssumption
    DEF StockInv, StockTypeOK, Users, Requests, Buckets
  <2>2. (Home[KeyOf[r]] + k) % N \in Buckets
    BY <2>1, ModRange
  <2>3. bucket[(Home[KeyOf[r]] + k) % N] < Qty[r]
    BY DEF ScanInv, PassedTooSmall
  <2> QED
    BY <2>1, <2>2, <2>3 DEF StockInv, StockTypeOK
<1>3. SoldOutIsRight'
  <2> SUFFICES ASSUME faults = 0, NEW r \in Requests, soldOut[r], NEW b \in Buckets,
                      attempt[r] = N \/ OneQuantity
               PROVE  bucket'[b] < Qty[r]
    BY <1>1 DEF SoldOutIsRight, OneQuantity
  <2>1. bucket[b] < Qty[r]
    BY DEF ScanInv, SoldOutIsRight
  <2> QED
    BY <1>0, <2>1
<1> QED
  BY <1>1, <1>2, <1>3 DEF ScanInv

\* A step of the scan passes only a bucket that is too small, and a request is
\* failed only when all rows are.
LEMMA ScanDeduct ==
  ASSUME StockInv, ScanInv, NEW r \in Requests, DeductStock(r)
  PROVE  ScanInv'
<1> DEFINE b == NextRow(r)
<1>1. /\ attempt \in [Requests -> 0 .. N] /\ bucket \in [Buckets -> Int]
      /\ pc \in [Requests -> Pc] /\ pc[r] = "deduct"
      /\ Qty \in [Requests -> Nat]
      /\ UNCHANGED bucket
  BY ShopAssumption DEF StockInv, StockTypeOK, DeductStock
<1>2. ~soldOut[r]
  BY <1>1 DEF ScanInv
<1>3. CASE UNCHANGED <<attempt, soldOut, faults>> /\ Goto(r, "commit")
  BY <1>1, <1>3, ScanFrame DEF Goto
<1>4. CASE /\ attempt' = [attempt EXCEPT ![r] = @ + 1] /\ ~BucketFits(r, b)
           /\ DeductReady(r)
           /\ UNCHANGED <<soldOut, faults, pc>>
  <2>1. bucket[b] < Qty[r]
    <3>1. Home[KeyOf[r]] \in Nat /\ Qty[r] \in Nat
      BY ShopAssumption, LockAssumption DEF Users, Requests, Buckets
    <3>2. b \in Buckets
      BY <1>1, <3>1, ModRange DEF NextRow
    <3> QED
      BY <1>1, <1>4, <3>1, <3>2 DEF BucketFits
  <2>2. PassedTooSmall'
    <3> SUFFICES ASSUME faults = 0, NEW s \in Requests,
                        NEW k \in 0 .. attempt'[s] - 1
                 PROVE  bucket[(Home[KeyOf[s]] + k) % N] < Qty[s]
      BY <1>1, <1>4 DEF PassedTooSmall
    <3>1. CASE s = r /\ k = attempt[r]
      BY <2>1, <3>1 DEF NextRow
    <3>2. CASE k \in 0 .. attempt[s] - 1
      BY <3>2 DEF ScanInv, PassedTooSmall
    <3>3. (s = r /\ k = attempt[r]) \/ k \in 0 .. attempt[s] - 1
      BY <1>1, <1>4
    <3> QED
      BY <3>1, <3>2, <3>3
  <2>3. \A s \in Requests : soldOut[s] => s # r /\ attempt'[s] = attempt[s]
    BY <1>1, <1>2, <1>4
  <2>4. SoldOutIsRight'
    BY <1>1, <1>4, <2>3 DEF ScanInv, SoldOutIsRight, OneQuantity
  <2> QED
    BY <1>4, <2>2, <2>4 DEF ScanInv
<1>5. ASSUME soldOut' = [soldOut EXCEPT ![r] = TRUE], Goto(r, "settle"),
             UNCHANGED <<attempt, faults>>,
             faults = 0 /\ (attempt[r] = N \/ OneQuantity) => \A x \in Buckets : bucket[x] < Qty[r]
      PROVE  ScanInv'
  <2>1. SoldOutIsRight'
    BY <1>1, <1>5 DEF ScanInv, SoldOutIsRight, OneQuantity
  <2>2. PassedTooSmall'
    BY <1>1, <1>5 DEF ScanInv, PassedTooSmall
  <2>3. \A s \in Requests : soldOut'[s] => pc'[s] \in {"settle", "unlock", "end"}
    BY <1>1, <1>5 DEF ScanInv, Goto
  <2> QED
    BY <1>5, <2>1, <2>2, <2>3 DEF ScanInv
<1>6. ASSUME faults = 0, attempt[r] = N, NEW x \in Buckets PROVE bucket[x] < Qty[r]
  <2>1. Home[KeyOf[r]] \in Buckets
    BY ShopAssumption, LockAssumption DEF Users, Requests
  <2>2. PICK k \in 0 .. N - 1 : (Home[KeyOf[r]] + k) % N = x
    BY <2>1, ScanCoversAll
  <2> QED
    BY <1>6, <2>2 DEF ScanInv, PassedTooSmall
<1>7. ASSUME faults = 0, OneQuantity, InCircle(r), NEW x \in Buckets PROVE bucket[x] < Qty[r]
  <2>1. PICK C \in SUBSET Requests : r \in C /\ \A c \in C : \E d \in C : WaitsFor(c, d)
    BY <1>7 DEF InCircle
  <2>2. PICK c \in C : Passed(c, x)
    BY <2>1, CircleCoversAll
  <2>3. bucket[x] < Qty[c]
    BY <1>7, <2>2 DEF Passed, ScanInv, PassedTooSmall
  <2> QED
    BY <1>7, <2>3 DEF OneQuantity
<1>8. CASE /\ soldOut' = [soldOut EXCEPT ![r] = TRUE] /\ Goto(r, "settle")
           /\ DeductExhausted(r) \/ InCircle(r)
           /\ UNCHANGED <<attempt, faults>>
  BY <1>5, <1>6, <1>7, <1>8 DEF DeductExhausted
<1>9. CASE /\ soldOut' = [soldOut EXCEPT ![r] = TRUE] /\ Goto(r, "settle")
           /\ faults' = faults + 1 /\ UNCHANGED attempt
  <2>1. faults' \in Nat \ {0}
    BY <1>9 DEF ScanInv
  <2>2. \A s \in Requests : soldOut'[s] => pc'[s] \in {"settle", "unlock", "end"}
    BY <1>1, <1>9 DEF ScanInv, Goto
  <2> QED
    BY <1>9, <2>1, <2>2 DEF ScanInv, PassedTooSmall, SoldOutIsRight
<1> QED
  BY <1>3, <1>4, <1>8, <1>9 DEF DeductStock, DeductExhausted, Fault, bounds

\* The other steps leave the scan alone and never raise a bucket.
LEMMA ScanOther ==
  ASSUME StockInv, [Next]_vars, ~\E r \in Requests : DeductStock(r)
  PROVE  /\ UNCHANGED <<attempt, soldOut>>
         /\ faults' \in {faults, faults + 1}
         /\ \A r \in Requests : pc[r] \in {"settle", "unlock", "end"}
                                 => pc'[r] \in {"settle", "unlock", "end"}
         /\ \A b \in Buckets : bucket'[b] <= bucket[b]
<1> DEFINE Over == {"settle", "unlock", "end"}
<1> USE DEF bounds, reqVars, Fault
<1>0. /\ bucket \in [Buckets -> Int] /\ Qty \in [Requests -> Nat]
      /\ pc \in [Requests -> Pc]
  BY ShopAssumption DEF StockInv, StockTypeOK
<1>1. ASSUME NEW r \in Requests, Commit(r)
      PROVE  /\ UNCHANGED <<attempt, soldOut>>
             /\ faults' \in {faults, faults + 1}
             /\ \A s \in Requests : pc[s] \in Over => pc'[s] \in Over
             /\ \A b \in Buckets : bucket'[b] <= bucket[b]
  <2>1. bucket' = bucket \/ bucket' = [bucket EXCEPT ![took[r]] = @ - Qty[r]]
    BY <1>1 DEF Commit, CommitTx
  <2>2. \A b \in Buckets : bucket'[b] <= bucket[b]
    BY <1>0, <2>1
  <2>3. \A s \in Requests : pc[s] \in Over => pc'[s] \in Over
    BY <1>0, <1>1 DEF Commit, Goto
  <2> QED
    BY <1>1, <2>2, <2>3 DEF Commit
<1>2. CASE /\ UNCHANGED <<attempt, soldOut, bucket>> /\ faults' \in {faults, faults + 1}
           /\ \A s \in Requests : pc[s] \in Over => pc'[s] \in Over
  BY <1>0, <1>2
<1>3. ASSUME NEW r \in Requests,
             \/ AcquireLock(r) \/ IsRedeemSoldOut(r) \/ FindItem(r)
             \/ TryAcquireRedeem(r) \/ CheckPoints(r)
             \/ Settle(r) \/ ReleaseLock(r) \/ Cancel(r)
      PROVE  /\ UNCHANGED <<attempt, soldOut, bucket>> /\ faults' \in {faults, faults + 1}
             /\ \A s \in Requests : pc[s] \in Over => pc'[s] \in Over
  <2>1. UNCHANGED <<attempt, soldOut, bucket>> /\ faults' \in {faults, faults + 1}
    BY <1>3 DEF AcquireLock, IsRedeemSoldOut, FindItem, TryAcquireRedeem,
       CheckPoints, Settle, ReleaseLock, Cancel, Stop
  <2>2. CASE Cancel(r)
    BY <1>0, <2>1, <2>2 DEF Cancel, Stop
  <2>3. CASE ~Cancel(r)
    <3>1. PICK to : Goto(r, to) /\ (pc[r] \in Over => to \in Over)
      BY <1>3, <2>3 DEF AcquireLock, IsRedeemSoldOut, FindItem, TryAcquireRedeem,
         CheckPoints, Settle, ReleaseLock
    <3> QED
      BY <1>0, <2>1, <3>1 DEF Goto
  <2> QED
    BY <2>2, <2>3
<1>4. CASE \/ \E p \in Pods : Crash(p)
           \/ \E u \in Users : ExpireLock(u)
           \/ ExpireCounter \/ Replicate \/ ReconcileRead \/ ReconcileSet
           \/ UNCHANGED vars
  <2>1. UNCHANGED <<attempt, soldOut, bucket, faults>>
    BY <1>4 DEF Crash, Stop, ExpireLock, ExpireCounter, Replicate,
       ReconcileRead, ReconcileSet, vars
  <2>2. \A s \in Requests : pc[s] \in Over => pc'[s] \in Over
    BY <1>0, <1>4 DEF Crash, Stop, ExpireLock, ExpireCounter, Replicate,
       ReconcileRead, ReconcileSet, vars
  <2> QED
    BY <1>0, <2>1, <2>2
<1> QED
  BY <1>1, <1>2, <1>3, <1>4 DEF Next, Redeem

\* Every step keeps the scan invariant.
LEMMA ScanStep == StockInv /\ ScanInv /\ [Next]_vars => ScanInv'
<1> SUFFICES ASSUME StockInv, ScanInv, [Next]_vars PROVE ScanInv'
  OBVIOUS
<1>1. CASE \E r \in Requests : DeductStock(r)
  BY <1>1, ScanDeduct
<1>2. CASE ~\E r \in Requests : DeductStock(r)
  <2>1. bucket' \in [Buckets -> Int]
    BY StockStep DEF StockInv, StockTypeOK
  <2> QED
    BY <1>2, <2>1, ScanOther, ScanFrame
<1> QED
  BY <1>1, <1>2

\* Nobody has scanned a bucket at the start.
LEMMA ScanInit == Init => ScanInv
BY DEF Init, ScanInv, PassedTooSmall, SoldOutIsRight

\* The invariant says it.
LEMMA ScanMeans == StockInv /\ ScanInv => SoldOutMeansNoBucketFits
<1> SUFFICES ASSUME StockInv, ScanInv, NEW r \in Requests, soldOut[r], faults = 0,
                    attempt[r] = N \/ \A s \in Requests : Qty[s] = Qty[r],
                    NEW b \in Buckets
             PROVE  bucket[b] < Qty[r]
  BY DEF SoldOutMeansNoBucketFits
<1>1. attempt[r] = N \/ OneQuantity
  BY DEF OneQuantity
<1> QED
  BY <1>1 DEF ScanInv, SoldOutIsRight

\* DeductStock reports "sold out" only when no bucket can serve the request,
\* for every number of buckets and every mix of quantities; for requests of one
\* quantity also to the request the database fails to break a circle of waits.
THEOREM ShopSoldOut == Spec => []SoldOutMeansNoBucketFits
BY ScanInit, ScanMeans, StockInit, StockStep, ScanStep, PTL DEF Spec

-----------------------------------------------------------------------------
\* Until a lock expires, a request inside Redeem owns its user's key.
Inside(r) == pc[r] \notin {"lock", "end"}

MutexInv ==
    /\ expiries \in Nat
    /\ pc \in [Requests -> Pc]
    /\ redisLock \in [Users -> Tokens]
    /\ expiries = 0 => \A r \in Requests : Inside(r) => redisLock[KeyOf[r]] = r

\* Nobody is inside at the start.
LEMMA MutexInit == Init => MutexInv
BY DEF Init, MutexInv, LockInit, Inside, Pc, Tokens, Users

\* A step that moves r, keeps the lock, and lets nobody new in.
LEMMA MutexFrame ==
  ASSUME MutexInv, UNCHANGED redisLock,
         pc' \in [Requests -> Pc],
         \A s \in Requests : Inside(s)' => Inside(s),
         expiries' = expiries
  PROVE  MutexInv'
BY DEF MutexInv

\* The same for a request that moves on inside, or leaves.
LEMMA MutexGoto ==
  ASSUME MutexInv, UNCHANGED <<redisLock, expiries>>,
         NEW r \in Requests, NEW to \in Pc, Goto(r, to),
         Inside(r) \/ to = "end"
  PROVE  MutexInv'
<1>1. pc' \in [Requests -> Pc]
  BY DEF MutexInv, Goto
<1>2. \A s \in Requests : Inside(s)' => Inside(s)
  BY DEF MutexInv, Goto, Inside
<1> QED
  BY <1>1, <1>2, MutexFrame

\* SET NX lets r in only when the user's key is free.
LEMMA MutexAcquire ==
  ASSUME MutexInv, NEW r \in Requests, AcquireLock(r)
  PROVE  MutexInv'
<1>1. /\ KeyOf \in [Requests -> Users] /\ r \in Tokens
      /\ \A s \in Requests : s # NoClient
  BY LockAssumption DEF Requests, Users, Tokens
<1>2. CASE /\ LockFree(r) /\ SetLock(r) /\ UNCHANGED expiries
           /\ Goto(r, "peak") \/ Goto(r, "end")
  <2>1. PICK to \in {"peak", "end"} : pc' = [pc EXCEPT ![r] = to]
    BY <1>2 DEF Goto
  <2>2. pc' \in [Requests -> Pc]
    BY <2>1 DEF MutexInv, Pc
  <2>3. redisLock' \in [Users -> Tokens]
    BY <1>1, <1>2 DEF MutexInv, SetLock
  <2>4. ASSUME expiries = 0, NEW s \in Requests, Inside(s)'
        PROVE  redisLock'[KeyOf[s]] = s
    <3>1. CASE s = r
      BY <1>1, <1>2, <3>1 DEF SetLock, MutexInv
    <3>2. CASE s # r
      <4>1. Inside(s)
        BY <2>1, <2>4, <3>2 DEF Inside, MutexInv
      <4>2. redisLock[KeyOf[s]] = s
        BY <2>4, <4>1 DEF MutexInv
      <4>3. KeyOf[s] # KeyOf[r]
        BY <1>1, <1>2, <4>2 DEF LockFree
      <4> QED
        BY <1>1, <1>2, <4>2, <4>3 DEF SetLock, MutexInv
    <3> QED
      BY <3>1, <3>2
  <2> QED
    BY <1>2, <2>2, <2>3, <2>4 DEF MutexInv
<1>3. CASE Goto(r, "end") /\ UNCHANGED <<redisLock, expiries>>
  BY <1>3, MutexGoto DEF Pc
<1> QED
  BY <1>2, <1>3 DEF AcquireLock, Lock, LockReplyLost, lockVars, bounds, Fault

\* Unlock removes at most the key of the request that leaves.
LEMMA MutexRelease ==
  ASSUME MutexInv, NEW r \in Requests, ReleaseLock(r)
  PROVE  MutexInv'
<1>1. KeyOf \in [Requests -> Users] /\ NoClient \in Tokens
  BY LockAssumption DEF Requests, Users, Tokens
<1>2. /\ pc' = [pc EXCEPT ![r] = "end"] /\ pc[r] = "unlock"
      /\ expiries' = expiries
  BY DEF ReleaseLock, Goto, bounds, Fault
<1>3. \/ redisLock' = redisLock
      \/ redisLock' = [redisLock EXCEPT ![KeyOf[r]] = NoClient]
  BY DEF ReleaseLock, Unlock
<1>4. pc' \in [Requests -> Pc] /\ redisLock' \in [Users -> Tokens]
  BY <1>1, <1>2, <1>3 DEF MutexInv, Pc
<1>5. ASSUME expiries = 0, NEW s \in Requests, Inside(s)'
      PROVE  redisLock'[KeyOf[s]] = s
  <2>1. s # r /\ Inside(s) /\ Inside(r)
    BY <1>2, <1>5 DEF Inside, MutexInv
  <2>2. redisLock[KeyOf[s]] = s /\ redisLock[KeyOf[r]] = r
    BY <1>5, <2>1 DEF MutexInv
  <2> QED
    BY <1>1, <1>3, <2>1, <2>2 DEF MutexInv
<1> QED
  BY <1>2, <1>4, <1>5 DEF MutexInv

\* Every step keeps the lock invariant.
LEMMA MutexStep == MutexInv /\ [Next]_vars => MutexInv'
<1> SUFFICES ASSUME MutexInv, [Next]_vars PROVE MutexInv'
  OBVIOUS
<1> USE DEF bounds, reqVars, lockVars, Fault
<1>1. ASSUME NEW r \in Requests, AcquireLock(r) PROVE MutexInv'
  BY <1>1, MutexAcquire
<1>2. ASSUME NEW r \in Requests, ReleaseLock(r) PROVE MutexInv'
  BY <1>2, MutexRelease
<1>3. ASSUME NEW r \in Requests,
             \/ IsRedeemSoldOut(r) \/ FindItem(r) \/ TryAcquireRedeem(r)
             \/ CheckPoints(r) \/ Commit(r) \/ Settle(r)
      PROVE  MutexInv'
  <2>1. Inside(r) /\ UNCHANGED <<redisLock, expiries>>
    BY <1>3 DEF IsRedeemSoldOut, FindItem, TryAcquireRedeem, CheckPoints,
       Commit, Settle, Inside
  <2>2. PICK to \in Pc : Goto(r, to)
    BY <1>3 DEF IsRedeemSoldOut, FindItem, TryAcquireRedeem, CheckPoints,
       Commit, Settle, Pc
  <2> QED
    BY <2>1, <2>2, MutexGoto
<1>4. ASSUME NEW r \in Requests, DeductStock(r) PROVE MutexInv'
  <2>1. Inside(r) /\ UNCHANGED <<redisLock, expiries>>
    BY <1>4 DEF DeductStock, Inside
  <2>2. UNCHANGED pc \/ Goto(r, "commit") \/ Goto(r, "settle")
    BY <1>4 DEF DeductStock
  <2>3. CASE UNCHANGED pc
    BY <2>1, <2>3, MutexFrame DEF Inside, MutexInv
  <2> QED
    BY <2>1, <2>2, <2>3, MutexGoto DEF Pc
<1>5. ASSUME NEW R, Stop(R), UNCHANGED redisLock PROVE MutexInv'
  <2>1. pc' \in [Requests -> Pc] /\ expiries' = expiries
    BY <1>5 DEF Stop, MutexInv, Pc
  <2>2. \A s \in Requests : Inside(s)' => Inside(s)
    BY <1>5 DEF Stop, Inside, MutexInv
  <2> QED
    BY <1>5, <2>1, <2>2, MutexFrame
<1>6. ASSUME NEW r \in Requests, Cancel(r) PROVE MutexInv'
  BY <1>5, <1>6 DEF Cancel
<1>7. ASSUME NEW p \in Pods, Crash(p) PROVE MutexInv'
  BY <1>5, <1>7 DEF Crash, LoseTokens
<1>8. ASSUME NEW u \in Users, ExpireLock(u) PROVE MutexInv'
  <2>1. expiries' \in Nat \ {0} /\ UNCHANGED pc
    BY <1>8 DEF ExpireLock, MutexInv
  <2>2. redisLock' \in [Users -> Tokens]
    BY <1>8 DEF ExpireLock, LockExpires, MutexInv, Tokens
  <2> QED
    BY <2>1, <2>2 DEF MutexInv
<1>9. CASE ExpireCounter
  <2>1. expiries' \in Nat \ {0} /\ UNCHANGED <<pc, redisLock>>
    BY <1>9 DEF ExpireCounter, MutexInv
  <2> QED
    BY <2>1 DEF MutexInv
<1>10. CASE Replicate \/ ReconcileRead \/ ReconcileSet \/ UNCHANGED vars
  <2>1. UNCHANGED <<pc, redisLock, expiries>>
    BY <1>10 DEF Replicate, ReconcileRead, ReconcileSet, vars
  <2> QED
    BY <2>1, MutexFrame DEF Inside, MutexInv
<1> QED
  BY <1>1, <1>2, <1>3, <1>4, <1>6, <1>7, <1>8, <1>9, <1>10 DEF Next, Redeem

\* The lock of Redeem is a mutual exclusion per user across all pods for as
\* long as no key reaches its TTL.
THEOREM ShopOneRedeemPerUser == Spec => []OneRedeemPerUser
<1>1. MutexInv => OneRedeemPerUser
  BY DEF MutexInv, OneRedeemPerUser, Inside
<1> QED
  BY <1>1, MutexInit, MutexStep, PTL DEF Spec
-----------------------------------------------------------------------------
(* The total over the buckets.                                             *)

\* TotalStock is the sum the theorems on sums are about.
LEMMA TotalIsSum ==
  ASSUME bucket \in [Buckets -> Int]
  PROVE  TotalStock = SumFunctionOnSet(bucket, Buckets)
BY DEF TotalStock, SumFunction

\* The rows of an item are finitely many.
LEMMA BucketsSummable ==
  ASSUME NEW f \in [Buckets -> Int]
  PROVE  Summable(f, Buckets)
<1>1. IsFiniteSet(Buckets)
  BY ShopAssumption, FS_Interval DEF Buckets
<1> QED
  BY <1>1 DEF Summable

\* The stock in the buckets 0 .. k - 1 after makeBuckets.
Share(k) == k * (Total \div N) + IF k < Total % N THEN k ELSE Total % N

\* makeBuckets distributes the whole stock and no more, for every number of
\* buckets and every total.
THEOREM MakeBucketsTotal == SumFunctionOnSet(MakeBuckets, Buckets) = Total
<1> DEFINE q == Total \div N
           m == Total % N
           G == {k \in Nat : k <= N => SumFunctionOnSet(MakeBuckets, 0 .. k - 1) = Share(k)}
<1>0. /\ N \in Nat /\ N > 0 /\ Total \in Nat /\ q \in Nat /\ m \in Nat /\ m < N
      /\ Total = N * q + m
  BY ShopAssumption
<1>1. 0 \in G
  <2>1. 0 .. 0 - 1 = {}
    OBVIOUS
  <2>2. Share(0) = 0
    BY <1>0 DEF Share
  <2> QED
    BY <2>1, <2>2, SumOfNothing
<1>2. ASSUME NEW k \in Nat, k \in G PROVE k + 1 \in G
  <2> SUFFICES ASSUME k + 1 <= N
               PROVE  SumFunctionOnSet(MakeBuckets, 0 .. (k + 1) - 1) = Share(k + 1)
    OBVIOUS
  <2>1. 0 .. (k + 1) - 1 = (0 .. k - 1) \cup {k} /\ k \notin 0 .. k - 1
    OBVIOUS
  <2>2. k \in Buckets /\ 0 .. k - 1 \subseteq Buckets
    BY <1>0 DEF Buckets
  <2>3. Summable(MakeBuckets, 0 .. k - 1) /\ MakeBuckets[k] \in Int
    <3>1. \A b \in Buckets : MakeBuckets[b] \in Int
      BY MakeBucketsNat
    <3>2. IsFiniteSet(0 .. k - 1)
      BY FS_Interval
    <3> QED
      BY <2>2, <3>1, <3>2 DEF Summable
  <2>4. SumFunctionOnSet(MakeBuckets, 0 .. (k + 1) - 1)
           = SumFunctionOnSet(MakeBuckets, 0 .. k - 1) + MakeBuckets[k]
    BY <2>1, <2>3, SumAdd
  <2>5. SumFunctionOnSet(MakeBuckets, 0 .. k - 1) = Share(k)
    BY <1>0, <1>2
  <2>6. MakeBuckets[k] = q + IF k < m THEN 1 ELSE 0
    BY <2>2 DEF MakeBuckets
  <2>7. (k + 1) * q = k * q + q /\ k * q \in Nat
    BY <1>0
  <2> HIDE DEF q, m
  <2>8. Share(k) = k * q + (IF k < m THEN k ELSE m)
        /\ Share(k + 1) = (k + 1) * q + (IF k + 1 < m THEN k + 1 ELSE m)
    BY DEF Share, q, m
  <2>9. /\ k < m => (IF k + 1 < m THEN k + 1 ELSE m) = k + 1
        /\ ~(k < m) => (IF k + 1 < m THEN k + 1 ELSE m) = m
    BY <1>0
  <2> QED
    BY <1>0, <2>4, <2>5, <2>6, <2>7, <2>8, <2>9
<1> HIDE DEF G
<1>3. N \in G
  BY <1>0, <1>1, <1>2, SetOfNat
<1>4. SumFunctionOnSet(MakeBuckets, 0 .. N - 1) = Share(N)
  BY <1>0, <1>3 DEF G
<1>5. Share(N) = Total
  BY <1>0 DEF Share
<1> QED
  BY <1>4, <1>5 DEF Buckets
-----------------------------------------------------------------------------
(* The Redis counter in front of the buckets.                              *)

Quiet ==
    /\ OneQuantity
    /\ faults = 0 /\ expiries = 0 /\ aborts = 0

Holders == {r \in Requests : acquired[r]}

\* In a quiet run every total somebody read, and still uses, is at least what
\* is left; the requests past the script and before their end are exactly those
\* that took from the counter; and the counter with them covers the stock.
CoverInv ==
    /\ faults \in Nat /\ expiries \in Nat /\ aborts \in Nat
    /\ Quiet =>
        /\ replica \in Int /\ replica >= TotalStock
        /\ opSeen # NoValue => opSeen \in Int /\ opSeen >= TotalStock
        /\ seen \in [Requests -> Int \cup {NoValue}]
        /\ \A r \in Requests : pc[r] = "acquire" => seen[r] \in Int /\ seen[r] >= TotalStock
        /\ acquired \in [Requests -> BOOLEAN]
        /\ \A r \in Requests : acquired[r] <=> pc[r] \in {"points", "deduct", "commit", "settle"}
        /\ IsFiniteSet(Holders)
        /\ counter = NoValue => Holders = {}
        /\ counter # NoValue => counter \in Int
        /\ counter # NoValue /\ StockOnSale => counter + Cardinality(Holders) >= TotalStock

\* The replica starts with the whole stock, and there is no counter yet.
LEMMA CoverInit == Init => CoverInv
<1> SUFFICES ASSUME Init PROVE CoverInv
  OBVIOUS
<1>1. TotalStock = Total
  <2>1. bucket = MakeBuckets /\ bucket \in [Buckets -> Int]
    BY MakeBucketsNat DEF Init
  <2>2. TotalStock = SumFunctionOnSet(bucket, Buckets)
    BY <2>1, TotalIsSum
  <2> QED
    BY <2>1, <2>2, MakeBucketsTotal
<1>2. Holders = {} /\ IsFiniteSet({})
  BY FS_EmptySet DEF Init, Holders
<1> QED
  BY <1>1, <1>2, ShopAssumption DEF Init, CoverInv

\* The three counts of adverse events only grow.
CountsGrow ==
    /\ faults' \in Nat /\ expiries' \in Nat /\ aborts' \in Nat
    /\ faults' = 0 => faults = 0 /\ ~Fault
    /\ expiries' = 0 => expiries = 0 /\ ~ExpireCounter /\ ~\E u \in Users : ExpireLock(u)
    /\ aborts' = 0 => aborts = 0 /\ \A R : ~Stop(R)

\* Faults, expiries and aborts are only counted up, so without them now there were none.
LEMMA Grow == ASSUME CoverInv, [Next]_vars PROVE CountsGrow
<1>0. faults \in Nat /\ expiries \in Nat /\ aborts \in Nat
  BY DEF CoverInv
<1>1. Fault => faults' = faults + 1 /\ UNCHANGED <<expiries, aborts>>
  BY DEF Fault
<1>2. ASSUME NEW R, Stop(R) PROVE aborts' = aborts + 1 /\ UNCHANGED <<faults, expiries>>
  BY <1>2 DEF Stop
<1>3. ASSUME ExpireCounter \/ \E u \in Users : ExpireLock(u)
      PROVE  expiries' = expiries + 1 /\ UNCHANGED <<faults, aborts>>
  BY <1>3 DEF ExpireCounter, ExpireLock
<1>4. ASSUME NEW r \in Requests, Redeem(r) PROVE Fault \/ UNCHANGED <<faults, expiries, aborts>>
  BY <1>4 DEF Redeem, AcquireLock, IsRedeemSoldOut, FindItem, TryAcquireRedeem,
     CheckPoints, DeductStock, Commit, Settle, ReleaseLock, bounds
<1>5. ASSUME Replicate \/ ReconcileRead \/ ReconcileSet \/ UNCHANGED vars
      PROVE  UNCHANGED <<faults, expiries, aborts>>
  BY <1>5 DEF Replicate, ReconcileRead, ReconcileSet, vars, bounds
<1>6. \/ Fault \/ \E R : Stop(R)
      \/ ExpireCounter \/ \E u \in Users : ExpireLock(u)
      \/ UNCHANGED <<faults, expiries, aborts>>
  BY <1>4, <1>5 DEF Next, Cancel, Crash
<1>7. faults' \in Nat /\ expiries' \in Nat /\ aborts' \in Nat
  BY <1>0, <1>1, <1>2, <1>3, <1>6
<1>8. /\ faults' = 0 => faults = 0 /\ ~Fault
      /\ expiries' = 0 => expiries = 0 /\ ~ExpireCounter /\ ~\E u \in Users : ExpireLock(u)
      /\ aborts' = 0 => aborts = 0
  BY <1>0, <1>1, <1>2, <1>3, <1>6
<1>9. aborts' = 0 => \A R : ~Stop(R)
  BY <1>0, <1>2
<1> QED
  BY <1>7, <1>8, <1>9 DEF CountsGrow

\* A quiet step either keeps the stock or is a commit, which takes at least one piece.
LEMMA TotalStep ==
  ASSUME StockInv, StockInv', [Next]_vars, Quiet
  PROVE  /\ TotalStock \in Int /\ TotalStock' \in Int
         /\ bucket' = bucket => TotalStock' = TotalStock /\ (StockOnSale' <=> StockOnSale)
         /\ \A r \in Requests : Commit(r) /\ bucket' # bucket =>
                TotalStock' <= TotalStock - 1 /\ (StockOnSale' => StockOnSale)
<1>1. /\ bucket \in [Buckets -> Int] /\ bucket' \in [Buckets -> Int]
      /\ TotalStock = SumFunctionOnSet(bucket, Buckets)
      /\ Summable(bucket, Buckets) /\ Summable(bucket', Buckets)
  BY TotalIsSum, BucketsSummable DEF StockInv, StockTypeOK
<1>2. TotalStock' = SumFunctionOnSet(bucket', Buckets)
  BY <1>1 DEF TotalStock, SumFunction
<1>3. TotalStock \in Int /\ TotalStock' \in Int
  BY <1>1, <1>2, SumType
<1>4. ASSUME NEW r \in Requests, Commit(r), bucket' # bucket
      PROVE  TotalStock' <= TotalStock - 1 /\ (StockOnSale' => StockOnSale)
  <2>0. Qty \in [Requests -> Nat] /\ Qty[r] \in Nat /\ Qty[r] >= 1
    BY ShopAssumption
  <2>1. took[r] \in Buckets
    BY <1>4 DEF StockInv, HoldersCommit, Commit
  <2>2. bucket' = [bucket EXCEPT ![took[r]] = @ - Qty[r]]
    BY <1>4 DEF Commit, CommitTx
  <2>3. bucket'[took[r]] = bucket[took[r]] - Qty[r]
    BY <1>1, <2>1, <2>2
  <2>4. \A b \in Buckets \ {took[r]} : bucket'[b] = bucket[b]
    BY <1>1, <2>2
  <2>5. bucket[took[r]] \in Int /\ bucket'[took[r]] \in Int
    BY <1>1, <2>1
  <2>6. SumFunctionOnSet(bucket', Buckets)
           = SumFunctionOnSet(bucket, Buckets) - bucket[took[r]] + bucket'[took[r]]
    BY <1>1, <2>1, <2>4, <2>5, SumChange
  <2>7. \A b \in Buckets : bucket'[b] <= bucket[b]
    BY <1>1, <2>0, <2>3, <2>4, <2>5
  <2>8. StockOnSale' => StockOnSale
    BY <1>1, <2>0, <2>7 DEF StockOnSale
  <2> QED
    BY <1>1, <1>2, <1>3, <2>0, <2>3, <2>5, <2>6, <2>8
<1>5. bucket' = bucket => (StockOnSale' <=> StockOnSale)
  BY DEF StockOnSale
<1> QED
  BY <1>1, <1>2, <1>3, <1>4, <1>5

\* When the database says "sold out" in a quiet run, nobody can be served.
LEMMA SoldOutIsOffSale ==
  ASSUME StockInv, ScanInv, Quiet, NEW r \in Requests, soldOut[r]
  PROVE  ~StockOnSale
<1>1. \A b \in Buckets : bucket[b] < Qty[r]
  BY DEF ScanInv, SoldOutIsRight, Quiet
<1>2. \A s \in Requests : Qty[s] = Qty[r]
  BY DEF Quiet, OneQuantity
<1>3. bucket \in [Buckets -> Int] /\ Qty[r] \in Nat
  BY ShopAssumption DEF StockInv, StockTypeOK
<1> QED
  BY <1>1, <1>2, <1>3 DEF StockOnSale

\* A quiet step keeps the counter and what was read from it above the stock.
LEMMA CoverStep ==
  ASSUME StockInv, StockInv', ScanInv, CoverInv, [Next]_vars
  PROVE  CoverInv'
<1>0. CountsGrow
  BY Grow
<1> SUFFICES ASSUME Quiet' PROVE CoverInv'
  BY <1>0 DEF CoverInv, CountsGrow
<1> DEFINE Busy == {"points", "deduct", "commit", "settle"}
           Card == Cardinality(Holders)
           Reads == /\ replica \in Int /\ replica >= TotalStock
                    /\ opSeen # NoValue => opSeen \in Int /\ opSeen >= TotalStock
           Finds == /\ seen \in [Requests -> Int \cup {NoValue}]
                    /\ \A r \in Requests : pc[r] = "acquire" =>
                                              seen[r] \in Int /\ seen[r] >= TotalStock
           Holds == /\ acquired \in [Requests -> BOOLEAN]
                    /\ \A r \in Requests : acquired[r] <=> pc[r] \in Busy
           Covers == /\ IsFiniteSet(Holders)
                     /\ counter = NoValue => Holders = {}
                     /\ counter # NoValue => counter \in Int
                     /\ counter # NoValue /\ StockOnSale => counter + Card >= TotalStock
<1>1. /\ Quiet /\ ~Fault /\ ~ExpireCounter /\ (\A u \in Users : ~ExpireLock(u))
      /\ \A R : ~Stop(R)
  BY <1>0 DEF Quiet, CountsGrow
<1>2. /\ Reads /\ Finds /\ Holds /\ Covers
      /\ pc \in [Requests -> Pc]
      /\ Card \in Nat
  <2>1. Reads /\ Finds /\ Holds /\ Covers
    BY <1>1 DEF CoverInv
  <2>2. Card \in Nat
    BY <2>1, FS_CardinalityType
  <2> QED
    BY <2>1, <2>2 DEF StockInv, StockTypeOK
<1>3. ASSUME Reads', Finds', Holds', Covers' PROVE CoverInv'
  BY <1>0, <1>3 DEF CoverInv, CountsGrow
<1>4. /\ TotalStock \in Int /\ TotalStock' \in Int
      /\ bucket' = bucket => TotalStock' = TotalStock /\ (StockOnSale' <=> StockOnSale)
      /\ \A r \in Requests : Commit(r) /\ bucket' # bucket =>
             TotalStock' <= TotalStock - 1 /\ (StockOnSale' => StockOnSale)
  BY <1>1, TotalStep
<1> HIDE DEF Busy
<1>5. ASSUME UNCHANGED <<replica, opSeen>>, TotalStock' <= TotalStock PROVE Reads'
  BY <1>2, <1>4, <1>5
<1>6. ASSUME UNCHANGED seen, TotalStock' <= TotalStock,
             \A r \in Requests : pc'[r] = "acquire" => pc[r] = "acquire"
      PROVE  Finds'
  BY <1>2, <1>4, <1>6
<1>7. ASSUME UNCHANGED <<counter, acquired, bucket>> PROVE Covers'
  <2>1. Holders' = Holders
    BY <1>7 DEF Holders
  <2> QED
    BY <1>2, <1>4, <1>7, <2>1
<1> HIDE DEF Reads, Finds, Holds, Covers
<1>8. ASSUME NEW r \in Requests,
             \/ AcquireLock(r) \/ IsRedeemSoldOut(r) \/ CheckPoints(r)
             \/ DeductStock(r) \/ ReleaseLock(r)
      PROVE  CoverInv'
  <2>1. UNCHANGED <<bucket, replica, opSeen, seen, acquired, counter>>
    BY <1>8 DEF AcquireLock, IsRedeemSoldOut, CheckPoints, DeductStock, ReleaseLock
  <2>2. \E to : /\ pc' = [pc EXCEPT ![r] = to] /\ to # "acquire"
                /\ to \in Busy <=> pc[r] \in Busy
    <3>1. CASE UNCHANGED pc /\ pc[r] = "deduct"
      <4>1. pc' = [pc EXCEPT ![r] = "deduct"]
        BY <1>2, <3>1
      <4> QED
        BY <3>1, <4>1
    <3>2. CASE ~(UNCHANGED pc /\ pc[r] = "deduct")
      BY <1>8, <3>2 DEF AcquireLock, IsRedeemSoldOut, CheckPoints, DeductStock, ReleaseLock,
         Goto, Busy
    <3> QED
      BY <3>1, <3>2
  <2>3. /\ \A q \in Requests : pc'[q] \in Busy <=> pc[q] \in Busy
        /\ \A q \in Requests : pc'[q] = "acquire" => pc[q] = "acquire"
    BY <1>2, <2>2
  <2>4. Holds'
    BY <1>2, <2>1, <2>3 DEF Holds
  <2> QED
    BY <1>3, <1>4, <1>5, <1>6, <1>7, <2>1, <2>3, <2>4
<1>9. ASSUME NEW r \in Requests, FindItem(r) PROVE CoverInv'
  <2>1. /\ UNCHANGED <<bucket, replica, opSeen, acquired, counter>> /\ pc[r] = "find"
        /\ seen' = [seen EXCEPT ![r] = replica]
    BY <1>1, <1>9 DEF FindItem
  <2>2. PICK to \in {"unlock", "acquire"} : pc' = [pc EXCEPT ![r] = to]
    BY <1>9 DEF FindItem, Goto
  <2>3. Holds'
    BY <1>2, <2>1, <2>2 DEF Holds, Busy
  <2>4. Finds'
    BY <1>2, <1>4, <2>1, <2>2 DEF Finds, Reads
  <2> QED
    BY <1>3, <1>4, <1>5, <1>7, <2>1, <2>3, <2>4
<1>10. ASSUME NEW r \in Requests, TryAcquireRedeem(r) PROVE CoverInv'
  <2>1. UNCHANGED <<bucket, replica, opSeen, seen>> /\ pc[r] = "acquire"
    BY <1>10 DEF TryAcquireRedeem
  <2>2. ~acquired[r] /\ seen[r] \in Int /\ seen[r] >= TotalStock /\ seen[r] # NoValue
    BY <1>2, <2>1, ShopAssumption DEF Holds, Finds, Busy
  <2>3. Seeded(r) \in Int /\ (StockOnSale => Seeded(r) + Card >= TotalStock)
    BY <1>2, <1>4, <2>2 DEF Seeded, Covers
  <2>4. CASE /\ counter' = Seeded(r) /\ Goto(r, "unlock") /\ UNCHANGED acquired
    <3>1. Holders' = Holders /\ counter' # NoValue
      BY <2>3, <2>4, ShopAssumption DEF Holders
    <3>2. Covers'
      BY <1>2, <1>4, <2>1, <2>3, <2>4, <3>1 DEF Covers
    <3>3. Holds'
      BY <1>2, <2>1, <2>4 DEF Holds, Busy, Goto
    <3>4. \A q \in Requests : pc'[q] = "acquire" => pc[q] = "acquire"
      BY <1>2, <2>4 DEF Goto
    <3> QED
      BY <1>3, <1>4, <1>5, <1>6, <2>1, <3>2, <3>3, <3>4
  <2>5. CASE /\ counter' = Seeded(r) - 1 /\ Goto(r, "points")
             /\ acquired' = [acquired EXCEPT ![r] = TRUE]
    <3>1. Holders' = Holders \cup {r} /\ r \notin Holders
      BY <1>2, <2>2, <2>5 DEF Holders, Holds
    <3>2. IsFiniteSet(Holders') /\ Card' = Card + 1
      BY <1>2, <3>1, FS_AddElement DEF Covers
    <3>3. counter' \in Int /\ counter' # NoValue /\ (StockOnSale => counter' + Card' >= TotalStock)
      BY <1>2, <1>4, <2>3, <2>5, <3>2, ShopAssumption
    <3>4. Covers'
      BY <1>4, <2>1, <3>2, <3>3 DEF Covers
    <3>5. Holds'
      BY <1>2, <2>1, <2>5 DEF Holds, Busy, Goto
    <3>6. \A q \in Requests : pc'[q] = "acquire" => pc[q] = "acquire"
      BY <1>2, <2>5 DEF Goto
    <3> QED
      BY <1>3, <1>4, <1>5, <1>6, <2>1, <3>4, <3>5, <3>6
  <2> QED
    BY <1>1, <1>10, <2>4, <2>5 DEF TryAcquireRedeem
<1>11. ASSUME NEW r \in Requests, Commit(r) PROVE CoverInv'
  <2>1. /\ UNCHANGED <<replica, opSeen, seen, counter>> /\ pc[r] = "commit"
        /\ acquired' = [acquired EXCEPT ![r] = FALSE] /\ Goto(r, "unlock")
        /\ bucket' = [bucket EXCEPT ![took[r]] = @ - Qty[r]]
    BY <1>1, <1>11 DEF Commit, CommitTx
  <2>2. bucket' # bucket
    <3>1. took[r] \in Buckets /\ bucket \in [Buckets -> Int] /\ Qty[r] \in Nat /\ Qty[r] > 0
      BY <1>1, <2>1, ShopAssumption DEF StockInv, HoldersCommit, StockTypeOK
    <3>2. bucket'[took[r]] = bucket[took[r]] - Qty[r] /\ bucket[took[r]] \in Int
      BY <2>1, <3>1
    <3> QED
      BY <3>1, <3>2
  <2>3. TotalStock' <= TotalStock - 1 /\ (StockOnSale' => StockOnSale)
    BY <1>4, <1>11, <2>2
  <2>4. acquired[r]
    BY <1>2, <2>1 DEF Holds, Busy
  <2>5. Holders' = Holders \ {r} /\ r \in Holders
    BY <1>2, <2>1, <2>4 DEF Holders, Holds
  <2>6. IsFiniteSet(Holders') /\ Card' = Card - 1
    BY <1>2, <2>5, FS_RemoveElement DEF Covers
  <2>7. Covers'
    BY <1>2, <1>4, <2>1, <2>3, <2>5, <2>6 DEF Covers
  <2>8. Holds'
    BY <1>2, <2>1 DEF Holds, Busy, Goto
  <2>9. \A q \in Requests : pc'[q] = "acquire" => pc[q] = "acquire"
    BY <1>2, <2>1 DEF Goto
  <2>10. TotalStock' <= TotalStock
    BY <1>4, <2>3
  <2> QED
    BY <1>3, <1>5, <1>6, <2>1, <2>7, <2>8, <2>9, <2>10
<1>12. ASSUME NEW r \in Requests, Settle(r) PROVE CoverInv'
  <2>1. /\ UNCHANGED <<bucket, replica, opSeen, seen>> /\ pc[r] = "settle"
        /\ acquired' = [acquired EXCEPT ![r] = FALSE] /\ Goto(r, "unlock")
    BY <1>12 DEF Settle
  <2>2. acquired[r]
    BY <1>2, <2>1 DEF Holds, Busy
  <2>3. Holders' = Holders \ {r} /\ r \in Holders
    BY <1>2, <2>1, <2>2 DEF Holders, Holds
  <2>4. IsFiniteSet(Holders') /\ Card' = Card - 1 /\ Card' \in Nat
    BY <1>2, <2>3, FS_RemoveElement, FS_CardinalityType DEF Covers
  <2>5. /\ counter # NoValue /\ counter \in Int
        /\ StockOnSale => counter + Card >= TotalStock
    BY <1>2, <2>3 DEF Covers
  <2>6. counter' = IF soldOut[r] THEN 0 ELSE counter + 1
    BY <1>1, <1>12, <2>2, <2>5 DEF Settle, Released
  <2>7. soldOut[r] => ~StockOnSale
    BY <1>1, SoldOutIsOffSale
  <2>8. counter' \in Int /\ (StockOnSale => counter' + Card' >= TotalStock)
    BY <1>2, <1>4, <2>4, <2>5, <2>6, <2>7
  <2>9. Covers'
    BY <1>4, <2>1, <2>4, <2>8, ShopAssumption DEF Covers
  <2>10. Holds'
    BY <1>2, <2>1 DEF Holds, Busy, Goto
  <2>11. \A q \in Requests : pc'[q] = "acquire" => pc[q] = "acquire"
    BY <1>2, <2>1 DEF Goto
  <2> QED
    BY <1>3, <1>4, <1>5, <1>6, <2>1, <2>9, <2>10, <2>11
<1>13. ASSUME Replicate \/ ReconcileRead \/ ReconcileSet \/ UNCHANGED vars
       PROVE  CoverInv'
  <2> USE DEF reqVars
  <2>1. UNCHANGED <<bucket, acquired, seen, pc>>
    BY <1>13 DEF Replicate, ReconcileRead, ReconcileSet, vars
  <2>2. Holders' = Holders
    BY <2>1 DEF Holders
  <2>3. Holds' /\ Finds'
    BY <1>2, <1>4, <2>1 DEF Holds, Finds
  <2>4. CASE Replicate
    <3>1. Reads'
      BY <1>2, <1>4, <2>1, <2>4 DEF Replicate, Reads
    <3> QED
      BY <1>3, <1>7, <2>1, <2>3, <2>4, <3>1 DEF Replicate
  <2>5. CASE ReconcileRead
    <3>1. Reads'
      BY <1>2, <1>4, <2>1, <2>5 DEF ReconcileRead, Reads
    <3> QED
      BY <1>3, <1>7, <2>1, <2>3, <2>5, <3>1 DEF ReconcileRead
  <2>6. CASE ReconcileSet
    <3>1. Reads'
      BY <1>2, <1>4, <2>1, <2>6 DEF ReconcileSet, Reads
    <3>2. counter' \in Int /\ counter' >= TotalStock /\ counter' # NoValue
      BY <1>2, <2>6 DEF ReconcileSet, Reads
    <3>3. Covers'
      BY <1>2, <1>4, <2>1, <2>2, <3>2 DEF Covers
    <3> QED
      BY <1>3, <2>3, <3>1, <3>3
  <2>7. CASE UNCHANGED vars
    BY <1>3, <1>4, <1>5, <1>7, <2>1, <2>3, <2>7 DEF vars
  <2> QED
    BY <1>13, <2>4, <2>5, <2>6, <2>7
<1> QED
  BY <1>1, <1>8, <1>9, <1>10, <1>11, <1>12, <1>13 DEF Next, Redeem, Cancel, Crash

\* For requests of one quantity, while no call fails, no key expires and no request
\* is cut off, the counter never turns anybody away while stock is left, for
\* every number of requests, users, pods and buckets and every total.
THEOREM ShopCounterCoversStock == Spec => []CounterCoversStock
<1>1. CoverInv => CounterCoversStock
  BY DEF CoverInv, CounterCoversStock, Quiet, OneQuantity, Holders
<1>2. StockInv /\ ScanInv /\ CoverInv /\ [Next]_vars => StockInv' /\ ScanInv' /\ CoverInv'
  BY StockStep, ScanStep, CoverStep
<1> QED
  BY <1>1, <1>2, StockInit, ScanInit, CoverInit, PTL DEF Spec
=============================================================================
