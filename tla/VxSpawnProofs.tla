--------------------------- MODULE VxSpawnProofs ---------------------------
(***************************************************************************)
(* What a call of vx_spawn.c guarantees on a device of any size and for    *)
(* any number of tasks: the record of its arguments outlives the workers   *)
(* that read it, and every task is run once.                               *)
(*                                                                         *)
(* A place is where a task can be run: a thread of a warp, in the stub for *)
(* all threads or in the one for the rest.  The arithmetic shows that a    *)
(* number has one place (OnePlace) and a task has one number               *)
(* (TaskNumbers).  The invariant says which places have run their tasks    *)
(* (Recorded).                                                             *)
(***************************************************************************)
EXTENDS VxSpawn, WellFoundedInduction, TLAPS

-----------------------------------------------------------------------------
(* Division                                                                *)

LEMMA Ahead ==
  ASSUME NEW m \in Nat, NEW a \in Nat, NEW b \in Nat, a < b
  PROVE  a * m + m <= b * m
<1>1. b - a - 1 \in Nat /\ b = a + 1 + (b - a - 1)
  OBVIOUS
<1>2. PICK n \in Nat : b = a + 1 + n
  BY <1>1
<1>3. b * m = a * m + m + n * m /\ n * m \in Nat /\ a * m \in Nat
  BY <1>2
<1>4. QED
  BY <1>3

LEMMA Quotient ==
  ASSUME NEW n \in Nat, NEW m \in Nat \ {0}
  PROVE  n \div m \in Nat /\ n % m \in 0 .. m - 1 /\ n = (n \div m) * m + (n % m)
<1>1. n \div m \in Nat /\ n % m \in 0 .. m - 1
  OBVIOUS
<1>2. n = m * (n \div m) + (n % m)
  OBVIOUS
<1>3. (n \div m) * m = m * (n \div m)
  BY <1>1
<1>4. QED
  BY <1>1, <1>2, <1>3

(* A number has one quotient and one remainder.                            *)
LEMMA QuotientUnique ==
  ASSUME NEW m \in Nat, NEW a \in Nat, NEW b \in Nat,
         NEW i \in 0 .. m - 1, NEW j \in 0 .. m - 1, a * m + i = b * m + j
  PROVE  a = b /\ i = j
<1>1. ~(a < b)
  <2>1. SUFFICES ASSUME a < b PROVE FALSE
    OBVIOUS
  <2>2. a * m + m <= b * m /\ a * m \in Nat /\ b * m \in Nat
    BY <2>1, Ahead
  <2>3. QED
    BY <2>2
<1>2. ~(b < a)
  <2>1. SUFFICES ASSUME b < a PROVE FALSE
    OBVIOUS
  <2>2. b * m + m <= a * m /\ a * m \in Nat /\ b * m \in Nat
    BY <2>1, Ahead
  <2>3. QED
    BY <2>2
<1>3. a = b
  BY <1>1, <1>2
<1>4. QED
  BY <1>3

LEMMA QuotientBelow ==
  ASSUME NEW n \in Nat, NEW m \in Nat \ {0}, NEW k \in Nat, n < k * m
  PROVE  n \div m < k
<1> DEFINE q == n \div m
           r == n % m
<1>1. q \in Nat /\ r \in Nat /\ n = q * m + r
  BY Quotient
<1> HIDE DEF q, r
<1>2. SUFFICES ASSUME k <= q PROVE FALSE
  BY <1>1 DEF q
<1>3. CASE k = q
  <2>1. k * m \in Nat
    OBVIOUS
  <2>2. QED
    BY <1>1, <1>3, <2>1
<1>4. CASE k < q
  <2>1. k * m + m <= q * m /\ k * m \in Nat /\ q * m \in Nat
    BY <1>1, <1>4, Ahead
  <2>2. QED
    BY <1>1, <2>1
<1>5. QED
  BY <1>1, <1>2, <1>3, <1>4

(* Of the numbers below n, n \div m have the remainder q modulo m, and one *)
(* more if q is below n % m.                                               *)
LEMMA Stripe ==
  ASSUME NEW n \in Nat, NEW m \in Nat \ {0}, NEW q \in 0 .. m - 1, NEW k \in Nat
  PROVE  k < n \div m + (IF q < n % m THEN 1 ELSE 0) <=> k * m + q < n
<1> DEFINE d == n \div m
           r == n % m
<1>1. d \in Nat /\ r \in 0 .. m - 1 /\ n = d * m + r
  BY Quotient
<1> HIDE DEF d, r
<1>2. k * m \in Nat /\ d * m \in Nat
  BY <1>1
<1>3. CASE k < d
  <2>1. k * m + m <= d * m
    BY <1>1, <1>3, Ahead
  <2>2. QED
    BY <1>1, <1>2, <1>3, <2>1 DEF d, r
<1>4. CASE k = d
  BY <1>1, <1>2, <1>4 DEF d, r
<1>5. CASE d < k
  <2>1. d * m + m <= k * m
    BY <1>1, <1>5, Ahead
  <2>2. QED
    BY <1>1, <1>2, <1>5, <2>1 DEF d, r
<1>6. QED
  BY <1>1, <1>3, <1>4, <1>5

-----------------------------------------------------------------------------
(* The rows of warps in a core                                             *)

LEMMA Sizes ==
  /\ NumCores \in Nat \ {0} /\ NumWarps \in Nat \ {0} /\ NumThreads \in Nat \ {0}
  /\ CoresPerCluster \in Nat \ {0}
  /\ CoreThreads \in Nat \ {0} /\ ClusterThreads \in Nat \ {0}
<1>1. /\ NumCores \in Nat \ {0} /\ NumWarps \in Nat \ {0} /\ NumThreads \in Nat \ {0}
      /\ CoresPerCluster \in Nat \ {0}
  BY DeviceAssumption
<1>2. CoreThreads \in Nat \ {0}
  BY <1>1 DEF CoreThreads
<1>3. ClusterThreads \in Nat \ {0}
  BY <1>1, <1>2 DEF ClusterThreads
<1>4. QED
  BY <1>1, <1>2, <1>3

(* The record of a core with n rows of threads: as many turns for every    *)
(* warp as fit, and one more for the first of them.  A core with less rows *)
(* than warps may also write it as one turn for the warps it spawns.       *)
Even(a, n) == a.NWs = n \div NumWarps /\ a.RWs = n % NumWarps
Single(a, n) == n < NumWarps /\ a.NWs = 1 /\ a.RWs = 0

LEMMA StripedRows ==
  ASSUME NEW n \in Nat, NEW a, Even(a, n) \/ Single(a, n),
         NEW wid \in 0 .. NumWarps - 1, NEW i \in Nat
  PROVE  wid < Smaller(n, NumWarps) /\ i < Turns(a, wid) <=> i * NumWarps + wid < n
<1>1. NumWarps \in Nat \ {0} /\ i * NumWarps \in Nat
  BY Sizes
<1>2. CASE Single(a, n)
  <2>1. i < Turns(a, wid) <=> i = 0
    BY <1>1, <1>2 DEF Single, Turns
  <2>2. i # 0 => i * NumWarps >= NumWarps
    <3>1. i # 0 => 0 * NumWarps + NumWarps <= i * NumWarps
      BY <1>1, Ahead
    <3>2. QED
      BY <1>1, <3>1
  <2>3. QED
    BY <1>1, <1>2, <2>1, <2>2 DEF Single, Smaller
<1>3. CASE Even(a, n)
  <2>1. i < Turns(a, wid) <=> i * NumWarps + wid < n
    <3>1. Turns(a, wid) = (n \div NumWarps) + (IF wid < n % NumWarps THEN 1 ELSE 0)
      BY <1>3 DEF Even, Turns
    <3>2. i < (n \div NumWarps) + (IF wid < n % NumWarps THEN 1 ELSE 0) <=>
            i * NumWarps + wid < n
      BY <1>1, Stripe, Zenon
    <3>3. QED
      BY <3>1, <3>2, Zenon
  <2>2. i * NumWarps + wid < n => wid < Smaller(n, NumWarps)
    BY <1>1 DEF Smaller
  <2>3. QED
    BY <2>1, <2>2
<1>4. QED
  BY <1>2, <1>3

(* The blocks of rows of the warps follow each other and end at n.         *)
LEMMA BlocksOfRows ==
  ASSUME NEW n \in Nat, NEW a, Single(a, n) \/ (Even(a, n) /\ n >= NumWarps)
  PROVE  /\ \A u \in 0 .. NumWarps - 1 : FirstRow(a, u) \in Nat /\ Turns(a, u) \in Nat
         /\ \A u \in 0 .. NumWarps - 1 :
              u < Smaller(n, NumWarps) => FirstRow(a, u) + Turns(a, u) <= n
         /\ \A u, v \in 0 .. NumWarps - 1 : u < v =>
              FirstRow(a, u) + Turns(a, u) <= FirstRow(a, v)
         /\ \A row \in 0 .. n - 1 : \E u \in 0 .. NumWarps - 1 :
              /\ u < Smaller(n, NumWarps)
              /\ FirstRow(a, u) <= row /\ row < FirstRow(a, u) + Turns(a, u)
<1>1. NumWarps \in Nat \ {0}
  BY Sizes
<1>2. CASE Single(a, n)
  <2>1. a.NWs = 1 /\ a.RWs = 0 /\ n < NumWarps
    BY <1>2 DEF Single
  <2>2. \A u \in 0 .. NumWarps - 1 : FirstRow(a, u) = u /\ Turns(a, u) = 1
    BY <1>1, <2>1 DEF FirstRow, Turns, Smaller
  <2>3. Smaller(n, NumWarps) = n
    BY <2>1 DEF Smaller
  <2>4. QED
    BY <1>1, <2>1, <2>2, <2>3
<1>3. CASE Even(a, n) /\ n >= NumWarps
  <2> DEFINE k == a.NWs
             r == a.RWs
             f(u) == u * k + Smaller(r, u)
  <2>0. k \in Nat /\ r \in 0 .. NumWarps - 1 /\ n = k * NumWarps + r
    BY <1>1, <1>3, Quotient DEF Even
  <2>1. k \in Nat /\ r \in Nat /\ r < NumWarps
    BY <1>1, <2>0
  <2>2. k >= 1
    <3>1. SUFFICES ASSUME k = 0 PROVE FALSE
      BY <2>1
    <3>2. n = r
      BY <1>1, <2>0, <3>1
    <3>3. QED
      BY <1>1, <1>3, <2>1, <3>2
  <2>3. Smaller(n, NumWarps) = NumWarps
    BY <1>1, <1>3 DEF Smaller
  <2>4. \A u \in Nat : FirstRow(a, u) = f(u) /\ Turns(a, u) = k + (IF u < r THEN 1 ELSE 0)
    <3>1. \A u \in Nat : k * u = u * k
      BY <2>1
    <3>2. QED
      BY <3>1 DEF FirstRow, Turns
  <2> HIDE DEF k, r
  <2>5. \A u \in Nat : u * k \in Nat /\ f(u) \in Nat
    BY <2>1 DEF Smaller
  <2>6. ASSUME NEW u \in Nat, NEW v \in Nat, u < v
        PROVE  FirstRow(a, u) + Turns(a, u) <= f(v)
    <3>1. u * k + k <= v * k /\ u * k \in Nat /\ v * k \in Nat
      BY <2>1, <2>6, Ahead
    <3>2. /\ FirstRow(a, u) = u * k + Smaller(r, u)
          /\ Turns(a, u) = k + (IF u < r THEN 1 ELSE 0)
      BY <2>4
    <3>3. Smaller(r, u) + (IF u < r THEN 1 ELSE 0) <= Smaller(r, v)
      BY <2>1, <2>6 DEF Smaller
    <3>4. Smaller(r, u) \in Nat /\ Smaller(r, v) \in Nat
      BY <2>1 DEF Smaller
    <3>5. QED
      BY <2>1, <3>1, <3>2, <3>3, <3>4
  <2>7. f(NumWarps) = n
    <3>1. NumWarps * k = k * NumWarps /\ k * NumWarps \in Nat
      BY <1>1, <2>1
    <3>2. QED
      BY <1>1, <2>0, <3>1 DEF Smaller
  <2>8. ASSUME NEW row \in 0 .. n - 1
        PROVE  \E u \in 0 .. NumWarps - 1 :
                 FirstRow(a, u) <= row /\ row < FirstRow(a, u) + Turns(a, u)
    <3>1. r * k \in Nat /\ r * (k + 1) = r * k + r /\ k + 1 \in Nat \ {0}
      BY <2>1
    <3>2. CASE row < r * (k + 1)
      <4> DEFINE u == row \div (k + 1)
                 j == row % (k + 1)
      <4>1. u \in Nat /\ j \in 0 .. k /\ row = u * (k + 1) + j
        <5>1. row \in Nat
          OBVIOUS
        <5>2. u \in Nat /\ j \in 0 .. (k + 1) - 1 /\ row = u * (k + 1) + j
          BY <3>1, <5>1, Quotient
        <5>3. QED
          BY <2>1, <5>2
      <4>2. u < r
        BY <2>1, <3>1, <3>2, QuotientBelow
      <4> HIDE DEF u, j
      <4>3. u * (k + 1) = u * k + u /\ u * k \in Nat
        BY <2>1, <4>1
      <4>4. FirstRow(a, u) = u * k + u /\ Turns(a, u) = k + 1
        <5>1. f(u) = u * k + u
          BY <2>1, <4>1, <4>2 DEF Smaller
        <5>2. QED
          BY <2>4, <4>1, <4>2, <5>1
      <4>5. FirstRow(a, u) <= row /\ row < FirstRow(a, u) + Turns(a, u)
        BY <2>1, <4>1, <4>3, <4>4
      <4>6. u \in 0 .. NumWarps - 1
        BY <1>1, <2>1, <4>1, <4>2
      <4>7. QED
        BY <4>5, <4>6
    <3>3. CASE row >= r * (k + 1)
      <4> DEFINE x == row - r
                 u == x \div k
                 j == x % k
      <4>1. x \in Nat /\ r * k <= x
        BY <2>1, <3>1, <3>3
      <4>2. u \in Nat /\ j \in 0 .. k - 1 /\ x = u * k + j
        <5>1. k \in Nat \ {0}
          BY <2>1, <2>2
        <5>2. QED
          BY <4>1, <5>1, Quotient
      <4>3. u < NumWarps
        <5>1. NumWarps * k = k * NumWarps /\ k * NumWarps \in Nat
          BY <1>1, <2>1
        <5>2. x < NumWarps * k
          BY <2>0, <5>1
        <5>3. QED
          BY <1>1, <2>1, <2>2, <4>1, <5>2, QuotientBelow
      <4> HIDE DEF u, j
      <4>4. u >= r
        <5>1. SUFFICES ASSUME u < r PROVE FALSE
          BY <2>1, <4>2
        <5>2. u * k + k <= r * k /\ u * k \in Nat
          BY <2>1, <4>2, <5>1, Ahead
        <5>3. QED
          BY <2>1, <3>1, <4>1, <4>2, <5>2
      <4>5. FirstRow(a, u) = u * k + r /\ Turns(a, u) = k
        <5>1. f(u) = u * k + r /\ ~(u < r)
          BY <2>1, <4>2, <4>4 DEF Smaller
        <5>2. QED
          BY <2>1, <2>4, <4>2, <5>1
      <4>6. u * k \in Nat /\ row = u * k + j + r
        BY <2>1, <4>2
      <4>7. FirstRow(a, u) <= row /\ row < FirstRow(a, u) + Turns(a, u)
        BY <2>1, <4>2, <4>5, <4>6
      <4>8. u \in 0 .. NumWarps - 1
        BY <1>1, <4>2, <4>3
      <4>9. QED
        BY <4>7, <4>8
    <3>4. QED
      BY <2>1, <3>1, <3>2, <3>3
  <2>9. \A u \in 0 .. NumWarps - 1 : FirstRow(a, u) \in Nat /\ Turns(a, u) \in Nat
    BY <2>1, <2>4, <2>5
  <2>10. \A u \in 0 .. NumWarps - 1 : FirstRow(a, u) + Turns(a, u) <= n
    BY <1>1, <2>6, <2>7
  <2>11. \A u, v \in 0 .. NumWarps - 1 : u < v => FirstRow(a, u) + Turns(a, u) <= FirstRow(a, v)
    BY <2>4, <2>6
  <2>12. \A u \in 0 .. NumWarps - 1 : u < Smaller(n, NumWarps)
    BY <1>1, <2>3
  <2>13. QED
    BY <2>8, <2>9, <2>10, <2>11, <2>12
<1>4. QED
  BY <1>2, <1>3

-----------------------------------------------------------------------------
(* The tasks of a place                                                    *)

(* Task number id is run by a thread in the stub for all threads, or in    *)
(* that for the threads left over.                                         *)
InShare(id, c, wid, tid) ==
  /\ Share(c).active
  /\ wid < Smaller(Share(c).warps, NumWarps)
  /\ id \in StubTasks(Share(c).args, <<c, wid>>, tid)

InRest(id, c, tid) ==
  /\ Share(c).active
  /\ tid < Share(c).rest
  /\ id = Share(c).args.offset + Share(c).skip + tid

WarpIds == 0 .. NumWarps - 1

LEMMA CallFacts ==
  ASSUME call \in Calls
  PROVE  /\ call.api \in {"tasks", "contiguous", "cluster", "kernel"}
         /\ call.groups[1] \in Nat /\ call.groups[2] \in Nat /\ call.groups[3] \in Nat
         /\ NumTasks \in Nat
<1>1. /\ call.api \in {"tasks", "contiguous", "cluster", "kernel"}
      /\ call.groups \in Nat \X Nat \X Nat
  BY CallsAssumption
<1>2. call.groups[1] \in Nat /\ call.groups[2] \in Nat /\ call.groups[3] \in Nat
  BY <1>1
<1>3. NumTasks \in Nat
  BY <1>2 DEF NumTasks
<1>4. QED
  BY <1>1, <1>2, <1>3

LEMMA EqualParts ==
  ASSUME call \in Calls
  PROVE  /\ ActiveCores \in 1 .. NumCores /\ PerCore \in Nat
         /\ \A c \in 0 .. ActiveCores - 2 : EqualTasks(c) = PerCore
         /\ EqualTasks(ActiveCores - 1) \in Nat
         /\ (ActiveCores - 1) * PerCore + EqualTasks(ActiveCores - 1) = NumTasks
         /\ EqualTasks(ActiveCores - 1) >= PerCore
<1>1. NumTasks \in Nat /\ NumCores \in Nat \ {0} /\ CoreThreads \in Nat \ {0}
  BY CallFacts, Sizes
<1>2. ActiveCores \in 1 .. NumCores
  <2>1. CASE NumTasks > CoreThreads
    <3>1. NumTasks \div CoreThreads \in Nat /\ NumTasks \div CoreThreads >= 1
      BY <1>1, <2>1
    <3>2. QED
      BY <1>1, <2>1, <3>1 DEF ActiveCores, Smaller
  <2>2. CASE ~(NumTasks > CoreThreads)
    BY <1>1, <2>2 DEF ActiveCores, Smaller
  <2>3. QED
    BY <2>1, <2>2
<1> DEFINE r == NumTasks % ActiveCores
<1>3. PerCore \in Nat /\ r \in Nat /\ NumTasks = PerCore * ActiveCores + r
  BY <1>1, <1>2, Quotient DEF PerCore
<1> HIDE DEF r
<1>4. /\ ActiveCores * PerCore = PerCore * ActiveCores
      /\ ActiveCores * PerCore = (ActiveCores - 1) * PerCore + PerCore
      /\ ActiveCores * PerCore \in Nat /\ (ActiveCores - 1) * PerCore \in Nat
  BY <1>2, <1>3
<1>5. \A c \in 0 .. ActiveCores - 2 : EqualTasks(c) = PerCore
  BY <1>2, <1>3 DEF EqualTasks
<1>6. EqualTasks(ActiveCores - 1) = PerCore + r
  BY <1>1, <1>2, <1>3, <1>4 DEF EqualTasks
<1>7. QED
  BY <1>1, <1>2, <1>3, <1>4, <1>5, <1>6

(* Each task number is in the part of one core.                            *)
LEMMA EqualCores ==
  ASSUME call \in Calls
  PROVE  /\ \A c \in 0 .. ActiveCores - 1 :
              c * PerCore \in Nat /\ EqualTasks(c) \in Nat /\ c * PerCore + EqualTasks(c) <= NumTasks
         /\ \A c, d \in 0 .. ActiveCores - 1 : c < d => c * PerCore + EqualTasks(c) <= d * PerCore
         /\ \A id \in 0 .. NumTasks - 1 : \E c \in 0 .. ActiveCores - 1 :
              c * PerCore <= id /\ id < c * PerCore + EqualTasks(c)
<1> DEFINE A == ActiveCores
           P == PerCore
<1>1. /\ A \in Nat \ {0} /\ P \in Nat /\ NumTasks \in Nat
      /\ \A c \in 0 .. A - 2 : EqualTasks(c) = P
      /\ EqualTasks(A - 1) \in Nat /\ (A - 1) * P + EqualTasks(A - 1) = NumTasks
  BY EqualParts, CallFacts, Sizes
<1> HIDE DEF A, P
<1>2. (A - 1) * P \in Nat
  BY <1>1
<1>3. ASSUME NEW c \in 0 .. A - 1, NEW d \in 0 .. A - 1, c < d
      PROVE  c * P + EqualTasks(c) <= d * P
  <2>1. EqualTasks(c) = P
    BY <1>1, <1>3
  <2>2. c * P + P <= d * P
    BY <1>1, <1>3, Ahead
  <2>3. QED
    BY <2>1, <2>2
<1>4. ASSUME NEW c \in 0 .. A - 1
      PROVE  c * P \in Nat /\ EqualTasks(c) \in Nat /\ c * P + EqualTasks(c) <= NumTasks
  <2>1. c * P \in Nat
    BY <1>1
  <2>2. CASE c = A - 1
    BY <1>1, <2>1, <2>2
  <2>3. CASE c # A - 1
    <3>1. c \in 0 .. A - 2 /\ A - 1 \in 0 .. A - 1 /\ c < A - 1
      BY <1>1, <2>3
    <3>2. EqualTasks(c) = P /\ c * P + EqualTasks(c) <= (A - 1) * P
      BY <1>1, <1>3, <3>1
    <3>3. QED
      BY <1>1, <1>2, <2>1, <3>2
  <2>4. QED
    BY <2>2, <2>3
<1>5. ASSUME NEW id \in 0 .. NumTasks - 1
      PROVE  \E c \in 0 .. A - 1 : c * P <= id /\ id < c * P + EqualTasks(c)
  <2>1. CASE (A - 1) * P <= id
    <3>1. A - 1 \in 0 .. A - 1 /\ id < (A - 1) * P + EqualTasks(A - 1)
      BY <1>1, <2>1
    <3>2. QED
      BY <2>1, <3>1
  <2>2. CASE id < (A - 1) * P
    <3>1. P # 0
      BY <1>1, <2>2
    <3> DEFINE c == id \div P
               j == id % P
    <3>2. c \in Nat /\ j \in 0 .. P - 1 /\ id = c * P + j
      <4>1. id \in Nat /\ P \in Nat \ {0}
        BY <1>1, <3>1
      <4>2. QED
        BY <4>1, Quotient
    <3>3. c < A - 1
      <4>1. id \in Nat /\ P \in Nat \ {0} /\ A - 1 \in Nat
        BY <1>1, <3>1
      <4>2. QED
        BY <2>2, <4>1, QuotientBelow
    <3> HIDE DEF c, j
    <3>4. c \in 0 .. A - 2 /\ c \in 0 .. A - 1 /\ c * P \in Nat
      BY <1>1, <3>2, <3>3
    <3>5. EqualTasks(c) = P
      BY <1>1, <3>4
    <3>6. c * P <= id /\ id < c * P + EqualTasks(c)
      BY <1>1, <3>2, <3>4, <3>5
    <3>7. QED
      BY <3>4, <3>6
  <2>3. QED
    BY <1>1, <1>2, <2>1, <2>2
<1>6. QED
  BY <1>3, <1>4, <1>5 DEF A, P

(* The record and the remainder of a core that is active.                  *)
LEMMA EqualShares ==
  ASSUME call \in Calls, call.api # "cluster", NEW c \in Cores, Share(c).active
  PROVE  /\ c \in 0 .. ActiveCores - 1
         /\ Share(c).args.offset = c * PerCore
         /\ Share(c).warps \in Nat /\ Share(c).rest \in 0 .. NumThreads - 1
         /\ Share(c).skip = Share(c).warps * NumThreads
         /\ Share(c).warps * NumThreads + Share(c).rest = EqualTasks(c)
         /\ \/ Single(Share(c).args, Share(c).warps)
            \/ Even(Share(c).args, Share(c).warps) /\ Share(c).warps >= NumWarps
<1> DEFINE t == EqualTasks(c)
           n == t \div NumThreads
           r == t % NumThreads
<1>1. Share(c) = EqualShare(c)
  BY DEF Share
<1>2. c \in 0 .. ActiveCores - 1
  <2>1. c < ActiveCores
    <3>1. EqualShare(c).active = (c < ActiveCores)
      BY Zenon DEF EqualShare
    <3>2. EqualShare(c).active
      BY <1>1
    <3>3. QED
      BY <3>1, <3>2
  <2>2. QED
    BY <2>1, EqualParts, Sizes DEF Cores
<1>3. t \in Nat /\ NumThreads \in Nat \ {0} /\ NumWarps \in Nat \ {0}
  BY <1>2, EqualCores, Sizes
<1> HIDE DEF t
<1>4. n \in Nat /\ r \in 0 .. NumThreads - 1 /\ t = n * NumThreads + r
  BY <1>3, Quotient
<1>5. /\ Share(c).warps = n /\ Share(c).rest = r /\ Share(c).skip = t - r
      /\ Share(c).args.offset = c * PerCore
  BY <1>1 DEF EqualShare, t
<1>6. /\ Share(c).args.NWs = IF n >= NumWarps THEN n \div NumWarps ELSE 1
      /\ Share(c).args.RWs = IF n >= NumWarps THEN n - (n \div NumWarps) * NumWarps ELSE 0
  BY <1>1 DEF EqualShare, t
<1> HIDE DEF n, r
<1>7. n * NumThreads \in Nat
  BY <1>3, <1>4
<1>8. CASE n < NumWarps
  <2>1. Single(Share(c).args, n)
    BY <1>3, <1>4, <1>6, <1>8 DEF Single
  <2>2. QED
    BY <1>2, <1>3, <1>4, <1>5, <1>7, <2>1 DEF t
<1>9. CASE n >= NumWarps
  <2> DEFINE k == n \div NumWarps
             m == n % NumWarps
  <2>1. k \in Nat /\ m \in Nat /\ n = k * NumWarps + m
    BY <1>3, <1>4, Quotient
  <2>2. Share(c).args.NWs = k /\ Share(c).args.RWs = n - k * NumWarps
    BY <1>6, <1>9
  <2> HIDE DEF k, m
  <2>3. k * NumWarps \in Nat
    BY <1>3, <2>1
  <2>4. Share(c).args.RWs = m
    BY <2>1, <2>2, <2>3
  <2>5. Even(Share(c).args, n)
    BY <2>2, <2>4 DEF Even, k, m
  <2>6. QED
    BY <1>2, <1>3, <1>4, <1>5, <1>7, <1>9, <2>5 DEF t
<1>10. QED
  BY <1>3, <1>4, <1>8, <1>9

(* The stub for all threads runs each of the first tasks of a core once.   *)
LEMMA ConsecutiveTasks ==
  ASSUME call \in Calls, call.api \notin {"cluster", "contiguous"},
         NEW c \in Cores, Share(c).active
  PROVE  /\ \A wid \in WarpIds, tid \in Threads : \A id : InShare(id, c, wid, tid) =>
              id \in Share(c).args.offset .. Share(c).args.offset + Share(c).skip - 1
         /\ \A u, v \in WarpIds, i, j \in Threads : \A id :
              InShare(id, c, u, i) /\ InShare(id, c, v, j) => u = v /\ i = j
         /\ \A id \in Share(c).args.offset .. Share(c).args.offset + Share(c).skip - 1 :
              \E wid \in WarpIds, tid \in Threads : InShare(id, c, wid, tid)
<1> DEFINE a == Share(c).args
           o == a.offset
           n == Share(c).warps
           NT == NumThreads
           f(u) == FirstRow(a, u)
           t(u) == Turns(a, u)
           Spawned(u) == u \in WarpIds /\ u < Smaller(n, NumWarps)
<1>1. /\ o \in Nat /\ n \in Nat /\ NT \in Nat \ {0} /\ NumWarps \in Nat \ {0}
      /\ Share(c).skip = n * NT
      /\ Single(a, n) \/ (Even(a, n) /\ n >= NumWarps)
  <2>1. c \in 0 .. ActiveCores - 1 /\ o = c * PerCore
    BY EqualShares
  <2>2. o \in Nat
    BY <2>1, EqualCores
  <2>3. QED
    BY <2>2, EqualShares, Sizes
<1>2. /\ \A u \in WarpIds : f(u) \in Nat /\ t(u) \in Nat
      /\ \A u : Spawned(u) => f(u) + t(u) <= n
      /\ \A u, v \in WarpIds : u < v => f(u) + t(u) <= f(v)
      /\ \A row \in 0 .. n - 1 : \E u : Spawned(u) /\ f(u) <= row /\ row < f(u) + t(u)
  BY <1>1, BlocksOfRows DEF WarpIds
<1>3. \A wid, tid, id : InShare(id, c, wid, tid) <=>
        /\ wid < Smaller(n, NumWarps)
        /\ \E i \in 0 .. t(wid) - 1 : id = o + f(wid) * NT + tid * t(wid) + i
  <2> TAKE wid, tid, id
  <2>1. StubTasks(a, <<c, wid>>, tid) =
          {o + f(wid) * NT + tid * t(wid) + i : i \in 0 .. t(wid) - 1}
    BY DEF StubTasks
  <2>2. QED
    BY <2>1 DEF InShare
<1> HIDE DEF a, o, n, NT, f, t
(* The tasks of a warp fill its rows, those of a thread a part of them.    *)
<1>4. ASSUME NEW wid \in WarpIds, NEW tid \in Threads, NEW id, InShare(id, c, wid, tid)
      PROVE  /\ Spawned(wid) /\ id \in Nat
             /\ o + f(wid) * NT <= id /\ id < o + (f(wid) + t(wid)) * NT
  <2>1. PICK i \in 0 .. t(wid) - 1 : id = o + f(wid) * NT + tid * t(wid) + i
    BY <1>3, <1>4
  <2>2. f(wid) \in Nat /\ t(wid) \in Nat /\ tid \in Nat /\ tid < NT
    BY <1>1, <1>2 DEF Threads, NT
  <2>3. tid * t(wid) + t(wid) <= NT * t(wid)
    BY <1>1, <2>2, Ahead
  <2>4. /\ (f(wid) + t(wid)) * NT = f(wid) * NT + NT * t(wid)
        /\ f(wid) * NT \in Nat /\ NT * t(wid) \in Nat /\ tid * t(wid) \in Nat
    BY <1>1, <2>2
  <2>5. QED
    BY <1>1, <1>3, <1>4, <2>1, <2>2, <2>3, <2>4
<1>5. ASSUME NEW u \in WarpIds, NEW v \in WarpIds, u < v,
             NEW i \in Threads, NEW j \in Threads, NEW id,
             InShare(id, c, u, i), InShare(id, c, v, j)
      PROVE  FALSE
  <2>1. f(u) \in Nat /\ t(u) \in Nat /\ f(v) \in Nat /\ f(u) + t(u) <= f(v)
    BY <1>2, <1>5
  <2>2. (f(u) + t(u)) * NT <= f(v) * NT
    <3>1. CASE f(u) + t(u) = f(v)
      BY <1>1, <2>1, <3>1
    <3>2. CASE f(u) + t(u) < f(v)
      <4>1. f(u) + t(u) \in Nat
        BY <2>1
      <4>2. (f(u) + t(u)) * NT + NT <= f(v) * NT
        BY <1>1, <2>1, <3>2, <4>1, Ahead
      <4>3. (f(u) + t(u)) * NT \in Nat /\ f(v) * NT \in Nat
        BY <1>1, <2>1, <4>1
      <4>4. QED
        BY <1>1, <4>2, <4>3
    <3>3. QED
      BY <2>1, <3>1, <3>2
  <2>3. id < o + (f(u) + t(u)) * NT /\ o + f(v) * NT <= id /\ id \in Nat
    BY <1>4, <1>5
  <2>4. (f(u) + t(u)) * NT \in Nat /\ f(v) * NT \in Nat
    BY <1>1, <2>1
  <2>5. QED
    BY <1>1, <2>2, <2>3, <2>4
<1>6. ASSUME NEW u \in WarpIds, NEW v \in WarpIds, NEW i \in Threads, NEW j \in Threads,
             NEW id, InShare(id, c, u, i), InShare(id, c, v, j)
      PROVE  u = v /\ i = j
  <2>1. u = v
    BY <1>1, <1>5, <1>6 DEF WarpIds
  <2>2. PICK x \in 0 .. t(u) - 1 : id = o + f(u) * NT + i * t(u) + x
    BY <1>3, <1>6
  <2>3. PICK y \in 0 .. t(u) - 1 : id = o + f(u) * NT + j * t(u) + y
    BY <1>3, <1>6, <2>1
  <2>4. /\ f(u) \in Nat /\ t(u) \in Nat /\ i \in Nat /\ j \in Nat
        /\ f(u) * NT \in Nat /\ i * t(u) \in Nat /\ j * t(u) \in Nat
    BY <1>1, <1>2 DEF Threads
  <2>5. i * t(u) + x = j * t(u) + y
    BY <1>1, <2>2, <2>3, <2>4
  <2>6. i = j
    BY <2>4, <2>5, QuotientUnique
  <2>7. QED
    BY <2>1, <2>6
<1>7. ASSUME NEW wid \in WarpIds, NEW tid \in Threads, NEW id, InShare(id, c, wid, tid)
      PROVE  id \in o .. o + n * NT - 1
  <2>1. /\ f(wid) \in Nat /\ t(wid) \in Nat /\ f(wid) + t(wid) <= n /\ id \in Nat
        /\ o + f(wid) * NT <= id /\ id < o + (f(wid) + t(wid)) * NT
    BY <1>2, <1>4, <1>7
  <2>2. (f(wid) + t(wid)) * NT <= n * NT
    <3>1. CASE f(wid) + t(wid) = n
      BY <1>1, <2>1, <3>1
    <3>2. CASE f(wid) + t(wid) < n
      <4>1. f(wid) + t(wid) \in Nat
        BY <2>1
      <4>2. (f(wid) + t(wid)) * NT + NT <= n * NT
        BY <1>1, <2>1, <3>2, <4>1, Ahead
      <4>3. (f(wid) + t(wid)) * NT \in Nat /\ n * NT \in Nat
        BY <1>1, <2>1, <4>1
      <4>4. QED
        BY <1>1, <4>2, <4>3
    <3>3. QED
      BY <1>1, <2>1, <3>1, <3>2
  <2>3. (f(wid) + t(wid)) * NT \in Nat /\ n * NT \in Nat /\ f(wid) * NT \in Nat
    BY <1>1, <2>1
  <2>4. QED
    BY <1>1, <2>1, <2>2, <2>3
<1>8. ASSUME NEW id \in o .. o + n * NT - 1
      PROVE  \E wid \in WarpIds, tid \in Threads : InShare(id, c, wid, tid)
  <2> DEFINE x == id - o
             row == x \div NT
             k == x % NT
  <2>1. n * NT \in Nat /\ x \in Nat /\ x < n * NT /\ id = o + x
    BY <1>1
  <2> HIDE DEF x
  <2>2. row \in Nat /\ k \in 0 .. NT - 1 /\ x = row * NT + k
    BY <1>1, <2>1, Quotient
  <2>3. row < n
    BY <1>1, <2>1, QuotientBelow
  <2> HIDE DEF row, k
  <2>4. PICK wid : Spawned(wid) /\ f(wid) <= row /\ row < f(wid) + t(wid)
    BY <1>1, <1>2, <2>2, <2>3
  <2>5. wid \in WarpIds /\ f(wid) \in Nat /\ t(wid) \in Nat \ {0}
    BY <1>2, <2>2, <2>4
  <2> DEFINE y == x - f(wid) * NT
             tid == y \div t(wid)
             i == y % t(wid)
  <2>6. y \in Nat /\ y < NT * t(wid) /\ x = f(wid) * NT + y
    <3>1. f(wid) * NT \in Nat /\ row * NT \in Nat /\ f(wid) * NT <= row * NT
      <4>1. f(wid) * NT \in Nat /\ row * NT \in Nat
        BY <1>1, <2>2, <2>5
      <4>2. CASE f(wid) = row
        BY <4>1, <4>2
      <4>3. CASE f(wid) < row
        <5>1. f(wid) * NT + NT <= row * NT
          BY <1>1, <2>2, <2>5, <4>3, Ahead
        <5>2. QED
          BY <1>1, <4>1, <5>1
      <4>4. QED
        BY <2>2, <2>4, <2>5, <4>1, <4>2, <4>3
    <3>2. row * NT + NT <= (f(wid) + t(wid)) * NT
      <4>1. f(wid) + t(wid) \in Nat
        BY <2>5
      <4>2. QED
        BY <1>1, <2>2, <2>4, <4>1, Ahead
    <3>3. (f(wid) + t(wid)) * NT = f(wid) * NT + NT * t(wid) /\ NT * t(wid) \in Nat
      BY <1>1, <2>5
    <3>4. QED
      BY <1>1, <2>2, <3>1, <3>2, <3>3
  <2> HIDE DEF y
  <2>7. tid \in Nat /\ i \in 0 .. t(wid) - 1 /\ y = tid * t(wid) + i
    BY <2>5, <2>6, Quotient
  <2>8. tid < NT
    BY <1>1, <2>5, <2>6, QuotientBelow
  <2> HIDE DEF tid, i
  <2>9. id = o + f(wid) * NT + tid * t(wid) + i
    <3>1. f(wid) * NT \in Nat /\ tid * t(wid) \in Nat
      BY <1>1, <2>5, <2>7
    <3>2. QED
      BY <1>1, <2>1, <2>5, <2>6, <2>7, <3>1
  <2>10. InShare(id, c, wid, tid)
    BY <1>3, <2>4, <2>7, <2>9
  <2>11. tid \in Threads
    BY <1>1, <2>7, <2>8 DEF Threads, NT
  <2>12. QED
    BY <2>5, <2>10, <2>11
<1>9. Share(c).skip = n * NT /\ o = Share(c).args.offset
  BY <1>1 DEF a, o
<1>10. QED
  BY <1>6, <1>7, <1>8, <1>9

LEMMA ContiguousTasks ==
  ASSUME call \in Calls, call.api = "contiguous", NEW c \in Cores, Share(c).active
  PROVE  /\ \A wid \in WarpIds, tid \in Threads : \A id : InShare(id, c, wid, tid) =>
              id \in Share(c).args.offset .. Share(c).args.offset + Share(c).skip - 1
         /\ \A u, v \in WarpIds, i, j \in Threads : \A id :
              InShare(id, c, u, i) /\ InShare(id, c, v, j) => u = v /\ i = j
         /\ \A id \in Share(c).args.offset .. Share(c).args.offset + Share(c).skip - 1 :
              \E wid \in WarpIds, tid \in Threads : InShare(id, c, wid, tid)
<1> DEFINE a == Share(c).args
           o == a.offset
           n == Share(c).warps
           NT == NumThreads
           NW == NumWarps
<1>1. /\ o \in Nat /\ n \in Nat /\ NT \in Nat \ {0} /\ NW \in Nat \ {0}
      /\ Share(c).skip = n * NT
      /\ Single(a, n) \/ Even(a, n)
  <2>1. c \in 0 .. ActiveCores - 1 /\ o = c * PerCore
    BY EqualShares
  <2>2. o \in Nat
    BY <2>1, EqualCores
  <2>3. QED
    BY <2>2, EqualShares, Sizes
(* Thread tid of warp wid has row i * NW + wid in turn i.                  *)
<1>2. ASSUME NEW wid \in WarpIds, NEW tid \in Threads, NEW id
      PROVE  InShare(id, c, wid, tid) <=>
               \E i \in Nat : i * NW + wid < n /\ id = o + (i * NW + wid) * NT + tid
  <2>1. Turns(a, wid) \in Int
    <3>1. a.NWs \in Int
      <4>1. n \div NumWarps \in Nat
        BY <1>1, Quotient
      <4>2. a.NWs = 1 \/ a.NWs = n \div NumWarps
        BY <1>1 DEF Single, Even
      <4>3. QED
        BY <4>1, <4>2
    <3>2. QED
      BY <3>1 DEF Turns
  <2>2. InShare(id, c, wid, tid) <=>
          /\ wid < Smaller(n, NW)
          /\ \E i \in 0 .. Turns(a, wid) - 1 : id = o + NT * wid + tid + i * CoreThreads
    <3>1. StubTasks(a, <<c, wid>>, tid) =
            {o + NT * wid + tid + i * CoreThreads : i \in 0 .. Turns(a, wid) - 1}
      BY DEF StubTasks
    <3>2. QED
      BY <3>1 DEF InShare
  <2>3. ASSUME NEW i \in Nat
        PROVE  o + NT * wid + tid + i * CoreThreads = o + (i * NW + wid) * NT + tid
    <3>1. i * CoreThreads = (i * NW) * NT
      BY <1>1 DEF CoreThreads
    <3>2. (i * NW + wid) * NT = (i * NW) * NT + NT * wid /\ NT * wid \in Nat
          /\ (i * NW) * NT \in Nat
      BY <1>1 DEF WarpIds
    <3>3. QED
      BY <1>1, <3>1, <3>2 DEF Threads
  <2>4. \A i \in Nat : wid < Smaller(n, NW) /\ i < Turns(a, wid) <=> i * NW + wid < n
    BY <1>1, StripedRows DEF WarpIds
  <2> HIDE DEF a, o, n, NT, NW
  <2>5. QED
    BY <2>1, <2>2, <2>3, <2>4
<1> HIDE DEF a, o, n, NT, NW
<1>3. ASSUME NEW row \in Nat, NEW tid \in Threads, row < n
      PROVE  row * NT \in Nat /\ tid \in Nat /\ row * NT + tid < n * NT
  <2>1. row * NT + NT <= n * NT /\ row * NT \in Nat /\ n * NT \in Nat
    BY <1>1, <1>3, Ahead
  <2>2. tid \in Nat /\ tid < NT
    BY <1>1 DEF Threads, NT
  <2>3. QED
    BY <1>1, <2>1, <2>2
<1>4. ASSUME NEW wid \in WarpIds, NEW tid \in Threads, NEW id, InShare(id, c, wid, tid)
      PROVE  id \in o .. o + n * NT - 1
  <2>1. PICK i \in Nat : i * NW + wid < n /\ id = o + (i * NW + wid) * NT + tid
    BY <1>2, <1>4
  <2>2. i * NW + wid \in Nat
    BY <1>1 DEF WarpIds
  <2> DEFINE row == i * NW + wid
  <2> HIDE DEF row
  <2>3. row \in Nat /\ row < n /\ id = o + row * NT + tid
    BY <2>1, <2>2 DEF row
  <2>4. row * NT \in Nat /\ tid \in Nat /\ row * NT + tid < n * NT /\ n * NT \in Nat
    BY <1>1, <1>3, <2>3
  <2>5. QED
    BY <1>1, <2>3, <2>4
<1>5. ASSUME NEW u \in WarpIds, NEW v \in WarpIds, NEW s \in Threads, NEW z \in Threads,
             NEW id, InShare(id, c, u, s), InShare(id, c, v, z)
      PROVE  u = v /\ s = z
  <2>1. PICK i \in Nat : id = o + (i * NW + u) * NT + s
    BY <1>2, <1>5
  <2>2. PICK j \in Nat : id = o + (j * NW + v) * NT + z
    BY <1>2, <1>5
  <2>3. /\ i * NW + u \in Nat /\ j * NW + v \in Nat
        /\ u \in 0 .. NW - 1 /\ v \in 0 .. NW - 1
        /\ s \in 0 .. NT - 1 /\ z \in 0 .. NT - 1
    BY <1>1 DEF WarpIds, Threads, NW, NT
  <2> DEFINE p == i * NW + u
             q == j * NW + v
  <2> HIDE DEF p, q
  <2>4. p \in Nat /\ q \in Nat /\ id = o + p * NT + s /\ id = o + q * NT + z
    BY <2>1, <2>2, <2>3 DEF p, q
  <2>5. p * NT \in Nat /\ q * NT \in Nat
    BY <1>1, <2>4
  <2>6. p * NT + s = q * NT + z
    BY <1>1, <2>3, <2>4, <2>5
  <2>7. p = q /\ s = z
    BY <1>1, <2>3, <2>4, <2>6, QuotientUnique
  <2>8. u = v
    BY <1>1, <2>3, <2>7, QuotientUnique DEF p, q
  <2>9. QED
    BY <2>7, <2>8
<1>6. ASSUME NEW id \in o .. o + n * NT - 1
      PROVE  \E wid \in WarpIds, tid \in Threads : InShare(id, c, wid, tid)
  <2> DEFINE x == id - o
             row == x \div NT
             tid == x % NT
  <2>1. n * NT \in Nat /\ x \in Nat /\ x < n * NT /\ id = o + x
    BY <1>1
  <2> HIDE DEF x
  <2>2. row \in Nat /\ tid \in 0 .. NT - 1 /\ x = row * NT + tid
    BY <1>1, <2>1, Quotient
  <2>3. row < n
    BY <1>1, <2>1, QuotientBelow
  <2> HIDE DEF row, tid
  <2> DEFINE i == row \div NW
             wid == row % NW
  <2>4. i \in Nat /\ wid \in 0 .. NW - 1 /\ row = i * NW + wid
    BY <1>1, <2>2, Quotient
  <2> HIDE DEF i, wid
  <2>5. wid \in WarpIds /\ tid \in Threads
    BY <2>2, <2>4 DEF WarpIds, Threads, NW, NT
  <2>6. id = o + row * NT + tid
    <3>1. row * NT \in Nat
      BY <1>1, <2>2
    <3>2. QED
      BY <1>1, <2>1, <2>2, <3>1
  <2>7. InShare(id, c, wid, tid)
    BY <1>2, <2>3, <2>4, <2>5, <2>6
  <2>8. QED
    BY <2>5, <2>7
<1>7. Share(c).skip = n * NT /\ o = Share(c).args.offset
  BY <1>1 DEF a, o
<1>8. QED
  BY <1>4, <1>5, <1>6, <1>7

LEMMA CoreTasks ==
  ASSUME call \in Calls, call.api # "cluster", NEW c \in Cores, Share(c).active
  PROVE  /\ \A wid \in WarpIds, tid \in Threads : \A id : InShare(id, c, wid, tid) =>
              id \in Share(c).args.offset .. Share(c).args.offset + Share(c).skip - 1
         /\ \A u, v \in WarpIds, i, j \in Threads : \A id :
              InShare(id, c, u, i) /\ InShare(id, c, v, j) => u = v /\ i = j
         /\ \A id \in Share(c).args.offset .. Share(c).args.offset + Share(c).skip - 1 :
              \E wid \in WarpIds, tid \in Threads : InShare(id, c, wid, tid)
<1>1. CASE call.api = "contiguous"
  BY <1>1, ContiguousTasks
<1>2. CASE call.api # "contiguous"
  BY <1>2, ConsecutiveTasks
<1>3. QED
  BY <1>1, <1>2

-----------------------------------------------------------------------------
(* Each task number has one place                                          *)

Places == Warps \X Threads \X {"share", "rest"}

Holds(p, id) ==
  \/ p[3] = "share" /\ InShare(id, p[1][1], p[1][2], p[2])
  \/ p[3] = "rest" /\ p[1][2] = 0 /\ InRest(id, p[1][1], p[2])

LEMMA PlaceFacts ==
  ASSUME NEW p \in Places
  PROVE  /\ p = <<<<p[1][1], p[1][2]>>, p[2], p[3]>>
         /\ p[1] \in Warps /\ p[1][1] \in Cores /\ p[1][2] \in WarpIds /\ p[2] \in Threads
         /\ p[3] \in {"share", "rest"}
<1>1. p = <<p[1], p[2], p[3]>> /\ p[1] \in Warps /\ p[2] \in Threads /\ p[3] \in {"share", "rest"}
  BY DEF Places
<1>2. p[1] = <<p[1][1], p[1][2]>> /\ p[1][1] \in Cores /\ p[1][2] \in WarpIds
  BY <1>1 DEF Warps, WarpIds
<1>3. QED
  BY <1>1, <1>2

LEMMA EqualPlaces ==
  ASSUME call \in Calls, call.api # "cluster"
  PROVE  /\ \A p \in Places : \A id : Holds(p, id) => id \in 0 .. NumTasks - 1
         /\ \A p, q \in Places : \A id : Holds(p, id) /\ Holds(q, id) => p = q
         /\ \A id \in 0 .. NumTasks - 1 : \E p \in Places : Holds(p, id)
<1> DEFINE o(c) == c * PerCore
           t(c) == EqualTasks(c)
           s(c) == Share(c).skip
           Active(c) == c \in Cores /\ Share(c).active
<1>1. ASSUME NEW c \in Cores
      PROVE  Active(c) <=> c \in 0 .. ActiveCores - 1
  <2>1. Share(c).active <=> c < ActiveCores
    <3>1. EqualShare(c).active = (c < ActiveCores)
      BY Zenon DEF EqualShare
    <3>2. Share(c) = EqualShare(c)
      BY DEF Share
    <3>3. QED
      BY <3>1, <3>2, Zenon
  <2>2. QED
    BY <2>1, EqualParts, Sizes DEF Cores
<1>2. ASSUME NEW c, Active(c)
      PROVE  /\ o(c) \in Nat /\ s(c) \in Nat /\ t(c) \in Nat /\ s(c) <= t(c)
             /\ o(c) + t(c) <= NumTasks /\ Share(c).args.offset = o(c)
             /\ Share(c).rest \in Nat /\ s(c) + Share(c).rest = t(c)
             /\ Share(c).rest <= NumThreads
  <2>1. /\ o(c) \in Nat /\ t(c) \in Nat /\ o(c) + t(c) <= NumTasks
    BY <1>1, <1>2, EqualCores
  <2>2. /\ Share(c).args.offset = o(c) /\ s(c) = Share(c).warps * NumThreads
        /\ Share(c).warps \in Nat /\ NumThreads \in Nat \ {0}
        /\ Share(c).rest \in 0 .. NumThreads - 1
        /\ Share(c).warps * NumThreads + Share(c).rest = t(c)
    BY <1>2, EqualShares, Sizes
  <2>3. s(c) \in Nat
    BY <2>2
  <2>4. QED
    BY <2>1, <2>2, <2>3
<1>3. \A c, d : Active(c) /\ Active(d) /\ c < d => o(c) + t(c) <= o(d)
  BY <1>1, EqualCores
<1>4. NumTasks \in Nat /\ ActiveCores \in 1 .. NumCores
  BY CallFacts, EqualParts
<1>5. ASSUME NEW p \in Places, NEW id, Holds(p, id)
      PROVE  /\ Active(p[1][1])
             /\ p[3] = "share" => id \in o(p[1][1]) .. o(p[1][1]) + s(p[1][1]) - 1
             /\ p[3] = "rest" => id = o(p[1][1]) + s(p[1][1]) + p[2]
                                 /\ p[2] < Share(p[1][1]).rest /\ p[1][2] = 0
  <2>1. Active(p[1][1])
    BY <1>5, PlaceFacts DEF Holds, InShare, InRest
  <2>2. CASE p[3] = "share"
    BY <1>2, <1>5, <2>1, <2>2, PlaceFacts, CoreTasks DEF Holds
  <2>3. CASE p[3] = "rest"
    BY <1>2, <1>5, <2>1, <2>3 DEF Holds, InRest
  <2>4. QED
    BY <2>1, <2>2, <2>3
<1> HIDE DEF o, t, s
<1>6. ASSUME NEW p \in Places, NEW id, Holds(p, id)
      PROVE  /\ Active(p[1][1]) /\ id \in Nat
             /\ o(p[1][1]) <= id /\ id < o(p[1][1]) + t(p[1][1])
  <2> DEFINE c == p[1][1]
  <2>1. p[2] \in Nat /\ p[3] \in {"share", "rest"}
    BY PlaceFacts DEF Threads
  <2>2. /\ Active(c)
        /\ o(c) \in Nat /\ s(c) \in Nat /\ t(c) \in Nat /\ s(c) <= t(c)
        /\ Share(c).rest \in Nat /\ s(c) + Share(c).rest = t(c)
    BY <1>2, <1>5, <1>6
  <2>3. CASE p[3] = "share"
    <3>1. id \in o(c) .. o(c) + s(c) - 1
      BY <1>5, <1>6, <2>3
    <3>2. QED
      BY <2>2, <3>1
  <2>4. CASE p[3] = "rest"
    <3>1. id = o(c) + s(c) + p[2] /\ p[2] < Share(c).rest
      BY <1>5, <1>6, <2>4
    <3>2. QED
      BY <2>1, <2>2, <3>1
  <2>5. QED
    BY <2>1, <2>3, <2>4
<1>7. ASSUME NEW p \in Places, NEW id, Holds(p, id)
      PROVE  id \in 0 .. NumTasks - 1
  <2> DEFINE c == p[1][1]
  <2>1. Active(c) /\ id \in Nat /\ id < o(c) + t(c)
    BY <1>6, <1>7
  <2>2. o(c) \in Nat /\ t(c) \in Nat /\ o(c) + t(c) <= NumTasks
    BY <1>2, <2>1
  <2>3. QED
    BY <1>4, <2>1, <2>2
<1>8. ASSUME NEW p \in Places, NEW q \in Places, NEW id, Holds(p, id), Holds(q, id),
             p[1][1] < q[1][1]
      PROVE  FALSE
  <2>1. /\ Active(p[1][1]) /\ Active(q[1][1]) /\ id \in Nat
        /\ id < o(p[1][1]) + t(p[1][1]) /\ o(q[1][1]) <= id
    BY <1>6, <1>8
  <2>2. o(p[1][1]) + t(p[1][1]) <= o(q[1][1])
    BY <1>3, <1>8, <2>1
  <2>3. o(p[1][1]) \in Nat /\ t(p[1][1]) \in Nat /\ o(q[1][1]) \in Nat
    BY <1>2, <2>1
  <2>4. QED
    BY <2>1, <2>2, <2>3
<1>9. ASSUME NEW p \in Places, NEW q \in Places, NEW id, Holds(p, id), Holds(q, id)
      PROVE  p = q
  <2> DEFINE c == p[1][1]
  <2>1. c \in Cores /\ q[1][1] \in Cores
    BY PlaceFacts
  <2>2. q[1][1] = c
    BY <1>8, <1>9, <2>1, Sizes DEF Cores
  <2>3. /\ Active(c) /\ o(c) \in Nat /\ s(c) \in Nat
        /\ p[2] \in Nat /\ q[2] \in Nat
        /\ p[3] \in {"share", "rest"} /\ q[3] \in {"share", "rest"}
    BY <1>2, <1>5, <1>9, PlaceFacts DEF Threads
  <2>4. CASE p[3] = "share" /\ q[3] = "share"
    <3>1. InShare(id, c, p[1][2], p[2]) /\ InShare(id, c, q[1][2], q[2])
      BY <1>9, <2>2, <2>4 DEF Holds
    <3>2. p[1][2] = q[1][2] /\ p[2] = q[2]
      BY <2>1, <2>3, <3>1, PlaceFacts, CoreTasks
    <3>3. QED
      BY <2>2, <2>4, <3>2, PlaceFacts
  <2>5. CASE p[3] = "rest" /\ q[3] = "rest"
    <3>1. /\ id = o(c) + s(c) + p[2] /\ id = o(c) + s(c) + q[2]
          /\ p[1][2] = 0 /\ q[1][2] = 0
      BY <1>5, <1>9, <2>2, <2>5
    <3>2. p[2] = q[2]
      BY <2>3, <3>1
    <3>3. QED
      BY <2>2, <2>5, <3>1, <3>2, PlaceFacts
  <2>6. CASE p[3] # q[3]
    <3>1. \/ id \in o(c) .. o(c) + s(c) - 1 /\ id = o(c) + s(c) + q[2]
          \/ id \in o(c) .. o(c) + s(c) - 1 /\ id = o(c) + s(c) + p[2]
      BY <1>5, <1>9, <2>2, <2>3, <2>6
    <3>2. QED
      BY <2>3, <3>1
  <2>7. QED
    BY <2>3, <2>4, <2>5, <2>6
<1>10. ASSUME NEW id \in 0 .. NumTasks - 1
       PROVE  \E p \in Places : Holds(p, id)
  <2>1. PICK c \in 0 .. ActiveCores - 1 : o(c) <= id /\ id < o(c) + t(c)
    BY EqualCores DEF o, t
  <2>2. c \in Cores
    BY <1>4, Sizes DEF Cores
  <2>3. /\ Active(c) /\ o(c) \in Nat /\ s(c) \in Nat /\ t(c) \in Nat
        /\ Share(c).args.offset = o(c) /\ Share(c).skip = s(c)
        /\ Share(c).rest \in Nat /\ s(c) + Share(c).rest = t(c) /\ Share(c).rest <= NumThreads
    BY <1>1, <1>2, <2>2 DEF s
  <2>4. CASE id < o(c) + s(c)
    <3>1. id \in Share(c).args.offset .. Share(c).args.offset + Share(c).skip - 1
      BY <2>1, <2>3, <2>4
    <3>2. PICK wid \in WarpIds, tid \in Threads : InShare(id, c, wid, tid)
      BY <2>2, <2>3, <3>1, CoreTasks
    <3> DEFINE p == <<<<c, wid>>, tid, "share">>
    <3>3. p \in Places
      BY <2>2 DEF Places, Warps, WarpIds
    <3>4. Holds(p, id)
      BY <3>2 DEF Holds
    <3>5. QED
      BY <3>3, <3>4
  <2>5. CASE id >= o(c) + s(c)
    <3> DEFINE tid == id - o(c) - s(c)
               p == <<<<c, 0>>, tid, "rest">>
    <3>1. tid \in Threads /\ tid < Share(c).rest /\ id = o(c) + s(c) + tid
      BY <2>1, <2>3, <2>5, Sizes DEF Threads
    <3> HIDE DEF tid
    <3>2. p \in Places
      BY <2>2, <3>1, Sizes DEF Places, Warps
    <3>3. InRest(id, c, tid)
      BY <2>3, <3>1 DEF InRest
    <3>4. Holds(p, id)
      BY <3>3 DEF Holds
    <3>5. QED
      BY <3>2, <3>4
  <2>6. QED
    BY <2>1, <2>3, <2>4, <2>5
<1>11. QED
  BY <1>7, <1>9, <1>10

-----------------------------------------------------------------------------
(* vx_spawn_tasks_cluster                                                  *)

UsedClusters == CeilDiv(NumTasks, ClusterThreads)

(* The clusters that are used are on the device, and the last one is full  *)
(* or the only one.                                                        *)
WholeClusters ==
  /\ UsedClusters * CoresPerCluster <= NumCores
  /\ NumTasks < ClusterThreads \/ NumTasks % ClusterThreads = 0

LEMMA CeilDivCovers ==
  ASSUME NEW n \in Nat, NEW m \in Nat \ {0}, NEW c \in Nat, c * m < n
  PROVE  c < CeilDiv(n, m)
<1> DEFINE x == n + m - 1
           d == x \div m
           r == x % m
<1>1. x \in Nat
  OBVIOUS
<1> HIDE DEF x
<1>2. d \in Nat /\ r \in 0 .. m - 1 /\ x = d * m + r
  BY <1>1, Quotient
<1>3. CeilDiv(n, m) = d
  BY DEF CeilDiv, x
<1> HIDE DEF d, r
<1>4. SUFFICES ASSUME d <= c PROVE FALSE
  BY <1>2, <1>3
<1>5. d * m \in Nat /\ c * m \in Nat
  BY <1>2
<1>6. d * m <= c * m
  <2>1. CASE d = c
    BY <1>5, <2>1
  <2>2. CASE d < c
    <3>1. d * m + m <= c * m
      BY <1>2, <2>2, Ahead
    <3>2. QED
      BY <1>5, <3>1
  <2>3. QED
    BY <1>2, <1>4, <2>1, <2>2
<1>7. QED
  BY <1>2, <1>5, <1>6 DEF x

(* All clusters that are used have the same number of tasks.               *)
LEMMA EqualClusters ==
  ASSUME call \in Calls, WholeClusters
  PROVE  \E t \in Nat :
           /\ UsedClusters \in Nat /\ UsedClusters * t = NumTasks
           /\ UsedClusters > 0 => t > 0
           /\ t = ClusterThreads \/ UsedClusters <= 1
           /\ \A c \in Cores : ClusterOf(c) < UsedClusters => ClusterTasks(c) = t
<1> DEFINE N == NumTasks
           CT == ClusterThreads
           d == N \div CT
           r == N % CT
           x == N + CT - 1
           y == x % CT
<1>1. N \in Nat /\ CT \in Nat \ {0} /\ CoresPerCluster \in Nat \ {0} /\ x \in Nat
  BY CallFacts, Sizes
<1>2. d \in Nat /\ r \in 0 .. CT - 1 /\ N = d * CT + r
  BY <1>1, Quotient
<1>3. UsedClusters \in Nat /\ y \in 0 .. CT - 1 /\ x = UsedClusters * CT + y
  <2>1. UsedClusters = x \div CT
    BY DEF UsedClusters, CeilDiv
  <2> HIDE DEF x
  <2>2. QED
    BY <1>1, <2>1, Quotient
<1>4. ASSUME NEW c \in Cores
      PROVE  ClusterOf(c) \in Nat
  <2>1. c \in Nat
    BY DEF Cores
  <2>2. QED
    BY <1>1, <2>1, Quotient DEF ClusterOf
<1>5. \A c \in Cores : ClusterTasks(c) = IF ClusterOf(c) < d THEN CT ELSE r
  BY DEF ClusterTasks
<1>6. N < CT \/ r = 0
  BY DEF WholeClusters
<1> HIDE DEF N, CT, d, r, y
<1>7. CASE r = 0
  <2>1. d * CT \in Nat /\ N = d * CT
    BY <1>1, <1>2, <1>7
  <2>2. UsedClusters * CT + y = d * CT + (CT - 1) /\ CT - 1 \in 0 .. CT - 1
    BY <1>1, <1>3, <2>1
  <2>3. UsedClusters = d
    BY <1>1, <1>2, <1>3, <2>2, QuotientUnique
  <2>4. QED
    BY <1>1, <1>3, <1>5, <2>1, <2>3 DEF N, CT
<1>8. CASE r # 0 /\ N < CT
  <2>1. d = 0
    <3>1. d < 1
      <4>1. 1 * CT = CT
        BY <1>1
      <4>2. QED
        BY <1>1, <1>8, <4>1, QuotientBelow DEF d
    <3>2. QED
      BY <1>2, <3>1
  <2>2. N = r /\ r \in Nat
    BY <1>1, <1>2, <2>1
  <2>3. UsedClusters * CT + y = 1 * CT + (N - 1) /\ N - 1 \in 0 .. CT - 1
    BY <1>1, <1>2, <1>3, <1>8, <2>2
  <2>4. UsedClusters = 1
    BY <1>1, <1>3, <2>3, QuotientUnique
  <2>5. \A c \in Cores : ClusterTasks(c) = r
    BY <1>4, <1>5, <2>1
  <2>6. QED
    BY <1>1, <1>3, <1>8, <2>2, <2>4, <2>5 DEF N
<1>9. QED
  BY <1>6, <1>7, <1>8

LEMMA CoreNames ==
  ASSUME NEW c \in Cores
  PROVE  /\ ClusterOf(c) \in Nat /\ InCluster(c) \in 0 .. CoresPerCluster - 1
         /\ c = ClusterOf(c) * CoresPerCluster + InCluster(c)
<1>1. c \in Nat /\ CoresPerCluster \in Nat \ {0}
  BY Sizes DEF Cores
<1>2. QED
  BY <1>1, Quotient DEF ClusterOf, InCluster

LEMMA ClusterShares ==
  ASSUME call \in Calls, call.api = "cluster", NEW c \in Cores, Share(c).active,
         NEW t \in Nat, ClusterTasks(c) = t
  PROVE  /\ ClusterOf(c) < UsedClusters
         /\ Share(c).args.offset = ClusterOf(c) * t
         /\ Share(c).warps = (t \div NumThreads) \div CoresPerCluster
                + (IF InCluster(c) < (t \div NumThreads) % CoresPerCluster THEN 1 ELSE 0)
         /\ Share(c).warps \in Nat
         /\ Even(Share(c).args, Share(c).warps)
         /\ Share(c).rest = IF InCluster(c) = 0 THEN t % NumThreads ELSE 0
         /\ Share(c).skip = (t \div NumThreads) * NumThreads
         /\ Share(c).skip \in Nat /\ Share(c).skip + (t % NumThreads) = t
<1> DEFINE rows == t \div NumThreads
           left == t % NumThreads
           w == rows \div CoresPerCluster
                + (IF InCluster(c) < rows % CoresPerCluster THEN 1 ELSE 0)
<1>1. Share(c) = ClusterShare(c)
  BY DEF Share
<1>2. /\ NumThreads \in Nat \ {0} /\ CoresPerCluster \in Nat \ {0} /\ NumWarps \in Nat \ {0}
  BY Sizes
<1>3. rows \in Nat /\ left \in 0 .. NumThreads - 1 /\ t = rows * NumThreads + left
  BY <1>2, Quotient
<1>4. ClusterOf(c) < UsedClusters
  <2>1. ClusterShare(c).active = (/\ ClusterOf(c) < CeilDiv(NumTasks, ClusterThreads)
                                  /\ c < CeilDiv(NumTasks, NumThreads))
    BY Zenon DEF ClusterShare
  <2>2. ClusterShare(c).active
    BY <1>1
  <2>3. QED
    BY <2>1, <2>2 DEF UsedClusters
<1>5. /\ Share(c).args.offset = ClusterOf(c) * t
      /\ Share(c).warps = w
      /\ Share(c).args.NWs = w \div NumWarps /\ Share(c).args.RWs = w % NumWarps
      /\ Share(c).rest = IF InCluster(c) = 0 THEN left ELSE 0
      /\ Share(c).skip = t - left
  BY <1>1 DEF ClusterShare
<1> HIDE DEF rows, left
<1>6. w \in Nat
  <2>1. rows \div CoresPerCluster \in Nat
    BY <1>2, <1>3, Quotient
  <2>2. QED
    BY <2>1
<1> HIDE DEF w
<1>7. Even(Share(c).args, w)
  BY <1>5 DEF Even
<1>8. t - left = rows * NumThreads /\ rows * NumThreads \in Nat
  BY <1>2, <1>3
<1>9. Share(c).skip = rows * NumThreads /\ Share(c).skip \in Nat /\ Share(c).skip + left = t
  BY <1>3, <1>5, <1>8
<1>10. QED
  BY <1>4, <1>5, <1>6, <1>7, <1>9 DEF rows, left, w

(* Thread tid of warp wid has the rows of its cluster that are wid modulo  *)
(* the warps of a core, and there modulo the cores of the cluster.         *)
LEMMA ClusterRows ==
  ASSUME call \in Calls, call.api = "cluster", NEW c \in Cores, Share(c).active,
         NEW t \in Nat, ClusterTasks(c) = t,
         NEW wid \in WarpIds, NEW tid \in Threads, NEW id
  PROVE  InShare(id, c, wid, tid) <=>
           \E i \in Nat :
             /\ (i * NumWarps + wid) * CoresPerCluster + InCluster(c) < t \div NumThreads
             /\ id = ClusterOf(c) * t
                     + ((i * NumWarps + wid) * CoresPerCluster + InCluster(c)) * NumThreads + tid
<1> DEFINE a == Share(c).args
           w == Share(c).warps
           o == ClusterOf(c) * t
           q == InCluster(c)
           rows == t \div NumThreads
           NT == NumThreads
           NW == NumWarps
           CC == CoresPerCluster
<1>1. /\ NT \in Nat \ {0} /\ NW \in Nat \ {0} /\ CC \in Nat \ {0}
      /\ q \in 0 .. CC - 1 /\ ClusterOf(c) \in Nat /\ o \in Nat
      /\ tid \in Nat /\ wid \in Nat
  <2>1. /\ NT \in Nat \ {0} /\ NW \in Nat \ {0} /\ CC \in Nat \ {0}
        /\ q \in 0 .. CC - 1 /\ ClusterOf(c) \in Nat /\ tid \in Nat /\ wid \in Nat
    BY Sizes, CoreNames DEF Threads, WarpIds
  <2>2. o \in Nat
    BY <2>1
  <2>3. QED
    BY <2>1, <2>2
<1>2. rows \in Nat
  BY <1>1, Quotient
<1>3. /\ w \in Nat /\ Even(a, w) /\ a.offset = o
      /\ w = rows \div CC + (IF q < rows % CC THEN 1 ELSE 0)
  BY ClusterShares
<1>4. Turns(a, wid) \in Int
  <2>1. w \div NW \in Nat
    BY <1>1, <1>3, Quotient
  <2>2. a.NWs \in Nat
    BY <1>3, <2>1 DEF Even
  <2>3. QED
    BY <2>2 DEF Turns
<1>5. InShare(id, c, wid, tid) <=>
        /\ wid < Smaller(w, NW)
        /\ \E i \in 0 .. Turns(a, wid) - 1 :
             id = o + NT * (CC * wid + q) + tid + i * ClusterThreads
  <2>1. StubTasks(a, <<c, wid>>, tid) =
          {a.offset + NT * (CC * wid + q) + tid + i * ClusterThreads : i \in 0 .. Turns(a, wid) - 1}
    BY DEF StubTasks
  <2>2. QED
    BY <1>3, <2>1 DEF InShare
<1>6. ASSUME NEW i \in Nat
      PROVE  wid < Smaller(w, NW) /\ i < Turns(a, wid) <=> (i * NW + wid) * CC + q < rows
  <2>1. wid < Smaller(w, NW) /\ i < Turns(a, wid) <=> i * NW + wid < w
    BY <1>3, StripedRows DEF WarpIds
  <2> HIDE DEF w, q, rows, NT, NW, CC
  <2>2. i * NW + wid \in Nat
    BY <1>1
  <2>3. i * NW + wid < w <=> (i * NW + wid) * CC + q < rows
    <3> DEFINE j == i * NW + wid
    <3> HIDE DEF j
    <3>1. j \in Nat
      BY <2>2 DEF j
    <3>2. j < rows \div CC + (IF q < rows % CC THEN 1 ELSE 0) <=> j * CC + q < rows
      BY <1>1, <1>2, <3>1, Stripe, Zenon
    <3>3. QED
      BY <1>3, <3>2, Zenon DEF j
  <2>4. QED
    BY <2>1, <2>3, Zenon
<1>7. ASSUME NEW i \in Nat
      PROVE  o + NT * (CC * wid + q) + tid + i * ClusterThreads
             = o + ((i * NW + wid) * CC + q) * NT + tid
  <2>1. ClusterThreads = CC * (NW * NT)
    BY DEF ClusterThreads, CoreThreads
  <2> HIDE DEF o, q, NT, NW, CC
  <2>2. i * ClusterThreads = ((i * NW) * CC) * NT /\ ((i * NW) * CC) * NT \in Nat
    BY <1>1, <2>1
  <2>3. NT * (CC * wid + q) = (CC * wid + q) * NT /\ (CC * wid + q) * NT \in Nat
    BY <1>1
  <2>4. (i * NW + wid) * CC + q = (i * NW) * CC + (CC * wid + q)
    BY <1>1
  <2>5. ((i * NW) * CC + (CC * wid + q)) * NT = ((i * NW) * CC) * NT + (CC * wid + q) * NT
    <3>1. (i * NW) * CC \in Nat /\ CC * wid + q \in Nat
      BY <1>1
    <3>2. QED
      BY <1>1, <3>1
  <2>6. QED
    BY <1>1, <2>2, <2>3, <2>4, <2>5
<1> HIDE DEF a, w, o, q, rows, NT, NW, CC
<1>8. QED
  <2>1. (\E i \in 0 .. Turns(a, wid) - 1 : id = o + NT * (CC * wid + q) + tid + i * ClusterThreads)
        <=> \E i \in Nat : i < Turns(a, wid) /\ id = o + ((i * NW + wid) * CC + q) * NT + tid
    BY <1>4, <1>7
  <2>2. InShare(id, c, wid, tid) <=>
          \E i \in Nat : /\ (i * NW + wid) * CC + q < rows
                         /\ id = o + ((i * NW + wid) * CC + q) * NT + tid
    BY <1>5, <1>6, <2>1
  <2>3. QED
    BY <2>2 DEF o, q, rows, NT, NW, CC

LEMMA ClusterPlaces ==
  ASSUME call \in Calls, call.api = "cluster", WholeClusters
  PROVE  /\ \A p \in Places : \A id : Holds(p, id) => id \in 0 .. NumTasks - 1
         /\ \A p, q \in Places : \A id : Holds(p, id) /\ Holds(q, id) => p = q
         /\ \A id \in 0 .. NumTasks - 1 : \E p \in Places : Holds(p, id)
<1> DEFINE K == UsedClusters
           NT == NumThreads
           NW == NumWarps
           CC == CoresPerCluster
<1>1. PICK t \in Nat :
        /\ K \in Nat /\ K * t = NumTasks /\ (K > 0 => t > 0)
        /\ t = ClusterThreads \/ K <= 1
        /\ \A c \in Cores : ClusterOf(c) < K => ClusterTasks(c) = t
  BY EqualClusters
<1>2. /\ NT \in Nat \ {0} /\ NW \in Nat \ {0} /\ CC \in Nat \ {0} /\ NumTasks \in Nat
      /\ K * CC <= NumCores /\ NumCores \in Nat
  BY Sizes, CallFacts DEF WholeClusters
<1> DEFINE rows == t \div NT
           left == t % NT
           row(c, wid, i) == (i * NW + wid) * CC + InCluster(c)
           k(c) == ClusterOf(c)
           q(c) == InCluster(c)
<1>3. rows \in Nat /\ left \in 0 .. NT - 1 /\ t = rows * NT + left /\ rows * NT \in Nat
  <2>1. rows \in Nat /\ left \in 0 .. NT - 1 /\ t = rows * NT + left
    BY <1>1, <1>2, Quotient
  <2> HIDE DEF rows, left
  <2>2. rows * NT \in Nat
    BY <1>2, <2>1
  <2>3. QED
    BY <2>1, <2>2
<1>4. ASSUME NEW c \in Cores, Share(c).active
      PROVE  /\ k(c) < K /\ ClusterTasks(c) = t
             /\ Share(c).args.offset = k(c) * t /\ Share(c).skip = rows * NT
             /\ Share(c).rest = IF q(c) = 0 THEN left ELSE 0
  <2>1. k(c) < K
    BY <1>4 DEF Share, ClusterShare, UsedClusters
  <2>2. ClusterTasks(c) = t
    BY <1>1, <2>1
  <2>3. QED
    BY <1>4, <2>1, <2>2, <1>1, ClusterShares
<1>5. ASSUME NEW c \in Cores, k(c) < K, q(c) * NT < t
      PROVE  Share(c).active
  <2>1. k(c) \in Nat /\ q(c) \in 0 .. CC - 1 /\ c = k(c) * CC + q(c) /\ c \in Nat
    BY CoreNames DEF Cores
  <2> HIDE DEF k, q
  <2>2. c * NT = (k(c) * CC) * NT + q(c) * NT /\ (k(c) * CC) * NT \in Nat /\ q(c) * NT \in Nat
    <3>1. k(c) * CC \in Nat
      BY <1>2, <2>1
    <3>2. \A a, b \in Nat : (a + b) * NT = a * NT + b * NT /\ a * NT \in Nat
      BY <1>2
    <3>3. (k(c) * CC + q(c)) * NT = (k(c) * CC) * NT + q(c) * NT
      BY <2>1, <3>1, <3>2
    <3>4. (k(c) * CC) * NT \in Nat /\ q(c) * NT \in Nat
      BY <2>1, <3>1, <3>2
    <3>5. QED
      BY <2>1, <3>3, <3>4, Zenon
  <2>3. (k(c) * CC) * NT <= k(c) * t
    <3>1. CASE k(c) = 0
      BY <1>1, <1>2, <3>1
    <3>2. CASE k(c) # 0
      <4>1. t = CC * (NW * NT)
        BY <1>1, <1>5, <2>1, <3>2 DEF ClusterThreads, CoreThreads
      <4>2. k(c) * t = ((k(c) * CC) * NT) * NW
        BY <1>2, <2>1, <4>1
      <4>3. (k(c) * CC) * NT \in Nat
        BY <2>2
      <4>4. \A x \in Nat : x <= x * NW
        BY <1>2
      <4>5. QED
        BY <4>2, <4>3, <4>4
    <3>3. QED
      BY <3>1, <3>2
  <2>4. k(c) * t + t <= K * t /\ k(c) * t \in Nat
    BY <1>1, <1>5, <2>1, Ahead
  <2>5. c * NT < NumTasks
    BY <1>1, <1>2, <1>5, <2>2, <2>3, <2>4
  <2>6. c < CeilDiv(NumTasks, NumThreads)
    BY <1>2, <2>1, <2>5, CeilDivCovers
  <2>7. ClusterShare(c).active = (/\ ClusterOf(c) < CeilDiv(NumTasks, ClusterThreads)
                                  /\ c < CeilDiv(NumTasks, NumThreads))
    BY Zenon DEF ClusterShare
  <2>8. ClusterShare(c).active
    BY <1>5, <2>6, <2>7 DEF UsedClusters, k
  <2>9. QED
    BY <2>8 DEF Share
<1>6. ASSUME NEW c \in Cores, Share(c).active, NEW wid \in WarpIds, NEW tid \in Threads, NEW id
      PROVE  InShare(id, c, wid, tid) <=>
               \E i \in Nat : row(c, wid, i) < rows /\ id = k(c) * t + row(c, wid, i) * NT + tid
  <2>1. ClusterTasks(c) = t /\ t \in Nat
    BY <1>1, <1>4, <1>6
  <2>2. InShare(id, c, wid, tid) <=>
           \E i \in Nat :
             /\ (i * NumWarps + wid) * CoresPerCluster + InCluster(c) < t \div NumThreads
             /\ id = ClusterOf(c) * t
                     + ((i * NumWarps + wid) * CoresPerCluster + InCluster(c)) * NumThreads + tid
    BY <1>6, <2>1, ClusterRows, SMTT(30)
  <2>3. QED
    BY <2>2, Zenon
<1> HIDE DEF K, NT, NW, CC, rows, left, row, k, q
(* A place of a core has numbers of the core's cluster.                    *)
<1>7. ASSUME NEW p \in Places, NEW id, Holds(p, id)
      PROVE  \E x \in 0 .. t - 1 :
               /\ Share(p[1][1]).active /\ k(p[1][1]) \in Nat /\ k(p[1][1]) < K
               /\ id = k(p[1][1]) * t + x
               /\ p[3] = "share" => x < rows * NT /\ \E i \in Nat :
                                      x = row(p[1][1], p[1][2], i) * NT + p[2]
               /\ p[3] = "rest" => x = rows * NT + p[2] /\ q(p[1][1]) = 0 /\ p[1][2] = 0
  <2> DEFINE c == p[1][1]
  <2>1. /\ c \in Cores /\ p[1][2] \in WarpIds /\ p[2] \in Threads /\ p[3] \in {"share", "rest"}
        /\ Share(c).active
    BY <1>7, PlaceFacts DEF Holds, InShare, InRest
  <2>2. k(c) \in Nat /\ k(c) < K /\ p[2] \in 0 .. NT - 1
    BY <1>4, <2>1, CoreNames DEF k, Threads, NT
  <2>3. CASE p[3] = "share"
    <3>1. InShare(id, c, p[1][2], p[2])
      BY <1>7, <2>3 DEF Holds
    <3>2. PICK i \in Nat : row(c, p[1][2], i) < rows
                           /\ id = k(c) * t + row(c, p[1][2], i) * NT + p[2]
      BY <1>6, <2>1, <3>1
    <3> DEFINE r == row(c, p[1][2], i)
    <3>3. r \in Nat
      <4>1. InCluster(c) \in Nat /\ p[1][2] \in Nat
        BY <2>1, CoreNames DEF WarpIds
      <4>2. i * NW + p[1][2] \in Nat
        BY <1>2, <4>1
      <4>3. (i * NW + p[1][2]) * CC \in Nat
        BY <1>2, <4>2
      <4>4. QED
        BY <4>1, <4>3 DEF row
    <3> HIDE DEF r
    <3>4. r * NT + NT <= rows * NT /\ r * NT \in Nat
      BY <1>2, <1>3, <3>2, <3>3, Ahead DEF r
    <3>5. r * NT + p[2] \in 0 .. t - 1 /\ r * NT + p[2] < rows * NT
      BY <1>1, <1>2, <1>3, <2>2, <3>4
    <3>6. id = k(c) * t + (r * NT + p[2])
      <4>1. k(c) * t \in Nat
        BY <1>1, <2>2
      <4>2. QED
        BY <2>2, <3>2, <3>4, <4>1 DEF r
    <3>7. QED
      BY <2>1, <2>2, <2>3, <3>5, <3>6 DEF r
  <2>4. CASE p[3] = "rest"
    <3>1. InRest(id, c, p[2]) /\ p[1][2] = 0
      BY <1>7, <2>4 DEF Holds
    <3>2. id = k(c) * t + rows * NT + p[2] /\ p[2] < IF q(c) = 0 THEN left ELSE 0
      BY <1>4, <2>1, <3>1 DEF InRest
    <3>3. q(c) = 0 /\ p[2] < left
      BY <2>2, <3>2
    <3>4. rows * NT + p[2] \in 0 .. t - 1
      BY <1>1, <1>2, <1>3, <2>2, <3>3
    <3>5. id = k(c) * t + (rows * NT + p[2])
      <4>1. k(c) * t \in Nat
        BY <1>1, <2>2
      <4>2. QED
        BY <1>3, <2>2, <3>2, <4>1
    <3>6. QED
      BY <2>1, <2>2, <2>4, <3>1, <3>3, <3>4, <3>5
  <2>5. QED
    BY <2>1, <2>3, <2>4
<1>8. ASSUME NEW p \in Places, NEW id, Holds(p, id)
      PROVE  id \in 0 .. NumTasks - 1
  <2>1. PICK x \in 0 .. t - 1 :
          k(p[1][1]) \in Nat /\ k(p[1][1]) < K /\ id = k(p[1][1]) * t + x
    BY <1>7, <1>8
  <2>2. k(p[1][1]) * t + t <= K * t /\ k(p[1][1]) * t \in Nat
    BY <1>1, <2>1, Ahead
  <2>3. QED
    BY <1>1, <1>2, <2>1, <2>2
<1>9. ASSUME NEW p \in Places, NEW z \in Places, NEW id, Holds(p, id), Holds(z, id)
      PROVE  p = z
  <2> DEFINE c == p[1][1]
             d == z[1][1]
  <2>1. PICK x \in 0 .. t - 1 :
               /\ k(c) \in Nat /\ id = k(c) * t + x
               /\ p[3] = "share" => x < rows * NT /\ \E i \in Nat : x = row(c, p[1][2], i) * NT + p[2]
               /\ p[3] = "rest" => x = rows * NT + p[2] /\ q(c) = 0 /\ p[1][2] = 0
    BY <1>7, <1>9
  <2>2. PICK y \in 0 .. t - 1 :
               /\ k(d) \in Nat /\ id = k(d) * t + y
               /\ z[3] = "share" => y < rows * NT /\ \E i \in Nat : y = row(d, z[1][2], i) * NT + z[2]
               /\ z[3] = "rest" => y = rows * NT + z[2] /\ q(d) = 0 /\ z[1][2] = 0
    BY <1>7, <1>9
  <2>3. k(c) = k(d) /\ x = y
    <3>1. k(c) * t + x = k(d) * t + y
      BY <2>1, <2>2
    <3>2. k(c) \in Nat /\ k(d) \in Nat /\ t \in Nat
      BY <2>1, <2>2
    <3>3. QED
      BY <3>1, <3>2, QuotientUnique
  <2>4. /\ c \in Cores /\ d \in Cores /\ p[1][2] \in WarpIds /\ z[1][2] \in WarpIds
        /\ p[2] \in 0 .. NT - 1 /\ z[2] \in 0 .. NT - 1
        /\ p[3] \in {"share", "rest"} /\ z[3] \in {"share", "rest"}
    BY PlaceFacts DEF Threads, NT
  <2>5. /\ q(c) \in 0 .. CC - 1 /\ q(d) \in 0 .. CC - 1
        /\ c = k(c) * CC + q(c) /\ d = k(d) * CC + q(d)
    BY <2>4, CoreNames DEF q, k, CC
  <2>6. p[3] = z[3]
    <3>1. ~(p[3] = "share" /\ z[3] = "rest")
      BY <1>3, <2>1, <2>2, <2>3, <2>4
    <3>2. ~(p[3] = "rest" /\ z[3] = "share")
      BY <1>3, <2>1, <2>2, <2>3, <2>4
    <3>3. QED
      BY <2>4, <3>1, <3>2
  <2>7. CASE p[3] = "rest"
    <3>1. p[2] = z[2]
      BY <1>3, <2>1, <2>2, <2>3, <2>4, <2>6, <2>7
    <3>2. c = d /\ p[1][2] = z[1][2]
      BY <2>1, <2>2, <2>3, <2>5, <2>6, <2>7
    <3>3. QED
      BY <2>6, <3>1, <3>2, PlaceFacts
  <2>8. CASE p[3] = "share"
    <3>1. PICK i \in Nat : x = row(c, p[1][2], i) * NT + p[2]
      BY <2>1, <2>8
    <3>2. PICK j \in Nat : x = row(d, z[1][2], j) * NT + z[2]
      BY <2>2, <2>3, <2>6, <2>8
    <3> DEFINE m == i * NW + p[1][2]
               n == j * NW + z[1][2]
    <3>3. m \in Nat /\ n \in Nat /\ p[1][2] \in 0 .. NW - 1 /\ z[1][2] \in 0 .. NW - 1
      BY <1>2, <2>4 DEF WarpIds, NW
    <3>4. row(c, p[1][2], i) = m * CC + q(c) /\ row(d, z[1][2], j) = n * CC + q(d)
      BY DEF row, q
    <3> HIDE DEF m, n
    <3>5. m * CC + q(c) \in Nat /\ n * CC + q(d) \in Nat
      <4>1. m * CC \in Nat /\ n * CC \in Nat
        BY <1>2, <3>3
      <4>2. QED
        BY <2>5, <4>1
    <3>6. m * CC + q(c) = n * CC + q(d) /\ p[2] = z[2]
      <4>1. (m * CC + q(c)) * NT + p[2] = (n * CC + q(d)) * NT + z[2]
        BY <3>1, <3>2, <3>4
      <4> DEFINE g == m * CC + q(c)
                 h == n * CC + q(d)
                 kk == p[2]
                 l == z[2]
      <4>2. /\ g \in Nat /\ h \in Nat /\ g * NT + kk = h * NT + l /\ NT \in Nat
            /\ kk \in 0 .. NT - 1 /\ l \in 0 .. NT - 1
        BY <1>2, <2>4, <3>5, <4>1
      <4> HIDE DEF g, h, kk, l
      <4>3. g = h /\ kk = l
        BY <4>2, QuotientUnique
      <4>4. QED
        BY <4>3 DEF g, h, kk, l
    <3>7. m = n /\ q(c) = q(d)
      BY <1>2, <2>5, <3>3, <3>6, QuotientUnique
    <3>8. p[1][2] = z[1][2]
      <4>1. i * NW + p[1][2] = j * NW + z[1][2]
        BY <3>7 DEF m, n
      <4>2. QED
        BY <1>2, <3>3, <4>1, QuotientUnique
    <3>9. QED
      BY <2>3, <2>5, <2>6, <3>6, <3>7, <3>8, PlaceFacts
  <2>9. QED
    BY <2>4, <2>7, <2>8
<1>10. ASSUME NEW id \in 0 .. NumTasks - 1
       PROVE  \E p \in Places : Holds(p, id)
  <2>1. t \in Nat \ {0} /\ id \in Nat
    <3>1. K * t > 0
      BY <1>1, <1>2
    <3>2. t # 0
      BY <1>1, <3>1
    <3>3. QED
      BY <1>1, <3>2
  <2> DEFINE e == id \div t
             x == id % t
  <2>2. e \in Nat /\ x \in 0 .. t - 1 /\ id = e * t + x
    BY <2>1, Quotient
  <2>3. e < K
    BY <1>1, <1>2, <2>1, QuotientBelow
  <2> HIDE DEF e, x
  <2>4. ASSUME NEW s \in 0 .. CC - 1
        PROVE  e * CC + s \in Cores /\ k(e * CC + s) = e /\ q(e * CC + s) = s
    <3> DEFINE c == e * CC + s
    <3>1. e * CC + CC <= K * CC /\ e * CC \in Nat /\ K * CC \in Nat
      BY <1>1, <1>2, <2>2, <2>3, Ahead
    <3>2. c \in Cores
      BY <1>2, <3>1 DEF Cores
    <3> HIDE DEF c
    <3>3. /\ k(c) \in Nat /\ q(c) \in 0 .. CC - 1 /\ c = k(c) * CC + q(c)
      BY <3>2, CoreNames DEF k, q, CC
    <3>4. k(c) = e /\ q(c) = s
      <4>1. k(c) * CC + q(c) = e * CC + s
        BY <3>3 DEF c
      <4>2. QED
        BY <1>2, <2>2, <3>3, <4>1, QuotientUnique
    <3>5. QED
      BY <3>2, <3>4 DEF c
  <2>5. CASE x < rows * NT
    <3> DEFINE r == x \div NT
               tid == x % NT
    <3>1. r \in Nat /\ tid \in 0 .. NT - 1 /\ x = r * NT + tid
      <4>1. x \in Nat
        BY <2>2
      <4>2. QED
        BY <1>2, <4>1, Quotient
    <3>2. r < rows
      <4>1. x \in Nat
        BY <2>2
      <4>2. QED
        BY <1>2, <1>3, <2>5, <4>1, QuotientBelow
    <3> HIDE DEF r, tid
    <3> DEFINE m == r \div CC
               s == r % CC
    <3>3. m \in Nat /\ s \in 0 .. CC - 1 /\ r = m * CC + s
      BY <1>2, <3>1, Quotient
    <3> HIDE DEF m, s
    <3> DEFINE i == m \div NW
               wid == m % NW
    <3>4. i \in Nat /\ wid \in 0 .. NW - 1 /\ m = i * NW + wid
      BY <1>2, <3>3, Quotient
    <3> HIDE DEF i, wid
    <3> DEFINE c == e * CC + s
    <3>5. c \in Cores /\ k(c) = e /\ q(c) = s
      BY <2>4, <3>3
    <3> HIDE DEF c
    <3>6. q(c) * NT < t
      <4>1. s <= r
        <5>1. m * CC \in Nat
          BY <1>2, <3>3
        <5>2. QED
          BY <3>3, <5>1
      <4>2. s < rows /\ s \in Nat
        BY <1>3, <3>1, <3>2, <3>3, <4>1
      <4>3. s * NT + NT <= rows * NT /\ s * NT \in Nat
        BY <1>2, <1>3, <4>2, Ahead
      <4>4. QED
        BY <1>2, <1>3, <3>5, <4>3
    <3>7. Share(c).active
      BY <1>5, <2>3, <3>5, <3>6
    <3>8. row(c, wid, i) = r
      BY <3>3, <3>4, <3>5 DEF row, q
    <3>9. id = k(c) * t + row(c, wid, i) * NT + tid
      <4>1. e * t \in Nat /\ r * NT \in Nat
        BY <1>1, <1>2, <2>2, <3>1
      <4>2. QED
        BY <2>2, <3>1, <3>5, <3>8, <4>1
    <3>10. wid \in WarpIds /\ tid \in Threads
      BY <3>1, <3>4 DEF WarpIds, Threads, NW, NT
    <3>11. InShare(id, c, wid, tid)
      BY <1>6, <3>2, <3>4, <3>5, <3>7, <3>8, <3>9, <3>10
    <3> DEFINE p == <<<<c, wid>>, tid, "share">>
    <3>12. p \in Places
      BY <3>5, <3>10 DEF Places, Warps, WarpIds
    <3>13. Holds(p, id)
      BY <3>11 DEF Holds
    <3>14. QED
      BY <3>12, <3>13
  <2>6. CASE x >= rows * NT
    <3> DEFINE tid == x - rows * NT
               c == e * CC + 0
    <3>1. tid \in Nat /\ tid < left /\ x = rows * NT + tid
      BY <1>1, <1>3, <2>2, <2>6
    <3>2. 0 \in 0 .. CC - 1
      BY <1>2
    <3>3. c \in Cores /\ k(c) = e /\ q(c) = 0
      BY <2>4, <3>2
    <3> HIDE DEF c, tid
    <3>4. q(c) * NT < t
      BY <1>2, <2>1, <3>3
    <3>5. Share(c).active
      BY <1>5, <2>3, <3>3, <3>4
    <3>6. tid < Share(c).rest /\ id = Share(c).args.offset + Share(c).skip + tid
      <4>1. e * t \in Nat
        BY <1>1, <2>2
      <4>2. QED
        BY <1>3, <1>4, <2>2, <3>1, <3>3, <3>5, <4>1
    <3>7. InRest(id, c, tid)
      BY <3>5, <3>6 DEF InRest
    <3> DEFINE p == <<<<c, 0>>, tid, "rest">>
    <3>8. p \in Places
      <4>1. 0 \in 0 .. NumWarps - 1 /\ tid \in Threads
        BY <1>2, <1>3, <3>1 DEF NW, NT, Threads
      <4>2. QED
        BY <3>3, <4>1 DEF Places, Warps
    <3>9. Holds(p, id)
      BY <3>7 DEF Holds
    <3>10. QED
      BY <3>8, <3>9
  <2>7. QED
    BY <1>3, <2>2, <2>5, <2>6
<1>11. QED
  BY <1>8, <1>9, <1>10

-----------------------------------------------------------------------------
(* Powers of two                                                           *)

LEMMA LeastNat ==
  ASSUME NEW S \in SUBSET Nat, S # {}
  PROVE  \E n \in S : \A m \in S : n <= m
<1>1. \E n \in S : \A m \in S : ~(<<m, n>> \in OpToRel(<, Nat))
  BY NatLessThanWellFounded, WFMin
<1>2. PICK n \in S : \A m \in S : ~ (m < n)
  BY <1>1 DEF OpToRel
<1>3. \A m \in S : n <= m
  BY <1>2
<1>4. QED
  BY <1>3

(* A table of the first powers of two. There is one for every n, and they *)
(* agree where they overlap: together they are the function Power.         *)
Doubles(f, n) ==
  f \in [0 .. n -> Nat] /\ f[0] = 1 /\ \A i \in 1 .. n : f[i] = 2 * f[i - 1]

LEMMA DoublesExist ==
  ASSUME NEW n \in Nat
  PROVE  \E f : Doubles(f, n)
<1> DEFINE S == {k \in Nat : ~ \E f : Doubles(f, k)}
<1> SUFFICES ASSUME S # {} PROVE FALSE
  OBVIOUS
<1>1. PICK k \in S : \A m \in S : k <= m
  BY LeastNat
<1>2. CASE k = 0
  <2>1. Doubles([i \in 0 .. 0 |-> 1], 0)
    BY DEF Doubles
  <2>2. QED
    BY <1>2, <2>1
<1>3. CASE k # 0
  <2>1. k - 1 \in Nat /\ k - 1 \notin S
    BY <1>1, <1>3
  <2>2. PICK f : Doubles(f, k - 1)
    BY <2>1
  <2> DEFINE g == [i \in 0 .. k |-> IF i = k THEN 2 * f[k - 1] ELSE f[i]]
  <2>3. Doubles(g, k)
    <3>1. k \in Nat \ {0}
      BY <1>3
    <3>2. \A i \in 0 .. k - 1 : f[i] \in Nat
      BY <2>2 DEF Doubles
    <3>3. \A i \in 0 .. k : g[i] = IF i = k THEN 2 * f[k - 1] ELSE f[i]
      OBVIOUS
    <3>4. g \in [0 .. k -> Nat]
      BY <3>1, <3>2
    <3> HIDE DEF g
    <3>5. g[0] = 1
      BY <2>2, <3>1, <3>3 DEF Doubles
    <3>6. \A i \in 1 .. k : g[i] = 2 * g[i - 1]
      BY <2>2, <3>1, <3>3 DEF Doubles
    <3>7. QED
      BY <3>4, <3>5, <3>6 DEF Doubles
  <2>4. QED
    BY <2>3
<1>4. QED
  BY <1>2, <1>3

LEMMA DoublesAgree ==
  ASSUME NEW m \in Nat, NEW n \in Nat, NEW f, NEW g, Doubles(f, m), Doubles(g, n),
         NEW i \in Nat, i <= m, i <= n
  PROVE  f[i] = g[i]
<1> DEFINE S == {k \in Nat : k <= m /\ k <= n /\ f[k] # g[k]}
<1> SUFFICES ASSUME S # {} PROVE FALSE
  OBVIOUS
<1>1. PICK k \in S : \A j \in S : k <= j
  BY LeastNat
<1>2. k # 0
  BY DEF Doubles
<1>3. k - 1 \notin S
  BY <1>1
<1>4. f[k - 1] = g[k - 1]
  BY <1>2, <1>3
<1>5. f[k] = g[k]
  BY <1>2, <1>4 DEF Doubles
<1>6. QED
  BY <1>5

LEMMA PowerDef ==
  /\ Power \in [Nat -> Nat]
  /\ Power[0] = 1
  /\ \A n \in Nat : Power[n + 1] = 2 * Power[n]
<1> DEFINE table(n) == CHOOSE f : Doubles(f, n)
           p == [n \in Nat |-> table(n)[n]]
           Eq(f) == f = [n \in Nat |-> IF n = 0 THEN 1 ELSE 2 * f[n - 1]]
<1>1. \A n \in Nat : Doubles(table(n), n)
  BY DoublesExist
<1> HIDE DEF table
<1>2. \A n \in Nat : p[n] \in Nat
  BY <1>1 DEF Doubles
<1>3. p[0] = 1
  BY <1>1 DEF Doubles
<1>4. ASSUME NEW n \in Nat, n # 0
      PROVE  p[n] = 2 * p[n - 1]
  <2>1. n - 1 \in Nat
    BY <1>4
  <2>2. table(n)[n] = 2 * table(n)[n - 1]
    BY <1>1, <1>4 DEF Doubles
  <2>3. table(n)[n - 1] = table(n - 1)[n - 1]
    BY <1>1, <2>1, DoublesAgree
  <2>4. QED
    BY <2>1, <2>2, <2>3
<1>5. Eq(p)
  BY <1>3, <1>4
<1> HIDE DEF p
<1>6. Power = CHOOSE f : Eq(f)
  BY DEF Power
<1>7. Eq(Power)
  BY <1>5, <1>6
<1>8. \A n \in Nat : Power[n] = IF n = 0 THEN 1 ELSE 2 * Power[n - 1]
  BY <1>7
<1>9. \A n \in Nat : Power[n] \in Nat
  <2> DEFINE S == {n \in Nat : Power[n] \notin Nat}
  <2> SUFFICES ASSUME S # {} PROVE FALSE
    OBVIOUS
  <2>1. PICK n \in S : \A m \in S : n <= m
    BY LeastNat
  <2>2. n # 0
    BY <1>8
  <2>3. n - 1 \in Nat /\ n - 1 \notin S
    BY <2>1, <2>2
  <2>4. QED
    BY <1>8, <2>2, <2>3
<1>10. Power \in [Nat -> Nat]
  <2>1. Power = [n \in Nat |-> IF n = 0 THEN 1 ELSE 2 * Power[n - 1]]
    BY <1>7
  <2> DEFINE g == [n \in Nat |-> Power[n]]
  <2>2. Power = g
    BY <1>8, <2>1
  <2>3. g \in [Nat -> Nat]
    BY <1>9
  <2>4. QED
    BY <2>2, <2>3
<1>11. QED
  BY <1>8, <1>10

LEMMA PowerGrows ==
  /\ \A n \in Nat : n < Power[n]
  /\ \A m, n \in Nat : m < n => Power[m + 1] <= Power[n]
<1>1. \A n \in Nat : n < Power[n]
  <2> DEFINE S == {n \in Nat : ~(n < Power[n])}
  <2> SUFFICES ASSUME S # {} PROVE FALSE
    OBVIOUS
  <2>1. PICK n \in S : \A m \in S : n <= m
    BY LeastNat
  <2>2. n # 0
    BY PowerDef
  <2>3. n - 1 \in Nat /\ n - 1 \notin S
    BY <2>1, <2>2
  <2>4. Power[(n - 1) + 1] = 2 * Power[n - 1] /\ Power[n - 1] \in Nat /\ (n - 1) + 1 = n
    BY <2>3, PowerDef
  <2>5. QED
    BY <2>3, <2>4
<1>2. ASSUME NEW m \in Nat
      PROVE  \A n \in Nat : m < n => Power[m + 1] <= Power[n]
  <2> DEFINE S == {n \in Nat : m < n /\ ~(Power[m + 1] <= Power[n])}
  <2> SUFFICES ASSUME S # {} PROVE FALSE
    OBVIOUS
  <2>1. PICK n \in S : \A k \in S : n <= k
    BY LeastNat
  <2>2. n # m + 1
    BY PowerDef
  <2>3. n - 1 \in Nat /\ n - 1 \notin S /\ m < n - 1
    BY <2>1, <2>2
  <2>4. Power[(n - 1) + 1] = 2 * Power[n - 1] /\ Power[n - 1] \in Nat /\ (n - 1) + 1 = n
        /\ Power[m + 1] \in Nat
    BY <2>3, PowerDef
  <2>5. QED
    BY <2>3, <2>4
<1>3. QED
  BY <1>1, <1>2

(* A factor of a power of two is one.                                      *)
LEMMA FactorOfPower ==
  ASSUME NEW e \in Nat, NEW x \in Nat, NEW y \in Nat, x * y = Power[e]
  PROVE  \E a \in Nat : x = Power[a]
<1> DEFINE Splits(n) == \E u, v \in Nat : u * v = Power[n] /\ \A a \in Nat : u # Power[a]
           S == {n \in Nat : Splits(n)}
<1> SUFFICES ASSUME S # {} PROVE FALSE
  OBVIOUS
<1>1. PICK n \in S : \A m \in S : n <= m
  BY LeastNat
<1>2. PICK u \in Nat, v \in Nat : u * v = Power[n] /\ \A a \in Nat : u # Power[a]
  BY <1>1
<1>3. n # 0
  <2> SUFFICES ASSUME u * v = 1 PROVE FALSE
    BY <1>2, PowerDef
  <2>1. u = 1
    OBVIOUS
  <2>2. QED
    BY <1>2, <2>1, PowerDef
<1>4. n - 1 \in Nat /\ ~Splits(n - 1)
  <2> HIDE DEF Splits
  <2>1. QED
    BY <1>1, <1>3
<1>5. u * v = 2 * Power[n - 1] /\ Power[n - 1] \in Nat
  BY <1>2, <1>4, PowerDef
<1>6. CASE u % 2 = 0
  <2>1. PICK w \in Nat : u = 2 * w
    BY <1>6
  <2>2. w * v = Power[n - 1]
    <3>1. (2 * w) * v = 2 * (w * v) /\ w * v \in Nat
      OBVIOUS
    <3>2. QED
      BY <1>5, <2>1, <3>1
  <2>3. PICK a \in Nat : w = Power[a]
    BY <1>4, <2>2
  <2>4. u = Power[a + 1]
    BY <2>1, <2>3, PowerDef
  <2>5. QED
    BY <1>2, <2>4
<1>7. CASE u % 2 = 1
  <2>1. v % 2 = 0
    <3>1. PICK w \in Nat : u = 2 * w + 1
      BY <1>7
    <3>2. u * v = 2 * (w * v) + v /\ w * v \in Nat
      BY <3>1
    <3>3. PICK z \in Nat : 2 * Power[n - 1] = 2 * z + v
      BY <1>5, <3>2
    <3>4. QED
      BY <1>5, <3>3
  <2>2. PICK w \in Nat : v = 2 * w
    BY <2>1
  <2>3. u * w = Power[n - 1]
    <3>1. u * (2 * w) = 2 * (u * w) /\ u * w \in Nat
      OBVIOUS
    <3>2. QED
      BY <1>5, <2>2, <3>1
  <2>4. QED
    BY <1>2, <1>4, <2>3
<1>8. QED
  BY <1>6, <1>7

LEMMA LogOfPower ==
  ASSUME NEW a \in Nat, NEW x, x = Power[a]
  PROVE  Power[Log2(x)] = x
<1>1. /\ Power \in [Nat -> Nat] /\ x \in Nat /\ a < x
      /\ Power[a] <= x /\ x < Power[a + 1]
  BY PowerDef, PowerGrows
<1>2. ASSUME NEW e \in 0 .. x, Power[e] <= x, x < Power[e + 1]
      PROVE  e = a
  <2>1. ~(e < a) /\ ~(a < e)
    BY <1>1, <1>2, PowerGrows
  <2>2. QED
    BY <2>1
<1>3. Log2(x) \in 0 .. x /\ Power[Log2(x)] <= x /\ x < Power[Log2(x) + 1]
  <2>1. \E e \in 0 .. x : Power[e] <= x /\ x < Power[e + 1]
    BY <1>1
  <2>2. QED
    BY <2>1 DEF Log2
<1>4. QED
  BY <1>2, <1>3

LEMMA LogsAreExact == LogsExact
<1> SUFFICES ASSUME NEW k \in Calls, IsLog2(k.groups[1] * k.groups[2])
             PROVE  /\ Power[Log2(k.groups[1] * k.groups[2])] = k.groups[1] * k.groups[2]
                    /\ Power[Log2(k.groups[1])] = k.groups[1]
  BY DEF LogsExact
<1>1. k.groups[1] \in Nat /\ k.groups[2] \in Nat
  BY CallsAssumption
<1>2. PICK e \in Nat : k.groups[1] * k.groups[2] = Power[e]
  BY <1>1 DEF IsLog2
<1>3. PICK a \in Nat : k.groups[1] = Power[a]
  BY <1>1, <1>2, FactorOfPower
<1>4. QED
  BY <1>2, <1>3, LogOfPower

-----------------------------------------------------------------------------
(* The tasks and their numbers                                             *)

(* Shift or division, Group finds the coordinates of a number.             *)
LEMMA GroupDivides ==
  ASSUME call \in Calls, call.api = "kernel", NEW id
  PROVE  LET X == call.groups[1]
             XY == call.groups[1] * call.groups[2]
             flat == id - (id \div XY) * XY
         IN  Group(id) = <<flat - (flat \div X) * X, flat \div X, id \div XY>>
<1> DEFINE X == call.groups[1]
           XY == call.groups[1] * call.groups[2]
<1>1. CASE IsLog2(XY)
  <2>1. Power[Log2(XY)] = XY /\ Power[Log2(X)] = X
    BY <1>1, LogsAreExact, Zenon DEF LogsExact
  <2>2. QED
    BY <1>1, <2>1, Zenon DEF Group
<1>2. CASE ~IsLog2(XY)
  BY <1>2, Zenon DEF Group
<1>3. QED
  BY <1>1, <1>2

LEMMA GridNumbers ==
  ASSUME call \in Calls, call.api = "kernel"
  PROVE  /\ \A id \in 0 .. NumTasks - 1 : TaskOf(id) \in AllTasks
         /\ \A id, jd \in 0 .. NumTasks - 1 : TaskOf(id) = TaskOf(jd) => id = jd
         /\ \A g \in AllTasks : \E id \in 0 .. NumTasks - 1 : TaskOf(id) = g
<1> DEFINE X == call.groups[1]
           Y == call.groups[2]
           Z == call.groups[3]
<1>1. /\ X \in Nat /\ Y \in Nat /\ Z \in Nat /\ NumTasks = X * Y * Z
      /\ AllTasks = (0 .. X - 1) \X (0 .. Y - 1) \X (0 .. Z - 1)
      /\ \A id : TaskOf(id) = Group(id)
  BY CallFacts DEF NumTasks, AllTasks, TaskOf
<1>2. \A id : Group(id) = LET flat == id - (id \div (X * Y)) * (X * Y)
                        IN  <<flat - (flat \div X) * X, flat \div X, id \div (X * Y)>>
  BY GroupDivides, Zenon
<1> HIDE DEF X, Y, Z
<1> DEFINE XY == X * Y
<1>3. XY \in Nat /\ NumTasks = Z * XY /\ NumTasks \in Nat
  BY <1>1
(* Each number has coordinates.                                            *)
<1>4. ASSUME NEW id \in 0 .. NumTasks - 1
      PROVE  \E i \in 0 .. X - 1, j \in 0 .. Y - 1, k \in 0 .. Z - 1 :
               Group(id) = <<i, j, k>> /\ id = k * XY + (j * X + i)
  <2> HIDE DEF XY
  <2>1. XY \in Nat \ {0} /\ id \in Nat /\ id < Z * XY
    BY <1>1, <1>3
  <2>2. X \in Nat \ {0} /\ XY = Y * X
    BY <1>1, <2>1 DEF XY
  <2> DEFINE k == id \div XY
             f == id % XY
             j == f \div X
             i == f % X
  <2>3. k \in Nat /\ f \in 0 .. XY - 1 /\ id = k * XY + f
    BY <2>1, Quotient
  <2>4. k < Z
    BY <1>1, <2>1, QuotientBelow
  <2>5. j \in Nat /\ i \in 0 .. X - 1 /\ f = j * X + i
    <3> HIDE DEF f
    <3>1. f \in Nat
      BY <2>3
    <3>2. QED
      BY <2>2, <3>1, Quotient
  <2>6. j < Y
    <3> HIDE DEF f
    <3>1. f \in Nat /\ f < Y * X
      BY <1>1, <2>1, <2>2, <2>3
    <3>2. QED
      BY <1>1, <2>2, <3>1, QuotientBelow
  <2>7. id - k * XY = f
    <3> HIDE DEF k, f
    <3>1. k * XY \in Nat
      BY <2>1, <2>3
    <3>2. QED
      BY <2>1, <2>3, <3>1
  <2>8. f - j * X = i
    <3> HIDE DEF f, j, i
    <3>1. j * X \in Nat
      BY <2>2, <2>5
    <3>2. QED
      BY <2>3, <2>5, <3>1
  <2>9. Group(id) = <<i, j, k>>
    <3>1. Group(id) = LET flat == id - k * XY IN <<flat - (flat \div X) * X, flat \div X, k>>
      BY <1>2, Zenon DEF XY
    <3>2. Group(id) = <<f - (f \div X) * X, f \div X, k>>
      BY <2>7, <3>1, Zenon
    <3>3. QED
      BY <2>8, <3>2, Zenon
  <2> HIDE DEF k, f, j, i
  <2>10. i \in 0 .. X - 1 /\ j \in 0 .. Y - 1 /\ k \in 0 .. Z - 1
    BY <1>1, <2>3, <2>4, <2>5, <2>6
  <2>11. id = k * XY + (j * X + i)
    BY <2>3, <2>5
  <2>12. QED
    BY <2>9, <2>10, <2>11
(* Coordinates give a number, and only one.                                *)
<1>5. ASSUME NEW i \in 0 .. X - 1, NEW j \in 0 .. Y - 1, NEW k \in 0 .. Z - 1
      PROVE  k * XY + (j * X + i) \in 0 .. NumTasks - 1 /\ j * X + i \in 0 .. XY - 1
  <2>1. j * X + X <= Y * X /\ j * X \in Nat
    BY <1>1, Ahead
  <2>2. Y * X = XY
    BY <1>1
  <2>3. j * X + i \in 0 .. XY - 1
    BY <1>1, <1>3, <2>1, <2>2
  <2> HIDE DEF XY
  <2>4. k * XY + XY <= Z * XY /\ k * XY \in Nat
    BY <1>1, <1>3, Ahead
  <2>5. QED
    BY <1>3, <2>3, <2>4
<1> HIDE DEF XY
<1>6. ASSUME NEW id \in 0 .. NumTasks - 1
      PROVE  TaskOf(id) \in AllTasks
  <2>1. PICK i \in 0 .. X - 1, j \in 0 .. Y - 1, k \in 0 .. Z - 1 : Group(id) = <<i, j, k>>
    BY <1>4
  <2>2. QED
    BY <1>1, <2>1
<1>7. ASSUME NEW id \in 0 .. NumTasks - 1, NEW jd \in 0 .. NumTasks - 1, TaskOf(id) = TaskOf(jd)
      PROVE  id = jd
  <2>1. PICK i \in 0 .. X - 1, j \in 0 .. Y - 1, k \in 0 .. Z - 1 :
          Group(id) = <<i, j, k>> /\ id = k * XY + (j * X + i)
    BY <1>4
  <2>2. PICK l \in 0 .. X - 1, m \in 0 .. Y - 1, n \in 0 .. Z - 1 :
          Group(jd) = <<l, m, n>> /\ jd = n * XY + (m * X + l)
    BY <1>4
  <2>3. <<i, j, k>> = <<l, m, n>>
    BY <1>1, <1>7, <2>1, <2>2
  <2>4. i = l /\ j = m /\ k = n
    BY <2>3
  <2>5. QED
    BY <2>1, <2>2, <2>4
<1>8. ASSUME NEW g \in AllTasks
      PROVE  \E id \in 0 .. NumTasks - 1 : TaskOf(id) = g
  <2>1. PICK i \in 0 .. X - 1, j \in 0 .. Y - 1, k \in 0 .. Z - 1 : g = <<i, j, k>>
    BY <1>1
  <2> DEFINE f == j * X + i
             id == k * XY + f
  <2>2. id \in 0 .. NumTasks - 1 /\ f \in 0 .. XY - 1
    BY <1>5
  <2>3. PICK l \in 0 .. X - 1, m \in 0 .. Y - 1, n \in 0 .. Z - 1 :
          Group(id) = <<l, m, n>> /\ id = n * XY + (m * X + l)
    BY <1>4, <2>2
  <2>4. m * X + l \in 0 .. XY - 1
    BY <1>5
  <2>5. k = n /\ f = m * X + l
    <3>1. k * XY + f = n * XY + (m * X + l)
      BY <2>3
    <3> HIDE DEF f
    <3>2. k \in Nat /\ n \in Nat
      BY <1>1
    <3>3. QED
      BY <1>3, <2>2, <2>4, <3>1, <3>2, QuotientUnique
  <2>6. j = m /\ i = l
    <3>1. j * X + i = m * X + l /\ j \in Nat /\ m \in Nat
      BY <1>1, <2>5
    <3>2. QED
      BY <1>1, <3>1, QuotientUnique
  <2>7. TaskOf(id) = g
    BY <1>1, <2>1, <2>3, <2>5, <2>6
  <2>8. QED
    BY <2>2, <2>7
<1>9. QED
  BY <1>6, <1>7, <1>8

LEMMA TaskNumbers ==
  ASSUME call \in Calls
  PROVE  /\ \A id \in 0 .. NumTasks - 1 : TaskOf(id) \in AllTasks
         /\ \A id, jd \in 0 .. NumTasks - 1 : TaskOf(id) = TaskOf(jd) => id = jd
         /\ \A g \in AllTasks : \E id \in 0 .. NumTasks - 1 : TaskOf(id) = g
<1>1. CASE call.api = "kernel"
  BY <1>1, GridNumbers
<1>2. CASE call.api # "kernel"
  <2>1. AllTasks = 0 .. NumTasks - 1 /\ \A id : TaskOf(id) = id
    BY <1>2 DEF AllTasks, TaskOf
  <2>2. QED
    BY <2>1
<1>3. QED
  BY <1>1, <1>2

(* Each task number has one place, for a call that fits the device.        *)
Fits == call.api = "cluster" => WholeClusters

LEMMA OnePlace ==
  ASSUME call \in Calls, Fits
  PROVE  /\ \A p \in Places : \A id : Holds(p, id) => id \in 0 .. NumTasks - 1
         /\ \A p, q \in Places : \A id : Holds(p, id) /\ Holds(q, id) => p = q
         /\ \A id \in 0 .. NumTasks - 1 : \E p \in Places : Holds(p, id)
<1>1. CASE call.api = "cluster"
  BY <1>1, ClusterPlaces DEF Fits
<1>2. CASE call.api # "cluster"
  BY <1>2, EqualPlaces
<1>3. QED
  BY <1>1, <1>2

-----------------------------------------------------------------------------
(* The workers of a core and its warp 0                                    *)

StagesTyped == call \in Calls /\ pc \in [Warps -> Stages]

IInv == StagesTyped /\ WorkersAwaited

(* A worker is a warp, and not a manager, of any core.                     *)
LEMMA WorkersAreWarps ==
  ASSUME NEW c \in Cores
  PROVE  /\ Manager(c) \in Warps
         /\ Workers(c) \subseteq Warps
         /\ \A w \in Workers(c) : w[1] = c /\ w[2] # 0
         /\ \A d \in Cores : Manager(d) \notin Workers(c)
<1>1. NumWarps \in Nat \ {0}
  BY DeviceAssumption
<1>2. Manager(c) \in Warps
  BY <1>1 DEF Manager, Warps
<1>3. Workers(c) \subseteq Warps
  BY <1>1 DEF Workers, Warps
<1>4. \A w \in Workers(c) : w[1] = c /\ w[2] # 0
  BY <1>1 DEF Workers
<1>5. \A d \in Cores : Manager(d) \notin Workers(c)
  BY <1>4 DEF Manager
<1>6. QED
  BY <1>2, <1>3, <1>4, <1>5

LEMMA InitIInv == Init => IInv
<1> SUFFICES ASSUME Init PROVE IInv
  OBVIOUS
<1>1. StagesTyped
  BY DEF Init, StagesTyped, Stages
<1>2. WorkersAwaited
  BY WorkersAreWarps DEF Init, WorkersAwaited
<1>3. QED
  BY <1>1, <1>2 DEF IInv

(* A step that moves one manager, and not away from its workers, keeps the *)
(* invariant.                                                              *)
LEMMA ManagerMoves ==
  ASSUME IInv, NEW c \in Cores, NEW stage \in Stages,
         Goto(Manager(c), stage), UNCHANGED call,
         stage \in {"share", "wait"} \/ \A w \in Workers(c) : pc[w] = "idle"
  PROVE  IInv'
<1>1. StagesTyped'
  BY DEF IInv, StagesTyped, Goto
<1>2. ASSUME NEW d \in Cores, NEW w \in Workers(d)
      PROVE  /\ pc'[w] \in {"idle", "share"}
             /\ pc'[w] = "share" => pc'[Manager(d)] \in {"share", "wait"}
  <2>1. w \in Warps /\ w # Manager(c) /\ Manager(d) \in Warps /\ Manager(c) \in Warps
    BY WorkersAreWarps
  <2>2. pc'[w] = pc[w]
    BY <2>1 DEF IInv, StagesTyped, Goto
  <2>3. pc[w] \in {"idle", "share"} /\ (pc[w] = "share" => pc[Manager(d)] \in {"share", "wait"})
    BY DEF IInv, WorkersAwaited
  <2>4. CASE d = c
    BY <2>1, <2>2, <2>3, <2>4 DEF IInv, StagesTyped, Goto
  <2>5. CASE d # c
    <3>1. Manager(d) # Manager(c)
      BY <2>5 DEF Manager
    <3>2. pc'[Manager(d)] = pc[Manager(d)]
      BY <2>1, <3>1 DEF IInv, StagesTyped, Goto
    <3>3. QED
      BY <2>2, <2>3, <3>2
  <2>6. QED
    BY <2>4, <2>5
<1>3. WorkersAwaited'
  BY <1>2 DEF WorkersAwaited, Workers, Manager
<1>4. QED
  BY <1>1, <1>3 DEF IInv

(* While warp 0 is not at work its workers are idle.                       *)
LEMMA AloneUnlessAtWork ==
  ASSUME IInv, NEW c \in Cores, pc[Manager(c)] \notin {"share", "wait"}
  PROVE  \A w \in Workers(c) : pc[w] = "idle"
BY DEF IInv, WorkersAwaited

(* The number of warps that a core needs is a number.                      *)
LEMMA WarpsNumber ==
  ASSUME call \in Calls, NEW c \in Cores
  PROVE  Share(c).warps \in Int
<1>1. NumCores \in Nat \ {0} /\ NumWarps \in Nat \ {0} /\ NumThreads \in Nat \ {0}
      /\ CoresPerCluster \in Nat \ {0} /\ c \in Nat
  BY DeviceAssumption DEF Cores
<1>2. NumTasks \in Int
  <2>1. call.groups \in Nat \X Nat \X Nat
    BY CallsAssumption
  <2>2. QED
    BY <2>1 DEF NumTasks
<1>3. CoreThreads \in Int /\ CoreThreads > 0
  BY <1>1 DEF CoreThreads
<1>4. ActiveCores \in Int /\ ActiveCores > 0
  <2>1. CASE NumTasks > CoreThreads
    <3>1. NumTasks \div CoreThreads \in Int /\ NumTasks \div CoreThreads >= 1
      BY <1>2, <1>3, <2>1
    <3>2. QED
      BY <1>1, <2>1, <3>1 DEF ActiveCores, Smaller
  <2>2. CASE ~(NumTasks > CoreThreads)
    BY <1>1, <2>2 DEF ActiveCores, Smaller
  <2>3. QED
    BY <2>1, <2>2
<1>5. EqualShare(c).warps \in Int
  <2>1. PerCore \in Int
    BY <1>2, <1>4 DEF PerCore
  <2>2. EqualTasks(c) \in Int
    BY <1>2, <1>4, <2>1 DEF EqualTasks
  <2>3. EqualTasks(c) \div NumThreads \in Int
    BY <1>1, <2>2
  <2>4. QED
    BY <2>3 DEF EqualShare
<1>6. ClusterShare(c).warps \in Int
  <2>1. ClusterThreads \in Int /\ ClusterThreads > 0
    BY <1>1, <1>3 DEF ClusterThreads
  <2>2. ClusterTasks(c) \in Int
    BY <1>2, <2>1 DEF ClusterTasks
  <2>3. ClusterTasks(c) \div NumThreads \in Int
    BY <1>1, <2>2
  <2>4. (ClusterTasks(c) \div NumThreads) \div CoresPerCluster \in Int
    BY <1>1, <2>3
  <2>5. QED
    BY <2>4 DEF ClusterShare
<1>7. QED
  BY <1>5, <1>6 DEF Share

LEMMA SpawnKeepsIInv ==
  ASSUME IInv, NEW c \in Cores, Spawn(c)
  PROVE  IInv'
<1> DEFINE named(w) == w[1] = c /\ w[2] < Smaller(Share(c).warps, NumWarps)
<1>1. pc' = [w \in Warps |-> IF named(w) THEN "share" ELSE pc[w]]
  BY DEF Spawn
<1>2. StagesTyped'
  BY <1>1 DEF Spawn, IInv, StagesTyped, Stages
<1>3. ASSUME NEW d \in Cores, NEW w \in Workers(d)
      PROVE  /\ pc'[w] \in {"idle", "share"}
             /\ pc'[w] = "share" => pc'[Manager(d)] \in {"share", "wait"}
  <2> HIDE DEF named
  <2>1. w \in Warps /\ Manager(d) \in Warps /\ w[1] = d
    BY WorkersAreWarps
  <2>2. pc[w] \in {"idle", "share"} /\ (pc[w] = "share" => pc[Manager(d)] \in {"share", "wait"})
    BY DEF IInv, WorkersAwaited
  <2>3. CASE named(w)
    <3>1. d = c /\ w[2] < Smaller(Share(c).warps, NumWarps)
      BY <2>1, <2>3 DEF named
    <3>2. w[2] \in 1 .. NumWarps - 1
      BY DEF Workers
    <3>3. 0 < Smaller(Share(c).warps, NumWarps)
      <4>1. Share(c).warps \in Int /\ NumWarps \in Int
        BY WarpsNumber, DeviceAssumption DEF IInv, StagesTyped
      <4>2. QED
        BY <3>1, <3>2, <4>1 DEF Smaller
    <3>4. named(Manager(d))
      BY <3>1, <3>3 DEF named, Manager
    <3>5. QED
      BY <1>1, <2>1, <2>3, <3>4
  <2>4. CASE ~named(w)
    BY <1>1, <2>1, <2>2, <2>4
  <2>5. QED
    BY <2>3, <2>4
<1>4. WorkersAwaited'
  BY <1>3 DEF WorkersAwaited, Workers, Manager
<1>5. QED
  BY <1>2, <1>4 DEF IInv

LEMMA RunShareKeepsIInv ==
  ASSUME IInv, NEW u \in Warps, RunShare(u)
  PROVE  IInv'
<1>1. u[1] \in Cores /\ u = <<u[1], u[2]>> /\ u[2] \in 0 .. NumWarps - 1
  BY DEF Warps
<1>2. CASE u[2] = 0
  <2>1. u = Manager(u[1])
    BY <1>1, <1>2 DEF Manager
  <2>2. Goto(Manager(u[1]), "wait") /\ UNCHANGED call
    BY <1>2, <2>1 DEF RunShare
  <2>3. QED
    BY <1>1, <2>2, ManagerMoves DEF Stages
<1>3. CASE u[2] # 0
  <2>1. Goto(u, "idle") /\ UNCHANGED call
    BY <1>3 DEF RunShare
  <2>2. StagesTyped'
    BY <2>1 DEF IInv, StagesTyped, Goto, Stages
  <2>3. ASSUME NEW d \in Cores, NEW w \in Workers(d)
        PROVE  /\ pc'[w] \in {"idle", "share"}
               /\ pc'[w] = "share" => pc'[Manager(d)] \in {"share", "wait"}
    <3>1. w \in Warps /\ Manager(d) \in Warps /\ Manager(d) # u
      <4>1. Manager(d)[2] = 0
        BY DEF Manager
      <4>2. QED
        BY <1>3, <4>1, WorkersAreWarps
    <3>2. pc'[Manager(d)] = pc[Manager(d)]
      BY <2>1, <3>1 DEF IInv, StagesTyped, Goto
    <3>3. pc'[w] = IF w = u THEN "idle" ELSE pc[w]
      BY <2>1, <3>1 DEF IInv, StagesTyped, Goto
    <3>4. QED
      BY <3>2, <3>3 DEF IInv, WorkersAwaited
  <2>4. WorkersAwaited'
    BY <2>3 DEF WorkersAwaited, Workers, Manager
  <2>5. QED
    BY <2>2, <2>4 DEF IInv
<1>4. QED
  BY <1>2, <1>3

LEMMA CoreStepKeepsIInv ==
  ASSUME IInv, NEW c \in Cores, CoreStep(c)
  PROVE  IInv'
<1>1. CASE Terminate(c)
  BY <1>1, AloneUnlessAtWork, ManagerMoves DEF Terminate, Stages
<1>2. CASE Enter(c)
  <2>1. PICK stage \in {"spawn", "rest"} : Goto(Manager(c), stage) /\ UNCHANGED call
    BY <1>2 DEF Enter
  <2>2. \A w \in Workers(c) : pc[w] = "idle"
    BY <1>2, AloneUnlessAtWork DEF Enter
  <2>3. QED
    BY <2>1, <2>2, ManagerMoves DEF Stages
<1>3. CASE Spawn(c)
  BY <1>3, SpawnKeepsIInv
<1>4. CASE Wait(c)
  BY <1>4, ManagerMoves DEF Wait, Stages
<1>5. CASE RunRest(c)
  BY <1>5, AloneUnlessAtWork, ManagerMoves DEF RunRest, Stages
<1>6. CASE NoRest(c)
  BY <1>6, AloneUnlessAtWork, ManagerMoves DEF NoRest, Stages
<1>7. QED
  BY <1>1, <1>2, <1>3, <1>4, <1>5, <1>6 DEF CoreStep

LEMMA InvariantHolds == Spec => []IInv
<1>1. Init => IInv
  BY InitIInv
<1>2. IInv /\ [Next]_vars => IInv'
  <2> SUFFICES ASSUME IInv, [Next]_vars PROVE IInv'
    OBVIOUS
  <2>1. CASE \E c \in Cores : CoreStep(c)
    BY <2>1, CoreStepKeepsIInv
  <2>2. CASE \E w \in Warps : RunShare(w)
    BY <2>2, RunShareKeepsIInv
  <2>3. CASE UNCHANGED vars
    BY <2>3 DEF vars, IInv, StagesTyped, WorkersAwaited
  <2>4. QED
    BY <2>1, <2>2, <2>3 DEF Next, Ended
<1>3. QED
  BY <1>1, <1>2, PTL DEF Spec

(* On a device of any size and for any number of tasks, the workers of a   *)
(* core are gone before warp 0 moves the offset in its stack record and    *)
(* before it returns (vx_spawn.c:266, 342, 414, 576).                      *)
THEOREM RecordOutlivesWorkers == Spec => []NoWorkerOutlivesCall
<1>1. IInv => NoWorkerOutlivesCall
  BY AloneUnlessAtWork DEF NoWorkerOutlivesCall
<1>2. QED
  BY <1>1, InvariantHolds, PTL

-----------------------------------------------------------------------------
(* Types, and what has run                                                 *)

LEMMA ShareTypes ==
  ASSUME call \in Calls, NEW c \in Cores, Share(c).active
  PROVE  /\ Share(c).args \in [offset : Nat, NWs : Nat, RWs : Nat]
         /\ Share(c).warps \in Nat /\ Share(c).skip \in Nat
         /\ Share(c).rest \in 0 .. NumThreads - 1
<1>1. /\ NumCores \in Nat \ {0} /\ NumWarps \in Nat \ {0} /\ NumThreads \in Nat \ {0}
      /\ ClusterThreads \in Nat \ {0}
  BY Sizes
<1>2. Share(c).args = [offset |-> Share(c).args.offset, NWs |-> Share(c).args.NWs,
                       RWs |-> Share(c).args.RWs]
  BY DEF Share, ClusterShare, EqualShare
<1>3. ASSUME NEW n \in Nat, Even(Share(c).args, n) \/ Single(Share(c).args, n)
      PROVE  Share(c).args.NWs \in Nat /\ Share(c).args.RWs \in Nat
  <2>1. n \div NumWarps \in Nat /\ n % NumWarps \in Nat
    BY <1>1, Quotient
  <2>2. CASE Even(Share(c).args, n)
    BY <2>1, <2>2, Zenon DEF Even
  <2>3. CASE Single(Share(c).args, n)
    BY <2>3 DEF Single
  <2>4. QED
    BY <1>3, <2>2, <2>3
<1>4. CASE call.api # "cluster"
  <2>1. /\ c \in 0 .. ActiveCores - 1 /\ Share(c).args.offset = c * PerCore
        /\ Share(c).warps \in Nat /\ Share(c).rest \in 0 .. NumThreads - 1
        /\ Share(c).skip = Share(c).warps * NumThreads
        /\ Single(Share(c).args, Share(c).warps) \/ Even(Share(c).args, Share(c).warps)
    BY <1>4, EqualShares
  <2>2. c * PerCore \in Nat
    BY <2>1, EqualCores
  <2>3. Share(c).skip \in Nat
    BY <1>1, <2>1
  <2>4. Share(c).args.NWs \in Nat /\ Share(c).args.RWs \in Nat
    BY <1>3, <2>1
  <2>5. QED
    BY <1>2, <2>1, <2>2, <2>3, <2>4
<1>5. CASE call.api = "cluster"
  <2> DEFINE t == ClusterTasks(c)
  <2>1. t \in Nat
    <3>1. NumTasks % ClusterThreads \in Nat
      BY <1>1, CallFacts, Quotient
    <3>2. QED
      BY <1>1, <3>1 DEF ClusterTasks
  <2> HIDE DEF t
  <2>2. /\ Share(c).args.offset = ClusterOf(c) * t
        /\ Share(c).warps \in Nat /\ Even(Share(c).args, Share(c).warps)
        /\ Share(c).rest = IF InCluster(c) = 0 THEN t % NumThreads ELSE 0
        /\ Share(c).skip \in Nat
    BY <1>5, <2>1, ClusterShares DEF t
  <2>3. ClusterOf(c) * t \in Nat
    BY <2>1, CoreNames
  <2>4. t % NumThreads \in 0 .. NumThreads - 1
    BY <1>1, <2>1, Quotient
  <2>5. Share(c).args.NWs \in Nat /\ Share(c).args.RWs \in Nat
    BY <1>3, <2>2
  <2>6. QED
    BY <1>1, <1>2, <2>2, <2>3, <2>4, <2>5
<1>6. QED
  BY <1>4, <1>5

(* What a core shares out depends on the call alone.                       *)
LEMMA SameCall ==
  ASSUME call' = call
  PROVE  /\ \A c : Share(c)' = Share(c)
         /\ \A id : TaskOf(id)' = TaskOf(id)
         /\ \A p, id : Holds(p, id)' <=> Holds(p, id)
<1>1. NumTasks' = NumTasks
  BY DEF NumTasks
<1>2. ActiveCores' = ActiveCores
  BY <1>1 DEF ActiveCores
<1>3. PerCore' = PerCore
  BY <1>1, <1>2 DEF PerCore
<1>4. \A c : EqualTasks(c)' = EqualTasks(c)
  BY <1>1, <1>2, <1>3 DEF EqualTasks
<1>5. \A c : EqualShare(c)' = EqualShare(c)
  BY <1>2, <1>3, <1>4, Zenon DEF EqualShare
<1>6. \A c : ClusterTasks(c)' = ClusterTasks(c)
  BY <1>1 DEF ClusterTasks
<1>7. \A c : ClusterShare(c)' = ClusterShare(c)
  BY <1>1, <1>6, Zenon DEF ClusterShare
<1>8. \A c : Share(c)' = Share(c)
  BY <1>5, <1>7 DEF Share
<1>9. \A a, w, tid : StubTasks(a, w, tid)' = StubTasks(a, w, tid)
  BY DEF StubTasks
<1>10. \A id : TaskOf(id)' = TaskOf(id)
  BY DEF TaskOf, Group
<1>11. \A id, c, wid, tid : InShare(id, c, wid, tid)' <=> InShare(id, c, wid, tid)
  BY <1>8, <1>9 DEF InShare
<1>12. \A id, c, tid : InRest(id, c, tid)' <=> InRest(id, c, tid)
  BY <1>8 DEF InRest
<1>13. \A p, id : Holds(p, id)' <=> Holds(p, id)
  BY <1>11, <1>12 DEF Holds
<1>14. QED
  BY <1>8, <1>10, <1>13

(* A core that is at work has its record, and the warps it has spawned are *)
(* the first of those it has.                                              *)
Prepared ==
  /\ args \in [Cores -> [offset : Nat, NWs : Nat, RWs : Nat]]
  /\ \A c \in Cores :
       pc[Manager(c)] \in {"spawn", "share", "wait", "rest"} =>
         Share(c).active /\ args[c] = Share(c).args
  /\ \A c \in Cores : pc[Manager(c)] = "spawn" => Share(c).warps > 0
  /\ \A w \in Warps : pc[w] = "share" => w[2] < Smaller(Share(w[1]).warps, NumWarps)

(* A place is finished when its thread is beyond the stub.                 *)
Finished(p) ==
  \/ p[3] = "rest" /\ pc[Manager(p[1][1])] = "returned"
  \/ p[3] = "share" /\ p[1][2] = 0 /\ pc[p[1]] \in {"wait", "rest", "returned"}
  \/ /\ p[3] = "share" /\ p[1][2] # 0 /\ pc[p[1]] = "idle"
     /\ pc[Manager(p[1][1])] \in {"share", "wait", "rest", "returned"}

(* What has run are the tasks of the places that are finished.             *)
Recorded ==
  /\ \A r \in ran : \E p \in Places : \E id :
       Holds(p, id) /\ Finished(p) /\ r = [task |-> TaskOf(id), by |-> p]
  /\ \A p \in Places : \A id :
       Holds(p, id) /\ Finished(p) => [task |-> TaskOf(id), by |-> p] \in ran

(* A step that finishes the places of D and runs their tasks.              *)
LEMMA PlacesFinish ==
  ASSUME Recorded, call' = call, NEW D \in SUBSET Places,
         \A p \in Places : \A id : Holds(p, id) => (Finished(p)' <=> Finished(p) \/ p \in D),
         \A r : r \in ran' <=> r \in ran \/ \E p \in D : \E id :
                  Holds(p, id) /\ r = [task |-> TaskOf(id), by |-> p]
  PROVE  Recorded'
<1>1. /\ \A id : TaskOf(id)' = TaskOf(id)
      /\ \A p, id : Holds(p, id)' <=> Holds(p, id)
  BY SameCall
<1>2. Places' = Places
  OBVIOUS
<1>3. ASSUME NEW r \in ran'
      PROVE  \E p \in Places : \E id :
               Holds(p, id)' /\ Finished(p)' /\ r = [task |-> TaskOf(id)', by |-> p]
  <2>1. CASE r \in ran
    <3>1. PICK p \in Places : \E id :
            Holds(p, id) /\ Finished(p) /\ r = [task |-> TaskOf(id), by |-> p]
      BY <2>1 DEF Recorded
    <3>2. QED
      BY <1>1, <3>1
  <2>2. CASE \E p \in D : \E id : Holds(p, id) /\ r = [task |-> TaskOf(id), by |-> p]
    BY <1>1, <2>2
  <2>3. QED
    BY <1>3, <2>1, <2>2
<1>4. ASSUME NEW p \in Places, NEW id, Holds(p, id)', Finished(p)'
      PROVE  [task |-> TaskOf(id)', by |-> p] \in ran'
  <2>1. Holds(p, id) /\ (Finished(p) \/ p \in D)
    BY <1>1, <1>4
  <2>2. CASE Finished(p)
    BY <1>1, <2>1, <2>2 DEF Recorded
  <2>3. CASE p \in D
    BY <1>1, <2>1, <2>3
  <2>4. QED
    BY <2>1, <2>2, <2>3
<1>5. QED
  BY <1>1, <1>3, <1>4 DEF Recorded

LEMMA NoPlaceFinishes ==
  ASSUME Recorded, call' = call, ran' = ran,
         \A p \in Places : \A id : Holds(p, id) => (Finished(p)' <=> Finished(p))
  PROVE  Recorded'
<1> DEFINE D == {}
<1>1. D \in SUBSET Places
  OBVIOUS
<1>2. \A p \in Places : \A id : Holds(p, id) => (Finished(p)' <=> Finished(p) \/ p \in D)
  OBVIOUS
<1>3. \A r : r \in ran' <=> r \in ran \/ \E p \in D : \E id :
                  Holds(p, id) /\ r = [task |-> TaskOf(id), by |-> p]
  OBVIOUS
<1> HIDE DEF D
<1>4. QED
  BY <1>1, <1>2, <1>3, PlacesFinish, Zenon

Inv == IInv /\ Prepared /\ Recorded

LEMMA InvFromStart == Init => Inv
<1> SUFFICES ASSUME Init PROVE Inv
  OBVIOUS
<1>1. IInv
  BY InitIInv
<1>2. \A c \in Cores : pc[Manager(c)] = "entry"
  BY WorkersAreWarps DEF Init, Manager
<1>3. \A w \in Warps : pc[w] \in {"entry", "idle"}
  BY DEF Init
<1>4. Prepared
  BY <1>2, <1>3 DEF Init, Prepared
<1>5. \A p \in Places : ~Finished(p)
  BY <1>2, <1>3, PlaceFacts DEF Finished, Init, Warps
<1>6. Recorded
  BY <1>5 DEF Recorded, Init
<1>7. QED
  BY <1>1, <1>4, <1>6 DEF Inv

LEMMA ManagerGoes ==
  ASSUME Inv, NEW c \in Cores, NEW stage, Goto(Manager(c), stage)
  PROVE  /\ pc'[Manager(c)] = stage
         /\ \A d \in Cores : d # c => pc'[Manager(d)] = pc[Manager(d)]
         /\ \A w \in Warps : w # Manager(c) => pc'[w] = pc[w]
         /\ \A w \in Warps : w[2] # 0 \/ w[1] # c => pc'[w] = pc[w]
<1>1. pc \in [Warps -> Stages] /\ pc' = [pc EXCEPT ![Manager(c)] = stage]
  BY DEF Inv, IInv, StagesTyped, Goto
<1>2. \A d \in Cores : Manager(d) \in Warps /\ (d # c => Manager(d) # Manager(c))
  BY WorkersAreWarps DEF Manager
<1>3. \A w \in Warps : w[2] # 0 \/ w[1] # c => w # Manager(c)
  BY DEF Manager
<1>4. QED
  BY <1>1, <1>2, <1>3

LEMMA ManagerPrepared ==
  ASSUME Inv, NEW c \in Cores, NEW stage, Goto(Manager(c), stage), call' = call,
         args' \in [Cores -> [offset : Nat, NWs : Nat, RWs : Nat]],
         \A d \in Cores : d # c => args'[d] = args[d],
         stage \in {"spawn", "wait", "rest"} => Share(c).active /\ args'[c] = Share(c).args,
         stage = "spawn" => Share(c).warps > 0,
         stage # "share"
  PROVE  Prepared'
<1>1. /\ pc'[Manager(c)] = stage
      /\ \A d \in Cores : d # c => pc'[Manager(d)] = pc[Manager(d)]
      /\ \A w \in Warps : w # Manager(c) => pc'[w] = pc[w]
  BY ManagerGoes
<1>2. \A d : Share(d)' = Share(d)
  BY SameCall
<1>3. \A d \in Cores :
        pc'[Manager(d)] \in {"spawn", "share", "wait", "rest"} =>
          Share(d).active /\ args'[d] = Share(d).args
  BY <1>1 DEF Inv, Prepared
<1>4. \A d \in Cores : pc'[Manager(d)] = "spawn" => Share(d).warps > 0
  BY <1>1 DEF Inv, Prepared
<1>5. \A w \in Warps : pc'[w] = "share" => w[2] < Smaller(Share(w[1]).warps, NumWarps)
  BY <1>1 DEF Inv, Prepared
<1>6. \A d \in Cores : Manager(d)' = Manager(d)
  BY DEF Manager
<1>7. QED
  BY <1>2, <1>3, <1>4, <1>5, <1>6 DEF Prepared

(* The places that a step of warp 0 of core c leaves as they are.          *)
LEMMA OthersStay ==
  ASSUME Inv, NEW c \in Cores, NEW stage, Goto(Manager(c), stage),
         NEW p \in Places, p[1][1] # c
  PROVE  Finished(p)' <=> Finished(p)
<1>1. p[1] \in Warps /\ p[1][1] \in Cores
  BY PlaceFacts
<1>2. pc'[p[1]] = pc[p[1]] /\ pc'[Manager(p[1][1])] = pc[Manager(p[1][1])]
  BY <1>1, ManagerGoes
<1>3. Manager(p[1][1])' = Manager(p[1][1])
  BY DEF Manager
<1>4. QED
  BY <1>2, <1>3 DEF Finished

(* Warp 0 of a core is its manager.                                        *)
LEMMA ManagerPlace ==
  ASSUME NEW p \in Places
  PROVE  /\ p[1][2] = 0 <=> p[1] = Manager(p[1][1])
         /\ p[1][2] # 0 => p[1] \in Workers(p[1][1])
BY PlaceFacts, Sizes DEF Manager, Workers, WarpIds

LEMMA TerminateKeepsInv ==
  ASSUME Inv, NEW c \in Cores, Terminate(c)
  PROVE  Prepared' /\ Recorded'
<1>1. /\ Goto(Manager(c), "returned") /\ call' = call /\ args' = args /\ ran' = ran
      /\ ~Share(c).active /\ pc[Manager(c)] = "entry"
  BY DEF Terminate
<1>2. Prepared'
  BY <1>1, ManagerPrepared DEF Inv, Prepared
<1>3. ASSUME NEW p \in Places, NEW id, Holds(p, id)
      PROVE  Finished(p)' <=> Finished(p)
  <2>1. p[1][1] # c
    BY <1>1, <1>3 DEF Holds, InShare, InRest
  <2>2. QED
    BY <1>1, <2>1, OthersStay
<1>4. Recorded'
  BY <1>1, <1>3, NoPlaceFinishes DEF Inv
<1>5. QED
  BY <1>2, <1>4

LEMMA EnterKeepsInv ==
  ASSUME Inv, NEW c \in Cores, Enter(c)
  PROVE  Prepared' /\ Recorded'
<1>1. /\ Goto(Manager(c), IF Share(c).warps > 0 THEN "spawn" ELSE "rest")
      /\ call' = call /\ ran' = ran /\ Share(c).active
      /\ args' = [args EXCEPT ![c] = Share(c).args] /\ pc[Manager(c)] = "entry"
      /\ call \in Calls
  BY DEF Enter, Inv, IInv, StagesTyped
<1>2. Share(c).args \in [offset : Nat, NWs : Nat, RWs : Nat] /\ Share(c).warps \in Nat
  BY <1>1, ShareTypes
<1>3. /\ args' \in [Cores -> [offset : Nat, NWs : Nat, RWs : Nat]]
      /\ args'[c] = Share(c).args /\ \A d \in Cores : d # c => args'[d] = args[d]
  BY <1>1, <1>2 DEF Inv, Prepared
<1>4. CASE Share(c).warps > 0
  <2>1. Goto(Manager(c), "spawn")
    BY <1>1, <1>4
  <2>2. Prepared'
    BY <1>1, <1>3, <1>4, <2>1, ManagerPrepared
  <2>3. ASSUME NEW p \in Places
        PROVE  Finished(p)' <=> Finished(p)
    <3>1. CASE p[1][1] = c
      <4>1. pc'[Manager(c)] = "spawn" /\ pc[Manager(c)] = "entry" /\ Manager(c)' = Manager(c)
        BY <1>1, <2>1, ManagerGoes DEF Manager
      <4>2. QED
        BY <3>1, <4>1, ManagerPlace DEF Finished
    <3>2. CASE p[1][1] # c
      BY <2>1, <3>2, OthersStay
    <3>3. QED
      BY <3>1, <3>2
  <2>4. Recorded'
    BY <1>1, <2>3, NoPlaceFinishes DEF Inv
  <2>5. QED
    BY <2>2, <2>4
<1>5. CASE Share(c).warps = 0
  <2>1. Goto(Manager(c), "rest")
    BY <1>1, <1>5
  <2>2. Prepared'
    BY <1>1, <1>3, <2>1, ManagerPrepared
  <2>3. ASSUME NEW p \in Places, NEW id, Holds(p, id)
        PROVE  Finished(p)' <=> Finished(p)
    <3>1. CASE p[1][1] = c
      <4>1. p[3] = "rest"
        <5>1. SUFFICES ASSUME InShare(id, c, p[1][2], p[2]) PROVE FALSE
          BY <2>3, <3>1 DEF Holds
        <5>2. p[1][2] < Smaller(0, NumWarps) /\ p[1][2] \in Nat
          BY <1>5, <5>1, PlaceFacts DEF InShare, WarpIds
        <5>3. QED
          BY <5>2, Sizes DEF Smaller
      <4>2. pc'[Manager(c)] = "rest" /\ pc[Manager(c)] = "entry" /\ Manager(c)' = Manager(c)
        BY <1>1, <2>1, ManagerGoes DEF Manager
      <4>3. QED
        BY <3>1, <4>1, <4>2 DEF Finished
    <3>2. CASE p[1][1] # c
      BY <2>1, <3>2, OthersStay
    <3>3. QED
      BY <3>1, <3>2
  <2>4. Recorded'
    BY <1>1, <2>3, NoPlaceFinishes DEF Inv
  <2>5. QED
    BY <2>2, <2>4
<1>6. QED
  BY <1>2, <1>4, <1>5

LEMMA WaitKeepsInv ==
  ASSUME Inv, NEW c \in Cores, Wait(c)
  PROVE  Prepared' /\ Recorded'
<1>1. /\ Goto(Manager(c), "rest") /\ call' = call /\ args' = args /\ ran' = ran
      /\ pc[Manager(c)] = "wait"
  BY DEF Wait
<1>2. Prepared'
  BY <1>1, ManagerPrepared DEF Inv, Prepared
<1>3. ASSUME NEW p \in Places
      PROVE  Finished(p)' <=> Finished(p)
  <2>1. CASE p[1][1] = c
    <3>1. /\ pc'[Manager(c)] = "rest" /\ Manager(c)' = Manager(c)
          /\ p[1][2] # 0 => pc'[p[1]] = pc[p[1]]
      BY <1>1, ManagerGoes, PlaceFacts DEF Manager
    <3>2. QED
      BY <1>1, <2>1, <3>1, ManagerPlace DEF Finished
  <2>2. CASE p[1][1] # c
    BY <1>1, <2>2, OthersStay
  <2>3. QED
    BY <2>1, <2>2
<1>4. Recorded'
  BY <1>1, <1>3, NoPlaceFinishes DEF Inv
<1>5. QED
  BY <1>2, <1>4

LEMMA NoRestKeepsInv ==
  ASSUME Inv, NEW c \in Cores, NoRest(c)
  PROVE  Prepared' /\ Recorded'
<1>1. /\ Goto(Manager(c), "returned") /\ call' = call /\ args' = args /\ ran' = ran
      /\ pc[Manager(c)] = "rest" /\ Share(c).rest = 0
  BY DEF NoRest
<1>2. Prepared'
  BY <1>1, ManagerPrepared DEF Inv, Prepared
<1>3. ASSUME NEW p \in Places, NEW id, Holds(p, id)
      PROVE  Finished(p)' <=> Finished(p)
  <2>1. CASE p[1][1] = c
    <3>1. /\ pc'[Manager(c)] = "returned" /\ Manager(c)' = Manager(c)
          /\ p[1][2] # 0 => pc'[p[1]] = pc[p[1]]
      BY <1>1, ManagerGoes, PlaceFacts DEF Manager
    <3>2. p[3] = "share"
      <4>1. p[2] \in Nat
        BY PlaceFacts DEF Threads
      <4>2. QED
        BY <1>1, <1>3, <2>1, <4>1 DEF Holds, InRest
    <3>3. QED
      BY <1>1, <2>1, <3>1, <3>2, ManagerPlace DEF Finished
  <2>2. CASE p[1][1] # c
    BY <1>1, <2>2, OthersStay
  <2>3. QED
    BY <2>1, <2>2
<1>4. Recorded'
  BY <1>1, <1>3, NoPlaceFinishes DEF Inv
<1>5. QED
  BY <1>2, <1>4

LEMMA RunRestKeepsInv ==
  ASSUME Inv, NEW c \in Cores, RunRest(c)
  PROVE  Prepared' /\ Recorded'
<1> DEFINE D == {p \in Places : p[1] = Manager(c) /\ p[3] = "rest" /\ p[2] < Share(c).rest}
<1>1. /\ Goto(Manager(c), "returned") /\ call' = call /\ pc[Manager(c)] = "rest"
      /\ args' = [args EXCEPT ![c].offset = @ + Share(c).skip]
      /\ ran' = ran \cup UNION {Runs({args'[c].offset + tid}, <<Manager(c), tid, "rest">>)
                                  : tid \in 0 .. Share(c).rest - 1}
  BY DEF RunRest
<1>2. /\ call \in Calls /\ args \in [Cores -> [offset : Nat, NWs : Nat, RWs : Nat]]
      /\ Share(c).active /\ args[c] = Share(c).args
  BY <1>1 DEF Inv, IInv, StagesTyped, Prepared
<1>3. /\ Share(c).args.offset \in Nat /\ Share(c).skip \in Nat
      /\ Share(c).rest \in 0 .. NumThreads - 1
  BY <1>2, ShareTypes
<1>4. /\ args' \in [Cores -> [offset : Nat, NWs : Nat, RWs : Nat]]
      /\ args'[c].offset = Share(c).args.offset + Share(c).skip
      /\ \A d \in Cores : d # c => args'[d] = args[d]
  BY <1>1, <1>2, <1>3
<1>5. Prepared'
  BY <1>1, <1>4, ManagerPrepared
<1>6. /\ pc'[Manager(c)] = "returned" /\ Manager(c)' = Manager(c)
      /\ Manager(c)[1] = c /\ Manager(c)[2] = 0 /\ Manager(c) \in Warps
  BY <1>1, ManagerGoes, WorkersAreWarps DEF Manager
<1>7. ASSUME NEW p \in Places, NEW id, Holds(p, id)
      PROVE  Finished(p)' <=> Finished(p) \/ p \in D
  <2>1. CASE p[1][1] = c /\ p[3] = "rest"
    <3>1. p[1] = Manager(c) /\ p[2] < Share(c).rest
      BY <1>7, <2>1, ManagerPlace DEF Holds, InRest
    <3>2. QED
      BY <1>6, <2>1, <3>1 DEF Finished
  <2>2. CASE p[1][1] = c /\ p[3] = "share"
    <3>1. p[1][2] # 0 => pc'[p[1]] = pc[p[1]]
      BY <1>1, ManagerGoes, PlaceFacts
    <3>2. QED
      BY <1>1, <1>6, <2>2, <3>1, ManagerPlace DEF Finished
  <2>3. CASE p[1][1] # c
    BY <1>1, <1>6, <2>3, OthersStay
  <2>4. QED
    BY <2>1, <2>2, <2>3, PlaceFacts
<1>8. ASSUME NEW r
      PROVE  r \in ran' <=> r \in ran \/ \E p \in D : \E id :
               Holds(p, id) /\ r = [task |-> TaskOf(id), by |-> p]
  <2> DEFINE row(tid) == [task |-> TaskOf(Share(c).args.offset + Share(c).skip + tid),
                          by |-> <<Manager(c), tid, "rest">>]
  <2>1. r \in ran' <=> r \in ran \/ \E tid \in 0 .. Share(c).rest - 1 : r = row(tid)
    <3> DEFINE one(tid) == Runs({args'[c].offset + tid}, <<Manager(c), tid, "rest">>)
    <3>1. \A tid : one(tid) = {row(tid)}
      BY <1>4 DEF Runs
    <3>2. ran' = ran \cup UNION {one(tid) : tid \in 0 .. Share(c).rest - 1}
      BY <1>1
    <3> HIDE DEF one, row
    <3>3. QED
      BY <3>1, <3>2
  <2>2. ASSUME NEW tid \in 0 .. Share(c).rest - 1
        PROVE  <<Manager(c), tid, "rest">> \in D
    <3>1. tid \in Threads
      BY <1>3, Sizes DEF Threads
    <3>2. QED
      BY <1>3, <1>6, <3>1 DEF Places
  <2>3. ASSUME NEW tid \in 0 .. Share(c).rest - 1
        PROVE  Holds(<<Manager(c), tid, "rest">>, Share(c).args.offset + Share(c).skip + tid)
    BY <1>2, <1>3, <1>6 DEF Holds, InRest
  <2>4. ASSUME NEW p \in D, NEW id, Holds(p, id)
        PROVE  /\ p[2] \in 0 .. Share(c).rest - 1 /\ p = <<Manager(c), p[2], "rest">>
               /\ id = Share(c).args.offset + Share(c).skip + p[2]
    <3>1. p \in Places /\ p[1] = Manager(c) /\ p[3] = "rest" /\ p[2] < Share(c).rest
      OBVIOUS
    <3>2. p[2] \in Nat /\ p = <<p[1], p[2], p[3]>>
      BY <3>1, PlaceFacts DEF Threads
    <3>3. QED
      BY <1>3, <1>6, <2>4, <3>1, <3>2 DEF Holds, InRest
  <2> HIDE DEF D
  <2>5. ASSUME NEW tid \in 0 .. Share(c).rest - 1, r = row(tid)
        PROVE  \E p \in D : \E id : Holds(p, id) /\ r = [task |-> TaskOf(id), by |-> p]
    BY <2>2, <2>3, <2>5
  <2>6. ASSUME NEW p \in D, NEW id, Holds(p, id), r = [task |-> TaskOf(id), by |-> p]
        PROVE  \E tid \in 0 .. Share(c).rest - 1 : r = row(tid)
    <3>1. r = row(p[2])
      BY <2>4, <2>6, Zenon
    <3>2. QED
      BY <2>4, <2>6, <3>1
  <2>7. QED
    BY <2>1, <2>5, <2>6
<1>9. D \in SUBSET Places
  OBVIOUS
<1>10. Recorded'
  <2> HIDE DEF D
  <2>1. Recorded
    BY DEF Inv
  <2>2. QED
    BY <1>1, <1>7, <1>8, <1>9, <2>1, PlacesFinish
<1>11. QED
  BY <1>5, <1>10

LEMMA SpawnKeepsInv ==
  ASSUME Inv, NEW c \in Cores, Spawn(c)
  PROVE  Prepared' /\ Recorded'
<1> DEFINE named(w) == w[1] = c /\ w[2] < Smaller(Share(c).warps, NumWarps)
<1>1. /\ pc' = [w \in Warps |-> IF named(w) THEN "share" ELSE pc[w]]
      /\ call' = call /\ args' = args /\ ran' = ran /\ pc[Manager(c)] = "spawn"
      /\ call \in Calls /\ Prepared /\ Recorded
  BY DEF Spawn, Inv, IInv, StagesTyped
<1>2. \A w \in Warps : named(w) => w[1] = c /\ w[2] < Smaller(Share(c).warps, NumWarps)
  OBVIOUS
<1>3. \A d \in Cores : named(Manager(d)) <=> d = c
  <2>1. Share(c).active /\ Share(c).warps > 0
    BY <1>1 DEF Prepared
  <2>2. Share(c).warps \in Nat
    BY <1>1, <2>1, ShareTypes
  <2>3. 0 < Smaller(Share(c).warps, NumWarps)
    BY <2>1, <2>2, Sizes DEF Smaller
  <2>4. QED
    BY <2>3 DEF Manager
<1>4. ASSUME NEW p \in Places, NEW id, Holds(p, id), p[1][1] = c, p[3] = "share"
      PROVE  named(p[1])
  BY <1>4 DEF Holds, InShare
<1>5. ASSUME NEW d \in Cores, d # c, NEW w \in Warps, w[1] = d
      PROVE  ~named(w)
  BY <1>5
<1> HIDE DEF named
<1>6. /\ \A w \in Warps : pc'[w] = IF named(w) THEN "share" ELSE pc[w]
      /\ \A d \in Cores : Manager(d) \in Warps /\ Manager(d)' = Manager(d)
      /\ \A d \in Cores : Manager(d)[1] = d
  BY <1>1, WorkersAreWarps DEF Manager
<1>7. \A d : Share(d)' = Share(d)
  BY <1>1, SameCall
<1>8. Prepared'
  <2>1. \A d \in Cores :
          pc'[Manager(d)] \in {"spawn", "share", "wait", "rest"} =>
            Share(d).active /\ args'[d] = Share(d).args
    BY <1>1, <1>3, <1>6 DEF Prepared
  <2>2. \A d \in Cores : pc'[Manager(d)] = "spawn" => Share(d).warps > 0
    BY <1>1, <1>3, <1>6 DEF Prepared
  <2>3. \A w \in Warps : pc'[w] = "share" => w[2] < Smaller(Share(w[1]).warps, NumWarps)
    BY <1>1, <1>2, <1>6 DEF Prepared
  <2>4. args' \in [Cores -> [offset : Nat, NWs : Nat, RWs : Nat]]
    BY <1>1 DEF Prepared
  <2>5. QED
    BY <1>6, <1>7, <2>1, <2>2, <2>3, <2>4 DEF Prepared
<1>9. ASSUME NEW p \in Places, NEW id, Holds(p, id)
      PROVE  Finished(p)' <=> Finished(p)
  <2>1. p[1] \in Warps /\ p[1][1] \in Cores
    BY PlaceFacts
  <2>2. CASE p[1][1] = c
    <3>1. pc'[Manager(c)] = "share" /\ Manager(c)' = Manager(c)
      BY <1>3, <1>6
    <3>2. p[3] = "share" => pc'[p[1]] = "share"
      BY <1>4, <1>6, <1>9, <2>1, <2>2
    <3>3. QED
      BY <1>1, <2>2, <3>1, <3>2, ManagerPlace DEF Finished
  <2>3. CASE p[1][1] # c
    <3>1. /\ pc'[p[1]] = pc[p[1]] /\ pc'[Manager(p[1][1])] = pc[Manager(p[1][1])]
          /\ Manager(p[1][1])' = Manager(p[1][1])
      BY <1>3, <1>5, <1>6, <2>1, <2>3
    <3>2. QED
      BY <3>1 DEF Finished
  <2>4. QED
    BY <2>2, <2>3
<1>10. Recorded'
  BY <1>1, <1>9, NoPlaceFinishes
<1>11. QED
  BY <1>8, <1>10

LEMMA RunShareKeepsInv ==
  ASSUME Inv, NEW u \in Warps, RunShare(u)
  PROVE  Prepared' /\ Recorded'
<1> DEFINE c == u[1]
           stub(tid) == StubTasks(Share(c).args, u, tid)
           D == {p \in Places : p[1] = u /\ p[3] = "share"}
<1>1. /\ pc[u] = "share" /\ Goto(u, IF u[2] = 0 THEN "wait" ELSE "idle")
      /\ ran' = ran \cup UNION {Runs(StubTasks(args[c], u, tid), <<u, tid, "share">>)
                                  : tid \in Threads}
      /\ call' = call /\ args' = args
      /\ pc \in [Warps -> Stages] /\ WorkersAwaited /\ Prepared /\ Recorded
  BY DEF RunShare, Inv, IInv, StagesTyped
<1>2. c \in Cores /\ u = <<c, u[2]>> /\ u[2] \in WarpIds
  BY DEF Warps, WarpIds
<1>3. /\ u[2] = 0 => u = Manager(c)
      /\ u[2] # 0 => u \in Workers(c)
      /\ \A d \in Cores : Manager(d) \in Warps /\ Manager(d)' = Manager(d)
      /\ \A d \in Cores : Manager(d)[1] = d /\ Manager(d)[2] = 0
  <2>1. u[2] = 0 => u = Manager(c)
    BY <1>2 DEF Manager
  <2>2. u[2] # 0 => u \in Workers(c)
    <3>1. u[2] # 0 => u[2] \in 1 .. NumWarps - 1
      BY <1>2, Sizes DEF WarpIds
    <3> HIDE DEF c
    <3>2. QED
      BY <1>2, <3>1 DEF Workers
  <2>3. \A d \in Cores : Manager(d) \in Warps /\ Manager(d)' = Manager(d)
    BY WorkersAreWarps DEF Manager
  <2>4. \A d \in Cores : Manager(d)[1] = d /\ Manager(d)[2] = 0
    BY DEF Manager
  <2>5. QED
    BY <2>1, <2>2, <2>3, <2>4
<1>4. /\ pc'[u] = IF u[2] = 0 THEN "wait" ELSE "idle"
      /\ \A w \in Warps : w # u => pc'[w] = pc[w]
  BY <1>1 DEF Goto
<1>5. pc[Manager(c)] \in {"share", "wait"} /\ (u[2] = 0 => pc[Manager(c)] = "share")
  BY <1>1, <1>2, <1>3 DEF WorkersAwaited
<1>6. /\ pc'[Manager(c)] \in {"share", "wait"}
      /\ \A d \in Cores : d # c => pc'[Manager(d)] = pc[Manager(d)]
  BY <1>2, <1>3, <1>4, <1>5
<1>7. Share(c).active /\ args[c] = Share(c).args /\ u[2] < Smaller(Share(c).warps, NumWarps)
  BY <1>1, <1>2, <1>5 DEF Prepared
<1> HIDE DEF c
<1>8. \A tid, id : InShare(id, c, u[2], tid) <=> id \in stub(tid)
  BY <1>2, <1>7 DEF InShare
<1>9. \A d : Share(d)' = Share(d)
  BY <1>1, SameCall
<1>10. Prepared'
  <2>1. \A d \in Cores :
          pc'[Manager(d)] \in {"spawn", "share", "wait", "rest"} =>
            Share(d).active /\ args'[d] = Share(d).args
    BY <1>1, <1>6, <1>7 DEF Prepared
  <2>2. \A d \in Cores : pc'[Manager(d)] = "spawn" => Share(d).warps > 0
    BY <1>1, <1>6 DEF Prepared
  <2>3. \A w \in Warps : pc'[w] = "share" => w[2] < Smaller(Share(w[1]).warps, NumWarps)
    BY <1>1, <1>4 DEF Prepared
  <2>4. args' \in [Cores -> [offset : Nat, NWs : Nat, RWs : Nat]]
    BY <1>1 DEF Prepared
  <2>5. QED
    BY <1>3, <1>9, <2>1, <2>2, <2>3, <2>4 DEF Prepared
<1>11. ASSUME NEW p \in Places, NEW id, Holds(p, id)
       PROVE  Finished(p)' <=> Finished(p) \/ p \in D
  <2>1. p[1] \in Warps /\ p[1][1] \in Cores /\ p[3] \in {"share", "rest"}
    BY PlaceFacts
  <2>2. CASE p[3] = "rest"
    BY <1>3, <1>5, <1>6, <2>1, <2>2 DEF Finished
  <2>3. CASE p[3] = "share" /\ p[1] = u
    BY <1>1, <1>2, <1>3, <1>4, <1>6, <2>3 DEF Finished, c
  <2>4. CASE p[3] = "share" /\ p[1] # u
    <3>1. pc'[p[1]] = pc[p[1]]
      BY <1>4, <2>1, <2>4
    <3>2. p[1][1] # c =>
            pc'[Manager(p[1][1])] = pc[Manager(p[1][1])]
      BY <1>6, <2>1
    <3>3. QED
      BY <1>3, <1>5, <1>6, <2>1, <2>4, <3>1, <3>2 DEF Finished
  <2>5. QED
    BY <2>1, <2>2, <2>3, <2>4
<1>12. ASSUME NEW r
       PROVE  r \in ran' <=> r \in ran \/ \E p \in D : \E id :
                Holds(p, id) /\ r = [task |-> TaskOf(id), by |-> p]
  <2> DEFINE row(tid, id) == [task |-> TaskOf(id), by |-> <<u, tid, "share">>]
             one(tid) == {row(tid, id) : id \in stub(tid)}
  <2>1. r \in ran' <=> r \in ran \/ \E tid \in Threads : \E id \in stub(tid) : r = row(tid, id)
    <3>1. ran' = ran \cup UNION {one(tid) : tid \in Threads}
      <4>1. \A tid : Runs(StubTasks(args[c], u, tid), <<u, tid, "share">>) = one(tid)
        BY <1>7 DEF Runs
      <4> HIDE DEF one
      <4>2. QED
        BY <1>1, <4>1
    <3>2. \A tid : \A x : x \in one(tid) <=> \E id \in stub(tid) : x = row(tid, id)
      OBVIOUS
    <3> HIDE DEF one, row, stub
    <3>3. QED
      BY <3>1, <3>2
  <2>2. ASSUME NEW tid \in Threads, NEW id \in stub(tid)
        PROVE  <<u, tid, "share">> \in D /\ Holds(<<u, tid, "share">>, id)
    <3>1. <<u, tid, "share">> \in D
      BY DEF Places
    <3>2. InShare(id, c, u[2], tid)
      BY <1>8
    <3>3. QED
      BY <3>1, <3>2 DEF Holds, c
  <2>3. ASSUME NEW p \in D, NEW id, Holds(p, id)
        PROVE  p[2] \in Threads /\ p = <<u, p[2], "share">> /\ id \in stub(p[2])
    <3>1. p \in Places /\ p[1] = u /\ p[3] = "share"
      OBVIOUS
    <3>2. p[2] \in Threads /\ p = <<p[1], p[2], p[3]>>
      BY <3>1, PlaceFacts
    <3>3. InShare(id, c, u[2], p[2])
      BY <2>3, <3>1 DEF Holds, c
    <3>4. QED
      BY <1>8, <3>1, <3>2, <3>3
  <2> HIDE DEF D, stub
  <2>4. ASSUME NEW tid \in Threads, NEW id \in stub(tid), r = row(tid, id)
        PROVE  \E p \in D : \E jd : Holds(p, jd) /\ r = [task |-> TaskOf(jd), by |-> p]
    BY <2>2, <2>4
  <2>5. ASSUME NEW p \in D, NEW id, Holds(p, id), r = [task |-> TaskOf(id), by |-> p]
        PROVE  \E tid \in Threads : \E jd \in stub(tid) : r = row(tid, jd)
    <3>1. r = row(p[2], id)
      BY <2>3, <2>5, Zenon
    <3>2. QED
      BY <2>3, <2>5, <3>1
  <2>6. QED
    BY <2>1, <2>4, <2>5
<1>13. D \in SUBSET Places
  OBVIOUS
<1>14. Recorded'
  <2> HIDE DEF D
  <2>1. QED
    BY <1>1, <1>11, <1>12, <1>13, PlacesFinish
<1>15. QED
  BY <1>10, <1>14

LEMMA CoreStepKeepsInv ==
  ASSUME Inv, NEW c \in Cores, CoreStep(c)
  PROVE  Prepared' /\ Recorded'
BY TerminateKeepsInv, EnterKeepsInv, SpawnKeepsInv, WaitKeepsInv, RunRestKeepsInv,
   NoRestKeepsInv DEF CoreStep

LEMMA InvAlways == Spec => []Inv
<1>1. Init => Inv
  BY InvFromStart
<1>2. Inv /\ [Next]_vars => Inv'
  <2> SUFFICES ASSUME Inv, [Next]_vars PROVE Inv'
    OBVIOUS
  <2>1. CASE \E c \in Cores : CoreStep(c)
    BY <2>1, CoreStepKeepsIInv, CoreStepKeepsInv DEF Inv
  <2>2. CASE \E w \in Warps : RunShare(w)
    BY <2>2, RunShareKeepsIInv, RunShareKeepsInv DEF Inv
  <2>3. CASE UNCHANGED vars
    <3>1. call' = call /\ pc' = pc /\ args' = args /\ ran' = ran
      BY <2>3 DEF vars
    <3>2. IInv'
      BY <3>1 DEF Inv, IInv, StagesTyped, WorkersAwaited
    <3>3. \A c : Share(c)' = Share(c)
      BY <3>1, SameCall
    <3>4. \A c \in Cores : Manager(c)' = Manager(c)
      BY DEF Manager
    <3>5. Prepared'
      BY <3>1, <3>3, <3>4 DEF Inv, Prepared
    <3>6. \A p \in Places : Finished(p)' <=> Finished(p)
      BY <3>1 DEF Finished, Manager
    <3>7. Recorded'
      BY <3>1, <3>6, NoPlaceFinishes DEF Inv
    <3>8. QED
      BY <3>2, <3>5, <3>7 DEF Inv
  <2>4. QED
    BY <2>1, <2>2, <2>3 DEF Next, Ended
<1>3. QED
  BY <1>1, <1>2, PTL DEF Spec

(* Every warp is at a stage of the call, every record has an offset and    *)
(* counts, and what has run was run by a thread of a warp of the device    *)
(* (vx_spawn.c).                                                           *)
THEOREM TypeCorrect == Spec => []TypeOK
<1>1. Inv => TypeOK
  <2> SUFFICES ASSUME Inv PROVE TypeOK
    OBVIOUS
  <2>1. ASSUME NEW r \in ran
        PROVE  r.by[1] \in Warps /\ r.by[2] \in Threads
    <3>1. PICK p \in Places : \E id : r = [task |-> TaskOf(id), by |-> p]
      BY DEF Inv, Recorded
    <3>2. QED
      BY <3>1, PlaceFacts
  <2>2. QED
    BY <2>1 DEF Inv, IInv, StagesTyped, Prepared, TypeOK
<1>2. QED
  BY <1>1, InvAlways, PTL

(* When every core has returned, every place that has a task is finished.  *)
LEMMA AllFinished ==
  ASSUME Inv, Returned, NEW p \in Places
  PROVE  Finished(p)
<1>1. /\ p[1] \in Warps /\ p[1][1] \in Cores /\ p[3] \in {"share", "rest"}
      /\ pc[Manager(p[1][1])] = "returned"
  BY PlaceFacts DEF Returned
<1>2. CASE p[1][2] = 0
  BY <1>1, <1>2, ManagerPlace DEF Finished
<1>3. CASE p[1][2] # 0
  <2>1. pc[p[1]] = "idle"
    BY <1>1, <1>3, ManagerPlace, AloneUnlessAtWork DEF Inv
  <2>2. QED
    BY <1>1, <1>3, <2>1 DEF Finished
<1>4. QED
  BY <1>2, <1>3

(* For every device and every number of tasks or grid: no task is run      *)
(* twice or outside the grid, and when all cores have returned none is     *)
(* left (vx_spawn.c), provided the clusters that vx_spawn_tasks_cluster    *)
(* uses are there and the last of them is full or the only one.            *)
THEOREM TasksRunOnce == Spec => [](Fits => EachTaskOnce)
<1>1. Inv /\ Fits => EachTaskOnce
  <2> SUFFICES ASSUME Inv, Fits PROVE EachTaskOnce
    OBVIOUS
  <2>1. call \in Calls /\ Recorded
    BY DEF Inv, IInv, StagesTyped
  <2>2. /\ \A p \in Places : \A id : Holds(p, id) => id \in 0 .. NumTasks - 1
        /\ \A p, q \in Places : \A id : Holds(p, id) /\ Holds(q, id) => p = q
        /\ \A id \in 0 .. NumTasks - 1 : \E p \in Places : Holds(p, id)
    BY <2>1, OnePlace
  <2>3. /\ \A id \in 0 .. NumTasks - 1 : TaskOf(id) \in AllTasks
        /\ \A id, jd \in 0 .. NumTasks - 1 : TaskOf(id) = TaskOf(jd) => id = jd
        /\ \A g \in AllTasks : \E id \in 0 .. NumTasks - 1 : TaskOf(id) = g
    BY <2>1, TaskNumbers
  <2>4. \A r \in ran : \E p \in Places : \E id \in 0 .. NumTasks - 1 :
          Holds(p, id) /\ r = [task |-> TaskOf(id), by |-> p]
    BY <2>1, <2>2 DEF Recorded
  <2>5. \A r \in ran : r.task \in AllTasks
    BY <2>3, <2>4
  <2>6. ASSUME NEW r \in ran, NEW s \in ran, r.task = s.task
        PROVE  r = s
    <3>1. PICK p \in Places, id \in 0 .. NumTasks - 1 :
            Holds(p, id) /\ r = [task |-> TaskOf(id), by |-> p]
      BY <2>4
    <3>2. PICK q \in Places, jd \in 0 .. NumTasks - 1 :
            Holds(q, jd) /\ s = [task |-> TaskOf(jd), by |-> q]
      BY <2>4
    <3>3. TaskOf(id) = TaskOf(jd)
      BY <2>6, <3>1, <3>2
    <3>4. id = jd
      BY <2>3, <3>3
    <3>5. p = q
      BY <2>2, <3>1, <3>2, <3>4
    <3>6. QED
      BY <3>1, <3>2, <3>4, <3>5
  <2>7. ASSUME Returned, NEW g \in AllTasks
        PROVE  \E r \in ran : r.task = g
    <3>1. PICK id \in 0 .. NumTasks - 1 : TaskOf(id) = g
      BY <2>3
    <3>2. PICK p \in Places : Holds(p, id)
      BY <2>2
    <3>3. Finished(p)
      BY <2>7, AllFinished
    <3>4. [task |-> TaskOf(id), by |-> p] \in ran
      BY <2>1, <3>2, <3>3 DEF Recorded
    <3>5. QED
      BY <3>1, <3>4
  <2>8. Returned => {r.task : r \in ran} = AllTasks
    BY <2>5, <2>7
  <2>9. QED
    BY <2>5, <2>6, <2>8 DEF EachTaskOnce
<1>2. QED
  BY <1>1, InvAlways, PTL

-----------------------------------------------------------------------------
(* Every call ends                                                         *)

ManagersAwake == \A c \in Cores : pc[Manager(c)] # "idle"

Onward ==
  /\ \A w \in Warps : Progress(w) <= Progress(w)'
  /\ \E w \in Warps : Progress(w) < Progress(w)'

LEMMA ProgressIsNumber ==
  ASSUME IInv, NEW w \in Warps
  PROVE  /\ Progress(w) \in Nat
         /\ Progress(w)' = IF w[2] = 0
              THEN CASE pc'[w] = "idle" -> 0
                     [] pc'[w] = "entry" -> 1
                     [] pc'[w] = "spawn" -> 2
                     [] pc'[w] = "share" -> 3
                     [] pc'[w] = "wait" -> 4
                     [] pc'[w] = "rest" -> 5
                     [] pc'[w] = "returned" -> 6
              ELSE CASE pc'[w] = "share" -> 1
                     [] pc'[w] # "share" /\ pc'[Manager(w[1])] \in {"entry", "spawn"} -> 0
                     [] pc'[w] # "share" /\ pc'[Manager(w[1])] \notin {"entry", "spawn"} -> 2
BY DEF Progress, IInv, StagesTyped, Stages, Manager

LEMMA ProgressStays ==
  ASSUME IInv, NEW w \in Warps, pc'[w] = pc[w],
         w[2] # 0 => pc'[Manager(w[1])] = pc[Manager(w[1])]
  PROVE  Progress(w) <= Progress(w)'
<1>1. pc[w] \in Stages /\ Progress(w) \in Nat
  BY ProgressIsNumber DEF IInv, StagesTyped
<1>2. CASE w[2] = 0
  <2>1. Progress(w)' = Progress(w)
    BY <1>1, <1>2, ProgressIsNumber DEF Progress, Stages
  <2>2. QED
    BY <1>1, <2>1
<1>3. CASE w[2] # 0
  <2>1. Progress(w)' = Progress(w)
    BY <1>1, <1>3, ProgressIsNumber DEF Progress, Stages
  <2>2. QED
    BY <1>1, <2>1
<1>4. QED
  BY <1>2, <1>3

(* A step that moves only warp 0 of a core, and moves it on.               *)
LEMMA ManagerOnward ==
  ASSUME Inv, NEW c \in Cores, NEW stage, Goto(Manager(c), stage),
         \/ pc[Manager(c)] = "entry" /\ stage \in {"spawn", "rest", "returned"}
         \/ pc[Manager(c)] = "share" /\ stage = "wait"
         \/ pc[Manager(c)] = "wait" /\ stage = "rest"
         \/ pc[Manager(c)] = "rest" /\ stage = "returned"
  PROVE  Onward
<1>1. IInv
  BY DEF Inv
<1>2. /\ pc'[Manager(c)] = stage
      /\ \A d \in Cores : d # c => pc'[Manager(d)] = pc[Manager(d)]
      /\ \A w \in Warps : w[2] # 0 => pc'[w] = pc[w]
      /\ \A w \in Warps : w # Manager(c) => pc'[w] = pc[w]
  BY ManagerGoes
<1>3. Manager(c) \in Warps /\ Manager(c)[2] = 0
  BY WorkersAreWarps DEF Manager
<1>4. Progress(Manager(c)) < Progress(Manager(c))'
  BY <1>1, <1>2, <1>3 DEF Progress
<1>5. ASSUME NEW w \in Warps
      PROVE  Progress(w) <= Progress(w)'
  <2>1. CASE w = Manager(c)
    BY <1>1, <1>4, <2>1, <1>3, <1>2, ProgressIsNumber
  <2>2. CASE w # Manager(c) /\ w[2] = 0
    BY <1>1, <1>2, <2>2, ProgressStays
  <2>3. CASE w[2] # 0
    <3>1. w[1] \in Cores
      BY DEF Warps
    <3>2. CASE w[1] = c
      BY <1>1, <1>2, <2>3, <3>2, ProgressIsNumber DEF Progress
    <3>3. CASE w[1] # c
      BY <1>1, <1>2, <2>3, <3>1, <3>3, ProgressIsNumber DEF Progress
    <3>4. QED
      BY <3>2, <3>3
  <2>4. QED
    BY <2>1, <2>2, <2>3
<1>6. QED
  BY <1>3, <1>4, <1>5 DEF Onward

LEMMA SpawnOnward ==
  ASSUME Inv, NEW c \in Cores, Spawn(c)
  PROVE  Onward
<1> DEFINE named(w) == w[1] = c /\ w[2] < Smaller(Share(c).warps, NumWarps)
<1>1. /\ pc' = [w \in Warps |-> IF named(w) THEN "share" ELSE pc[w]]
      /\ pc[Manager(c)] = "spawn" /\ IInv
  BY DEF Spawn, Inv
<1>2. named(Manager(c))
  <2>1. Share(c).active /\ Share(c).warps > 0
    BY <1>1 DEF Inv, Prepared
  <2>2. Share(c).warps \in Nat
    BY <2>1, ShareTypes DEF Inv, IInv, StagesTyped
  <2>3. QED
    BY <2>1, <2>2, Sizes DEF Smaller, Manager
<1>3. /\ Manager(c) \in Warps /\ Manager(c)[2] = 0
      /\ \A w \in Warps : w[1] \in Cores /\ (w[2] = 0 => w = Manager(w[1]))
      /\ \A w \in Warps : w[1] # c => ~named(w) /\ ~named(Manager(w[1]))
      /\ \A w \in Warps : Manager(w[1]) \in Warps /\ (w[2] # 0 => w \in Workers(w[1]))
  <2>1. \A w \in Warps : w = <<w[1], w[2]>> /\ w[1] \in Cores /\ w[2] \in 0 .. NumWarps - 1
    BY DEF Warps
  <2>2. \A w \in Warps : w[2] # 0 => w \in Workers(w[1])
    <3> SUFFICES ASSUME NEW w \in Warps, w[2] # 0 PROVE w \in Workers(w[1])
      OBVIOUS
    <3>1. w[2] \in 1 .. NumWarps - 1
      BY <2>1, Sizes
    <3>2. QED
      BY <2>1, <3>1 DEF Workers
  <2>3. QED
    BY <2>1, <2>2, WorkersAreWarps DEF Manager
<1> HIDE DEF named
<1>4. Progress(Manager(c)) = 2 /\ Progress(Manager(c))' = 3
  BY <1>1, <1>2, <1>3, ProgressIsNumber DEF Progress
<1>5. ASSUME NEW w \in Warps
      PROVE  Progress(w) <= Progress(w)'
  <2>1. CASE w[1] = c /\ w[2] = 0
    BY <1>3, <1>4, <2>1, ProgressIsNumber, <1>1
  <2>2. CASE w[1] = c /\ w[2] # 0
    <3>1. pc[w] = "idle" /\ pc'[Manager(w[1])] = "share"
      BY <1>1, <1>2, <1>3, <2>2, AloneUnlessAtWork
    <3>2. Progress(w) = 0
      BY <1>1, <2>2, <3>1 DEF Progress
    <3>3. Progress(w)' \in {1, 2}
      BY <1>1, <2>2, <3>1, ProgressIsNumber
    <3>4. QED
      BY <3>2, <3>3
  <2>3. CASE w[1] # c
    BY <1>1, <1>3, <2>3, ProgressStays
  <2>4. QED
    BY <2>1, <2>2, <2>3
<1>6. QED
  BY <1>3, <1>4, <1>5 DEF Onward

LEMMA RunShareOnward ==
  ASSUME Inv, NEW u \in Warps, RunShare(u)
  PROVE  Onward
<1>1. /\ u[1] \in Cores /\ u = <<u[1], u[2]>> /\ u[2] \in 0 .. NumWarps - 1
      /\ pc[u] = "share" /\ IInv /\ pc \in [Warps -> Stages]
  BY DEF Warps, RunShare, Inv, IInv, StagesTyped
<1>2. CASE u[2] = 0
  <2>1. u = Manager(u[1])
    BY <1>1, <1>2 DEF Manager
  <2>2. Goto(Manager(u[1]), "wait")
    BY <1>2, <2>1 DEF RunShare
  <2>3. QED
    BY <1>1, <2>1, <2>2, ManagerOnward
<1>3. CASE u[2] # 0
  <2>1. /\ pc' = [pc EXCEPT ![u] = "idle"]
        /\ \A w \in Warps : Manager(w[1]) \in Warps /\ Manager(w[1]) # u
    <3>1. pc' = [pc EXCEPT ![u] = "idle"]
      BY <1>3 DEF RunShare, Goto
    <3>2. \A w \in Warps : w[1] \in Cores
      BY DEF Warps
    <3>3. \A d \in Cores : Manager(d)[2] = 0
      BY DEF Manager
    <3>4. QED
      BY <1>3, <3>1, <3>2, <3>3, WorkersAreWarps
  <2>2. /\ \A w \in Warps : pc'[Manager(w[1])] = pc[Manager(w[1])]
        /\ \A w \in Warps : w # u => pc'[w] = pc[w]
        /\ pc'[u] = "idle"
    BY <1>1, <2>1
  <2>3. pc[Manager(u[1])] \in {"share", "wait"}
    <3>1. u[2] \in 1 .. NumWarps - 1
      BY <1>1, <1>3, Sizes
    <3>2. u \in Workers(u[1])
      BY <1>1, <3>1 DEF Workers
    <3>3. QED
      BY <1>1, <3>2 DEF IInv, WorkersAwaited
  <2>4. Progress(u) = 1 /\ Progress(u)' = 2
    BY <1>1, <1>3, <2>2, <2>3, ProgressIsNumber DEF Progress
  <2>5. ASSUME NEW w \in Warps, w # u
        PROVE  Progress(w) <= Progress(w)'
    BY <1>1, <2>2, <2>5, ProgressStays
  <2>6. QED
    BY <2>4, <2>5 DEF Onward
<1>4. QED
  BY <1>2, <1>3

LEMMA StepOnward ==
  ASSUME Inv, Next
  PROVE  Onward \/ UNCHANGED vars
<1>1. ASSUME NEW c \in Cores, CoreStep(c)
      PROVE  Onward
  <2>1. CASE Terminate(c)
    BY <2>1, ManagerOnward DEF Terminate
  <2>2. CASE Enter(c)
    BY <2>2, ManagerOnward DEF Enter
  <2>3. CASE Spawn(c)
    BY <2>3, SpawnOnward
  <2>4. CASE Wait(c)
    BY <2>4, ManagerOnward DEF Wait
  <2>5. CASE RunRest(c)
    BY <2>5, ManagerOnward DEF RunRest
  <2>6. CASE NoRest(c)
    BY <2>6, ManagerOnward DEF NoRest
  <2>7. QED
    BY <1>1, <2>1, <2>2, <2>3, <2>4, <2>5, <2>6 DEF CoreStep
<1>2. QED
  BY <1>1, RunShareOnward DEF Next, Ended

(* On a device of any size a call makes a bounded number of steps          *)
(* (vx_spawn.c): no warp spins and none is spawned a second time.          *)
THEOREM CallIsBounded == Spec => EveryStepCounts
<1>1. Inv /\ [Next]_vars => [/\ \A w \in Warps : Progress(w) <= Progress(w)'
                            /\ \E w \in Warps : Progress(w) < Progress(w)']_vars
  BY StepOnward DEF Onward
<1>2. QED
  BY <1>1, InvAlways, PTL DEF Spec, EveryStepCounts

LEMMA ManagersStayAwake == Spec => []ManagersAwake
<1>1. Init => ManagersAwake
  BY WorkersAreWarps DEF Init, ManagersAwake, Manager
<1>2. Inv /\ ManagersAwake /\ [Next]_vars => ManagersAwake'
  <2> SUFFICES ASSUME Inv, ManagersAwake, [Next]_vars, NEW c \in Cores
               PROVE  pc'[Manager(c)] # "idle"
    BY DEF ManagersAwake, Manager
  <2>1. /\ Manager(c) \in Warps /\ Manager(c)[2] = 0 /\ pc[Manager(c)] # "idle"
        /\ IInv /\ pc[Manager(c)] \in Stages
    BY WorkersAreWarps DEF ManagersAwake, Manager, Inv, IInv, StagesTyped
  <2>2. CASE Onward
    <3>1. Progress(Manager(c)) \in 1 .. 6
      BY <2>1 DEF Progress, Stages
    <3>2. Progress(Manager(c)) <= Progress(Manager(c))'
      BY <2>1, <2>2 DEF Onward
    <3>3. pc'[Manager(c)] = "idle" => Progress(Manager(c))' = 0
      BY <2>1, ProgressIsNumber
    <3>4. QED
      BY <3>1, <3>2, <3>3
  <2>3. CASE UNCHANGED vars
    BY <2>1, <2>3 DEF vars
  <2>4. QED
    BY <2>2, <2>3, StepOnward
<1>3. QED
  BY <1>1, <1>2, InvAlways, PTL DEF Spec

(* On a device of any size no core is ever stuck in a call: its warp 0     *)
(* waits for nobody but workers that are at work (vx_spawn.c:266, 342,     *)
(* 414, 576).                                                              *)
THEOREM NobodyIsStuck == Spec => []NoCoreIsStuck
<1>1. Inv /\ ManagersAwake => NoCoreIsStuck
  <2> SUFFICES ASSUME Inv, ManagersAwake, NEW c \in Cores, pc[Manager(c)] # "returned",
                      ~CoreMayStep(c)
               PROVE  FALSE
    BY DEF NoCoreIsStuck
  <2>1. /\ Manager(c) \in Warps /\ Manager(c)[1] = c
        /\ pc[Manager(c)] \in Stages \ {"idle"} /\ call \in Calls /\ IInv
    BY WorkersAreWarps DEF ManagersAwake, Manager, Inv, IInv, StagesTyped
  <2>2. CASE pc[Manager(c)] = "wait"
    <3>1. \A w \in Workers(c) : w \in Warps /\ w[1] = c /\ pc[w] \in {"idle", "share"}
      BY <2>1, WorkersAreWarps DEF IInv, WorkersAwaited
    <3>2. QED
      BY <2>2, <3>1 DEF CoreMayStep
  <2>3. CASE pc[Manager(c)] = "rest"
    <3>1. Share(c).active
      BY <2>3 DEF Inv, Prepared
    <3>2. Share(c).rest \in 0 .. NumThreads - 1
      BY <2>1, <3>1, ShareTypes
    <3>3. Share(c).rest \in Nat
      BY <3>2, Sizes
    <3>4. QED
      BY <2>3, <3>3 DEF CoreMayStep
  <2>4. QED
    BY <2>1, <2>2, <2>3 DEF CoreMayStep, Stages
<1>2. QED
  BY <1>1, InvAlways, ManagersStayAwake, PTL
=============================================================================
