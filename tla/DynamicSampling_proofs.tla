------------------------- MODULE DynamicSampling_proofs -------------------------
(***************************************************************************)
(* Theorems about DynamicSampling, for every size of the batches, every    *)
(* setting of the filter and every number of runs.                         *)
(***************************************************************************)
EXTENDS DynamicSampling, SequenceTheorems, FiniteSetTheorems, WellFoundedInduction, TLAPS

(***************************************************************************)
(* Numbers.                                                                *)
(***************************************************************************)

\* Every set of natural numbers has a least one.
LEMMA LeastNumber ==
    ASSUME NEW T \in SUBSET Nat, T # {}
    PROVE  \E m \in T : \A x \in T : m <= x
<1> DEFINE R == OpToRel(<, Nat)
<1>1. IsWellFoundedOn(R, Nat)
  BY NatLessThanWellFounded
<1>2. R = {p \in Nat \X Nat : p[1] < p[2]}
  BY DEF OpToRel
<1> HIDE DEF R
<1>3. \A x, m \in Nat : x < m => <<x, m>> \in R
  BY <1>2
<1>4. PICK m \in T : \A x \in T : ~(<<x, m>> \in R)
  BY <1>1, WFMin
<1>5. ASSUME NEW x \in T
      PROVE  m <= x
  <2>1. x \in Nat /\ m \in Nat
    OBVIOUS
  <2>2. ~(x < m)
    BY <2>1, <1>3, <1>4
  <2> QED
    BY <2>1, <2>2
<1> QED
  BY <1>5

\* So a set that has 0, and with every number below n the next one, has all the
\* numbers up to n.
LEMMA UpToInduction ==
    ASSUME NEW n \in Nat, NEW good,
           0 \in good,
           \A i \in 0..(n - 1) : i \in good => i + 1 \in good
    PROVE  \A i \in 0..n : i \in good
<1> DEFINE bad == {i \in 0..n : i \notin good}
<1> SUFFICES ASSUME bad # {}
             PROVE  FALSE
  OBVIOUS
<1>1. bad \in SUBSET Nat
  OBVIOUS
<1>2. PICK m \in bad : \A x \in bad : m <= x
  <2> HIDE DEF bad
  <2> QED
    BY <1>1, LeastNumber
<1>3. m \in 1..n /\ m \notin good
  OBVIOUS
<1>4. m - 1 \in 0..(n - 1) /\ m - 1 \in 0..n /\ (m - 1) + 1 = m
  BY <1>3
<1>5. m - 1 \in good
  <2>1. m - 1 \notin bad
    <3>1. ~(m <= m - 1)
      BY <1>3
    <3> QED
      BY <1>2, <3>1
  <2> QED
    BY <1>4, <2>1
<1> QED
  BY <1>3, <1>4, <1>5

\* The number that has quotient k and a remainder below n.
LEMMA DivUnique ==
    ASSUME NEW n \in Nat \ {0}, NEW k \in Nat, NEW r \in 0..(n - 1)
    PROVE  (n * k + r) \div n = k
<1>1. n * k \in Nat /\ r \in Nat
  OBVIOUS
<1> DEFINE x == n * k + r
<1>2. x \in Nat
  BY <1>1
<1> DEFINE q == x \div n
           s == x % n
<1>3. q \in Int /\ s \in 0..(n - 1) /\ x = n * q + s
  <2> HIDE DEF x
  <2> QED
    BY <1>2
<1> HIDE DEF q, s
<1>4. n * (q - k) = r - s
  BY <1>3
<1>5. CASE q - k >= 1
  <2>1. n * (q - k) >= n
    BY <1>3, <1>5
  <2> QED
    BY <1>1, <1>3, <1>4, <2>1
<1>6. CASE q - k <= -1
  <2>1. n * (q - k) <= -n
    BY <1>3, <1>6
  <2> QED
    BY <1>1, <1>3, <1>4, <2>1
<1>7. q = k
  BY <1>3, <1>5, <1>6
<1> QED
  BY <1>7 DEF q

(***************************************************************************)
(* The loop over the rows.                                                 *)
(***************************************************************************)

\* What the loop adds for one row.
Extended(list, row, uids) == IF row.uid \in uids THEN Append(list, row) ELSE list

\* The list of kept rows after each row.
IsLoop(f, n, rows, uids) ==
    f = [i \in 0..n |-> IF i = 0 THEN <<>> ELSE Extended(f[i - 1], rows[i], uids)]

LEMMA LoopExists ==
    ASSUME NEW rows, NEW uids, NEW n \in Nat
    PROVE  \E f : IsLoop(f, n, rows, uids)
<1> DEFINE good == {k \in 0..n : \E f : IsLoop(f, k, rows, uids)}
<1>1. 0 \in good
  <2>1. IsLoop([i \in 0..0 |-> <<>>], 0, rows, uids)
    <3>1. \A i \in 0..0 : i = 0
      OBVIOUS
    <3> QED
      BY <3>1, Zenon DEF IsLoop
  <2>2. 0 \in 0..n
    OBVIOUS
  <2> QED
    BY <2>1, <2>2, Zenon
<1>2. ASSUME NEW k \in 0..(n - 1), k \in good
      PROVE  k + 1 \in good
  <2>1. PICK f : IsLoop(f, k, rows, uids)
    BY <1>2
  <2> DEFINE g == [i \in 0..(k + 1) |->
                     IF i = k + 1 THEN Extended(f[k], rows[k + 1], uids) ELSE f[i]]
  <2>2. \A i \in 0..(k + 1) : i # k + 1 => i \in 0..k
    OBVIOUS
  <2>3. \A i \in 0..k : f[i] = IF i = 0 THEN <<>> ELSE Extended(f[i - 1], rows[i], uids)
    BY <2>1, Zenon DEF IsLoop
  <2>4. ASSUME NEW i \in 0..(k + 1)
        PROVE  g[i] = IF i = 0 THEN <<>> ELSE Extended(g[i - 1], rows[i], uids)
    <3>1. CASE i = k + 1
      <4>1. k \in 0..(k + 1) /\ k # k + 1 /\ i # 0 /\ i - 1 = k
        BY <3>1
      <4>2. g[k] = f[k]
        BY <4>1, Zenon
      <4>3. g[i] = Extended(f[k], rows[i], uids)
        BY <3>1, Zenon
      <4> QED
        BY <4>1, <4>2, <4>3, Zenon
    <3>2. CASE i # k + 1
      <4>1. g[i] = f[i] /\ i \in 0..k
        BY <2>2, <3>2, Zenon
      <4>2. CASE i = 0
        BY <2>3, <4>1, <4>2, Zenon
      <4>3. CASE i # 0
        <5>1. i - 1 \in 0..(k + 1) /\ i - 1 # k + 1
          BY <4>1, <4>3
        <5>2. g[i - 1] = f[i - 1]
          BY <5>1, Zenon
        <5> QED
          BY <2>3, <4>1, <4>3, <5>2, Zenon
      <4> QED
        BY <4>2, <4>3
    <3> QED
      BY <3>1, <3>2
  <2> HIDE DEF g
  <2>5. g = [i \in 0..(k + 1) |-> g[i]]
    BY Zenon DEF g
  <2>6. IsLoop(g, k + 1, rows, uids)
    BY <2>4, <2>5, Zenon DEF IsLoop
  <2>7. k + 1 \in 0..n
    OBVIOUS
  <2> QED
    BY <2>6, <2>7, Zenon
<1> HIDE DEF good
<1>3. \A i \in 0..n : i \in good
  BY <1>1, <1>2, UpToInduction
<1>4. n \in 0..n
  OBVIOUS
<1> QED
  BY <1>3, <1>4, Zenon DEF good

\* What the loop makes of the first i rows.
Loop(rows, uids) == CHOOSE f : IsLoop(f, Len(rows), rows, uids)

LEMMA LoopSteps ==
    ASSUME NEW S, NEW rows \in Seq(S), NEW uids
    PROVE  /\ Loop(rows, uids)[0] = <<>>
           /\ \A i \in 1..Len(rows) :
                 Loop(rows, uids)[i] = Extended(Loop(rows, uids)[i - 1], rows[i], uids)
<1> DEFINE n == Len(rows)
           f == Loop(rows, uids)
<1>1. n \in Nat
  OBVIOUS
<1>2. IsLoop(f, n, rows, uids)
  BY <1>1, LoopExists DEF Loop
<1> HIDE DEF f, n
<1>3. \A i \in 0..n : f[i] = IF i = 0 THEN <<>> ELSE Extended(f[i - 1], rows[i], uids)
  BY <1>2, Zenon DEF IsLoop
<1>4. 0 \in 0..n /\ \A i \in 1..n : i \in 0..n /\ i # 0
  BY <1>1
<1> QED
  BY <1>3, <1>4, Zenon DEF f, n

LEMMA KeptIsLoop ==
    ASSUME NEW rows
    PROVE  Kept(rows) = Loop(rows, KeptUids(rows))[Len(rows)]
BY DEF Kept, Loop, IsLoop, Extended

\* A row is one of the n rows of one of k blocks.
LEMMA RowFacts ==
    ASSUME NEW n \in Nat \ {0}, NEW k \in Nat
    PROVE  /\ n * k \in Nat
           /\ \A q \in 0..(k - 1), r \in 1..n : n * q + r \in 1..(n * k)
           /\ \A i \in 1..(n * k) : \E q \in 0..(k - 1), r \in 1..n : i = n * q + r
<1>1. n * k \in Nat
  OBVIOUS
<1>2. ASSUME NEW q \in 0..(k - 1), NEW r \in 1..n
      PROVE  n * q + r \in 1..(n * k)
  <2>1. n * q \in Nat
    OBVIOUS
  <2>2. n * (q + 1) <= n * k
    OBVIOUS
  <2>3. n * (q + 1) = n * q + n
    OBVIOUS
  <2> QED
    BY <1>1, <2>1, <2>2, <2>3
<1>3. ASSUME NEW i \in 1..(n * k)
      PROVE  \E q \in 0..(k - 1), r \in 1..n : i = n * q + r
  <2> DEFINE x == i - 1
             q == x \div n
             s == x % n
  <2>1. x \in Nat /\ x < n * k
    BY <1>1
  <2>2. q \in Nat /\ s \in 0..(n - 1) /\ x = n * q + s
    <3> HIDE DEF x
    <3> QED
      BY <2>1
  <2> HIDE DEF x, q, s
  <2>3. ~(q >= k)
    <3> SUFFICES ASSUME q >= k
                 PROVE  FALSE
      OBVIOUS
    <3>1. n * q >= n * k
      BY <2>2
    <3>2. n * q \in Nat
      BY <2>2
    <3> QED
      BY <1>1, <2>1, <2>2, <3>1, <3>2
  <2>4. q \in 0..(k - 1) /\ s + 1 \in 1..n
    BY <2>2, <2>3
  <2>5. i = n * q + (s + 1)
    <3>1. n * q \in Nat
      BY <2>2
    <3> QED
      BY <2>2, <3>1 DEF x
  <2> QED
    BY <2>4, <2>5
<1> QED
  BY <1>1, <1>2, <1>3

LEMMA AppendOfConcat ==
    ASSUME NEW S, NEW b \in Seq(S), NEW c \in Seq(S), NEW e \in S
    PROVE  Append(b \o c, e) = b \o (c \o <<e>>)
<1>1. <<e>> \in Seq(S) /\ b \o c \in Seq(S)
  OBVIOUS
<1>2. (b \o c) \o <<e>> = b \o (c \o <<e>>)
  BY <1>1, ConcatAssociative
<1>3. Append(b \o c, e) = (b \o c) \o <<e>>
  BY <1>1, AppendIsConcat
<1> QED
  BY <1>2, <1>3

\* Rows of one block the loop keeps all of, or none.
KeepsAllOrNone(rows, uids, a, n) ==
    /\ (\A r \in 1..n : rows[a + r].uid \notin uids)
           => Loop(rows, uids)[a + n] = Loop(rows, uids)[a]
    /\ (\A r \in 1..n : rows[a + r].uid \in uids)
           => Loop(rows, uids)[a + n]
                  = Loop(rows, uids)[a] \o [r \in 1..n |-> rows[a + r]]

LEMMA LoopBlock ==
    ASSUME NEW S, NEW rows \in Seq(S), NEW uids, NEW a \in Nat, NEW n \in Nat,
           a + n <= Len(rows), Loop(rows, uids)[a] \in Seq(S)
    PROVE  KeepsAllOrNone(rows, uids, a, n)
<1> DEFINE f == Loop(rows, uids)
           row(k) == rows[a + k]
           block(k) == [r \in 1..k |-> row(r)]
<1>1. ASSUME NEW k \in 0..(n - 1)
      PROVE  /\ k + 1 \in 1..n
             /\ f[a + (k + 1)] = Extended(f[a + k], row(k + 1), uids)
  <2>1. a + (k + 1) \in 1..Len(rows) /\ k + 1 \in 1..n /\ (a + (k + 1)) - 1 = a + k
    OBVIOUS
  <2>2. f[a + (k + 1)] = Extended(f[(a + (k + 1)) - 1], row(k + 1), uids)
    BY <2>1, LoopSteps
  <2> QED
    BY <2>1, <2>2
<1>2. f[a] \in Seq(S)
  OBVIOUS
<1>3. \A k \in 1..n : row(k) \in S
  OBVIOUS
<1> HIDE DEF f, row
<1>4. block(0) = <<>>
  OBVIOUS
<1>5. \A k \in 0..n : block(k) \in Seq(S)
  BY <1>3
<1>6. \A k \in 0..(n - 1) : block(k + 1) = block(k) \o <<row(k + 1)>>
  <2> SUFFICES ASSUME NEW k \in 0..(n - 1)
               PROVE  block(k + 1) = block(k) \o <<row(k + 1)>>
    OBVIOUS
  <2> QED
    OBVIOUS
<1> HIDE DEF block
<1>7. ASSUME \A r \in 1..n : row(r).uid \notin uids
      PROVE  f[a + n] = f[a]
  <2> DEFINE good == {k \in 0..n : f[a + k] = f[a]}
  <2>1. 0 \in good
    OBVIOUS
  <2>2. ASSUME NEW k \in 0..(n - 1), k \in good
        PROVE  k + 1 \in good
    <3>1. f[a + (k + 1)] = f[a + k]
      BY <1>1, <1>7, Zenon DEF Extended
    <3>2. k + 1 \in 0..n
      OBVIOUS
    <3> QED
      BY <2>2, <3>1, <3>2, Zenon
  <2> HIDE DEF good
  <2>3. \A k \in 0..n : k \in good
    BY <2>1, <2>2, UpToInduction
  <2>4. n \in 0..n
    OBVIOUS
  <2> QED
    BY <2>3, <2>4, Zenon DEF good
<1>8. ASSUME \A r \in 1..n : row(r).uid \in uids
      PROVE  f[a + n] = f[a] \o block(n)
  <2> DEFINE good == {k \in 0..n : f[a + k] = f[a] \o block(k)}
  <2>1. 0 \in good
    <3>1. f[a] \o <<>> = f[a]
      BY <1>2, ConcatEmptySeq
    <3>2. a + 0 = a /\ 0 \in 0..n
      OBVIOUS
    <3> QED
      BY <1>4, <3>1, <3>2, Zenon
  <2>2. ASSUME NEW k \in 0..(n - 1), k \in good
        PROVE  k + 1 \in good
    <3>1. f[a + (k + 1)] = Append(f[a + k], row(k + 1))
      BY <1>1, <1>8, Zenon DEF Extended
    <3>2. k \in 0..n /\ k + 1 \in 0..n /\ k + 1 \in 1..n
      OBVIOUS
    <3>3. block(k) \in Seq(S) /\ row(k + 1) \in S
      BY <1>3, <1>5, <3>2
    <3>4. Append(f[a] \o block(k), row(k + 1)) = f[a] \o (block(k) \o <<row(k + 1)>>)
      BY <1>2, <3>3, AppendOfConcat
    <3> QED
      BY <1>6, <2>2, <3>1, <3>2, <3>4, Zenon
  <2> HIDE DEF good
  <2>3. \A k \in 0..n : k \in good
    BY <2>1, <2>2, UpToInduction
  <2>4. n \in 0..n
    OBVIOUS
  <2> QED
    BY <2>3, <2>4, Zenon DEF good
<1> QED
  BY <1>7, <1>8, Zenon DEF f, block, row, KeepsAllOrNone

(***************************************************************************)
(* Batches made of whole groups.                                           *)
(***************************************************************************)

\* Row r of block q; blocks are counted from 0.
Row(q, r) == setting.n * q + r

\* The list is k blocks of n rows, one for each of k prompts.
Blocks(list, k) ==
    /\ list \in Seq(Trajectory) /\ Len(list) = setting.n * k
    /\ \A q \in 0..(k - 1), r \in 1..setting.n : list[Row(q, r)].uid = list[Row(q, 1)].uid
    /\ \A p, q \in 0..(k - 1) : list[Row(p, 1)].uid = list[Row(q, 1)].uid => p = q

\* And no block has a single metric, unless it has a single row.
MixedBlocks(list, k) ==
    /\ Blocks(list, k)
    /\ setting.n > 1 =>
          \A q \in 0..(k - 1) : list[Row(q, 1)].metric = 1 /\ list[Row(q, 2)].metric = 0

LEMMA SettingFacts ==
    ASSUME setting \in Settings
    PROVE  setting.n \in Nat \ {0} /\ setting.filter \in BOOLEAN /\ setting.maxGen \in Int
BY SettingsAssumption

\* RowFacts, for the rows of a batch.
LEMMA BatchRows ==
    ASSUME setting \in Settings, NEW k \in Nat
    PROVE  /\ setting.n * k \in Nat
           /\ \A q \in 0..(k - 1), r \in 1..setting.n : Row(q, r) \in 1..(setting.n * k)
           /\ \A i \in 1..(setting.n * k) :
                 \E q \in 0..(k - 1), r \in 1..setting.n : i = Row(q, r)
           /\ 1 \in 1..setting.n
           /\ setting.n > 1 => 2 \in 1..setting.n
<1>1. setting.n \in Nat \ {0}
  BY SettingFacts
<1> DEFINE n == setting.n
<1> HIDE DEF n
<1>2. /\ n * k \in Nat
      /\ \A q \in 0..(k - 1), r \in 1..n : n * q + r \in 1..(n * k)
      /\ \A i \in 1..(n * k) : \E q \in 0..(k - 1), r \in 1..n : i = n * q + r
  BY <1>1, RowFacts DEF n
<1>3. 1 \in 1..setting.n /\ (setting.n > 1 => 2 \in 1..setting.n)
  BY <1>1
<1> QED
  BY <1>2, <1>3, Zenon DEF Row, n

LEMMA EmptyBlocks ==
    ASSUME setting \in Settings
    PROVE  MixedBlocks(<<>>, 0) /\ Uids(<<>>) = {}
<1>1. setting.n * 0 = 0
  BY SettingFacts
<1> QED
  BY <1>1 DEF MixedBlocks, Blocks, Uids

\* The prompts of k blocks are k, and each has the rows of its block.
LEMMA BlockUids ==
    ASSUME setting \in Settings, NEW list, NEW k \in Nat, Blocks(list, k)
    PROVE  Uids(list) = {list[Row(q, 1)].uid : q \in 0..(k - 1)}
<1>1. DOMAIN list = 1..(setting.n * k)
  BY DEF Blocks
<1>2. ASSUME NEW u \in Uids(list)
      PROVE  u \in {list[Row(q, 1)].uid : q \in 0..(k - 1)}
  <2>1. PICK i \in 1..(setting.n * k) : u = list[i].uid
    BY <1>1 DEF Uids
  <2>2. PICK q \in 0..(k - 1), r \in 1..setting.n : i = Row(q, r)
    BY BatchRows
  <2>3. list[i].uid = list[Row(q, 1)].uid
    BY <2>2, Zenon DEF Blocks
  <2> QED
    BY <2>1, <2>3, Zenon
<1>3. ASSUME NEW q \in 0..(k - 1)
      PROVE  list[Row(q, 1)].uid \in Uids(list)
  <2>1. Row(q, 1) \in DOMAIN list
    BY <1>1, BatchRows, Zenon
  <2> QED
    BY <2>1, Zenon DEF Uids
<1> QED
  BY <1>2, <1>3, Zenon

LEMMA BlockCount ==
    ASSUME setting \in Settings, NEW list, NEW k \in Nat, Blocks(list, k)
    PROVE  IsFiniteSet(Uids(list)) /\ Cardinality(Uids(list)) = k
<1> DEFINE Q == 0..(k - 1)
           U == Uids(list)
           g == [q \in Q |-> list[Row(q, 1)].uid]
<1>1. U = {list[Row(q, 1)].uid : q \in Q}
  BY BlockUids
<1>2. \A p, q \in Q : list[Row(p, 1)].uid = list[Row(q, 1)].uid => p = q
  BY DEF Blocks
<1>3. IsFiniteSet(Q) /\ Cardinality(Q) = k
  <2>1. 0 \in Int /\ k - 1 \in Int /\ (k = 0 => 0 > k - 1)
        /\ (k # 0 => ~(0 > k - 1)) /\ (k - 1) - 0 + 1 = k
    OBVIOUS
  <2> QED
    BY <2>1, FS_Interval
<1> HIDE DEF Q, U
<1>4. g \in Bijection(Q, U)
  <2>1. g \in [Q -> U]
    BY <1>1, Zenon
  <2>2. \A u \in U : \E q \in Q : g[q] = u
    BY <1>1, Zenon
  <2>3. \A p, q \in Q : g[p] = g[q] => p = q
    BY <1>2, Zenon
  <2> HIDE DEF g
  <2> QED
    BY <2>1, <2>2, <2>3, Zenon DEF Bijection, Injection, Surjection, IsInjective
<1>5. IsFiniteSet(U) /\ Cardinality(U) = Cardinality(Q)
  <2>1. ExistsBijection(Q, U)
    BY <1>4, Zenon DEF ExistsBijection
  <2> QED
    BY <1>3, <2>1, FS_Bijection
<1> QED
  BY <1>3, <1>5, Zenon DEF U

LEMMA BlockRows ==
    ASSUME setting \in Settings, NEW list, NEW k \in Nat, Blocks(list, k),
           NEW q \in 0..(k - 1)
    PROVE  /\ RowsOf(list, list[Row(q, 1)].uid) = {Row(q, r) : r \in 1..setting.n}
           /\ Cardinality(RowsOf(list, list[Row(q, 1)].uid)) = setting.n
<1> DEFINE u == list[Row(q, 1)].uid
           R == RowsOf(list, u)
<1>1. DOMAIN list = 1..(setting.n * k)
  BY DEF Blocks
<1>2. ASSUME NEW i \in R
      PROVE  \E r \in 1..setting.n : i = Row(q, r)
  <2>1. i \in 1..(setting.n * k) /\ list[i].uid = u
    BY <1>1 DEF RowsOf
  <2>2. PICK p \in 0..(k - 1), r \in 1..setting.n : i = Row(p, r)
    BY <2>1, BatchRows
  <2>3. list[i].uid = list[Row(p, 1)].uid
    BY <2>2, Zenon DEF Blocks
  <2>4. p = q
    BY <2>1, <2>3, Zenon DEF Blocks
  <2> QED
    BY <2>2, <2>4, Zenon
<1>3. ASSUME NEW r \in 1..setting.n
      PROVE  Row(q, r) \in R
  <2>1. Row(q, r) \in DOMAIN list
    BY <1>1, BatchRows, Zenon
  <2>2. list[Row(q, r)].uid = u
    BY Zenon DEF Blocks
  <2> QED
    BY <2>1, <2>2, Zenon DEF RowsOf
<1>4. R = {Row(q, r) : r \in 1..setting.n}
  BY <1>2, <1>3, Zenon
<1>5. Cardinality(R) = setting.n
  <2>1. setting.n \in Nat \ {0} /\ setting.n * q \in Nat
    BY SettingFacts
  <2> DEFINE a == setting.n * q + 1
             b == setting.n * q + setting.n
  <2>2. R = a..b
    <3>1. \A r \in 1..setting.n : Row(q, r) \in a..b
      BY <2>1 DEF Row
    <3>2. ASSUME NEW i \in a..b
          PROVE  i - setting.n * q \in 1..setting.n /\ i = Row(q, i - setting.n * q)
      BY <2>1 DEF Row
    <3> HIDE DEF R, a, b
    <3> QED
      BY <1>4, <3>1, <3>2, Zenon
  <2>3. a \in Int /\ b \in Int /\ ~(a > b) /\ b - a + 1 = setting.n
    BY <2>1
  <2> HIDE DEF R, a, b
  <2> QED
    BY <2>2, <2>3, FS_Interval
<1> QED
  BY <1>4, <1>5

\* The prompts of a batch of mixed blocks have an advantage.
LEMMA MixedMetrics ==
    ASSUME setting \in Settings, NEW list, NEW k \in Nat, MixedBlocks(list, k), setting.n > 1,
           NEW u \in Uids(list)
    PROVE  Cardinality(Metrics(list, u)) > 1
<1> DEFINE M == Metrics(list, u)
<1>1. PICK q \in 0..(k - 1) : u = list[Row(q, 1)].uid
  BY BlockUids DEF MixedBlocks
<1>2. Row(q, 1) \in DOMAIN list /\ Row(q, 2) \in DOMAIN list
  <2>1. DOMAIN list = 1..(setting.n * k)
    BY DEF MixedBlocks, Blocks
  <2> QED
    BY <2>1, BatchRows, Zenon
<1>3. list[Row(q, 1)].uid = u /\ list[Row(q, 2)].uid = u
  BY <1>1, BatchRows, Zenon DEF MixedBlocks, Blocks
<1>4. list[Row(q, 1)].metric = 1 /\ list[Row(q, 2)].metric = 0
  BY DEF MixedBlocks
<1>5. 1 \in M /\ 0 \in M
  BY <1>2, <1>3, <1>4, Zenon DEF Metrics
<1>6. M \subseteq 0..1
  <2>1. \A i \in DOMAIN list : list[i].metric \in 0..1
    <3>1. list \in Seq(Trajectory)
      BY DEF MixedBlocks, Blocks
    <3>2. \A i \in DOMAIN list : list[i] \in Trajectory
      BY <3>1
    <3> QED
      BY <3>2 DEF Trajectory
  <2> QED
    BY <2>1, Zenon DEF Metrics
<1> HIDE DEF M
<1>7. M = {0, 1}
  <2>1. 0..1 = {0, 1}
    OBVIOUS
  <2> QED
    BY <1>5, <1>6, <2>1, Zenon
<1>8. Cardinality({0, 1}) = 2
  <2>1. IsFiniteSet({0}) /\ Cardinality({0}) = 1
    BY FS_Singleton
  <2>2. Cardinality({0} \cup {1}) = 2
    BY <2>1, FS_AddElement
  <2> QED
    BY <2>2
<1> QED
  BY <1>7, <1>8 DEF M

LEMMA ConcatUids ==
    ASSUME NEW a \in Seq(Trajectory), NEW b \in Seq(Trajectory)
    PROVE  /\ a \o b \in Seq(Trajectory)
           /\ Uids(a \o b) = Uids(a) \cup Uids(b)
<1> DEFINE c == a \o b
<1>1. c \in Seq(Trajectory) /\ Len(c) = Len(a) + Len(b)
  OBVIOUS
<1>2. /\ DOMAIN a = 1..Len(a) /\ DOMAIN b = 1..Len(b) /\ DOMAIN c = 1..(Len(a) + Len(b))
      /\ Len(a) \in Nat /\ Len(b) \in Nat
  BY <1>1
<1>3. \A i \in 1..Len(a) : i \in 1..(Len(a) + Len(b)) /\ c[i] = a[i]
  OBVIOUS
<1>4. \A i \in 1..Len(b) : Len(a) + i \in 1..(Len(a) + Len(b)) /\ c[Len(a) + i] = b[i]
  OBVIOUS
<1>5. \A i \in 1..(Len(a) + Len(b)) :
         i \in 1..Len(a) \/ \E j \in 1..Len(b) : i = Len(a) + j
  <2> SUFFICES ASSUME NEW i \in 1..(Len(a) + Len(b)), i \notin 1..Len(a)
               PROVE  \E j \in 1..Len(b) : i = Len(a) + j
    OBVIOUS
  <2>1. i - Len(a) \in 1..Len(b) /\ i = Len(a) + (i - Len(a))
    BY <1>2
  <2> QED
    BY <2>1
<1> HIDE DEF c
<1>6. ASSUME NEW u \in Uids(c)
      PROVE  u \in Uids(a) \cup Uids(b)
  <2>1. PICK i \in 1..(Len(a) + Len(b)) : u = c[i].uid
    BY <1>2, Zenon DEF Uids
  <2>2. CASE i \in 1..Len(a)
    BY <1>2, <1>3, <2>1, <2>2, Zenon DEF Uids
  <2>3. CASE \E k \in 1..Len(b) : i = Len(a) + k
    BY <1>2, <1>4, <2>1, <2>3, Zenon DEF Uids
  <2> QED
    BY <1>5, <2>2, <2>3, Zenon
<1>7. Uids(a) \subseteq Uids(c)
  BY <1>2, <1>3, Zenon DEF Uids
<1>8. Uids(b) \subseteq Uids(c)
  BY <1>2, <1>4, Zenon DEF Uids
<1> QED
  BY <1>1, <1>6, <1>7, <1>8, Zenon DEF c

\* Blocks after blocks of other prompts.
LEMMA ConcatBlocks ==
    ASSUME setting \in Settings, NEW a, NEW b, NEW j \in Nat, NEW m \in Nat,
           Blocks(a, j), Blocks(b, m), Uids(a) \cap Uids(b) = {}
    PROVE  /\ Blocks(a \o b, j + m)
           /\ MixedBlocks(a, j) /\ MixedBlocks(b, m) => MixedBlocks(a \o b, j + m)
<1> DEFINE c == a \o b
<1>1. /\ a \in Seq(Trajectory) /\ Len(a) = setting.n * j
      /\ b \in Seq(Trajectory) /\ Len(b) = setting.n * m
  BY DEF Blocks
<1>2. setting.n \in Nat \ {0} /\ setting.n * j \in Nat /\ setting.n * m \in Nat
  BY SettingFacts
<1>3. c \in Seq(Trajectory) /\ Len(c) = setting.n * (j + m)
  BY <1>1, <1>2
<1>4. ASSUME NEW q \in 0..(j - 1), NEW r \in 1..setting.n
      PROVE  c[Row(q, r)] = a[Row(q, r)]
  <2>1. Row(q, r) \in 1..Len(a)
    BY <1>1, BatchRows
  <2> QED
    BY <1>1, <2>1
<1>5. ASSUME NEW q \in j..((j + m) - 1), NEW r \in 1..setting.n
      PROVE  q - j \in 0..(m - 1) /\ c[Row(q, r)] = b[Row(q - j, r)]
  <2>1. q - j \in 0..(m - 1)
    OBVIOUS
  <2>2. Row(q - j, r) \in 1..Len(b)
    BY <1>1, <2>1, BatchRows
  <2>3. Row(q, r) = Len(a) + Row(q - j, r)
    BY <1>1, <1>2, <2>1 DEF Row
  <2> QED
    BY <1>1, <2>1, <2>2, <2>3
<1>6. \A q \in 0..((j + m) - 1) : q \in 0..(j - 1) \/ q \in j..((j + m) - 1)
  OBVIOUS
<1>7. 1 \in 1..setting.n /\ (setting.n > 1 => 2 \in 1..setting.n)
  BY <1>2
<1>8. \A q \in 0..(j - 1) : a[Row(q, 1)].uid \in Uids(a)
  BY BlockUids
<1>9. \A q \in 0..(m - 1) : b[Row(q, 1)].uid \in Uids(b)
  BY BlockUids
<1> HIDE DEF c
<1>10. \A q \in 0..((j + m) - 1), r \in 1..setting.n : c[Row(q, r)].uid = c[Row(q, 1)].uid
  <2> SUFFICES ASSUME NEW q \in 0..((j + m) - 1), NEW r \in 1..setting.n
               PROVE  c[Row(q, r)].uid = c[Row(q, 1)].uid
    OBVIOUS
  <2>1. CASE q \in 0..(j - 1)
    <3>1. a[Row(q, r)].uid = a[Row(q, 1)].uid
      BY <2>1, Zenon DEF Blocks
    <3>2. c[Row(q, r)] = a[Row(q, r)] /\ c[Row(q, 1)] = a[Row(q, 1)]
      BY <1>4, <1>7, <2>1, Zenon
    <3> QED
      BY <3>1, <3>2, Zenon
  <2>2. CASE q \in j..((j + m) - 1)
    <3>1. q - j \in 0..(m - 1)
      BY <2>2
    <3>2. b[Row(q - j, r)].uid = b[Row(q - j, 1)].uid
      BY <3>1, Zenon DEF Blocks
    <3> QED
      BY <1>5, <1>7, <2>2, <3>2, Zenon
  <2> QED
    BY <1>6, <2>1, <2>2, Zenon
<1>11. ASSUME NEW p \in 0..((j + m) - 1), NEW q \in 0..((j + m) - 1),
              c[Row(p, 1)].uid = c[Row(q, 1)].uid
       PROVE  p = q
  <2>1. CASE p \in 0..(j - 1) /\ q \in 0..(j - 1)
    BY <1>4, <1>7, <1>11, <2>1, Zenon DEF Blocks
  <2>2. CASE p \in j..((j + m) - 1) /\ q \in j..((j + m) - 1)
    <3>1. b[Row(p - j, 1)].uid = b[Row(q - j, 1)].uid
      BY <1>5, <1>7, <1>11, <2>2, Zenon
    <3>2. p - j \in 0..(m - 1) /\ q - j \in 0..(m - 1)
      BY <2>2
    <3>3. p - j = q - j
      BY <3>1, <3>2, Zenon DEF Blocks
    <3> QED
      BY <2>2, <3>3
  <2>3. CASE p \in 0..(j - 1) /\ q \in j..((j + m) - 1)
    <3>1. c[Row(p, 1)].uid \in Uids(a) /\ c[Row(q, 1)].uid \in Uids(b)
      BY <1>4, <1>5, <1>7, <1>8, <1>9, <2>3, Zenon
    <3> QED
      BY <1>11, <3>1
  <2>4. CASE p \in j..((j + m) - 1) /\ q \in 0..(j - 1)
    <3>1. c[Row(p, 1)].uid \in Uids(b) /\ c[Row(q, 1)].uid \in Uids(a)
      BY <1>4, <1>5, <1>7, <1>8, <1>9, <2>4, Zenon
    <3> QED
      BY <1>11, <3>1
  <2> QED
    BY <1>6, <2>1, <2>2, <2>3, <2>4, Zenon
<1>12. Blocks(c, j + m)
  BY <1>3, <1>10, <1>11, Zenon DEF Blocks
<1>13. ASSUME MixedBlocks(a, j), MixedBlocks(b, m), setting.n > 1, NEW q \in 0..((j + m) - 1)
       PROVE  c[Row(q, 1)].metric = 1 /\ c[Row(q, 2)].metric = 0
  <2>1. CASE q \in 0..(j - 1)
    BY <1>4, <1>7, <1>13, <2>1, Zenon DEF MixedBlocks
  <2>2. CASE q \in j..((j + m) - 1)
    BY <1>5, <1>7, <1>13, <2>2, Zenon DEF MixedBlocks
  <2> QED
    BY <1>6, <2>1, <2>2, Zenon
<1> QED
  BY <1>12, <1>13, Zenon DEF MixedBlocks, c

\* The first blocks of a batch.
LEMMA FirstBlocks ==
    ASSUME setting \in Settings, NEW list, NEW k \in Nat, MixedBlocks(list, k),
           NEW j \in 0..k
    PROVE  /\ MixedBlocks(SubSeq(list, 1, setting.n * j), j)
           /\ Uids(SubSeq(list, 1, setting.n * j)) \subseteq Uids(list)
<1> DEFINE c == SubSeq(list, 1, setting.n * j)
<1>1. list \in Seq(Trajectory) /\ Len(list) = setting.n * k
  BY DEF MixedBlocks, Blocks
<1>2. setting.n \in Nat \ {0} /\ setting.n * j \in Nat /\ setting.n * k \in Nat /\ setting.n * j <= setting.n * k
  BY SettingFacts
<1>3. c \in Seq(Trajectory) /\ Len(c) = setting.n * j /\ \A i \in 1..(setting.n * j) : c[i] = list[i]
  BY <1>1, <1>2
<1>4. \A q \in 0..(j - 1), r \in 1..setting.n : c[Row(q, r)] = list[Row(q, r)]
  <2>1. j \in Nat
    OBVIOUS
  <2>2. \A q \in 0..(j - 1), r \in 1..setting.n : Row(q, r) \in 1..(setting.n * j)
    BY <2>1, BatchRows
  <2> QED
    BY <1>3, <2>2, Zenon
<1>5. 1 \in 1..setting.n /\ (setting.n > 1 => 2 \in 1..setting.n) /\ \A q \in 0..(j - 1) : q \in 0..(k - 1)
  BY <1>2
<1> HIDE DEF c
<1>6. /\ \A q \in 0..(j - 1), r \in 1..setting.n : c[Row(q, r)].uid = c[Row(q, 1)].uid
      /\ \A p, q \in 0..(j - 1) : c[Row(p, 1)].uid = c[Row(q, 1)].uid => p = q
  BY <1>4, <1>5, Zenon DEF MixedBlocks, Blocks
<1>7. setting.n > 1 => \A q \in 0..(j - 1) : c[Row(q, 1)].metric = 1 /\ c[Row(q, 2)].metric = 0
  BY <1>4, <1>5, Zenon DEF MixedBlocks
<1>8. Uids(c) \subseteq Uids(list)
  <2>1. DOMAIN c = 1..(setting.n * j) /\ DOMAIN list = 1..(setting.n * k)
    BY <1>1, <1>3
  <2>2. \A i \in 1..(setting.n * j) : i \in 1..(setting.n * k)
    BY <1>2
  <2> QED
    BY <1>3, <2>1, <2>2, Zenon DEF Uids
<1> QED
  BY <1>3, <1>6, <1>7, <1>8, Zenon DEF MixedBlocks, Blocks, c

(***************************************************************************)
(* A generation batch, and what the filter keeps of it.                    *)
(***************************************************************************)

\* The dataloader has a batch to give out.
MayDraw ==
    /\ setting \in Settings /\ pass \in Nat /\ pos \in 0..(BatchesPerEpoch - 1)
    /\ epoch \in 0..(TotalEpochs - 1)

\* A pass goes through the data once, in either order.
LEMMA ItemFacts ==
    ASSUME setting \in Settings, NEW e \in 0..(TotalEpochs - 1)
    PROVE  /\ \A i \in Items : Item(e, i) \in Items
           /\ \A i, j \in Items : Item(e, i) = Item(e, j) => i = j
           /\ \A m \in Items : \E i \in Items : Item(e, i) = m
<1>1. CASE setting.shuffle
  BY <1>1, OrderAssumption, Zenon DEF Item
<1>2. CASE ~setting.shuffle
  BY <1>2, Zenon DEF Item
<1> QED
  BY <1>1, <1>2

LEMMA UidFacts ==
    ASSUME MayDraw
    PROVE  /\ pos * GenBatch \in Nat
           /\ pos * GenBatch + GenBatch <= BatchesPerEpoch * GenBatch
           /\ BatchesPerEpoch * GenBatch \in Nat
           /\ \A c \in 1..GenBatch : Uid(c) \in Prompts
           /\ \A c, d \in 1..GenBatch : Uid(c) = Uid(d) => c = d
<1>1. pos \in Nat /\ pos + 1 <= BatchesPerEpoch /\ GenBatch \in Nat \ {0}
      /\ BatchesPerEpoch \in Nat
  BY SizesAssumption, LengthAssumption DEF MayDraw
<1>2. pos * GenBatch \in Nat /\ BatchesPerEpoch * GenBatch \in Nat
  BY <1>1
<1>3. (pos + 1) * GenBatch <= BatchesPerEpoch * GenBatch
  BY <1>1
<1>4. (pos + 1) * GenBatch = pos * GenBatch + GenBatch
  BY <1>1
<1>5. \A c \in 1..GenBatch : pos * GenBatch + c \in Items
  BY <1>1, <1>2, <1>3, <1>4 DEF Items
<1>6. ASSUME NEW c \in 1..GenBatch PROVE Uid(c) \in Prompts
  <2>1. Item(epoch, pos * GenBatch + c) \in Items /\ pass \in Nat
    BY <1>5, ItemFacts, Zenon DEF MayDraw
  <2> QED
    BY <2>1, Zenon DEF Uid, Prompts
<1>7. ASSUME NEW c \in 1..GenBatch, NEW d \in 1..GenBatch, Uid(c) = Uid(d)
      PROVE  c = d
  <2>1. Item(epoch, pos * GenBatch + c) = Item(epoch, pos * GenBatch + d)
    BY <1>7 DEF Uid
  <2>2. pos * GenBatch + c = pos * GenBatch + d
    BY <1>5, <2>1, ItemFacts, Zenon DEF MayDraw
  <2>3. pos * GenBatch \in Nat /\ c \in Nat /\ d \in Nat
    BY <1>1, <1>2
  <2> QED
    BY <2>2, <2>3
<1> QED
  BY <1>2, <1>3, <1>4, <1>6, <1>7

LEMMA RowPromptFacts ==
    ASSUME setting \in Settings, NEW q \in Nat, NEW r \in 1..setting.n
    PROVE  RowPrompt(Row(q, r)) = q + 1
<1>1. setting.n \in Nat \ {0}
  BY SettingFacts
<1>2. r - 1 \in 0..(setting.n - 1) /\ setting.n * q \in Nat
  BY <1>1
<1>3. Row(q, r) - 1 = setting.n * q + (r - 1)
  BY <1>1, <1>2 DEF Row
<1>4. (setting.n * q + (r - 1)) \div setting.n = q
  BY <1>1, <1>2, DivUnique
<1> QED
  BY <1>3, <1>4 DEF RowPrompt

LEMMA GeneratedRows ==
    ASSUME MayDraw, NEW mixed \in SUBSET (1..GenBatch)
    PROVE  /\ Generated(mixed) \in Seq(Trajectory)
           /\ Len(Generated(mixed)) = setting.n * GenBatch
           /\ \A q \in 0..(GenBatch - 1), r \in 1..setting.n :
                 /\ Generated(mixed)[Row(q, r)].uid = Uid(q + 1)
                 /\ Generated(mixed)[Row(q, r)].metric
                        = IF r = 1 /\ q + 1 \in mixed THEN 1 ELSE 0
<1> DEFINE rows == Generated(mixed)
           N == GenBatch * setting.n
           first(i) == \A j \in 1..(i - 1) : RowPrompt(j) # RowPrompt(i)
<1>1. setting.n \in Nat \ {0} /\ GenBatch \in Nat \ {0} /\ N \in Nat /\ N = setting.n * GenBatch
  BY SettingFacts, SizesAssumption DEF MayDraw
<1>2. rows = [i \in 1..N |->
                 [uid |-> Uid(RowPrompt(i)),
                  metric |-> IF RowPrompt(i) \in mixed /\ first(i) THEN 1 ELSE 0]]
  BY DEF Generated
<1> HIDE DEF rows, first
<1>3. /\ \A q \in 0..(GenBatch - 1), r \in 1..setting.n : Row(q, r) \in 1..N
      /\ \A i \in 1..N : \E q \in 0..(GenBatch - 1), r \in 1..setting.n : i = Row(q, r)
  BY <1>1, BatchRows DEF MayDraw
<1>4. \A q \in 0..(GenBatch - 1), r \in 1..setting.n : RowPrompt(Row(q, r)) = q + 1
  <2> SUFFICES ASSUME NEW q \in 0..(GenBatch - 1), NEW r \in 1..setting.n
               PROVE  RowPrompt(Row(q, r)) = q + 1
    OBVIOUS
  <2>1. q \in Nat
    OBVIOUS
  <2> QED
    BY <2>1, RowPromptFacts DEF MayDraw
<1>5. \A i \in 1..N : RowPrompt(i) \in 1..GenBatch
  <2>1. \A q \in 0..(GenBatch - 1) : q + 1 \in 1..GenBatch
    BY <1>1
  <2> QED
    BY <1>3, <1>4, <2>1, Zenon
<1>6. rows \in Seq(Trajectory) /\ Len(rows) = N
  <2>1. \A i \in 1..N : Uid(RowPrompt(i)) \in Prompts
    BY <1>5, UidFacts, Zenon
  <2>2. rows \in [1..N -> Trajectory]
    BY <1>2, <2>1 DEF Trajectory
  <2> HIDE DEF N
  <2> QED
    BY <1>1, <2>2 DEF N
<1>7. ASSUME NEW q \in 0..(GenBatch - 1), NEW r \in 1..setting.n
      PROVE  first(Row(q, r)) <=> r = 1
  <2>1. RowPrompt(Row(q, r)) = q + 1 /\ setting.n * q \in Nat
    BY <1>1, <1>4
  <2>2. ASSUME r = 1
        PROVE  first(Row(q, r))
    <3> SUFFICES ASSUME NEW j \in 1..(Row(q, r) - 1)
                 PROVE  RowPrompt(j) # q + 1
      BY <2>1 DEF first
    <3>1. j \in 1..(setting.n * q) /\ q \in Nat
      BY <2>1, <2>2 DEF Row
    <3>2. PICK p \in 0..(q - 1), s \in 1..setting.n : j = Row(p, s)
      BY <3>1, BatchRows DEF MayDraw
    <3>3. p \in 0..(GenBatch - 1) /\ p + 1 # q + 1
      BY <1>1
    <3>4. RowPrompt(j) = p + 1
      BY <1>4, <3>2, <3>3, Zenon
    <3> QED
      BY <3>3, <3>4
  <2>3. ASSUME r # 1
        PROVE  ~first(Row(q, r))
    <3>1. Row(q, 1) \in 1..(Row(q, r) - 1)
      BY <1>1, <2>1, <2>3 DEF Row
    <3>2. 1 \in 1..setting.n
      BY <1>1
    <3>3. RowPrompt(Row(q, 1)) = q + 1
      BY <1>4, <3>2, Zenon
    <3> QED
      BY <2>1, <3>1, <3>3, Zenon DEF first
  <2> QED
    BY <2>2, <2>3
<1>8. ASSUME NEW q \in 0..(GenBatch - 1), NEW r \in 1..setting.n
      PROVE  /\ rows[Row(q, r)].uid = Uid(q + 1)
             /\ rows[Row(q, r)].metric = IF r = 1 /\ q + 1 \in mixed THEN 1 ELSE 0
  <2> DEFINE i == Row(q, r)
  <2>1. i \in 1..N /\ RowPrompt(i) = q + 1 /\ (first(i) <=> r = 1)
    BY <1>3, <1>4, <1>7, Zenon
  <2> HIDE DEF i, N
  <2>2. rows[i] = [uid |-> Uid(RowPrompt(i)),
                   metric |-> IF RowPrompt(i) \in mixed /\ first(i) THEN 1 ELSE 0]
    BY <1>2, <2>1, Zenon
  <2>3. rows[i].uid = Uid(q + 1)
    BY <2>1, <2>2
  <2>4. rows[i].metric = IF q + 1 \in mixed /\ first(i) THEN 1 ELSE 0
    BY <2>1, <2>2
  <2> QED
    BY <2>1, <2>3, <2>4, Zenon DEF i
<1> QED
  BY <1>1, <1>6, <1>8, Zenon DEF rows

LEMMA GeneratedBlocks ==
    ASSUME MayDraw, NEW mixed \in SUBSET (1..GenBatch)
    PROVE  /\ Blocks(Generated(mixed), GenBatch)
           /\ Uids(Generated(mixed)) = {Uid(c) : c \in 1..GenBatch}
<1> DEFINE rows == Generated(mixed)
<1>1. setting \in Settings /\ setting.n \in Nat \ {0} /\ GenBatch \in Nat \ {0}
      /\ 1 \in 1..setting.n
  BY SettingFacts, SizesAssumption DEF MayDraw
<1>2. /\ rows \in Seq(Trajectory) /\ Len(rows) = setting.n * GenBatch
      /\ \A q \in 0..(GenBatch - 1), r \in 1..setting.n : rows[Row(q, r)].uid = Uid(q + 1)
  BY GeneratedRows
<1> HIDE DEF rows
<1>3. \A p, q \in 0..(GenBatch - 1) : Uid(p + 1) = Uid(q + 1) => p = q
  <2> SUFFICES ASSUME NEW p \in 0..(GenBatch - 1), NEW q \in 0..(GenBatch - 1),
                      Uid(p + 1) = Uid(q + 1)
               PROVE  p = q
    OBVIOUS
  <2>1. p + 1 \in 1..GenBatch /\ q + 1 \in 1..GenBatch
    BY <1>1
  <2>2. p + 1 = q + 1
    BY <2>1, UidFacts, Zenon
  <2> QED
    BY <2>2
<1>4. Blocks(rows, GenBatch)
  <2>1. \A q \in 0..(GenBatch - 1), r \in 1..setting.n :
           rows[Row(q, r)].uid = rows[Row(q, 1)].uid
    BY <1>1, <1>2, Zenon
  <2>2. ASSUME NEW p \in 0..(GenBatch - 1), NEW q \in 0..(GenBatch - 1),
               rows[Row(p, 1)].uid = rows[Row(q, 1)].uid
        PROVE  p = q
    <3>1. rows[Row(p, 1)].uid = Uid(p + 1) /\ rows[Row(q, 1)].uid = Uid(q + 1)
      BY <1>1, <1>2, Zenon
    <3>2. Uid(p + 1) = Uid(q + 1)
      BY <2>2, <3>1, Zenon
    <3> QED
      BY <1>3, <3>2, Zenon
  <2> QED
    BY <1>2, <2>1, <2>2, Zenon DEF Blocks
<1>5. Uids(rows) = {rows[Row(q, 1)].uid : q \in 0..(GenBatch - 1)}
  BY <1>1, <1>4, BlockUids
<1>6. \A q \in 0..(GenBatch - 1) : rows[Row(q, 1)].uid = Uid(q + 1) /\ q + 1 \in 1..GenBatch
  <2>1. \A q \in 0..(GenBatch - 1) : q + 1 \in 1..GenBatch
    BY <1>1
  <2> QED
    BY <1>1, <1>2, <2>1, Zenon
<1>7. \A c \in 1..GenBatch : c - 1 \in 0..(GenBatch - 1) /\ c = (c - 1) + 1
  BY <1>1
<1>8. Uids(rows) = {Uid(c) : c \in 1..GenBatch}
  <2>1. ASSUME NEW u \in Uids(rows)
        PROVE  u \in {Uid(c) : c \in 1..GenBatch}
    <3>1. PICK q \in 0..(GenBatch - 1) : u = rows[Row(q, 1)].uid
      BY <1>5
    <3> QED
      BY <1>6, <3>1, Zenon
  <2>2. ASSUME NEW c \in 1..GenBatch
        PROVE  Uid(c) \in Uids(rows)
    <3>1. rows[Row(c - 1, 1)].uid = Uid((c - 1) + 1) /\ c - 1 \in 0..(GenBatch - 1)
      BY <1>6, <1>7, Zenon
    <3>2. Uid((c - 1) + 1) = Uid(c)
      BY <1>7, Zenon
    <3> QED
      BY <1>5, <3>1, <3>2, Zenon
  <2> QED
    BY <2>1, <2>2, Zenon
<1> QED
  BY <1>4, <1>8 DEF rows

\* The rows of one mixed prompt.
LEMMA OneBlock ==
    ASSUME setting \in Settings, NEW block \in Seq(Trajectory), Len(block) = setting.n, NEW u,
           \A r \in 1..setting.n : block[r].uid = u,
           setting.n > 1 => block[1].metric = 1 /\ block[2].metric = 0
    PROVE  MixedBlocks(block, 1) /\ Uids(block) = {u}
<1>1. setting.n \in Nat \ {0} /\ setting.n * 1 = setting.n /\ setting.n * 0 = 0
      /\ 1 \in 1..setting.n
  BY SettingFacts
<1>2. \A r \in 1..setting.n : Row(0, r) = r
  BY <1>1 DEF Row
<1>3. \A q \in 0..(1 - 1) : q = 0
  OBVIOUS
<1>4. Blocks(block, 1)
  BY <1>1, <1>2, <1>3 DEF Blocks
<1>5. setting.n > 1 => Row(0, 1) = 1 /\ Row(0, 2) = 2
  BY <1>1, <1>2
<1>6. Uids(block) = {u}
  <2>1. DOMAIN block = 1..setting.n
    OBVIOUS
  <2> QED
    BY <1>1, <2>1, Zenon DEF Uids
<1> QED
  BY <1>3, <1>4, <1>5, <1>6 DEF MixedBlocks

\* Whether prompt c of the batch is kept.
IsKept(c, mixed) == setting.n = 1 \/ c \in mixed

LEMMA KeptUidsFacts ==
    ASSUME MayDraw, NEW mixed \in SUBSET (1..GenBatch), NEW c \in 1..GenBatch
    PROVE  Uid(c) \in KeptUids(Generated(mixed)) <=> IsKept(c, mixed)
<1> DEFINE rows == Generated(mixed)
           u == Uid(c)
           q == c - 1
<1>1. setting \in Settings /\ setting.n \in Nat \ {0} /\ GenBatch \in Nat \ {0}
      /\ 1 \in 1..setting.n /\ q \in 0..(GenBatch - 1) /\ q + 1 = c
  BY SettingFacts, SizesAssumption DEF MayDraw
<1>2. /\ Blocks(rows, GenBatch) /\ u \in Uids(rows)
      /\ \A r \in 1..setting.n :
            /\ rows[Row(q, r)].uid = u
            /\ rows[Row(q, r)].metric = IF r = 1 /\ c \in mixed THEN 1 ELSE 0
  <2>1. Blocks(rows, GenBatch) /\ u \in Uids(rows)
    BY GeneratedBlocks
  <2>2. ASSUME NEW r \in 1..setting.n
        PROVE  /\ rows[Row(q, r)].uid = Uid(q + 1)
               /\ rows[Row(q, r)].metric = IF r = 1 /\ q + 1 \in mixed THEN 1 ELSE 0
    BY <1>1, GeneratedRows
  <2> HIDE DEF rows, q
  <2> QED
    BY <1>1, <2>1, <2>2
<1> HIDE DEF rows, u, q
<1>3. /\ RowsOf(rows, u) = {Row(q, r) : r \in 1..setting.n}
      /\ Cardinality(RowsOf(rows, u)) = setting.n
  <2>1. rows[Row(q, 1)].uid = u
    BY <1>1, <1>2
  <2>2. /\ RowsOf(rows, rows[Row(q, 1)].uid) = {Row(q, r) : r \in 1..setting.n}
        /\ Cardinality(RowsOf(rows, rows[Row(q, 1)].uid)) = setting.n
    BY <1>1, <1>2, BlockRows
  <2> QED
    BY <2>1, <2>2
<1>4. Metrics(rows, u) = {rows[Row(q, r)].metric : r \in 1..setting.n}
  <2>1. Metrics(rows, u) = {rows[i].metric : i \in RowsOf(rows, u)}
    BY DEF Metrics, RowsOf
  <2> QED
    BY <1>3, <2>1, Zenon
<1>5. u \in KeptUids(rows) <=> Cardinality(Metrics(rows, u)) > 1 \/ setting.n = 1
  BY <1>2, <1>3 DEF KeptUids
<1>6. CASE setting.n = 1
  BY <1>5, <1>6 DEF IsKept, rows, u
<1>7. CASE setting.n # 1 /\ c \in mixed
  <2>1. 1 \in 1..setting.n /\ 2 \in 1..setting.n
    BY <1>1, <1>7
  <2>2. \A r \in 1..setting.n : rows[Row(q, r)].metric = IF r = 1 THEN 1 ELSE 0
    BY <1>2, <1>7, Zenon
  <2>3. Metrics(rows, u) = {0} \cup {1}
    BY <1>4, <2>1, <2>2
  <2>4. IsFiniteSet({0}) /\ Cardinality({0}) = 1
    BY FS_Singleton
  <2>5. Cardinality({0} \cup {1}) = 2
    BY <2>4, FS_AddElement
  <2> QED
    BY <1>5, <1>7, <2>3, <2>5 DEF IsKept, rows, u
<1>8. CASE setting.n # 1 /\ c \notin mixed
  <2>1. \A r \in 1..setting.n : rows[Row(q, r)].metric = 0
    BY <1>2, <1>8, Zenon
  <2>2. Metrics(rows, u) = {0}
    BY <1>1, <1>4, <2>1
  <2>3. Cardinality({0}) = 1
    BY FS_Singleton
  <2> QED
    BY <1>5, <1>8, <2>2, <2>3 DEF IsKept, rows, u
<1> QED
  BY <1>6, <1>7, <1>8

\* The prompts kept among the first p.
FirstKept(p, mixed) == {Uid(c) : c \in {d \in 1..p : IsKept(d, mixed)}}

\* The rows the loop keeps are those of the kept prompts, in blocks.
LEMMA KeptBlocks ==
    ASSUME MayDraw, NEW mixed \in SUBSET (1..GenBatch)
    PROVE  /\ Uids(Kept(Generated(mixed))) = KeptUids(Generated(mixed))
           /\ \E k \in 0..GenBatch : MixedBlocks(Kept(Generated(mixed)), k)
<1> DEFINE rows == Generated(mixed)
           keep == KeptUids(rows)
           f == Loop(rows, keep)
<1>1. setting \in Settings /\ setting.n \in Nat \ {0} /\ GenBatch \in Nat \ {0}
      /\ 1 \in 1..setting.n
  BY SettingFacts, SizesAssumption DEF MayDraw
<1>2. /\ rows \in Seq(Trajectory) /\ Len(rows) = setting.n * GenBatch
      /\ \A q \in 0..(GenBatch - 1), r \in 1..setting.n :
            /\ rows[Row(q, r)].uid = Uid(q + 1)
            /\ rows[Row(q, r)].metric = IF r = 1 /\ q + 1 \in mixed THEN 1 ELSE 0
  BY GeneratedRows
<1>3. \A c \in 1..GenBatch : Uid(c) \in keep <=> IsKept(c, mixed)
  BY KeptUidsFacts
<1>4. Kept(rows) = f[setting.n * GenBatch] /\ f[0] = <<>>
  BY <1>2, KeptIsLoop, LoopSteps
<1> HIDE DEF rows, keep
<1> DEFINE good == {p \in 0..GenBatch :
                      /\ f[setting.n * p] \in Seq(Trajectory)
                      /\ Uids(f[setting.n * p]) = FirstKept(p, mixed)
                      /\ \E k \in 0..p : MixedBlocks(f[setting.n * p], k)}
<1>5. 0 \in good
  <2>1. setting.n * 0 = 0 /\ 0 \in 0..GenBatch /\ 0 \in 0..0
    BY <1>1
  <2>2. FirstKept(0, mixed) = {}
    <3>1. \A d \in 1..0 : FALSE
      OBVIOUS
    <3> QED
      BY <3>1, Zenon DEF FirstKept
  <2>3. MixedBlocks(<<>>, 0) /\ Uids(<<>>) = {} /\ <<>> \in Seq(Trajectory)
    BY <1>1, EmptyBlocks
  <2> HIDE DEF f
  <2> QED
    BY <1>4, <2>1, <2>2, <2>3, Zenon
<1>6. ASSUME NEW p \in 0..(GenBatch - 1), p \in good
      PROVE  p + 1 \in good
  <2> DEFINE a == setting.n * p
             block == [r \in 1..setting.n |-> rows[a + r]]
  <2>1. /\ p \in Nat /\ p + 1 \in 0..GenBatch /\ p + 1 \in 1..GenBatch /\ a \in Nat
        /\ setting.n * (p + 1) = a + setting.n
        /\ a + setting.n <= setting.n * GenBatch
    <3>1. p \in Nat /\ p + 1 \in 0..GenBatch /\ p + 1 \in 1..GenBatch /\ p + 1 <= GenBatch
      BY <1>1
    <3>2. /\ setting.n * p \in Nat /\ setting.n * (p + 1) \in Nat
          /\ setting.n * GenBatch \in Nat
      BY <1>1, <3>1
    <3>3. setting.n * (p + 1) = setting.n * p + setting.n
      BY <1>1, <3>1
    <3>4. setting.n * (p + 1) <= setting.n * GenBatch
      BY <1>1, <3>1, <3>2
    <3> QED
      BY <3>1, <3>2, <3>3, <3>4
  <2>2. \A r \in 1..setting.n : a + r = Row(p, r) /\ Row(0, r) = r
    BY <1>1 DEF Row
  <2>3. /\ f[a] \in Seq(Trajectory)
        /\ Uids(f[a]) = FirstKept(p, mixed)
    BY <1>6
  <2>4. PICK k \in 0..p : MixedBlocks(f[a], k)
    BY <1>6
  <2>5. \A r \in 1..setting.n : rows[a + r].uid = Uid(p + 1)
    BY <1>2, <2>2, Zenon
  <2>6. /\ (Uid(p + 1) \notin keep => f[a + setting.n] = f[a])
        /\ (Uid(p + 1) \in keep => f[a + setting.n] = f[a] \o block)
    <3> HIDE DEF a
    <3>1. /\ (\A r \in 1..setting.n : rows[a + r].uid \notin keep)
                 => f[a + setting.n] = f[a]
          /\ (\A r \in 1..setting.n : rows[a + r].uid \in keep)
                 => f[a + setting.n] = f[a] \o [r \in 1..setting.n |-> rows[a + r]]
      <4>1. /\ setting.n \in Nat /\ rows \in Seq(Trajectory) /\ a \in Nat
            /\ a + setting.n <= Len(rows) /\ Loop(rows, keep)[a] \in Seq(Trajectory)
        BY <1>1, <1>2, <2>1, <2>3
      <4>2. KeepsAllOrNone(rows, keep, a, setting.n)
        BY <4>1, LoopBlock
      <4> QED
        BY <4>2, Zenon DEF KeepsAllOrNone
    <3> HIDE DEF f
    <3> QED
      BY <2>5, <3>1, Zenon
  <2>7. FirstKept(p + 1, mixed)
            = FirstKept(p, mixed) \cup (IF Uid(p + 1) \in keep THEN {Uid(p + 1)} ELSE {})
    <3>1. \A d : d \in 1..(p + 1) <=> d \in 1..p \/ d = p + 1
      BY <2>1
    <3>2. Uid(p + 1) \in keep <=> IsKept(p + 1, mixed)
      BY <1>3, <2>1
    <3>3. CASE IsKept(p + 1, mixed)
      BY <3>1, <3>2, <3>3, Zenon DEF FirstKept
    <3>4. CASE ~IsKept(p + 1, mixed)
      BY <3>1, <3>2, <3>4, Zenon DEF FirstKept
    <3> QED
      BY <3>3, <3>4
  <2>8. CASE Uid(p + 1) \notin keep
    <3>1. k \in 0..(p + 1)
      BY <2>1
    <3> HIDE DEF f, a
    <3>2. f[a + setting.n] = f[a] /\ FirstKept(p + 1, mixed) = FirstKept(p, mixed)
      BY <2>6, <2>7, <2>8, Zenon
    <3> QED
      BY <2>1, <2>3, <2>4, <3>1, <3>2, Zenon
  <2>9. CASE Uid(p + 1) \in keep
    <3>1. IsKept(p + 1, mixed)
      BY <1>3, <2>1, <2>9
    <3>2. MixedBlocks(block, 1) /\ Uids(block) = {Uid(p + 1)}
      <4>1. \A r \in 1..setting.n : a + r \in 1..Len(rows)
        <5>1. a \in Nat /\ setting.n \in Nat /\ a + setting.n <= Len(rows) /\ Len(rows) \in Nat
          BY <1>1, <1>2, <2>1
        <5> HIDE DEF a
        <5> QED
          BY <5>1
      <4>2. block \in Seq(Trajectory) /\ Len(block) = setting.n
        <5> HIDE DEF a
        <5>1. \A i \in 1..Len(rows) : rows[i] \in Trajectory
          BY <1>2
        <5>2. block \in [1..setting.n -> Trajectory]
          BY <4>1, <5>1, Zenon
        <5> QED
          BY <1>1, <5>2
      <4>3. \A r \in 1..setting.n : block[r] = rows[Row(p, r)]
        BY <2>2
      <4>4. ASSUME setting.n > 1
            PROVE  block[1].metric = 1 /\ block[2].metric = 0
        <5> HIDE DEF block
        <5>1. p + 1 \in mixed
          BY <1>1, <3>1, <4>4 DEF IsKept
        <5>2. 1 \in 1..setting.n /\ 2 \in 1..setting.n /\ 2 # 1
          BY <1>1, <4>4
        <5>3. /\ rows[Row(p, 1)].metric = IF 1 = 1 /\ p + 1 \in mixed THEN 1 ELSE 0
              /\ rows[Row(p, 2)].metric = IF 2 = 1 /\ p + 1 \in mixed THEN 1 ELSE 0
          BY <1>2, <5>2, Zenon
        <5>4. block[1] = rows[Row(p, 1)] /\ block[2] = rows[Row(p, 2)]
          BY <4>3, <5>2, Zenon
        <5> QED
          BY <5>1, <5>2, <5>3, <5>4, Zenon
      <4>5. \A r \in 1..setting.n : block[r].uid = Uid(p + 1)
        BY <2>5
      <4> HIDE DEF block
      <4> QED
        BY <1>1, <4>2, <4>4, <4>5, OneBlock
    <3>3. Uid(p + 1) \notin FirstKept(p, mixed)
      BY <1>1, UidFacts DEF FirstKept
    <3>4. k + 1 \in 0..(p + 1) /\ k \in Nat
      BY <2>1
    <3> HIDE DEF block, f, a
    <3>5. Uids(f[a]) \cap Uids(block) = {}
      BY <2>3, <3>2, <3>3
    <3>6. MixedBlocks(f[a] \o block, k + 1)
      <4>1. /\ setting \in Settings /\ k \in Nat /\ 1 \in Nat
            /\ Blocks(f[a], k) /\ Blocks(block, 1)
        BY <1>1, <2>4, <3>2, <3>4 DEF MixedBlocks
      <4> QED
        BY <2>4, <3>2, <3>5, <4>1, ConcatBlocks, Zenon
    <3>7. f[a] \o block \in Seq(Trajectory) /\ Uids(f[a] \o block) = Uids(f[a]) \cup Uids(block)
      BY <2>3, <3>2, ConcatUids DEF MixedBlocks, Blocks
    <3>8. f[a + setting.n] = f[a] \o block
      BY <2>6, <2>9, Zenon
    <3> QED
      BY <2>1, <2>3, <2>7, <2>9, <3>2, <3>4, <3>6, <3>7, <3>8, Zenon
  <2> QED
    BY <2>8, <2>9
<1> HIDE DEF good
<1>7. \A p \in 0..GenBatch : p \in good
  BY <1>1, <1>5, <1>6, UpToInduction
<1>8. GenBatch \in good
  BY <1>1, <1>7
<1>9. FirstKept(GenBatch, mixed) = keep
  <2>1. keep \subseteq {Uid(c) : c \in 1..GenBatch}
    BY GeneratedBlocks DEF keep, rows, KeptUids
  <2> QED
    BY <1>3, <2>1, Zenon DEF FirstKept
<1> QED
  BY <1>4, <1>8, <1>9, Zenon DEF good, keep, rows

(***************************************************************************)
(* The prompts that have been drawn.                                       *)
(***************************************************************************)

\* Drawn, at any place in the data: after q batches of pass p of the job, the
\* process being in its own pass e.
DrawnAt(p, e, q) ==
    {u \in (0..p) \X Items :
        u[1] < p \/ \E i \in 1..(q * GenBatch) : u[2] = Item(e, i)}

Batch == {Uid(c) : c \in 1..GenBatch}

LEMMA PlaceFacts ==
    /\ GenBatch \in Nat \ {0} /\ BatchesPerEpoch \in Nat \ {0}
    /\ BatchesPerEpoch * GenBatch \in Nat /\ 0 * GenBatch = 0
    /\ Items = 1..(BatchesPerEpoch * GenBatch)
BY SizesAssumption, LengthAssumption DEF Items

LEMMA DrawnFacts ==
    /\ Drawn = DrawnAt(pass, epoch, pos)
    /\ \A e : DrawnAt(0, e, 0) = {}
    /\ \A p \in Nat : \A e, q : DrawnAt(p, e, q) \subseteq Prompts
<1>2. Drawn = DrawnAt(pass, epoch, pos)
  BY Zenon DEF Drawn, DrawnAt
<1>3. ASSUME NEW e PROVE DrawnAt(0, e, 0) = {}
  <2> SUFFICES ASSUME NEW u \in DrawnAt(0, e, 0)
               PROVE  FALSE
    OBVIOUS
  <2>1. u[1] \in 0..0 /\ (u[1] < 0 \/ \E i \in 1..0 : u[2] = Item(e, i))
    BY PlaceFacts DEF DrawnAt
  <2>2. 1..0 = {} /\ ~(u[1] < 0)
    BY <2>1
  <2> QED
    BY <2>1, <2>2, Zenon
<1>5. ASSUME NEW p \in Nat, NEW e, NEW q
      PROVE  DrawnAt(p, e, q) \subseteq Prompts
  <2>1. 0..p \subseteq Nat
    OBVIOUS
  <2> QED
    BY <2>1 DEF Prompts, DrawnAt
<1> QED
  BY <1>2, <1>3, <1>5

\* The end of a pass is the start of the next.
LEMMA DrawnNextPass ==
    ASSUME setting \in Settings, NEW p \in Nat, NEW e \in 0..(TotalEpochs - 1), NEW f
    PROVE  DrawnAt(p + 1, f, 0) = DrawnAt(p, e, BatchesPerEpoch)
<1>1. ASSUME NEW u \in DrawnAt(p + 1, f, 0)
      PROVE  u \in DrawnAt(p, e, BatchesPerEpoch)
  <2>1. /\ u \in (0..(p + 1)) \X Items /\ u[1] \in 0..(p + 1) /\ u[2] \in Items
        /\ u = <<u[1], u[2]>> /\ (u[1] < p + 1 \/ \E i \in 1..0 : u[2] = Item(f, i))
    BY PlaceFacts DEF DrawnAt
  <2>2. u[1] < p + 1
    <3>1. 1..0 = {}
      OBVIOUS
    <3> QED
      BY <2>1, <3>1, Zenon
  <2>3. u[1] \in 0..p
    BY <2>1, <2>2
  <2>4. \E i \in 1..(BatchesPerEpoch * GenBatch) : u[2] = Item(e, i)
    <3>1. u[2] \in Items
      BY <2>1
    <3>2. PICK i \in Items : Item(e, i) = u[2]
      BY <3>1, ItemFacts, Zenon
    <3> QED
      BY <3>2 DEF Items
  <2>5. u \in (0..p) \X Items
    BY <2>1, <2>3
  <2> QED
    BY <2>4, <2>5, Zenon DEF DrawnAt
<1>2. ASSUME NEW u \in DrawnAt(p, e, BatchesPerEpoch)
      PROVE  u \in DrawnAt(p + 1, f, 0)
  <2>1. u[1] \in 0..p /\ u[2] \in Items /\ u = <<u[1], u[2]>>
    BY DEF DrawnAt
  <2>2. u[1] \in 0..(p + 1) /\ u[1] < p + 1
    BY <2>1
  <2> QED
    BY <2>1, <2>2 DEF DrawnAt
<1> QED
  BY <1>1, <1>2

\* Where the items of the data are given out in their order, or the process
\* goes through the job's passes, its own pass need not be named.
LEMMA DrawnUnshuffled ==
    ASSUME ~setting.shuffle, NEW p, NEW e, NEW f, NEW q
    PROVE  DrawnAt(p, e, q) = DrawnAt(p, f, q)
BY Zenon DEF DrawnAt, Item

\* A generation batch draws new prompts, and all that its place says.
LEMMA BatchDrawn ==
    ASSUME MayDraw
    PROVE  /\ Drawn \cap Batch = {}
           /\ Drawn \cup Batch = DrawnAt(pass, epoch, pos + 1)
<1> DEFINE d == pos * GenBatch
           it(i) == Item(epoch, i)
<1>1. /\ pass \in Nat /\ GenBatch \in Nat \ {0} /\ d \in Nat
      /\ (pos + 1) * GenBatch = d + GenBatch
  <2>1. pos \in Nat /\ pass \in Nat /\ GenBatch \in Nat \ {0}
    BY SizesAssumption, LengthAssumption DEF MayDraw
  <2>2. (pos + 1) * GenBatch = pos * GenBatch + GenBatch
    BY <2>1
  <2> QED
    BY <2>1, <2>2, UidFacts
<1>2. 1..d \subseteq Items /\ \A c \in 1..GenBatch : d + c \in Items
  BY <1>1, UidFacts, PlaceFacts
<1>3. Drawn = {u \in (0..pass) \X Items : u[1] < pass \/ \E i \in 1..d : u[2] = it(i)}
  BY Zenon DEF Drawn
<1>4. Batch = {<<pass, it(d + c)>> : c \in 1..GenBatch}
  BY Zenon DEF Batch, Uid
<1>5. DrawnAt(pass, epoch, pos + 1)
          = {u \in (0..pass) \X Items : u[1] < pass \/ \E i \in 1..(d + GenBatch) : u[2] = it(i)}
  BY <1>1, Zenon DEF DrawnAt
<1>6. /\ \A i \in Items : it(i) \in Items
      /\ \A i, j \in Items : it(i) = it(j) => i = j
  BY ItemFacts, Zenon DEF MayDraw
<1> HIDE DEF d, it
<1>7. ASSUME NEW u \in Drawn, u \in Batch
      PROVE  FALSE
  <2>1. PICK c \in 1..GenBatch : u = <<pass, it(d + c)>>
    BY <1>4, <1>7
  <2>2. u[1] < pass \/ \E i \in 1..d : u[2] = it(i)
    BY <1>3
  <2>3. u[1] = pass /\ u[2] = it(d + c)
    BY <2>1
  <2>4. ~(u[1] < pass)
    BY <1>1, <2>3
  <2>5. PICK i \in 1..d : u[2] = it(i)
    BY <2>2, <2>4
  <2>6. i = d + c
    BY <1>2, <1>6, <2>3, <2>5, Zenon
  <2> QED
    BY <1>1, <2>6
<1>8. ASSUME NEW u \in Batch
      PROVE  u \in DrawnAt(pass, epoch, pos + 1)
  <2>1. PICK c \in 1..GenBatch : u = <<pass, it(d + c)>>
    BY <1>4
  <2>2. pass \in 0..pass /\ d + c \in 1..(d + GenBatch) /\ it(d + c) \in Items
    BY <1>1, <1>2, <1>6
  <2>3. u \in (0..pass) \X Items /\ u[2] = it(d + c)
    BY <2>1, <2>2
  <2> QED
    BY <1>5, <2>2, <2>3, Zenon
<1>9. ASSUME NEW u \in Drawn
      PROVE  u \in DrawnAt(pass, epoch, pos + 1)
  <2>1. u \in (0..pass) \X Items /\ (u[1] < pass \/ \E i \in 1..d : u[2] = it(i))
    BY <1>3
  <2>2. 1..d \subseteq 1..(d + GenBatch)
    BY <1>1
  <2>3. u[1] < pass \/ \E i \in 1..(d + GenBatch) : u[2] = it(i)
    BY <2>1, <2>2, Zenon
  <2> QED
    BY <1>5, <2>1, <2>3, Zenon
<1>10. ASSUME NEW u \in DrawnAt(pass, epoch, pos + 1), u \notin Drawn
       PROVE  u \in Batch
  <2>1. /\ u \in (0..pass) \X Items /\ u = <<u[1], u[2]>> /\ u[1] \in 0..pass
        /\ (u[1] < pass \/ \E i \in 1..(d + GenBatch) : u[2] = it(i))
        /\ ~(u[1] < pass) /\ ~(\E i \in 1..d : u[2] = it(i))
    BY <1>3, <1>5, <1>10
  <2>2. u[1] = pass
    BY <1>1, <2>1
  <2>3. PICK i \in 1..(d + GenBatch) : u[2] = it(i)
    BY <2>1
  <2>4. i \notin 1..d
    BY <2>1, <2>3
  <2>5. i - d \in 1..GenBatch /\ d + (i - d) = i
    BY <1>1, <2>4
  <2>6. u = <<pass, it(d + (i - d))>>
    BY <2>1, <2>2, <2>3, <2>5
  <2> QED
    BY <1>4, <2>5, <2>6
<1> QED
  BY <1>7, <1>8, <1>9, <1>10

(***************************************************************************)
(* The inductive invariant.  UpdateReady alone is not inductive: what an   *)
(* update gets was put together by earlier generation batches, so the      *)
(* batch must be made of whole, mixed groups, as many as numPrompts says,  *)
(* all the while; and no kept prompt may have been in it before, which     *)
(* takes that it holds drawn prompts only, in whatever order the process   *)
(* draws them.  The account of all prompts survives a restart only because *)
(* the checkpoint's is complete too.                                       *)
(***************************************************************************)

CounterInv ==
    /\ setting \in Settings
    /\ phase \in {"collect", "update"} \cup Stopped
    /\ run \in 0..MaxRuns
    /\ gstep \in 0..(TotalSteps + run)
    /\ epoch \in 0..(TotalEpochs - 1)
    /\ pos \in 0..BatchesPerEpoch
    /\ pass \in Nat /\ epoch <= pass
    /\ phase \in Stopped => epoch = 0
    /\ tries \in Nat /\ (setting.maxGen > 0 => tries <= setting.maxGen)
    /\ saved.step \in 0..(TotalSteps + run)
    /\ saved.pos \in 0..BatchesPerEpoch
    /\ saved.pass \in Nat

BatchInv ==
    /\ phase \in Stopped => batch = <<>> /\ numPrompts = 0 /\ tries = 0
    /\ phase = "collect" /\ setting.filter =>
          /\ numPrompts \in 0..(TrainBatch - 1)
          /\ MixedBlocks(batch, numPrompts)
          /\ setting.maxGen > 0 => tries < setting.maxGen
    /\ phase = "update" /\ setting.filter =>
          /\ numPrompts \in 0..(TrainBatch + GenBatch)
          /\ MixedBlocks(batch, TrainBatch)
    /\ ~setting.filter => numPrompts = 0
    /\ phase = "collect" /\ ~setting.filter => batch = <<>> /\ tries = 0
    /\ phase = "update" /\ ~setting.filter => Blocks(batch, GenBatch)

\* What has been drawn is in one place each.
Complete(us, su, dr, drawn) ==
    /\ us \cup su \cup dr = drawn
    /\ us \cap (su \cup dr) = {}
    /\ su \cap dr = {}

\* A process that loads the checkpoint goes through the data in the job's order.
SavedInOrder == setting.shuffle => saved.pass = 0

SavedAccounted ==
    SavedInOrder => Complete(saved.used, saved.surplus, saved.dropped,
                             DrawnAt(saved.pass, 0, saved.pos))

SampleInv ==
    /\ CounterInv
    /\ BatchInv
    /\ used \cup surplus \cup dropped \subseteq Prompts
    /\ saved.used \cup saved.surplus \cup saved.dropped \subseteq Prompts
    /\ Uids(batch) \subseteq Drawn
    /\ PromptsAccounted
    /\ SavedAccounted

LEMMA PhaseFacts ==
    /\ "collect" \notin Stopped /\ "update" \notin Stopped /\ "collect" # "update"
    /\ {"down", "finished", "failed"} = Stopped
BY DEF Stopped

\* What the driver has in memory counts only while it is up.
LEMMA StoppedBatch ==
    ASSUME BatchInv, phase \in Stopped
    PROVE  Uids(batch) = {}
BY DEF BatchInv, Uids

\* The states after which the batch is empty and the driver is up or down.
LEMMA EmptyBatchNext ==
    ASSUME setting \in Settings, setting' = setting, batch' = <<>>, numPrompts' = 0, tries' = 0,
           phase' # "update"
    PROVE  BatchInv' /\ Uids(batch') = {}
<1>1. /\ MixedBlocks(<<>>, 0) /\ Uids(<<>>) = {}
      /\ 0 \in 0..(TrainBatch - 1) /\ setting.maxGen \in Int
  BY EmptyBlocks, SettingFacts, SizesAssumption
<1>2. MixedBlocks(batch', numPrompts')
  BY <1>1
<1>3. MixedBlocks(batch, numPrompts)'
  BY <1>2 DEF MixedBlocks, Blocks, Row
<1> QED
  BY <1>1, <1>3 DEF BatchInv

LEMMA InitSampleInv == Init => SampleInv
<1> SUFFICES ASSUME Init
             PROVE  SampleInv
  OBVIOUS
<1>1. CounterInv
  BY SizesAssumption, LengthAssumption, SettingFacts DEF Init, CounterInv, Stopped
<1>2. BatchInv /\ Uids(batch) = {}
  BY PhaseFacts DEF Init, BatchInv, Uids, Stopped
<1>3. PromptsAccounted
  BY <1>2 DEF Init, PromptsAccounted, Stopped
<1>4. SavedAccounted
  <2>1. saved.pass = 0 /\ saved.pos = 0 /\ saved.used = {} /\ saved.surplus = {} /\ saved.dropped = {}
    BY DEF Init
  <2>2. Complete({}, {}, {}, DrawnAt(0, 0, 0))
    BY DrawnFacts DEF Complete
  <2> QED
    BY <2>1, <2>2 DEF SavedAccounted
<1> QED
  BY <1>1, <1>2, <1>3, <1>4 DEF Init, SampleInv

\* The places of the data do not move.
LEMMA DrawnNext ==
    ASSUME setting' = setting
    PROVE  /\ \A p, e, q : DrawnAt(p, e, q)' = DrawnAt(p, e, q)
           /\ Drawn' = DrawnAt(pass', epoch', pos')
<1>1. \A e, i : Item(e, i)' = Item(e, i)
  BY Zenon DEF Item
<1> QED
  BY <1>1, Zenon DEF DrawnAt, Drawn, Item

LEMMA SavedAccountedNext ==
    ASSUME SavedAccounted, setting' = setting, saved' = saved
    PROVE  SavedAccounted'
<1>1. DrawnAt(saved.pass, 0, saved.pos)' = DrawnAt(saved.pass, 0, saved.pos)
  BY Zenon DEF DrawnAt, Item
<1> QED
  BY <1>1 DEF SavedAccounted, SavedInOrder, Complete

\* A run starts with the account of its checkpoint.
LEMMA StartSampleInv == SampleInv /\ Start => SampleInv'
<1> SUFFICES ASSUME SampleInv, Start
             PROVE  SampleInv'
  OBVIOUS
<1>1. /\ CounterInv /\ SavedAccounted
      /\ saved.used \cup saved.surplus \cup saved.dropped \subseteq Prompts
  BY DEF SampleInv
<1>0. /\ setting' = setting /\ saved' = saved /\ epoch' = 0 /\ pos' = saved.pos
      /\ pass' = saved.pass /\ used' = saved.used /\ surplus' = saved.surplus
      /\ dropped' = saved.dropped
  BY DEF Start, RestoredPos
<1>2. CounterInv'
  <2>1. /\ setting \in Settings /\ setting.maxGen \in Int /\ TotalSteps \in Nat
        /\ TotalEpochs \in Nat \ {0} /\ BatchesPerEpoch \in Nat /\ MaxRuns \in Nat
    BY <1>1, SettingFacts, LengthAssumption DEF CounterInv
  <2> QED
    BY <1>1, <2>1 DEF CounterInv, Start, RestoredPos, Stopped
<1>3. BatchInv' /\ Uids(batch') = {}
  BY <1>1, EmptyBatchNext DEF CounterInv, Start
<1>4. Uids(batch)' = {}
  BY <1>3 DEF Uids
<1>5. PromptsAccounted'
  <2>1. SUFFICES ASSUME SameOrder'
                 PROVE  Complete(used', surplus', dropped', Drawn')
    BY <1>4, <2>1 DEF PromptsAccounted, Complete
  <2>2. SavedInOrder
    BY <1>0, <2>1 DEF SameOrder, SavedInOrder
  <2>3. Complete(saved.used, saved.surplus, saved.dropped, DrawnAt(saved.pass, 0, saved.pos))
    BY <1>1, <2>2 DEF SavedAccounted
  <2>4. Drawn' = DrawnAt(pass', epoch', pos')
    BY <1>0, DrawnNext
  <2> QED
    BY <1>0, <2>3, <2>4, Zenon
<1>6. SavedAccounted'
  BY <1>0, <1>1, SavedAccountedNext
<1>7. /\ (used \cup surplus \cup dropped)' \subseteq Prompts
      /\ (saved.used \cup saved.surplus \cup saved.dropped)' \subseteq Prompts
  BY <1>0, <1>1, Zenon
<1> QED
  BY <1>2, <1>3, <1>4, <1>5, <1>6, <1>7 DEF SampleInv, Prompts, Items

\* Stopping, however it happens, loses the batch and nothing that counts.
LEMMA StopSampleInv ==
    ASSUME SampleInv, NEW how \in Stopped, Stop(how), setting' = setting, saved' = saved,
           run' = run, pass' \in {pass, pass + 1}, used' = used, surplus' = surplus,
           dropped' \subseteq Prompts,
           SameOrder => dropped' \cap (used \cup surplus) = {}
    PROVE  SampleInv'
<1>1. /\ CounterInv /\ SavedAccounted /\ PromptsAccounted
      /\ used \cup surplus \cup dropped \subseteq Prompts
      /\ saved.used \cup saved.surplus \cup saved.dropped \subseteq Prompts
  BY DEF SampleInv
<1>0. epoch' = 0 /\ pos' = 0 /\ phase' \in Stopped /\ pass' \in Nat /\ 0 <= pass'
  BY <1>1 DEF Stop, CounterInv
<1>2. CounterInv'
  <2>1. /\ setting \in Settings /\ setting.maxGen \in Int /\ TotalSteps \in Nat
        /\ TotalEpochs \in Nat \ {0} /\ BatchesPerEpoch \in Nat /\ MaxRuns \in Nat
    BY <1>1, SettingFacts, LengthAssumption DEF CounterInv
  <2> QED
    BY <1>0, <1>1, <2>1 DEF CounterInv, Stop, Stopped
<1>3. BatchInv' /\ Uids(batch') = {}
  BY <1>1, EmptyBatchNext, PhaseFacts DEF CounterInv, Stop
<1>4. Uids(batch)' = {}
  BY <1>3 DEF Uids
<1>5. PromptsAccounted'
  <2>1. SUFFICES ASSUME SameOrder'
                 PROVE  SameOrder
    BY <1>0, <1>1, <1>4, <2>1 DEF PromptsAccounted, Stopped
  <2>2. setting.shuffle => pass' = 0
    BY <1>0, <2>1 DEF SameOrder
  <2>3. pass \in Nat /\ epoch \in Nat /\ epoch <= pass
    BY <1>1, LengthAssumption DEF CounterInv
  <2>4. setting.shuffle => pass = 0 /\ epoch = 0
    BY <2>2, <2>3
  <2> QED
    BY <2>4 DEF SameOrder
<1>6. SavedAccounted'
  BY <1>1, SavedAccountedNext
<1>7. /\ (used \cup surplus \cup dropped)' \subseteq Prompts
      /\ (saved.used \cup saved.surplus \cup saved.dropped)' \subseteq Prompts
  BY <1>1
<1> QED
  BY <1>2, <1>3, <1>4, <1>5, <1>6, <1>7 DEF SampleInv, Prompts, Items

LEMMA CrashSampleInv == SampleInv /\ Crash => SampleInv'
<1> SUFFICES ASSUME SampleInv, Crash
             PROVE  SampleInv'
  OBVIOUS
<1>1. /\ Stop("down") /\ setting' = setting /\ saved' = saved /\ run' = run
      /\ pass' = pass /\ used' = used /\ surplus' = surplus /\ dropped' = dropped
  BY DEF Crash, seen
<1>2. dropped \subseteq Prompts /\ (SameOrder => dropped \cap (used \cup surplus) = {})
  BY DEF SampleInv, PromptsAccounted
<1>3. "down" \in Stopped
  BY DEF Stopped
<1> QED
  BY <1>1, <1>2, <1>3, StopSampleInv

(***************************************************************************)
(* Drawing a generation batch.                                             *)
(***************************************************************************)

LEMMA DrawReady ==
    ASSUME SampleInv, BatchLeft
    PROVE  /\ MayDraw /\ phase = "collect" /\ phase \notin Stopped
           /\ Uids(batch) \subseteq Drawn
           /\ SameOrder => used \cup surplus \cup dropped \cup Uids(batch) = Drawn
           /\ setting.maxGen \in Int /\ setting.filter \in BOOLEAN
<1>1. MayDraw
  BY LengthAssumption DEF SampleInv, CounterInv, BatchLeft, MayDraw
<1> QED
  BY <1>1, PhaseFacts, SettingFacts DEF SampleInv, PromptsAccounted, BatchLeft, MayDraw

LEMMA CountersAfterDraw ==
    ASSUME SampleInv, BatchLeft, phase' \in {"collect", "update"}, pos' = pos + 1,
           tries' = tries + 1, setting.maxGen > 0 => tries + 1 <= setting.maxGen,
           UNCHANGED <<setting, gstep, epoch, saved, run, pass>>
    PROVE  CounterInv'
<1>1. CounterInv /\ pos < BatchesPerEpoch
  BY DEF SampleInv, BatchLeft
<1>2. BatchesPerEpoch \in Nat
  BY LengthAssumption
<1>3. pos' \in 0..BatchesPerEpoch /\ tries' \in Nat
  BY <1>1, <1>2 DEF CounterInv
<1>4. phase' \notin Stopped
  BY PhaseFacts
<1> QED
  BY <1>1, <1>3, <1>4 DEF CounterInv

\* The accounts after a draw.
AccountNext ==
    /\ PromptsAccounted' /\ SavedAccounted'
    /\ Uids(batch)' \subseteq Drawn'
    /\ (used \cup surplus \cup dropped)' \subseteq Prompts
    /\ (saved.used \cup saved.surplus \cup saved.dropped)' \subseteq Prompts

\* The new prompts are divided among the batch, the surplus and the dropped.
LEMMA AccountAfterDraw ==
    ASSUME SampleInv, BatchLeft, phase' \in {"collect", "update"}, pos' = pos + 1,
           UNCHANGED <<setting, epoch, saved, pass, used>>,
           NEW kept \in SUBSET Batch, NEW cut, surplus' = surplus \cup cut,
           dropped' = dropped \cup (Batch \ kept),
           Uids(batch') \cup cut = Uids(batch) \cup kept, Uids(batch') \cap cut = {}
    PROVE  AccountNext
<1>1. /\ MayDraw /\ phase \notin Stopped /\ Uids(batch) \subseteq Drawn
      /\ SameOrder => used \cup surplus \cup dropped \cup Uids(batch) = Drawn
  BY DrawReady
<1>2. SameOrder => /\ used \cap (surplus \cup dropped \cup Uids(batch)) = {}
                   /\ surplus \cap (dropped \cup Uids(batch)) = {}
                   /\ dropped \cap Uids(batch) = {}
  BY DEF SampleInv, PromptsAccounted
<1>3. Drawn \cap Batch = {} /\ Drawn \cup Batch = DrawnAt(pass, epoch, pos + 1)
  BY <1>1, BatchDrawn
<1>4. Drawn' = Drawn \cup Batch
  BY <1>3, DrawnNext
<1>5. Uids(batch)' = Uids(batch')
  BY DEF Uids
<1>6. Uids(batch)' \subseteq Drawn'
  BY <1>1, <1>4, <1>5
<1>7. PromptsAccounted'
  <2>1. SUFFICES ASSUME SameOrder
                 PROVE  /\ used' \cup surplus' \cup dropped' \cup Uids(batch') = Drawn'
                        /\ used' \cap (surplus' \cup dropped' \cup Uids(batch')) = {}
                        /\ surplus' \cap (dropped' \cup Uids(batch')) = {}
                        /\ dropped' \cap Uids(batch') = {}
    <3>1. SameOrder' => SameOrder
      BY DEF SameOrder
    <3> QED
      BY <1>5, <2>1, <3>1 DEF PromptsAccounted
  <2>2. used' \cup surplus' \cup dropped' \cup Uids(batch') = Drawn'
    BY <1>1, <1>4, <2>1
  <2>3. /\ used' \cap (surplus' \cup dropped' \cup Uids(batch')) = {}
        /\ surplus' \cap (dropped' \cup Uids(batch')) = {}
        /\ dropped' \cap Uids(batch') = {}
    BY <1>1, <1>2, <1>3, <2>1
  <2> QED
    BY <2>2, <2>3
<1>8. SavedAccounted'
  BY SavedAccountedNext DEF SampleInv
<1>9. /\ (used \cup surplus \cup dropped)' \subseteq Prompts
      /\ (saved.used \cup saved.surplus \cup saved.dropped)' \subseteq Prompts
  <2>1. Drawn \cup Batch \subseteq Prompts
    BY <1>1, <1>3, DrawnFacts DEF MayDraw
  <2>2. cut \subseteq Drawn \cup Batch
    BY <1>1
  <2>3. /\ used \cup surplus \cup dropped \subseteq Prompts
        /\ saved.used \cup saved.surplus \cup saved.dropped \subseteq Prompts
    BY DEF SampleInv
  <2>4. used' = used /\ saved' = saved
    OBVIOUS
  <2> QED
    BY <2>1, <2>2, <2>3, <2>4
<1> QED
  BY <1>6, <1>7, <1>8, <1>9 DEF AccountNext

LEMMA TakeAllSampleInv ==
    ASSUME SampleInv, NEW mixed \in SUBSET (1..GenBatch), TakeAll(Generated(mixed))
    PROVE  SampleInv'
<1>1. BatchLeft /\ ~setting.filter
  BY DEF TakeAll
<1>2. MayDraw /\ phase = "collect" /\ setting.maxGen \in Int
  BY <1>1, DrawReady
<1>3. Blocks(batch', GenBatch) /\ Uids(batch') = Batch
  BY <1>2, GeneratedBlocks DEF TakeAll, Batch
<1>4. batch = <<>> /\ numPrompts = 0 /\ tries = 0 /\ Uids(batch) = {}
  <2>1. batch = <<>> /\ numPrompts = 0 /\ tries = 0
    BY <1>1, <1>2 DEF SampleInv, BatchInv
  <2> QED
    BY <2>1 DEF Uids
<1>5. CounterInv'
  BY <1>1, <1>2, <1>4, CountersAfterDraw DEF TakeAll, seen
<1>6. BatchInv'
  <2>1. Blocks(batch, GenBatch)'
    BY <1>3 DEF Blocks, Row, TakeAll
  <2> QED
    BY <1>1, <1>4, <2>1, PhaseFacts DEF BatchInv, TakeAll
<1>7. AccountNext
  <2>1. surplus' = surplus \cup {} /\ dropped' = dropped \cup (Batch \ Batch)
    BY DEF TakeAll, seen
  <2>2. Uids(batch') \cup {} = Uids(batch) \cup Batch /\ Uids(batch') \cap {} = {}
    BY <1>3, <1>4
  <2>3. /\ phase' \in {"collect", "update"} /\ pos' = pos + 1
        /\ UNCHANGED <<setting, epoch, saved, pass, used>>
    BY DEF TakeAll, seen
  <2> QED
    BY <1>1, <2>1, <2>2, <2>3, AccountAfterDraw
<1> QED
  BY <1>5, <1>6, <1>7 DEF SampleInv, AccountNext, Prompts, Items

\* What the filter leaves, and what the batch becomes with it.
LEMMA CollectFacts ==
    ASSUME SampleInv, BatchLeft, setting.filter, NEW mixed \in SUBSET (1..GenBatch)
    PROVE  LET rows == Generated(mixed)
               all == batch \o Kept(rows)
               num == numPrompts + Cardinality(KeptUids(rows))
           IN  /\ Uids(rows) = Batch /\ KeptUids(rows) \subseteq Batch
               /\ Uids(all) = Uids(batch) \cup KeptUids(rows)
               /\ num \in 0..(TrainBatch + GenBatch)
               /\ MixedBlocks(all, num)
               /\ num >= TrainBatch => /\ MixedBlocks(Aligned(all), TrainBatch)
                                       /\ Uids(Aligned(all)) \subseteq Uids(all)
<1> DEFINE rows == Generated(mixed)
           all == batch \o Kept(rows)
           num == numPrompts + Cardinality(KeptUids(rows))
<1>1. /\ MayDraw /\ phase = "collect" /\ setting \in Settings /\ Uids(batch) \subseteq Drawn
  BY DrawReady DEF MayDraw
<1>2. /\ numPrompts \in 0..(TrainBatch - 1)
      /\ MixedBlocks(batch, numPrompts)
  BY <1>1 DEF SampleInv, BatchInv
<1>3. Uids(rows) = Batch /\ KeptUids(rows) \subseteq Batch
  BY <1>1, GeneratedBlocks DEF Batch, KeptUids
<1>4. Uids(Kept(rows)) = KeptUids(rows)
  BY <1>1, KeptBlocks
<1>5. PICK k \in 0..GenBatch : MixedBlocks(Kept(rows), k)
  BY <1>1, KeptBlocks
<1> HIDE DEF rows
<1>6. TrainBatch \in Nat /\ GenBatch \in Nat /\ k \in Nat /\ numPrompts \in Nat
  BY <1>2, <1>5, SizesAssumption
<1>7. Blocks(batch, numPrompts) /\ Blocks(Kept(rows), k)
  BY <1>2, <1>5 DEF MixedBlocks
<1>8. Cardinality(KeptUids(rows)) = k
  BY <1>1, <1>4, <1>6, <1>7, BlockCount
<1>9. Uids(batch) \cap Uids(Kept(rows)) = {}
  BY <1>1, <1>3, <1>4, BatchDrawn
<1>10. MixedBlocks(all, numPrompts + k)
  BY <1>1, <1>2, <1>5, <1>6, <1>7, <1>9, ConcatBlocks
<1>11. num = numPrompts + k /\ num \in 0..(TrainBatch + GenBatch)
  BY <1>2, <1>5, <1>6, <1>8
<1>12. Uids(all) = Uids(batch) \cup KeptUids(rows)
  BY <1>4, <1>7, ConcatUids DEF Blocks
<1>13. ASSUME num >= TrainBatch
       PROVE  MixedBlocks(Aligned(all), TrainBatch) /\ Uids(Aligned(all)) \subseteq Uids(all)
  <2> HIDE DEF num, all
  <2>1. MixedBlocks(all, num) /\ TrainBatch \in 0..num /\ num \in Nat
    BY <1>6, <1>10, <1>11, <1>13
  <2>2. Aligned(all) = SubSeq(all, 1, setting.n * TrainBatch)
    <3>1. Len(all) = setting.n * num
      BY <2>1 DEF MixedBlocks, Blocks
    <3>2. setting.n \in Nat
      BY <1>1, SettingFacts
    <3>3. /\ setting.n * num \in Nat /\ setting.n * TrainBatch \in Nat
          /\ TrainBatch * setting.n = setting.n * TrainBatch
      BY <1>6, <2>1, <3>2
    <3>4. setting.n * TrainBatch <= setting.n * num
      BY <1>6, <2>1, <3>2
    <3>5. Aligned(all) = SubSeq(all, 1, IF setting.n * num < setting.n * TrainBatch
                                        THEN setting.n * num ELSE setting.n * TrainBatch)
      BY <3>1, <3>3 DEF Aligned, TrajBatch
    <3> QED
      BY <3>3, <3>4, <3>5
  <2> QED
    BY <1>1, <2>1, <2>2, FirstBlocks
<1>14. MixedBlocks(all, num)
  BY <1>10, <1>11
<1> QED
  BY <1>3, <1>11, <1>12, <1>13, <1>14 DEF rows

LEMMA CollectSampleInv ==
    ASSUME SampleInv, NEW mixed \in SUBSET (1..GenBatch), Collect(Generated(mixed))
    PROVE  SampleInv'
<1> DEFINE rows == Generated(mixed)
           all == batch \o Kept(rows)
           num == numPrompts + Cardinality(KeptUids(rows))
<1>1. BatchLeft /\ setting.filter
  BY DEF Collect
<1>2. /\ Uids(rows) = Batch /\ KeptUids(rows) \subseteq Batch
      /\ Uids(all) = Uids(batch) \cup KeptUids(rows)
      /\ num \in 0..(TrainBatch + GenBatch)
      /\ MixedBlocks(all, num)
      /\ num >= TrainBatch => /\ MixedBlocks(Aligned(all), TrainBatch)
                              /\ Uids(Aligned(all)) \subseteq Uids(all)
  BY <1>1, CollectFacts
<1>3. /\ MayDraw /\ phase = "collect" /\ setting.maxGen \in Int /\ phase \notin Stopped
      /\ SameOrder => used \cup surplus \cup dropped \cup Uids(batch) = Drawn
  BY <1>1, DrawReady
<1>4. /\ dropped' = dropped \cup (Batch \ KeptUids(rows))
      /\ UNCHANGED <<setting, saved, run, pass, used>>
  BY <1>2 DEF Collect
<1>5. tries \in Nat /\ (setting.maxGen > 0 => tries < setting.maxGen) /\ TrainBatch \in Nat
  BY <1>1, <1>3, SizesAssumption DEF SampleInv, BatchInv, CounterInv
<1>6. setting.maxGen > 0 => tries + 1 <= setting.maxGen
  BY <1>3, <1>5
<1>7. CASE /\ num >= TrainBatch
           /\ phase' = "update"
           /\ batch' = Aligned(all)
           /\ surplus' = surplus \cup (Uids(all) \ Uids(Aligned(all)))
           /\ pos' = pos + 1 /\ numPrompts' = num /\ tries' = tries + 1
           /\ UNCHANGED <<gstep, epoch>>
  <2> HIDE DEF num, all, rows
  <2>1. CounterInv'
    BY <1>1, <1>4, <1>6, <1>7, CountersAfterDraw
  <2>2. BatchInv'
    <3>1. MixedBlocks(batch', TrainBatch)
      BY <1>2, <1>7
    <3>2. MixedBlocks(batch, TrainBatch)'
      BY <1>4, <3>1 DEF MixedBlocks, Blocks, Row
    <3> QED
      BY <1>1, <1>2, <1>4, <1>7, <3>2, PhaseFacts DEF BatchInv
  <2>3. AccountNext
    <3> DEFINE cut == Uids(all) \ Uids(Aligned(all))
    <3>1. /\ Uids(batch') \cup cut = Uids(batch) \cup KeptUids(rows)
          /\ Uids(batch') \cap cut = {}
      BY <1>2, <1>7
    <3>2. surplus' = surplus \cup cut
      BY <1>7
    <3>3. /\ phase' \in {"collect", "update"} /\ pos' = pos + 1
          /\ UNCHANGED <<setting, epoch, saved, pass, used>>
      BY <1>4, <1>7
    <3>4. KeptUids(rows) \in SUBSET Batch
      BY <1>2
    <3> HIDE DEF cut
    <3> QED
      BY <1>1, <1>4, <3>1, <3>2, <3>3, <3>4, AccountAfterDraw
  <2> QED
    BY <2>1, <2>2, <2>3 DEF SampleInv, AccountNext, Prompts, Items
<1>8. CASE /\ num < TrainBatch /\ MayTryAgain(tries + 1)
           /\ batch' = all
           /\ pos' = pos + 1 /\ numPrompts' = num /\ tries' = tries + 1
           /\ UNCHANGED <<phase, gstep, epoch, surplus>>
  <2> HIDE DEF num, all, rows
  <2>1. CounterInv'
    BY <1>1, <1>3, <1>4, <1>6, <1>8, CountersAfterDraw
  <2>2. BatchInv'
    <3>1. MixedBlocks(batch', numPrompts')
      BY <1>2, <1>8
    <3>2. MixedBlocks(batch, numPrompts)'
      BY <1>4, <3>1 DEF MixedBlocks, Blocks, Row
    <3>3. numPrompts' \in 0..(TrainBatch - 1)
      BY <1>2, <1>5, <1>8
    <3>4. setting.maxGen > 0 => tries' < setting.maxGen
      BY <1>3, <1>8 DEF MayTryAgain
    <3> QED
      BY <1>1, <1>3, <1>4, <1>8, <3>2, <3>3, <3>4, PhaseFacts DEF BatchInv
  <2>3. AccountNext
    <3>1. /\ Uids(batch') \cup {} = Uids(batch) \cup KeptUids(rows)
          /\ Uids(batch') \cap {} = {}
      BY <1>2, <1>8
    <3>2. surplus' = surplus \cup {}
      BY <1>8
    <3>3. /\ phase' \in {"collect", "update"} /\ pos' = pos + 1
          /\ UNCHANGED <<setting, epoch, saved, pass, used>>
      BY <1>3, <1>4, <1>8
    <3>4. KeptUids(rows) \in SUBSET Batch
      BY <1>2
    <3> QED
      BY <1>1, <1>4, <3>1, <3>2, <3>3, <3>4, AccountAfterDraw
  <2> QED
    BY <2>1, <2>2, <2>3 DEF SampleInv, AccountNext, Prompts, Items
<1>9. CASE /\ num < TrainBatch /\ ~MayTryAgain(tries + 1)
           /\ Stop("failed")
           /\ UNCHANGED surplus
  <2> HIDE DEF num, all, rows
  <2>1. "failed" \in Stopped
    BY DEF Stopped
  <2>2. dropped' \subseteq Prompts
    BY <1>3, <1>4, UidFacts DEF SampleInv, Batch
  <2>3. ASSUME SameOrder PROVE dropped' \cap (used \cup surplus) = {}
    <3>1. Drawn \cap Batch = {}
      BY <1>3, BatchDrawn
    <3>2. dropped \cap (used \cup surplus) = {}
      BY <2>3 DEF SampleInv, PromptsAccounted
    <3> QED
      BY <1>3, <1>4, <2>3, <3>1, <3>2
  <2>4. pass' \in {pass, pass + 1}
    BY <1>4
  <2> QED
    BY <1>4, <1>9, <2>1, <2>2, <2>3, <2>4, StopSampleInv
<1> QED
  BY <1>7, <1>8, <1>9, Zenon DEF Collect

(***************************************************************************)
(* The update, the end of an epoch, and the theorems.                      *)
(***************************************************************************)

LEMMA UpdateSampleInv == SampleInv /\ Update => SampleInv'
<1> SUFFICES ASSUME SampleInv, Update
             PROVE  SampleInv'
  OBVIOUS
<1>1. /\ CounterInv /\ PromptsAccounted /\ SavedAccounted /\ phase = "update" /\ phase \notin Stopped
      /\ used \cup surplus \cup dropped \subseteq Prompts
      /\ saved.used \cup saved.surplus \cup saved.dropped \subseteq Prompts
      /\ Uids(batch) \subseteq Drawn
  BY PhaseFacts DEF SampleInv, Update
<1>2. /\ TotalSteps \in Nat /\ setting \in Settings /\ setting.maxGen \in Int
      /\ BatchesPerEpoch \in Nat /\ TotalEpochs \in Nat \ {0} /\ MaxRuns \in Nat
  BY <1>1, LengthAssumption, SettingFacts DEF CounterInv
<1>4. /\ used' = used \cup Uids(batch) /\ surplus' = surplus /\ dropped' = dropped
      /\ setting' = setting /\ run' = run /\ pass' = pass
  BY DEF Update
<1>3. ASSUME SameOrder
      PROVE  Complete(used', surplus', dropped', DrawnAt(pass, epoch, pos))
  <2>1. /\ used \cup surplus \cup dropped \cup Uids(batch) = Drawn
        /\ used \cap (surplus \cup dropped \cup Uids(batch)) = {}
        /\ surplus \cap (dropped \cup Uids(batch)) = {}
        /\ dropped \cap Uids(batch) = {}
    BY <1>1, <1>3 DEF PromptsAccounted
  <2>2. Drawn = DrawnAt(pass, epoch, pos)
    BY DrawnFacts
  <2> QED
    BY <1>4, <2>1, <2>2 DEF Complete
<1>5. BatchInv' /\ Uids(batch') = {}
  <2>1. batch' = <<>> /\ numPrompts' = 0 /\ tries' = 0 /\ phase' # "update"
    BY PhaseFacts DEF Update, Stop, Reset
  <2> QED
    BY <1>2, <1>4, <2>1, EmptyBatchNext
<1>6. used' \cup surplus' \cup dropped' \subseteq Prompts
  <2>1. Drawn \subseteq Prompts
    BY <1>1, DrawnFacts DEF CounterInv
  <2> QED
    BY <1>1, <1>4, <2>1
<1>7. /\ saved'.step \in 0..(TotalSteps + run) /\ saved'.pos \in 0..BatchesPerEpoch
      /\ saved'.pass \in Nat
      /\ saved'.used \cup saved'.surplus \cup saved'.dropped \subseteq Prompts
      /\ SavedAccounted'
  <2>1. CASE SaveNow
    <3>1. saved' = [step |-> gstep, pos |-> pos, pass |-> pass, used |-> used',
                    surplus |-> surplus, dropped |-> dropped]
      BY <2>1 DEF Update
    <3>2. /\ saved'.step = gstep /\ saved'.pos = pos /\ saved'.pass = pass
          /\ saved'.used = used' /\ saved'.surplus = surplus' /\ saved'.dropped = dropped'
      BY <1>4, <3>1
    <3>3. gstep \in 0..(TotalSteps + run) /\ pos \in 0..BatchesPerEpoch /\ pass \in Nat
      BY <1>1 DEF CounterInv
    <3>4. ASSUME SavedInOrder'
          PROVE  Complete(used', surplus', dropped', DrawnAt(pass, 0, pos))
      <4>1. CASE setting.shuffle
        <5>1. pass = 0 /\ epoch = 0
          <6>1. pass = 0
            BY <1>4, <3>2, <3>4, <4>1 DEF SavedInOrder
          <6>2. epoch \in Nat /\ epoch <= pass
            BY <1>1, <1>2 DEF CounterInv
          <6> QED
            BY <6>1, <6>2
        <5> QED
          BY <1>3, <5>1 DEF SameOrder
      <4>2. CASE ~setting.shuffle
        <5>1. DrawnAt(pass, epoch, pos) = DrawnAt(pass, 0, pos)
          BY <4>2, DrawnUnshuffled
        <5>2. Complete(used', surplus', dropped', DrawnAt(pass, epoch, pos))
          BY <1>3, <4>2 DEF SameOrder
        <5> QED
          BY <5>1, <5>2
      <4> QED
        BY <4>1, <4>2
    <3>5. DrawnAt(saved'.pass, 0, saved'.pos) = DrawnAt(saved.pass, 0, saved.pos)'
      BY <1>4, Zenon DEF DrawnAt, Item
    <3>6. SavedAccounted'
      BY <3>2, <3>4, <3>5 DEF SavedAccounted, Complete
    <3> QED
      BY <1>6, <3>2, <3>3, <3>6
  <2>2. CASE ~SaveNow
    <3>1. saved' = saved
      BY <2>2 DEF Update
    <3>2. SavedAccounted'
      BY <1>1, <1>4, <3>1, SavedAccountedNext
    <3> QED
      BY <1>1, <3>1, <3>2 DEF CounterInv
  <2> QED
    BY <2>1, <2>2
<1>8. Uids(batch)' = {}
  BY <1>5 DEF Uids
<1>9. CASE IsLastStep
  <2>1. /\ Stop("finished") /\ phase' \in Stopped /\ epoch' = 0
    BY <1>9 DEF Update, Stop, Stopped
  <2>2. CounterInv'
    BY <1>1, <1>2, <1>4, <1>7, <2>1 DEF CounterInv, Stop, Stopped
  <2>3. PromptsAccounted'
    <3>1. SUFFICES ASSUME SameOrder'
                   PROVE  SameOrder
      BY <1>3, <1>4, <1>8, <2>1, <3>1 DEF PromptsAccounted, Complete, Stopped
    <3>2. epoch \in Nat /\ epoch <= pass
      BY <1>1, <1>2 DEF CounterInv
    <3>3. setting.shuffle => pass = 0
      BY <1>4, <2>1, <3>1 DEF SameOrder
    <3> QED
      BY <3>2, <3>3 DEF SameOrder
  <2> QED
    BY <1>5, <1>6, <1>7, <1>8, <2>2, <2>3 DEF SampleInv, Prompts, Items
<1>10. CASE ~IsLastStep
  <2>1. phase' = "collect" /\ gstep' = gstep + 1 /\ tries' = 0 /\ UNCHANGED <<epoch, pos>>
    BY <1>10 DEF Update, Reset
  <2>2. CounterInv'
    <3>1. gstep + 1 \in 0..(TotalSteps + run)
      BY <1>1, <1>2, <1>10 DEF CounterInv, IsLastStep
    <3> QED
      BY <1>1, <1>2, <1>4, <1>7, <2>1, <3>1, PhaseFacts DEF CounterInv
  <2>3. PromptsAccounted'
    <3>1. Drawn' = DrawnAt(pass, epoch, pos)
      BY <1>4, <2>1, DrawnNext
    <3>2. SameOrder' => SameOrder
      BY <1>4, <2>1 DEF SameOrder
    <3> QED
      BY <1>3, <1>4, <1>8, <3>1, <3>2 DEF PromptsAccounted, Complete
  <2> QED
    BY <1>5, <1>6, <1>7, <1>8, <2>2, <2>3 DEF SampleInv, Prompts, Items
<1> QED
  BY <1>9, <1>10

LEMMA EpochEndSampleInv == SampleInv /\ EpochEnd => SampleInv'
<1> SUFFICES ASSUME SampleInv, EpochEnd
             PROVE  SampleInv'
  OBVIOUS
<1>1. /\ CounterInv /\ BatchInv /\ PromptsAccounted /\ SavedAccounted
      /\ phase = "collect" /\ phase \notin Stopped /\ pos = BatchesPerEpoch
      /\ used \cup surplus \cup dropped \subseteq Prompts
      /\ saved.used \cup saved.surplus \cup saved.dropped \subseteq Prompts
      /\ Uids(batch) \subseteq Drawn
  BY PhaseFacts DEF SampleInv, EpochEnd
<1>2. /\ pass \in Nat /\ pass' = pass + 1 /\ pass' \in Nat
      /\ UNCHANGED <<setting, saved, run, used, surplus, dropped>>
  BY <1>1 DEF EpochEnd, CounterInv
<1>3. CASE epoch + 1 < TotalEpochs
  <2>1. /\ epoch' = epoch + 1 /\ pos' = 0
        /\ UNCHANGED <<phase, gstep, batch, numPrompts, tries>>
    BY <1>3 DEF EpochEnd
  <2>2. CounterInv'
    <3>1. epoch + 1 \in 0..(TotalEpochs - 1) /\ 0 \in 0..BatchesPerEpoch /\ epoch + 1 <= pass + 1
      BY <1>1, <1>3, LengthAssumption DEF CounterInv
    <3> QED
      BY <1>1, <1>2, <2>1, <3>1 DEF CounterInv
  <2>3. BatchInv'
    BY <1>1, <1>2, <2>1 DEF BatchInv, MixedBlocks, Blocks, Row
  <2>4. Drawn' = Drawn
    <3>1. setting \in Settings /\ epoch \in 0..(TotalEpochs - 1)
      BY <1>1 DEF CounterInv
    <3>2. DrawnAt(pass + 1, epoch + 1, 0) = DrawnAt(pass, epoch, BatchesPerEpoch)
      BY <1>2, <3>1, DrawnNextPass
    <3>3. Drawn' = DrawnAt(pass + 1, epoch + 1, 0)
      BY <1>2, <2>1, DrawnNext
    <3> QED
      BY <1>1, <3>2, <3>3, DrawnFacts
  <2>5. Uids(batch)' = Uids(batch)
    BY <2>1 DEF Uids
  <2>6. PromptsAccounted'
    <3>1. pass' = epoch' => pass = epoch
      BY <1>1, <1>2, <2>1, LengthAssumption DEF CounterInv
    <3>2. SameOrder' => SameOrder
      BY <1>2, <3>1 DEF SameOrder
    <3> QED
      BY <1>1, <1>2, <2>1, <2>4, <2>5, <3>2 DEF PromptsAccounted
  <2>7. SavedAccounted'
    BY <1>1, <1>2, SavedAccountedNext
  <2> QED
    BY <1>1, <1>2, <2>2, <2>3, <2>4, <2>5, <2>6, <2>7 DEF SampleInv, Prompts, Items
<1>4. CASE ~(epoch + 1 < TotalEpochs)
  <2>1. Stop("finished") /\ "finished" \in Stopped
    BY <1>4 DEF EpochEnd, Stopped
  <2>2. dropped' \subseteq Prompts /\ (SameOrder => dropped' \cap (used \cup surplus) = {})
    BY <1>1, <1>2 DEF PromptsAccounted
  <2> QED
    BY <1>2, <2>1, <2>2, StopSampleInv
<1> QED
  BY <1>3, <1>4

LEMMA NextSampleInv == SampleInv /\ [Next]_vars => SampleInv'
<1> SUFFICES ASSUME SampleInv, [Next]_vars
             PROVE  SampleInv'
  OBVIOUS
<1>1. CASE Start
  BY <1>1, StartSampleInv
<1>2. CASE Generate
  BY <1>2, TakeAllSampleInv, CollectSampleInv DEF Generate
<1>3. CASE Update
  BY <1>3, UpdateSampleInv
<1>4. CASE EpochEnd
  BY <1>4, EpochEndSampleInv
<1>5. CASE Crash
  BY <1>5, CrashSampleInv
<1>6. CASE UNCHANGED vars
  <2>1. /\ CounterInv /\ BatchInv /\ used \cup surplus \cup dropped \subseteq Prompts
        /\ saved.used \cup saved.surplus \cup saved.dropped \subseteq Prompts
        /\ Uids(batch) \subseteq Drawn /\ PromptsAccounted /\ SavedAccounted
    BY DEF SampleInv
  <2>2. UNCHANGED <<setting, phase, gstep, epoch, pos, batch, numPrompts, tries, saved, run,
                    pass, used, surplus, dropped>>
    BY <1>6 DEF vars, seen
  <2>3. CounterInv'
    BY <2>1, <2>2 DEF CounterInv
  <2>4. BatchInv'
    BY <2>1, <2>2 DEF BatchInv, MixedBlocks, Blocks, Row
  <2>5. Uids(batch)' = Uids(batch) /\ Drawn' = Drawn
    BY <2>2, DrawnNext, DrawnFacts DEF Uids
  <2>6. PromptsAccounted'
    BY <2>1, <2>2, <2>5 DEF PromptsAccounted, SameOrder
  <2>7. SavedAccounted'
    BY <2>1, <2>2, SavedAccountedNext
  <2> QED
    BY <2>1, <2>2, <2>3, <2>4, <2>5, <2>6, <2>7 DEF SampleInv, Prompts, Items
<1> QED
  BY <1>1, <1>2, <1>3, <1>4, <1>5, <1>6 DEF Next, RunStep

LEMMA AlwaysSampleInv == Spec => []SampleInv
BY InitSampleInv, NextSampleInv, PTL DEF Spec

LEMMA SampleInvTypeOK == SampleInv => TypeOK
<1> SUFFICES ASSUME SampleInv
             PROVE  TypeOK
  OBVIOUS
<1>1. CounterInv /\ BatchInv /\ used \cup surplus \cup dropped \subseteq Prompts
  BY DEF SampleInv
<1>2. /\ TotalSteps \in Nat /\ MaxRuns \in Nat /\ TrainBatch \in Nat \ {0} /\ GenBatch \in Nat
      /\ run \in 0..MaxRuns /\ setting.filter \in BOOLEAN
  BY <1>1, LengthAssumption, SizesAssumption, SettingFacts DEF CounterInv
<1>3. gstep \in 0..(TotalSteps + MaxRuns) /\ saved.step \in 0..(TotalSteps + MaxRuns)
  BY <1>1, <1>2 DEF CounterInv
<1>4. numPrompts \in 0..(TrainBatch + GenBatch)
  BY <1>1, <1>2, PhaseFacts DEF BatchInv, CounterInv
<1>5. batch \in Seq(Trajectory)
  <2>1. <<>> \in Seq(Trajectory)
    OBVIOUS
  <2> QED
    BY <1>1, <1>2, <2>1, PhaseFacts DEF BatchInv, CounterInv, MixedBlocks, Blocks
<1> QED
  BY <1>1, <1>3, <1>4, <1>5 DEF TypeOK, CounterInv

\* Every variable keeps its type; the generation batches drawn for one step
\* never exceed max_num_gen_batches.
THEOREM AlwaysTypeOK == Spec => []TypeOK
BY AlwaysSampleInv, SampleInvTypeOK, PTL

LEMMA SampleInvUpdateReady == SampleInv => UpdateReady
<1> SUFFICES ASSUME SampleInv, phase = "update"
             PROVE  /\ Cardinality(Uids(batch)) = IF setting.filter THEN TrainBatch ELSE GenBatch
                    /\ \A u \in Uids(batch) :
                          /\ Cardinality(RowsOf(batch, u)) = setting.n
                          /\ setting.filter /\ setting.n > 1
                                => Cardinality(Metrics(batch, u)) > 1
  BY DEF UpdateReady
<1>1. setting \in Settings /\ TrainBatch \in Nat /\ GenBatch \in Nat
  BY SizesAssumption DEF SampleInv, CounterInv
<1> DEFINE k == IF setting.filter THEN TrainBatch ELSE GenBatch
<1>2. k \in Nat
  BY <1>1
<1>3. Blocks(batch, k) /\ (setting.filter => MixedBlocks(batch, k))
  BY DEF SampleInv, BatchInv, MixedBlocks
<1> HIDE DEF k
<1>4. Cardinality(Uids(batch)) = k
  BY <1>1, <1>2, <1>3, BlockCount
<1>5. ASSUME NEW u \in Uids(batch)
      PROVE  Cardinality(RowsOf(batch, u)) = setting.n
  <2>1. PICK q \in 0..(k - 1) : u = batch[Row(q, 1)].uid
    BY <1>1, <1>2, <1>3, BlockUids
  <2> QED
    BY <1>1, <1>2, <1>3, <2>1, BlockRows
<1>6. ASSUME NEW u \in Uids(batch), setting.filter, setting.n > 1
      PROVE  Cardinality(Metrics(batch, u)) > 1
  BY <1>1, <1>2, <1>3, <1>6, MixedMetrics
<1> QED
  BY <1>4, <1>5, <1>6 DEF k

\* Whatever generation batches, epochs and crashes came before it, an update
\* is made with train_batch_size whole groups, none of them of one metric.
THEOREM AlwaysUpdateReady == Spec => []UpdateReady
BY AlwaysSampleInv, SampleInvUpdateReady, PTL

\* Every prompt that has been drawn is in exactly one place, also after a
\* restart from a checkpoint, whatever the permutations of the passes are:
\* always where the data is not shuffled; where it is, until the job is resumed
\* in a later pass than the first.
THEOREM AlwaysPromptsAccounted == Spec => []PromptsAccounted
<1>1. SampleInv => PromptsAccounted
  BY DEF SampleInv
<1> QED
  BY <1>1, AlwaysSampleInv, PTL

(***************************************************************************)
(* What keeps fit from drawing generation batches for ever.                *)
(***************************************************************************)

\* A bound on the steps a submission still takes: two for each generation batch
\* left, one for the end of each epoch, and an update that is at hand.
EpochSteps == 2 * BatchesPerEpoch + 1
StepsFrom(p, e, q) ==
    IF p \in Stopped THEN 0
    ELSE EpochSteps * (TotalEpochs - 1 - e) + 2 * (BatchesPerEpoch - q)
         + (IF p = "collect" THEN 1 ELSE 2)
StepsLeft == StepsFrom(phase, epoch, pos)

\* The steps of the epochs after e.
LEMMA EpochsLeft ==
    ASSUME NEW e \in 0..(TotalEpochs - 1)
    PROVE  /\ EpochSteps * (TotalEpochs - 1 - e) \in Nat
           /\ EpochSteps * (TotalEpochs - 1 - e) <= EpochSteps * TotalEpochs - EpochSteps
           /\ EpochSteps * (TotalEpochs - 1 - (e + 1)) =
                  EpochSteps * (TotalEpochs - 1 - e) - EpochSteps
<1>1. EpochSteps \in Nat /\ TotalEpochs \in Nat
  BY LengthAssumption DEF EpochSteps
<1> DEFINE w == EpochSteps
           k == TotalEpochs - 1 - e
<1>2. k \in Nat /\ w \in Nat /\ TotalEpochs = k + e + 1 /\ e \in Nat
  BY <1>1
<1>3. TotalEpochs - 1 - (e + 1) = k - 1
  BY <1>1
<1> HIDE DEF w, k
<1>4. w * k \in Nat /\ w * e \in Nat
  BY <1>2
<1>5. w * (k + e + 1) = w * k + w * e + w
  BY <1>2
<1>6. w * (k - 1) = w * k - w
  BY <1>2
<1>7. w * TotalEpochs = w * (k + e + 1)
  BY <1>2
<1>8. w * k <= w * TotalEpochs - w
  BY <1>2, <1>4, <1>5, <1>7
<1> QED
  BY <1>3, <1>4, <1>6, <1>8 DEF w, k

LEMMA StepsFromBounded ==
    ASSUME NEW p \in {"collect", "update"} \cup Stopped, NEW e \in 0..(TotalEpochs - 1),
           NEW q \in 0..BatchesPerEpoch
    PROVE  /\ StepsFrom(p, e, q) \in 0..(EpochSteps * TotalEpochs + 1)
           /\ p \notin Stopped => StepsFrom(p, e, q) >= 1
<1> DEFINE later == EpochSteps * (TotalEpochs - 1 - e)
           all == EpochSteps * TotalEpochs
<1>1. later \in Nat /\ later <= all - (2 * BatchesPerEpoch + 1) /\ all \in Nat
      /\ BatchesPerEpoch \in Nat
  BY EpochsLeft, LengthAssumption DEF EpochSteps
<1>2. StepsFrom(p, e, q) \in {0, later + 2 * (BatchesPerEpoch - q) + 1,
                              later + 2 * (BatchesPerEpoch - q) + 2}
      /\ (p \notin Stopped => StepsFrom(p, e, q) # 0)
  BY <1>1 DEF StepsFrom
<1> HIDE DEF later, all
<1>3. StepsFrom(p, e, q) \in 0..(all + 1)
  BY <1>1, <1>2
<1> QED
  BY <1>2, <1>3 DEF all

LEMMA StepRunsOut ==
    ASSUME CounterInv, RunStep
    PROVE  StepsLeft' < StepsLeft
<1> DEFINE later == EpochSteps * (TotalEpochs - 1 - epoch)
<1>1. /\ epoch \in 0..(TotalEpochs - 1) /\ pos \in 0..BatchesPerEpoch
      /\ phase \in {"collect", "update"} \cup Stopped
  BY DEF CounterInv
<1>2. later \in Nat /\ BatchesPerEpoch \in Nat
  BY <1>1, EpochsLeft, LengthAssumption
<1>3. ASSUME phase \notin Stopped, phase' \in Stopped
      PROVE  StepsLeft' < StepsLeft
  <2>1. StepsLeft >= 1 /\ StepsLeft \in Int
    BY <1>1, <1>3, StepsFromBounded DEF StepsLeft
  <2>2. StepsLeft' = 0
    BY <1>3 DEF StepsLeft, StepsFrom
  <2> QED
    BY <2>1, <2>2
<1>4. phase = "collect" => StepsLeft = later + 2 * (BatchesPerEpoch - pos) + 1
  BY DEF StepsLeft, StepsFrom, Stopped
<1>5. phase = "update" => StepsLeft = later + 2 * (BatchesPerEpoch - pos) + 2
  BY DEF StepsLeft, StepsFrom, Stopped
<1> HIDE DEF later
<1>6. CASE Generate
  <2>1. PICK mixed \in SUBSET (1..GenBatch) :
            TakeAll(Generated(mixed)) \/ Collect(Generated(mixed))
    BY <1>6 DEF Generate
  <2>2. phase = "collect"
        /\ \/ phase' \in {"collect", "update"} /\ pos' = pos + 1 /\ epoch' = epoch
           \/ phase' \in Stopped
    BY <2>1 DEF TakeAll, Collect, BatchLeft, Stop, Stopped
  <2>3. CASE phase' \in {"collect", "update"} /\ pos' = pos + 1 /\ epoch' = epoch
    <3>1. StepsLeft' \in {later + 2 * (BatchesPerEpoch - (pos + 1)) + 1,
                          later + 2 * (BatchesPerEpoch - (pos + 1)) + 2}
      BY <2>3 DEF StepsLeft, StepsFrom, Stopped, later
    <3> QED
      BY <1>1, <1>2, <1>4, <2>2, <3>1
  <2>4. CASE phase' \in Stopped
    BY <1>3, <2>2, <2>4 DEF Stopped
  <2> QED
    BY <2>2, <2>3, <2>4
<1>7. CASE Update
  <2>1. phase = "update"
        /\ \/ phase' = "collect" /\ pos' = pos /\ epoch' = epoch
           \/ phase' \in Stopped
    BY <1>7 DEF Update, Stop, Stopped
  <2>2. CASE phase' = "collect" /\ pos' = pos /\ epoch' = epoch
    <3>1. StepsLeft' = later + 2 * (BatchesPerEpoch - pos) + 1
      BY <2>2 DEF StepsLeft, StepsFrom, Stopped, later
    <3> QED
      BY <1>1, <1>2, <1>5, <2>1, <3>1
  <2>3. CASE phase' \in Stopped
    BY <1>3, <2>1, <2>3 DEF Stopped
  <2> QED
    BY <2>1, <2>2, <2>3
<1>8. CASE EpochEnd
  <2>1. phase = "collect" /\ pos = BatchesPerEpoch
        /\ \/ phase' = phase /\ pos' = 0 /\ epoch' = epoch + 1
           \/ phase' \in Stopped
    BY <1>8 DEF EpochEnd, Stop, Stopped
  <2>2. CASE phase' = phase /\ pos' = 0 /\ epoch' = epoch + 1
    <3>1. StepsLeft' = EpochSteps * (TotalEpochs - 1 - (epoch + 1))
                       + 2 * (BatchesPerEpoch - 0) + 1
      BY <2>1, <2>2 DEF StepsLeft, StepsFrom, Stopped
    <3>2. EpochSteps * (TotalEpochs - 1 - (epoch + 1)) = later - (2 * BatchesPerEpoch + 1)
      BY <1>1, EpochsLeft DEF EpochSteps, later
    <3>3. StepsLeft' = later - (2 * BatchesPerEpoch + 1) + 2 * (BatchesPerEpoch - 0) + 1
      BY <3>1, <3>2
    <3>4. StepsLeft = later + 2 * (BatchesPerEpoch - BatchesPerEpoch) + 1
      BY <1>4, <2>1
    <3> QED
      BY <1>2, <3>3, <3>4
  <2>3. CASE phase' \in Stopped
    BY <1>3, <2>1, <2>3 DEF Stopped
  <2> QED
    BY <2>1, <2>2, <2>3
<1> QED
  BY <1>6, <1>7, <1>8 DEF RunStep

\* However many groups the filter drops, and without a limit on the generation
\* batches as well, fit does not draw for ever: each of its steps uses up one of
\* at most EpochSteps for each epoch and one more, since what has been collected
\* goes from one epoch to the next and starts no epoch again.
THEOREM DrawingRunsOut ==
    Spec => /\ [](StepsLeft \in 0..(EpochSteps * TotalEpochs + 1))
            /\ [][RunStep => StepsLeft' < StepsLeft]_vars
<1>1. SampleInv => StepsLeft \in 0..(EpochSteps * TotalEpochs + 1)
  BY StepsFromBounded DEF SampleInv, CounterInv, StepsLeft
<1>2. SampleInv => [RunStep => StepsLeft' < StepsLeft]_vars
  BY StepRunsOut DEF SampleInv
<1> QED
  BY <1>1, <1>2, AlwaysSampleInv, PTL

=============================================================================
