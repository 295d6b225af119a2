--------------------------- MODULE Batches_proofs ---------------------------
(***************************************************************************)
(* Theorems about SeqlenBalance, for every batch, every number of ranks    *)
(* and of micro-batches; about DataParallel, for every number of ranks,    *)
(* groups and rows; and that the first keeps what the second relies on.    *)
(***************************************************************************)
EXTENDS SeqlenBalance, DataParallel, FiniteSetTheorems, SequenceTheorems, WellFoundedInduction, TLAPS

(***************************************************************************)
(* Induction over numbers and over finite sets.                            *)
(***************************************************************************)

\* Every set of natural numbers has a least one.
LEMMA LeastNumber ==
    ASSUME NEW T \in SUBSET Nat, T # {}
    PROVE  \E m \in T : \A x \in T : m <= x
<1> DEFINE R == OpToRel(<, Nat)
<1>1. IsWellFoundedOn(R, Nat)
  BY NatLessThanWellFounded
<1>2. R = {p \in Nat \X Nat : p[1] < p[2]}
  BY DEF OpToRel
<1> HIDE DEF R
<1>3. \A x, m \in Nat : x < m => <<x, m>> \in R
  BY <1>2
<1>4. PICK m \in T : \A x \in T : ~(<<x, m>> \in R)
  BY <1>1, WFMin
<1>5. ASSUME NEW x \in T
      PROVE  m <= x
  <2>1. x \in Nat /\ m \in Nat
    OBVIOUS
  <2>2. ~(x < m)
    BY <2>1, <1>3, <1>4
  <2> QED
    BY <2>1, <2>2
<1> QED
  BY <1>5

\* So a set that has 0, and with every number below n the next one, has all the
\* numbers up to n.
LEMMA UpToInduction ==
    ASSUME NEW n \in Nat, NEW good,
           0 \in good,
           \A i \in 0..(n - 1) : i \in good => i + 1 \in good
    PROVE  \A i \in 0..n : i \in good
<1> DEFINE bad == {i \in 0..n : i \notin good}
<1> SUFFICES ASSUME bad # {}
             PROVE  FALSE
  OBVIOUS
<1>1. bad \in SUBSET Nat
  OBVIOUS
<1>2. PICK m \in bad : \A x \in bad : m <= x
  <2> HIDE DEF bad
  <2> QED
    BY <1>1, LeastNumber
<1>3. m \in 1..n /\ m \notin good
  OBVIOUS
<1>4. m - 1 \in 0..(n - 1) /\ m - 1 \in 0..n /\ (m - 1) + 1 = m
  BY <1>3
<1>5. m - 1 \in good
  <2>1. m - 1 \notin bad
    <3>1. ~(m <= m - 1)
      BY <1>3
    <3> QED
      BY <1>2, <3>1
  <2> QED
    BY <1>4, <2>1
<1> QED
  BY <1>3, <1>4, <1>5

\* The subsets of S with at most k elements.
UpTo(S, m) == {s \in SUBSET S : Cardinality(s) <= m}

LEMMA WithoutOne ==
    ASSUME NEW s, IsFiniteSet(s), s # {}
    PROVE  LET x == CHOOSE x \in s : TRUE
           IN  /\ x \in s /\ IsFiniteSet(s \ {x})
               /\ Cardinality(s) \in Nat /\ Cardinality(s \ {x}) = Cardinality(s) - 1
<1> DEFINE x == CHOOSE x \in s : TRUE
<1>1. x \in s
  OBVIOUS
<1> HIDE DEF x
<1>2. /\ IsFiniteSet(s \ {x}) /\ Cardinality(s \ {x}) = Cardinality(s) - 1
  BY <1>1, FS_RemoveElement
<1>3. Cardinality(s) \in Nat
  BY FS_CardinalityType
<1> QED
  BY <1>1, <1>2, <1>3 DEF x

\* A family of sets that has the empty one, and with each subset of S all those
\* with one element more, has S.
LEMMA SubsetInduction ==
    ASSUME NEW S, IsFiniteSet(S), NEW family, {} \in family,
           \A s \in SUBSET S : \A x \in S \ s : s \in family => s \cup {x} \in family
    PROVE  S \in family
<1> DEFINE n == Cardinality(S)
           good == {m \in 0..n : \A s \in SUBSET S : Cardinality(s) = m => s \in family}
<1>1. n \in Nat
  BY FS_CardinalityType
<1>2. \A s \in SUBSET S : IsFiniteSet(s) /\ Cardinality(s) \in Nat
  BY FS_Subset, FS_CardinalityType
<1>3. 0 \in good
  <2>1. \A s \in SUBSET S : Cardinality(s) = 0 => s = {}
    BY <1>2, FS_EmptySet
  <2> QED
    BY <1>1, <2>1
<1>4. ASSUME NEW m \in 0..(n - 1), m \in good
      PROVE  m + 1 \in good
  <2>1. ASSUME NEW s \in SUBSET S, Cardinality(s) = m + 1
        PROVE  s \in family
    <3>1. IsFiniteSet(s) /\ s # {}
      BY <1>2, <2>1, FS_EmptySet
    <3>2. PICK x \in s : TRUE
      BY <3>1
    <3>3. Cardinality(s \ {x}) = m
      <4>1. Cardinality(s \ {x}) = Cardinality(s) - 1
        BY <3>1, <3>2, FS_RemoveElement
      <4> QED
        BY <2>1, <4>1
    <3>4. s \ {x} \in family
      BY <1>4, <3>3
    <3>5. s = (s \ {x}) \cup {x} /\ x \in S \ (s \ {x}) /\ s \ {x} \in SUBSET S
      BY <3>2
    <3> QED
      BY <3>4, <3>5
  <2>2. m + 1 \in 0..n
    BY <1>1
  <2> QED
    BY <2>1, <2>2
<1> HIDE DEF good
<1>5. n \in good
  <2>1. n \in 0..n
    BY <1>1
  <2> QED
    BY <1>1, <1>3, <1>4, <2>1, UpToInduction
<1> QED
  BY <1>5 DEF good

(***************************************************************************)
(* Total: the sum of the lengths of the items of a set.                    *)
(***************************************************************************)

\* The sums over the sets of places in D, taken one place at a time.
IsSum(f, q, set, D) ==
    f = [s \in D |-> IF s = {} THEN 0
                     ELSE LET x == CHOOSE x \in s : TRUE IN f[s \ {x}] + q[set[x]]]

Sums(q, set) == CHOOSE f : IsSum(f, q, set, SUBSET DOMAIN set)

LEMMA TotalIsSum ==
    ASSUME NEW q, NEW set
    PROVE  Total(q, set) = Sums(q, set)[DOMAIN set]
BY Zenon DEF Total, FoldSeq, FoldFunction, FoldFunctionOnSet, MapThenFoldSet, Sums, IsSum

LEMMA SumExists ==
    ASSUME NEW q, NEW set, NEW S, IsFiniteSet(S)
    PROVE  \E f : IsSum(f, q, set, SUBSET S)
<1> DEFINE n == Cardinality(S)
           good == {m \in 0..n : \E f : IsSum(f, q, set, UpTo(S, m))}
           x(s) == CHOOSE x \in s : TRUE
           g(y) == q[set[y]]
<1>1. n \in Nat
  BY FS_CardinalityType
<1>2. \A s \in SUBSET S : IsFiniteSet(s) /\ Cardinality(s) \in Nat /\ Cardinality(s) <= n
  BY FS_Subset, FS_CardinalityType
<1>3. 0 \in good
  <2> DEFINE f == [s \in UpTo(S, 0) |-> 0]
  <2>1. \A s \in UpTo(S, 0) : s = {}
    BY <1>2, FS_EmptySet DEF UpTo
  <2>2. IsSum(f, q, set, UpTo(S, 0))
    BY <2>1 DEF IsSum
  <2> QED
    BY <1>1, <2>2
<1>4. ASSUME NEW m \in 0..(n - 1), m \in good
      PROVE  m + 1 \in good
  <2>1. PICK f : IsSum(f, q, set, UpTo(S, m))
    BY <1>4
  <2> DEFINE h == [s \in UpTo(S, m + 1) |->
                     IF s = {} THEN 0 ELSE f[s \ {x(s)}] + g(x(s))]
  <2>2. ASSUME NEW s \in UpTo(S, m + 1), s # {}
        PROVE  h[s \ {x(s)}] = f[s \ {x(s)}]
    <3> DEFINE r == s \ {x(s)}
    <3>1. s \in SUBSET S /\ IsFiniteSet(s) /\ Cardinality(s) <= m + 1
      BY <1>2 DEF UpTo
    <3>2. Cardinality(r) = Cardinality(s) - 1 /\ Cardinality(s) \in Nat
      BY <2>2, <3>1, WithoutOne
    <3>3. r \in UpTo(S, m) /\ r \in UpTo(S, m + 1)
      BY <3>1, <3>2 DEF UpTo
    <3> HIDE DEF r
    <3>4. f[r] = IF r = {} THEN 0 ELSE f[r \ {x(r)}] + g(x(r))
      BY <2>1, <3>3 DEF IsSum
    <3> QED
      BY <3>3, <3>4 DEF r
  <2>3. IsSum(h, q, set, UpTo(S, m + 1))
    <3>1. \A s \in UpTo(S, m + 1) :
             h[s] = IF s = {} THEN 0 ELSE h[s \ {x(s)}] + g(x(s))
      <4>1. \A s \in UpTo(S, m + 1) :
               h[s] = IF s = {} THEN 0 ELSE f[s \ {x(s)}] + g(x(s))
        BY Zenon
      <4> HIDE DEF h, x, g
      <4> QED
        BY <2>2, <4>1
    <3>2. h = [s \in UpTo(S, m + 1) |-> h[s]]
      OBVIOUS
    <3> HIDE DEF h
    <3>3. h = [s \in UpTo(S, m + 1) |-> IF s = {} THEN 0 ELSE h[s \ {x(s)}] + g(x(s))]
      BY <3>1, <3>2
    <3> QED
      BY <3>3, Zenon DEF IsSum
  <2>4. m + 1 \in 0..n
    BY <1>1
  <2> QED
    BY <2>3, <2>4
<1> HIDE DEF good
<1>5. n \in good
  <2>1. n \in 0..n
    BY <1>1
  <2> QED
    BY <1>1, <1>3, <1>4, <2>1, UpToInduction
<1>6. UpTo(S, n) = SUBSET S
  BY <1>2 DEF UpTo
<1> QED
  BY <1>5, <1>6 DEF good

\* The lengths of a batch, and sets of its items.
IsBatch(q) == q \in Seq(Nat \ {0})
IsItemSet(q, set) == set \in Seq(1..Len(q))

\* What matters of a sum: it can be taken from any place on.
Additive(f, q, set) ==
    /\ f[{}] = 0
    /\ \A s \in SUBSET DOMAIN set : f[s] \in Nat
    /\ \A s \in SUBSET DOMAIN set : \A x \in s :
          f[s] = f[s \ {x}] + q[set[x]] /\ q[set[x]] \in Nat \ {0}

LEMMA SumsAdditive ==
    ASSUME NEW q, NEW set, IsBatch(q), IsItemSet(q, set)
    PROVE  Additive(Sums(q, set), q, set) /\ IsFiniteSet(DOMAIN set)
<1> DEFINE S == DOMAIN set
           n == Cardinality(S)
           f == Sums(q, set)
           good == {m \in 0..n : \A s \in UpTo(S, m) :
                       /\ f[s] \in Nat
                       /\ \A x \in s : f[s] = f[s \ {x}] + q[set[x]]}
           c(s) == CHOOSE x \in s : TRUE
<1>0. IsFiniteSet(S) /\ \A x \in S : q[set[x]] \in Nat \ {0}
  <2>1. S = 1..Len(set) /\ Len(set) \in Nat
    BY DEF IsItemSet
  <2>2. IsFiniteSet(S)
    BY <2>1, FS_Interval
  <2> QED
    BY <2>1, <2>2 DEF IsItemSet, IsBatch
<1>1. n \in Nat
  BY <1>0, FS_CardinalityType
<1>2. \A s \in SUBSET S : IsFiniteSet(s) /\ Cardinality(s) \in Nat /\ Cardinality(s) <= n
  BY <1>0, FS_Subset, FS_CardinalityType
<1>3. \A s \in SUBSET S : f[s] = IF s = {} THEN 0 ELSE f[s \ {c(s)}] + q[set[c(s)]]
  <2>1. IsSum(f, q, set, SUBSET S)
    <3>1. \E h : IsSum(h, q, set, SUBSET S)
      BY <1>0, SumExists
    <3> QED
      BY <3>1, Zenon DEF Sums
  <2> HIDE DEF f, S
  <2> QED
    BY <2>1, Zenon DEF IsSum
<1> HIDE DEF f, S
<1>4. f[{}] = 0
  BY <1>3, Zenon
<1>5. 0 \in good
  <2>1. \A s \in UpTo(S, 0) : s = {}
    BY <1>2, FS_EmptySet DEF UpTo
  <2>2. \A s \in UpTo(S, 0) : f[s] \in Nat /\ \A x \in s : f[s] = f[s \ {x}] + q[set[x]]
    <3>1. 0 \in Nat /\ \A x : x \notin {}
      OBVIOUS
    <3>2. f[{}] \in Nat
      BY <1>4, <3>1, Zenon
    <3> QED
      BY <2>1, <3>1, <3>2, Zenon
  <2>3. 0 \in 0..n
    BY <1>1
  <2> QED
    BY <2>2, <2>3, Zenon
<1>6. ASSUME NEW m \in 0..(n - 1), m \in good
      PROVE  m + 1 \in good
  <2>1. ASSUME NEW s \in UpTo(S, m + 1), NEW x \in s
        PROVE  f[s] \in Nat /\ f[s] = f[s \ {x}] + q[set[x]]
    <3> DEFINE y == c(s)
    <3>1. s \in SUBSET S /\ IsFiniteSet(s) /\ Cardinality(s) <= m + 1 /\ s # {}
          /\ Cardinality(s) \in Nat
      BY <1>2 DEF UpTo
    <3>2. y \in s
      BY <3>1
    <3>3. f[s] = f[s \ {y}] + q[set[y]]
      BY <1>3, <3>1, Zenon
    <3> HIDE DEF c
    <3>4. \A z \in s : s \ {z} \in UpTo(S, m)
      <4>1. ASSUME NEW z \in s
            PROVE  s \ {z} \in UpTo(S, m)
        <5>1. Cardinality(s \ {z}) = Cardinality(s) - 1
          BY <3>1, FS_RemoveElement
        <5>2. s \ {z} \in SUBSET S
          BY <3>1
        <5> QED
          BY <3>1, <5>1, <5>2 DEF UpTo
      <4> QED
        BY <4>1
    <3> HIDE DEF y
    <3>5. \A z \in s : f[s \ {z}] \in Nat /\ q[set[z]] \in Nat
      BY <1>0, <1>6, <3>1, <3>4
    <3>6. CASE x = y
      <4>1. f[s] = f[s \ {x}] + q[set[x]]
        BY <3>3, <3>6
      <4> QED
        BY <3>5, <4>1
    <3>7. CASE x # y
      <4>1. x \in s \ {y} /\ y \in s \ {x} /\ (s \ {y}) \ {x} = (s \ {x}) \ {y}
        BY <3>2, <3>7
      <4>2. f[s \ {y}] = f[(s \ {y}) \ {x}] + q[set[x]]
        BY <1>6, <3>2, <3>4, <4>1
      <4>3. f[s \ {x}] = f[(s \ {x}) \ {y}] + q[set[y]]
        BY <1>6, <3>4, <4>1
      <4>4. f[(s \ {x}) \ {y}] \in Nat
        <5>1. (s \ {x}) \ {y} \in UpTo(S, m)
          <6>1. Cardinality((s \ {x}) \ {y}) = Cardinality(s \ {x}) - 1
                /\ Cardinality(s \ {x}) = Cardinality(s) - 1
            BY <3>1, <4>1, FS_RemoveElement
          <6>2. (s \ {x}) \ {y} \in SUBSET S
            BY <3>1
          <6> QED
            BY <3>1, <6>1, <6>2 DEF UpTo
        <5> QED
          BY <1>6, <5>1
      <4>5. q[set[x]] \in Nat /\ q[set[y]] \in Nat /\ f[s \ {x}] \in Nat /\ f[s \ {y}] \in Nat
        BY <3>2, <3>5
      <4> DEFINE both == f[(s \ {x}) \ {y}]
      <4>6. f[s] = (both + q[set[x]]) + q[set[y]] /\ f[s \ {x}] = both + q[set[y]]
        BY <3>3, <4>1, <4>2, <4>3
      <4> HIDE DEF both
      <4> QED
        BY <4>4, <4>5, <4>6 DEF both
    <3> QED
      BY <3>6, <3>7
  <2>2. m + 1 \in 0..n
    BY <1>1
  <2>3. \A s \in UpTo(S, m + 1) : s = {} \/ \E x \in s : TRUE
    OBVIOUS
  <2>4. \A s \in UpTo(S, m + 1) : f[s] \in Nat
    <3>1. 0 \in Nat
      OBVIOUS
    <3>2. f[{}] \in Nat
      BY <1>4, <3>1, Zenon
    <3> QED
      BY <2>1, <2>3, <3>2, Zenon
  <2> QED
    BY <2>1, <2>2, <2>4
<1> HIDE DEF good
<1>7. n \in good
  <2>1. n \in 0..n
    BY <1>1
  <2> QED
    BY <1>1, <1>5, <1>6, <2>1, UpToInduction
<1>8. UpTo(S, n) = SUBSET S
  BY <1>2 DEF UpTo
<1>9. \A s \in SUBSET S : f[s] \in Nat /\ \A x \in s : f[s] = f[s \ {x}] + q[set[x]]
  BY <1>7, <1>8 DEF good
<1> QED
  BY <1>0, <1>4, <1>9 DEF Additive, S, f

Moved(move, S) == {move[x] : x \in S}

\* A sum does not depend on the places that its items have.
LEMMA SumMoved ==
    ASSUME NEW q, NEW a, NEW b, NEW f, NEW g, Additive(f, q, a), Additive(g, q, b),
           NEW S \in SUBSET DOMAIN a, IsFiniteSet(S), NEW move \in [S -> DOMAIN b],
           \A x, y \in S : move[x] = move[y] => x = y,
           \A x \in S : b[move[x]] = a[x]
    PROVE  f[S] = g[Moved(move, S)]
<1> DEFINE family == {s \in SUBSET S : f[s] = g[Moved(move, s)]}
<1>1. {} \in family
  <2>1. Moved(move, {}) = {}
    BY DEF Moved
  <2>2. f[{}] = 0 /\ g[{}] = 0
    BY DEF Additive
  <2> QED
    BY <2>1, <2>2
<1>2. ASSUME NEW s \in SUBSET S, NEW x \in S \ s, s \in family
      PROVE  s \cup {x} \in family
  <2> DEFINE t == s \cup {x}
             y == move[x]
  <2>1. Moved(move, t) = Moved(move, s) \cup {y} /\ y \notin Moved(move, s)
    BY DEF Moved
  <2>2. Moved(move, t) \in SUBSET DOMAIN b /\ y \in Moved(move, t) /\ Moved(move, t) \ {y} = Moved(move, s)
    <3>1. Moved(move, t) \in SUBSET DOMAIN b
      BY DEF Moved
    <3> HIDE DEF y, t
    <3> QED
      BY <2>1, <3>1
  <2>3. t \in SUBSET DOMAIN a /\ x \in t /\ t \ {x} = s /\ t \in SUBSET S
    OBVIOUS
  <2>4. b[y] = a[x]
    OBVIOUS
  <2>5. f[s] = g[Moved(move, s)]
    BY <1>2
  <2> HIDE DEF t, y
  <2>6. f[t] = f[s] + q[a[x]]
    BY <2>3, Zenon DEF Additive
  <2>7. g[Moved(move, t)] = g[Moved(move, s)] + q[b[y]]
    <3>1. g[Moved(move, t)] = g[Moved(move, t) \ {y}] + q[b[y]]
      BY <2>2, Zenon DEF Additive
    <3> QED
      BY <2>2, <3>1
  <2>8. f[t] = g[Moved(move, t)]
    BY <2>4, <2>5, <2>6, <2>7, Zenon
  <2> QED
    BY <2>3, <2>8 DEF t
<1> HIDE DEF family
<1>3. S \in family
  BY <1>1, <1>2, SubsetInduction
<1> QED
  BY <1>3 DEF family

\* The sum over two sets of places.
LEMMA SumJoined ==
    ASSUME NEW q, NEW a, NEW f, Additive(f, q, a), NEW R \in SUBSET DOMAIN a,
           NEW S \in SUBSET DOMAIN a, IsFiniteSet(S), R \cap S = {}
    PROVE  f[R \cup S] = f[R] + f[S]
<1> DEFINE family == {s \in SUBSET S : f[R \cup s] = f[R] + f[s]}
<1>1. {} \in family
  <2>1. f[{}] = 0 /\ f[R] \in Nat /\ R \cup {} = R
    BY DEF Additive
  <2> QED
    BY <2>1
<1>2. ASSUME NEW s \in SUBSET S, NEW x \in S \ s, s \in family
      PROVE  s \cup {x} \in family
  <2> DEFINE t == s \cup {x}
             all == R \cup t
  <2>1. t \in SUBSET DOMAIN a /\ x \in t /\ t \ {x} = s /\ t \in SUBSET S /\ s \in SUBSET DOMAIN a
    OBVIOUS
  <2>2. all \in SUBSET DOMAIN a /\ x \in all /\ all \ {x} = R \cup s
    OBVIOUS
  <2>3. f[R \cup s] = f[R] + f[s]
    BY <1>2
  <2> HIDE DEF t, all
  <2>4. f[t] = f[s] + q[a[x]] /\ q[a[x]] \in Nat
    <3>1. f[t] = f[t \ {x}] + q[a[x]] /\ q[a[x]] \in Nat \ {0}
      BY <2>1, Zenon DEF Additive
    <3> QED
      BY <2>1, <3>1
  <2>5. f[all] = f[R \cup s] + q[a[x]]
    <3>1. f[all] = f[all \ {x}] + q[a[x]]
      BY <2>2, Zenon DEF Additive
    <3> QED
      BY <2>2, <3>1
  <2>6. f[R] \in Nat /\ f[s] \in Nat
    BY <2>1, Zenon DEF Additive
  <2>7. f[all] = f[R] + f[t]
    BY <2>3, <2>4, <2>5, <2>6
  <2> QED
    BY <2>1, <2>7 DEF t, all
<1> HIDE DEF family
<1>3. S \in family
  BY <1>1, <1>2, SubsetInduction
<1> QED
  BY <1>3 DEF family

LEMMA TotalMoved ==
    ASSUME NEW q, NEW a, NEW b, IsBatch(q), IsItemSet(q, a), IsItemSet(q, b),
           NEW move \in [DOMAIN a -> DOMAIN b],
           \A x, y \in DOMAIN a : move[x] = move[y] => x = y,
           \A y \in DOMAIN b : \E x \in DOMAIN a : move[x] = y,
           \A x \in DOMAIN a : b[move[x]] = a[x]
    PROVE  Total(q, a) = Total(q, b)
<1> DEFINE f == Sums(q, a)
           g == Sums(q, b)
<1>1. Additive(f, q, a) /\ Additive(g, q, b) /\ IsFiniteSet(DOMAIN a)
  BY SumsAdditive
<1>2. Total(q, a) = f[DOMAIN a] /\ Total(q, b) = g[DOMAIN b]
  BY TotalIsSum
<1> HIDE DEF f, g
<1>3. Moved(move, DOMAIN a) = DOMAIN b
  BY DEF Moved
<1>4. f[DOMAIN a] = g[Moved(move, DOMAIN a)]
  BY <1>1, SumMoved
<1> QED
  BY <1>2, <1>3, <1>4

\* The empty set has a total of 0, every other one a positive one.
LEMMA TotalFacts ==
    ASSUME NEW q, NEW set, IsBatch(q), IsItemSet(q, set)
    PROVE  /\ Total(q, set) \in Nat
           /\ set = <<>> <=> Total(q, set) = 0
<1> DEFINE f == Sums(q, set)
           S == DOMAIN set
<1>1. Additive(f, q, set) /\ Total(q, set) = f[S]
  BY SumsAdditive, TotalIsSum
<1> HIDE DEF f
<1>2. f[S] \in Nat
  BY <1>1 DEF Additive
<1>3. CASE set = <<>>
  <2>1. S = {}
    BY <1>3
  <2> HIDE DEF S
  <2> QED
    BY <1>1, <1>3, <2>1 DEF Additive
<1>4. CASE set # <<>>
  <2>1. 1 \in S
    BY <1>4 DEF IsItemSet
  <2>2. f[S] = f[S \ {1}] + q[set[1]] /\ q[set[1]] \in Nat \ {0} /\ f[S \ {1}] \in Nat
    BY <1>1, <2>1 DEF Additive
  <2> QED
    BY <1>1, <1>4, <2>2
<1> QED
  BY <1>1, <1>2, <1>3, <1>4

LEMMA TotalOfJoined ==
    ASSUME NEW q, NEW a, NEW b, IsBatch(q), IsItemSet(q, a), IsItemSet(q, b)
    PROVE  IsItemSet(q, a \o b) /\ Total(q, a \o b) = Total(q, a) + Total(q, b)
<1> DEFINE c == a \o b
           m == Len(a)
           n == Len(b)
           A == 1..m
           B == (m + 1)..(m + n)
           f == Sums(q, a)
           g == Sums(q, b)
           h == Sums(q, c)
<1>1. /\ m \in Nat /\ n \in Nat /\ DOMAIN a = A /\ DOMAIN b = 1..n /\ DOMAIN c = 1..(m + n)
      /\ \A i \in A : c[i] = a[i]
      /\ \A i \in B : c[i] = b[i - m]
      /\ IsItemSet(q, c)
  BY DEF IsItemSet
<1>2. /\ Additive(f, q, a) /\ Additive(g, q, b) /\ Additive(h, q, c)
      /\ Total(q, a) = f[DOMAIN a] /\ Total(q, b) = g[DOMAIN b] /\ Total(q, c) = h[DOMAIN c]
  BY <1>1, SumsAdditive, TotalIsSum
<1> HIDE DEF c, f, g, h, m, n
<1>3. A \cup B = DOMAIN c /\ A \cap B = {} /\ IsFiniteSet(A) /\ IsFiniteSet(B)
  <2>1. 1 \in Int /\ m \in Int /\ m + 1 \in Int /\ m + n \in Int
    BY <1>1
  <2>2. IsFiniteSet(A) /\ IsFiniteSet(B)
    BY <2>1, FS_Interval, Zenon
  <2>3. \A i : i \in 1..(m + n) <=> i \in A \/ i \in B
    BY <1>1
  <2>4. \A i : ~(i \in A /\ i \in B)
    BY <1>1
  <2> HIDE DEF A, B
  <2> QED
    BY <1>1, <2>2, <2>3, <2>4
<1>4. h[DOMAIN c] = h[A] + h[B]
  <2> HIDE DEF A, B
  <2>1. A \in SUBSET DOMAIN c /\ B \in SUBSET DOMAIN c
    BY <1>3
  <2>2. h[A \cup B] = h[A] + h[B]
    BY <1>2, <1>3, <2>1, SumJoined
  <2> QED
    BY <1>3, <2>2
<1>5. h[A] = f[A]
  <2> DEFINE move == [i \in A |-> i]
  <2>1. move \in [A -> DOMAIN a] /\ Moved(move, A) = A
    BY <1>1 DEF Moved
  <2>2. A \in SUBSET DOMAIN c
    BY <1>1
  <2>3. \A i \in A : a[move[i]] = c[i]
    BY <1>1
  <2>4. \A i, j \in A : move[i] = move[j] => i = j
    OBVIOUS
  <2> HIDE DEF move, A, B
  <2>5. h[A] = f[Moved(move, A)]
    BY <1>2, <1>3, <2>1, <2>2, <2>3, <2>4, SumMoved
  <2> QED
    BY <2>1, <2>5
<1>6. h[B] = g[1..n]
  <2> DEFINE move == [i \in B |-> i - m]
  <2>1. move \in [B -> DOMAIN b]
    BY <1>1
  <2>2. B \in SUBSET DOMAIN c
    BY <1>1
  <2>3. \A i \in B : b[move[i]] = c[i]
    BY <1>1
  <2>4. \A i, j \in B : move[i] = move[j] => i = j
    BY <1>1
  <2>5. Moved(move, B) = 1..n
    <3>1. \A j \in 1..n : j + m \in B /\ move[j + m] = j
      BY <1>1
    <3>2. \A i \in B : move[i] \in 1..n
      BY <1>1
    <3> HIDE DEF move, B
    <3> QED
      BY <3>1, <3>2 DEF Moved
  <2> HIDE DEF move, A, B
  <2>6. h[B] = g[Moved(move, B)]
    BY <1>2, <1>3, <2>1, <2>2, <2>3, <2>4, SumMoved
  <2> QED
    BY <2>5, <2>6
<1> QED
  BY <1>1, <1>2, <1>4, <1>5, <1>6 DEF c

(***************************************************************************)
(* Sorting.                                                                *)
(***************************************************************************)

Permutes(order, n) ==
    /\ order \in [1..n -> 1..n]
    /\ \A p, r \in 1..n : order[p] = order[r] => p = r
    /\ \A i \in 1..n : \E p \in 1..n : order[p] = i

\* The places ahead of each place are those that come before it in one order.
IsOrder(ahead, n) ==
    /\ ahead = [i \in 1..n |-> ahead[i]]
    /\ \A i \in 1..n : ahead[i] \subseteq (1..n) \ {i}
    /\ \A i, j \in 1..n : i # j => i \in ahead[j] \/ j \in ahead[i]
    /\ \A i, j, l \in 1..n : i \in ahead[j] /\ j \in ahead[l] => i \in ahead[l]

Follows(order, ahead, n) ==
    \A p, r \in 1..n : p < r => order[p] \in ahead[order[r]]

\* The number of places ahead of a place is its rank; so there is one place of
\* each rank, and Places brings them in order.
LEMMA PlacesSort ==
    ASSUME NEW n \in Nat, NEW ahead, IsOrder(ahead, n)
    PROVE  Permutes(Places(ahead), n) /\ Follows(Places(ahead), ahead, n)
<1> DEFINE N == 1..n
           rank == [i \in N |-> Cardinality(ahead[i])]
           order == Places(ahead)
<1>1. /\ DOMAIN ahead = N
      /\ \A i \in N : ahead[i] \subseteq N \ {i}
      /\ \A i, j \in N : i # j => i \in ahead[j] \/ j \in ahead[i]
      /\ \A i, j, l \in N : i \in ahead[j] /\ j \in ahead[l] => i \in ahead[l]
  BY DEF IsOrder
<1>2. IsFiniteSet(N) /\ Cardinality(N) = n
  BY FS_Interval
<1>3. \A i \in N : rank[i] = Cardinality(ahead[i])
  BY Zenon
<1>4. \A i \in N : IsFiniteSet(ahead[i]) /\ rank[i] \in 0..(n - 1)
  <2>1. ASSUME NEW i \in N
        PROVE  IsFiniteSet(ahead[i]) /\ rank[i] \in 0..(n - 1)
    <3>1. IsFiniteSet(N \ {i}) /\ Cardinality(N \ {i}) = n - 1
      <4> HIDE DEF N
      <4> QED
        BY <1>2, FS_RemoveElement
    <3>2. ahead[i] \in SUBSET (N \ {i})
      BY <1>1
    <3>3. IsFiniteSet(ahead[i]) /\ Cardinality(ahead[i]) <= n - 1
      BY <3>1, <3>2, FS_Subset
    <3>4. Cardinality(ahead[i]) \in Nat
      BY <3>3, FS_CardinalityType
    <3> QED
      BY <1>3, <3>3, <3>4
  <2> QED
    BY <2>1
<1> HIDE DEF rank
<1>5. ASSUME NEW i \in N, NEW j \in N, i \in ahead[j]
      PROVE  rank[i] < rank[j]
  <2>1. ahead[i] \in SUBSET ahead[j] /\ ahead[i] # ahead[j]
    BY <1>1, <1>5
  <2>2. /\ Cardinality(ahead[i]) <= Cardinality(ahead[j])
        /\ Cardinality(ahead[j]) = Cardinality(ahead[i]) => ahead[j] = ahead[i]
    BY <1>4, <2>1, FS_Subset
  <2>3. rank[i] \in Int /\ rank[j] \in Int
    BY <1>4
  <2> QED
    BY <1>3, <2>1, <2>2, <2>3
<1>6. \A i, j \in N : rank[i] = rank[j] => i = j
  <2>1. \A i \in N : rank[i] \in Int
    BY <1>4
  <2> HIDE DEF N
  <2>2. \A i, j \in N : i # j => rank[i] < rank[j] \/ rank[j] < rank[i]
    BY <1>1, <1>5
  <2> QED
    BY <2>1, <2>2
<1>7. \A p \in N : \E i \in N : rank[i] = p - 1
  <2> DEFINE g == [i \in N |-> rank[i] + 1]
  <2>1. g \in [N -> N]
    BY <1>4
  <2>2. \A i, j \in N : g[i] = g[j] => i = j
    <3>1. \A i \in N : rank[i] \in Int /\ g[i] = rank[i] + 1
      BY <1>4
    <3> HIDE DEF g, N
    <3> QED
      BY <1>6, <3>1
  <2> HIDE DEF g, N
  <2>3. g \in Injection(N, N)
    BY <2>1, <2>2 DEF Injection, IsInjective
  <2>4. g \in Surjection(N, N)
    BY <1>2, <2>3, FS_Injection
  <2>5. \A p \in N : \E i \in N : g[i] = p
    BY <2>4 DEF Surjection
  <2>6. \A i \in N : g[i] = rank[i] + 1 /\ rank[i] \in Int
    BY <1>4 DEF g, N
  <2> QED
    BY <2>5, <2>6
<1>8. \A p \in N : order[p] \in N /\ rank[order[p]] = p - 1
  <2>1. ASSUME NEW p \in N
        PROVE  order[p] \in N /\ rank[order[p]] = p - 1
    <3> HIDE DEF N
    <3>1. order[p] = CHOOSE i \in N : Cardinality(ahead[i]) = p - 1
      BY <1>1, Zenon DEF Places
    <3>2. \E i \in N : Cardinality(ahead[i]) = p - 1
      BY <1>3, <1>7
    <3>3. order[p] \in N /\ Cardinality(ahead[order[p]]) = p - 1
      <4> HIDE DEF order
      <4> QED
        BY <3>1, <3>2, Zenon
    <3> QED
      BY <1>3, <3>3
  <2> QED
    BY <2>1
<1>9. order = [p \in N |-> order[p]]
  BY <1>1 DEF Places
<1> HIDE DEF order
<1>10. Permutes(order, n)
  <2>1. \A p, r \in N : order[p] = order[r] => p = r
    <3>1. \A p, r \in N : p - 1 = r - 1 => p = r
      OBVIOUS
    <3> HIDE DEF N
    <3> QED
      BY <1>8, <3>1, Zenon
  <2>2. ASSUME NEW i \in N
        PROVE  \E p \in N : order[p] = i
    <3>1. rank[i] + 1 \in N /\ (rank[i] + 1) - 1 = rank[i]
      BY <1>4
    <3> HIDE DEF N
    <3>2. order[rank[i] + 1] \in N /\ rank[order[rank[i] + 1]] = rank[i]
      BY <1>8, <3>1
    <3> QED
      BY <1>6, <3>1, <3>2
  <2>3. order \in [N -> N]
    <3> HIDE DEF N
    <3> QED
      BY <1>8, <1>9
  <2> QED
    BY <2>1, <2>2, <2>3 DEF Permutes
<1>11. Follows(order, ahead, n)
  <2>1. ASSUME NEW p \in N, NEW r \in N, p < r
        PROVE  order[p] \in ahead[order[r]]
    <3> DEFINE i == order[p]
               j == order[r]
    <3>1. i \in N /\ j \in N /\ rank[i] < rank[j]
      BY <1>8, <2>1
    <3>2. rank[i] \in Int /\ rank[j] \in Int
      BY <1>4, <3>1
    <3> HIDE DEF i, j
    <3>3. ~(j \in ahead[i])
      BY <1>5, <3>1, <3>2
    <3>4. i # j
      BY <3>1, <3>2
    <3>5. i \in ahead[j]
      BY <1>1, <3>1, <3>3, <3>4
    <3> QED
      BY <3>5 DEF i, j
  <2> QED
    BY <2>1 DEF Follows
<1> QED
  BY <1>10, <1>11 DEF order

\* Triples of numbers compared lexicographically.
TripleLess(a, b, c, x, y, z) == a < x \/ (a = x /\ (b < y \/ (b = y /\ c < z)))

TripleOrdered(a, b, c, x, y, z) ==
    /\ \/ TripleLess(a, b, c, x, y, z)
       \/ TripleLess(x, y, z, a, b, c)
       \/ a = x /\ b = y /\ c = z
    /\ ~(TripleLess(a, b, c, x, y, z) /\ TripleLess(x, y, z, a, b, c))

LEMMA TripleTotal ==
    ASSUME NEW a \in Int, NEW b \in Int, NEW c \in Int,
           NEW x \in Int, NEW y \in Int, NEW z \in Int
    PROVE  TripleOrdered(a, b, c, x, y, z)
  BY DEF TripleOrdered, TripleLess

LEMMA TripleTransitive ==
    ASSUME NEW a \in Int, NEW b \in Int, NEW c \in Int,
           NEW x \in Int, NEW y \in Int, NEW z \in Int,
           NEW u \in Int, NEW v \in Int, NEW w \in Int,
           TripleLess(a, b, c, x, y, z), TripleLess(x, y, z, u, v, w)
    PROVE  TripleLess(a, b, c, u, v, w)
<1>1. a <= x /\ x <= u
  BY DEF TripleLess
<1>2. CASE a < u
  BY <1>2 DEF TripleLess
<1>3. CASE a = u
  <2>1. a = x /\ x = u
    BY <1>1, <1>3
  <2>2. (b < y \/ (b = y /\ c < z)) /\ (y < v \/ (y = v /\ z < w))
    BY <2>1 DEF TripleLess
  <2>3. b < v \/ (b = v /\ c < w)
    BY <2>2
  <2> QED
    BY <1>3, <2>3 DEF TripleLess
<1> QED
  BY <1>1, <1>2, <1>3

\* Numbers compared lexicographically, the greater ones first and equal ones
\* as they were, come in one order.
KeyLess(T, L, F, i, j) == TripleLess(T[i], L[i], F[i], T[j], L[j], F[j])

KeyBefore(T, L, F, j, i) == KeyLess(T, L, F, i, j) \/ (~KeyLess(T, L, F, j, i) /\ j < i)

LEMMA KeysOrder ==
    ASSUME NEW n \in Nat, NEW T \in [1..n -> Int], NEW L \in [1..n -> Int],
           NEW F \in [1..n -> Int], NEW ahead,
           ahead = [i \in 1..n |-> {j \in 1..n : KeyBefore(T, L, F, j, i)}]
    PROVE  IsOrder(ahead, n)
<1> DEFINE N == 1..n
<1>1. \A i \in N : \A j \in N : j \in ahead[i] <=> KeyBefore(T, L, F, j, i)
  BY Zenon
<1>2. \A i \in N : ahead[i] \subseteq N
  BY Zenon
<1>3. \A i \in N : i \in Int /\ T[i] \in Int /\ L[i] \in Int /\ F[i] \in Int
  OBVIOUS
<1>4. ahead = [i \in N |-> ahead[i]]
  OBVIOUS
<1> HIDE DEF N
<1>5. ASSUME NEW i \in N
      PROVE  ~KeyBefore(T, L, F, i, i)
  BY <1>3 DEF KeyBefore, KeyLess, TripleLess
<1>6. ASSUME NEW i \in N, NEW j \in N, i # j
      PROVE  KeyBefore(T, L, F, i, j) \/ KeyBefore(T, L, F, j, i)
  <2>1. i \in Int /\ j \in Int
    BY <1>3
  <2>2. i < j \/ j < i
    BY <1>6, <2>1
  <2>3. \/ KeyLess(T, L, F, j, i) \/ (~KeyLess(T, L, F, i, j) /\ i < j)
        \/ KeyLess(T, L, F, i, j) \/ (~KeyLess(T, L, F, j, i) /\ j < i)
    BY <2>2, Zenon
  <2> QED
    BY <2>3, Zenon DEF KeyBefore
<1>7. ASSUME NEW i \in N, NEW j \in N, NEW l \in N,
             KeyBefore(T, L, F, i, j), KeyBefore(T, L, F, j, l)
      PROVE  KeyBefore(T, L, F, i, l)
  <2> DEFINE less(x, y) == KeyLess(T, L, F, x, y)
  <2>1. \A x, y \in N : less(x, y) \/ less(y, x) \/ (T[x] = T[y] /\ L[x] = L[y] /\ F[x] = F[y])
    <3>1. ASSUME NEW x \in N, NEW y \in N
          PROVE  less(x, y) \/ less(y, x) \/ (T[x] = T[y] /\ L[x] = L[y] /\ F[x] = F[y])
      <4>1. /\ T[x] \in Int /\ L[x] \in Int /\ F[x] \in Int
            /\ T[y] \in Int /\ L[y] \in Int /\ F[y] \in Int
        BY <1>3
      <4>2. TripleOrdered(T[x], L[x], F[x], T[y], L[y], F[y])
        BY <4>1, TripleTotal, Zenon
      <4> QED
        BY <4>2, Zenon DEF TripleOrdered, KeyLess
    <3> QED
      BY <3>1, Zenon
  <2>2. \A x, y, z \in N : less(x, y) /\ less(y, z) => less(x, z)
    <3>1. ASSUME NEW x \in N, NEW y \in N, NEW z \in N, less(x, y), less(y, z)
          PROVE  less(x, z)
      <4>1. /\ T[x] \in Int /\ T[y] \in Int /\ T[z] \in Int
            /\ L[x] \in Int /\ L[y] \in Int /\ L[z] \in Int
            /\ F[x] \in Int /\ F[y] \in Int /\ F[z] \in Int
        BY <1>3
      <4> QED
        BY <3>1, <4>1, TripleTransitive, Zenon DEF KeyLess
    <3> QED
      BY <3>1, Zenon
  <2>3. \A x, y \in N : less(x, y) => ~less(y, x)
    <3>1. ASSUME NEW x \in N, NEW y \in N
          PROVE  less(x, y) => ~less(y, x)
      <4>1. /\ T[x] \in Int /\ L[x] \in Int /\ F[x] \in Int
            /\ T[y] \in Int /\ L[y] \in Int /\ F[y] \in Int
        BY <1>3
      <4>2. TripleOrdered(T[x], L[x], F[x], T[y], L[y], F[y])
        BY <4>1, TripleTotal, Zenon
      <4> QED
        BY <4>2, Zenon DEF TripleOrdered, KeyLess
    <3> QED
      BY <3>1, Zenon
  <2>4. \A x, y, z \in N : T[x] = T[y] /\ L[x] = L[y] /\ F[x] = F[y] =>
           /\ less(x, z) <=> less(y, z)
           /\ less(z, x) <=> less(z, y)
    <3>1. ASSUME NEW x \in N, NEW y \in N, NEW z \in N,
                 T[x] = T[y], L[x] = L[y], F[x] = F[y]
          PROVE  (less(x, z) <=> less(y, z)) /\ (less(z, x) <=> less(z, y))
      <4>1. less(x, z) <=> less(y, z)
        BY <3>1 DEF KeyLess
      <4>2. less(z, x) <=> less(z, y)
        BY <3>1 DEF KeyLess
      <4> QED
        BY <4>1, <4>2
    <3> QED
      BY <3>1, Zenon
  <2>5. i \in Int /\ j \in Int /\ l \in Int
    BY <1>3
  <2>6. /\ less(j, i) \/ (~less(i, j) /\ i < j)
        /\ less(l, j) \/ (~less(j, l) /\ j < l)
    BY <1>7 DEF KeyBefore
  <2> HIDE DEF less
  <2>7. less(l, i) \/ (~less(i, l) /\ i < l)
    <3>1. CASE less(j, i) /\ less(l, j)
      BY <2>2, <3>1
    <3>2. CASE less(j, i) /\ ~less(l, j)
      <4>1. ~less(j, l)
        BY <2>6, <3>2
      <4>2. T[l] = T[j] /\ L[l] = L[j] /\ F[l] = F[j]
        BY <2>1, <3>2, <4>1
      <4> QED
        BY <2>4, <3>2, <4>2
    <3>3. CASE ~less(j, i) /\ less(l, j)
      <4>1. ~less(i, j)
        BY <2>6, <3>3
      <4>2. T[i] = T[j] /\ L[i] = L[j] /\ F[i] = F[j]
        BY <2>1, <3>3, <4>1
      <4> QED
        BY <2>4, <3>3, <4>2
    <3>4. CASE ~less(j, i) /\ ~less(l, j)
      <4>1. ~less(i, j) /\ ~less(j, l) /\ i < j /\ j < l
        BY <2>6, <3>4
      <4>2. T[i] = T[j] /\ L[i] = L[j] /\ F[i] = F[j]
        BY <2>1, <3>4, <4>1
      <4>3. ~less(i, l)
        BY <2>4, <4>1, <4>2
      <4> QED
        BY <2>5, <4>1, <4>3
    <3> QED
      BY <3>1, <3>2, <3>3, <3>4
  <2> QED
    BY <2>7 DEF KeyBefore, less
<1> QED
  <2>1. \A i \in N : ahead[i] \subseteq N \ {i}
    BY <1>1, <1>2, <1>5
  <2>2. \A i, j \in N : i # j => i \in ahead[j] \/ j \in ahead[i]
    BY <1>1, <1>6
  <2>3. \A i, j, l \in N : i \in ahead[j] /\ j \in ahead[l] => i \in ahead[l]
    BY <1>1, <1>7
  <2> QED
    BY <1>4, <2>1, <2>2, <2>3 DEF IsOrder, N

\* What Descending does to n sets.
IsDescending(q, sorted, sets, n) ==
    \E order : /\ Permutes(order, n)
               /\ sorted = [p \in 1..n |-> sets[order[p]]]
               /\ \A p, r \in 1..n : p < r => Total(q, sorted[p]) >= Total(q, sorted[r])

LEMMA DescendingSorts ==
    ASSUME NEW q, IsBatch(q), NEW n \in Nat, NEW sets, sets = [i \in 1..n |-> sets[i]],
           \A i \in 1..n : IsItemSet(q, sets[i])
    PROVE  IsDescending(q, Descending(q, sets), sets, n)
<1> DEFINE N == 1..n
           T == [i \in N |-> Total(q, sets[i])]
           L == [i \in N |-> Len(sets[i])]
           F == [i \in N |-> IF sets[i] = <<>> THEN 0 ELSE sets[i][1]]
           ahead == [i \in DOMAIN sets |->
                        {j \in DOMAIN sets : \/ SetLess(q, sets[i], sets[j])
                                             \/ ~SetLess(q, sets[j], sets[i]) /\ j < i}]
           order == Places(ahead)
           sorted == Descending(q, sets)
<1>1. \A i \in N : /\ Total(q, sets[i]) \in Int /\ Len(sets[i]) \in Nat
                   /\ sets[i] # <<>> => sets[i][1] \in Int
                   /\ sets[i] = <<>> <=> Len(sets[i]) = 0
  <2>1. ASSUME NEW i \in N
        PROVE  /\ Total(q, sets[i]) \in Int /\ Len(sets[i]) \in Nat
               /\ sets[i] # <<>> => sets[i][1] \in Int
               /\ sets[i] = <<>> <=> Len(sets[i]) = 0
    <3>1. IsItemSet(q, sets[i]) /\ Total(q, sets[i]) \in Nat
      BY TotalFacts
    <3>2. sets[i] \in Seq(1..Len(q)) /\ Len(q) \in Nat
      BY <3>1 DEF IsItemSet, IsBatch
    <3> QED
      BY <3>1, <3>2
  <2> QED
    BY <2>1
<1>2. T \in [N -> Int] /\ L \in [N -> Int] /\ F \in [N -> Int]
  BY <1>1
<1>3. /\ \A i \in N : T[i] = Total(q, sets[i]) /\ L[i] = Len(sets[i])
      /\ \A i \in N : F[i] = IF sets[i] = <<>> THEN 0 ELSE sets[i][1]
  BY Zenon
<1>4. DOMAIN sets = N
  OBVIOUS
<1> HIDE DEF T, L, F
<1>5. \A i, j \in N : SetLess(q, sets[i], sets[j]) <=> KeyLess(T, L, F, i, j)
  <2>1. ASSUME NEW i \in N, NEW j \in N
        PROVE  SetLess(q, sets[i], sets[j]) <=> KeyLess(T, L, F, i, j)
    <3> DEFINE a == sets[i]
               b == sets[j]
    <3>1. /\ Len(a) = 0 <=> a = <<>>
          /\ Len(b) = 0 <=> b = <<>>
      BY <1>1
    <3>2. /\ T[i] = Total(q, a) /\ T[j] = Total(q, b) /\ L[i] = Len(a) /\ L[j] = Len(b)
          /\ F[i] = IF a = <<>> THEN 0 ELSE a[1]
          /\ F[j] = IF b = <<>> THEN 0 ELSE b[1]
      BY <1>3
    <3> HIDE DEF a, b, N
    <3>3. CASE Len(a) = Len(b) /\ a = <<>>
      <4>1. ~(0 < 0) /\ F[i] = 0 /\ F[j] = 0
        BY <3>1, <3>2, <3>3
      <4> QED
        BY <3>2, <3>3, <4>1 DEF SetLess, KeyLess, TripleLess, a, b
    <3>4. CASE Len(a) = Len(b) /\ a # <<>>
      <4>1. b # <<>> /\ F[i] = a[1] /\ F[j] = b[1]
        BY <3>1, <3>2, <3>4
      <4> QED
        BY <3>2, <3>4, <4>1 DEF SetLess, KeyLess, TripleLess, a, b
    <3>5. CASE Len(a) # Len(b)
      BY <3>2, <3>5 DEF SetLess, KeyLess, TripleLess, a, b
    <3> QED
      BY <3>3, <3>4, <3>5
  <2> QED
    BY <2>1
<1>6. ahead = [i \in N |-> {j \in N : KeyBefore(T, L, F, j, i)}]
  BY <1>4, <1>5 DEF KeyBefore
<1>7. sorted = [p \in N |-> sets[order[p]]]
  BY <1>4, Zenon DEF Descending
<1> HIDE DEF ahead, sorted
<1>8. IsOrder(ahead, n)
  BY <1>2, <1>6, KeysOrder
<1>9. Permutes(order, n) /\ Follows(order, ahead, n)
  BY <1>8, PlacesSort
<1> HIDE DEF order
<1>10. ASSUME NEW p \in N, NEW r \in N, p < r
       PROVE  Total(q, sorted[p]) >= Total(q, sorted[r])
  <2> DEFINE j == order[p]
             i == order[r]
  <2>1. i \in N /\ j \in N /\ j \in ahead[i]
    BY <1>9, <1>10 DEF Permutes, Follows
  <2>2. sorted[p] = sets[j] /\ sorted[r] = sets[i]
    BY <1>7
  <2> HIDE DEF i, j
  <2>3. KeyBefore(T, L, F, j, i)
    BY <1>6, <2>1
  <2>4. T[j] >= T[i]
    BY <1>2, <2>1, <2>3 DEF KeyBefore, KeyLess, TripleLess
  <2> QED
    BY <1>3, <2>1, <2>2, <2>4
<1> QED
  BY <1>7, <1>9, <1>10 DEF IsDescending, sorted

\* The same of Ascending, by which the smaller numbers come first.
LEMMA AscendingSorts ==
    ASSUME NEW n \in Nat, NEW q \in [1..n -> Int]
    PROVE  /\ Permutes(Ascending(q), n)
           /\ \A p, r \in 1..n : p < r => q[Ascending(q)[p]] <= q[Ascending(q)[r]]
<1> DEFINE N == 1..n
           T == [i \in N |-> -q[i]]
           Z == [i \in N |-> 0]
           ahead == [i \in DOMAIN q |->
                        {j \in DOMAIN q : q[j] < q[i] \/ (q[j] = q[i] /\ j < i)}]
<1>1. T \in [N -> Int] /\ Z \in [N -> Int] /\ DOMAIN q = N
  OBVIOUS
<1>2. \A i, j \in N : q[j] < q[i] \/ (q[j] = q[i] /\ j < i) <=> KeyBefore(T, Z, Z, j, i)
  <2>1. \A i \in N : T[i] = -q[i] /\ Z[i] = 0 /\ q[i] \in Int /\ i \in Int
    OBVIOUS
  <2> HIDE DEF T, Z, N
  <2> QED
    BY <2>1 DEF KeyBefore, KeyLess, TripleLess
<1> HIDE DEF T, Z
<1>3. ahead = [i \in N |-> {j \in N : KeyBefore(T, Z, Z, j, i)}]
  BY <1>1, <1>2
<1>4. Ascending(q) = Places(ahead)
  BY Zenon DEF Ascending
<1>5. \A i, j \in N : j \in ahead[i] => q[j] <= q[i]
  <2>1. \A i \in N : ahead[i] = {j \in N : q[j] < q[i] \/ (q[j] = q[i] /\ j < i)}
    BY <1>1
  <2>2. \A i \in N : q[i] \in Int
    OBVIOUS
  <2> HIDE DEF ahead
  <2> QED
    BY <2>1, <2>2
<1> HIDE DEF ahead
<1>6. IsOrder(ahead, n)
  BY <1>1, <1>3, KeysOrder
<1>7. Permutes(Ascending(q), n) /\ Follows(Ascending(q), ahead, n)
  BY <1>4, <1>6, PlacesSort
<1> QED
  BY <1>5, <1>7 DEF Permutes, Follows

LEMMA SortedItemsPermute ==
    ASSUME NEW m \in Nat, NEW set \in Seq(1..m)
    PROVE  \E order : /\ Permutes(order, Len(set))
                      /\ SortedItems(set) = [p \in 1..Len(set) |-> set[order[p]]]
<1>1. Len(set) \in Nat /\ set \in [1..Len(set) -> Int] /\ DOMAIN set = 1..Len(set)
  OBVIOUS
<1>2. Permutes(Ascending(set), Len(set))
  BY <1>1, AscendingSorts
<1>3. SortedItems(set) = [p \in 1..Len(set) |-> set[Ascending(set)[p]]]
  BY <1>1, Zenon DEF SortedItems
<1> QED
  BY <1>2, <1>3

(***************************************************************************)
(* The inductive invariant.                                                *)
(***************************************************************************)

\* A state is k sets of items, of the greatest totals first.
IsState(s) ==
    /\ s = [p \in 1..k |-> s[p]]
    /\ \A p \in 1..k : IsItemSet(lens, s[p])

IsOrdered(s) ==
    \A p, r \in 1..k : p < r => Total(lens, s[p]) >= Total(lens, s[r])

\* With equal sizes all sets of a state have one size; without, a state that
\* has an empty set has no set of two items.
IsEven(s) ==
    IF equal THEN \A p, r \in 1..k : Len(s[p]) = Len(s[r])
    ELSE (\E p \in 1..k : s[p] = <<>>) => \A r \in 1..k : Len(s[r]) <= 1

\* Merging never makes a spread that no initial state had.
IsWithin(s) ==
    \E o \in InitialStates(lens, k, equal) :
        IsState(o) /\ Spread(lens, s) <= Spread(lens, o)

\* Every item is in some set of some state, at one place of one set only.
Covered(ss) ==
    \A i \in Items : \E s \in ss, p \in 1..k : \E j \in DOMAIN s[p] : s[p][j] = i

Once(ss) ==
    \A s, t \in ss, p, r \in 1..k : \A j \in DOMAIN s[p], l \in DOMAIN t[r] :
        s[p][j] = t[r][l] => s = t /\ p = r /\ j = l

IsInput == IsBatch(lens) /\ k \in 1..Len(lens) /\ equal \in BOOLEAN

ResultInv ==
    result # <<>> =>
        \E final \in states : /\ states = {final}
                              /\ result = [p \in 1..k |-> SortedItems(final[p])]

SplitInv ==
    /\ IsInput
    /\ \A s \in states : IsState(s) /\ IsOrdered(s) /\ IsEven(s) /\ IsWithin(s)
    /\ Covered(states) /\ Once(states)
    /\ ResultInv

LEMMA StateFacts ==
    ASSUME IsInput, NEW s, IsState(s)
    PROVE  /\ Len(s) = k /\ 1 \in 1..k /\ k \in 1..k
           /\ s \in Seq(Seq(Items))
           /\ \A p \in 1..k : Total(lens, s[p]) \in Nat /\ s[p] \in Seq(Items)
           /\ Spread(lens, s) = Total(lens, s[1]) - Total(lens, s[k])
           /\ Spread(lens, s) \in Int
<1>1. Len(lens) \in Nat /\ k \in Nat /\ 1 \in 1..k /\ k \in 1..k
  BY DEF IsInput, IsBatch
<1>2. \A p \in 1..k : s[p] \in Seq(Items) /\ IsItemSet(lens, s[p])
  BY DEF IsState, IsItemSet, Items
<1>3. Len(s) = k /\ s \in Seq(Seq(Items))
  <2>1. s \in [1..k -> Seq(Items)]
    BY <1>2 DEF IsState
  <2> QED
    BY <1>1, <2>1
<1>4. \A p \in 1..k : Total(lens, s[p]) \in Nat
  BY <1>2, TotalFacts DEF IsInput
<1>5. Spread(lens, s) = Total(lens, s[1]) - Total(lens, s[k])
  BY <1>3 DEF Spread
<1>6. Total(lens, s[1]) \in Nat /\ Total(lens, s[k]) \in Nat
  BY <1>1, <1>4
<1>7. Spread(lens, s) \in Int
  BY <1>5, <1>6
<1> QED
  BY <1>1, <1>2, <1>3, <1>4, <1>5, <1>7

LEMMA WithinItself ==
    ASSUME IsInput, NEW s \in InitialStates(lens, k, equal), IsState(s)
    PROVE  IsWithin(s)
<1>1. Spread(lens, s) <= Spread(lens, s)
  <2>1. Spread(lens, s) \in Int
    BY StateFacts
  <2> QED
    BY <2>1
<1> QED
  BY <1>1, Zenon DEF IsWithin

\* The number of a place in the sorted list says which group of n it is in, and
\* where in the group.
LEMMA GroupUnique ==
    ASSUME NEW n \in Nat \ {0}, NEW c \in Nat, NEW d \in Nat, NEW a \in 1..n, NEW b \in 1..n,
           (c - 1) * n + a = (d - 1) * n + b
    PROVE  c = d /\ a = b
<1>1. (c - d) * n = b - a
  OBVIOUS
<1>2. CASE c - d >= 1
  <2>1. (c - d) * n >= n
    BY <1>2
  <2> QED
    BY <1>1, <2>1
<1>3. CASE c - d <= -1
  <2>1. (c - d) * n <= -n
    BY <1>3
  <2> QED
    BY <1>1, <2>1
<1>4. CASE c = d
  BY <1>1, <1>4
<1> QED
  BY <1>2, <1>3, <1>4

InGroup(x, m, n) == \E c \in 1..m, a \in 1..n : x = (c - 1) * n + a

LEMMA GroupExists ==
    ASSUME NEW n \in Nat \ {0}, NEW m \in Nat, NEW x \in 1..(m * n)
    PROVE  InGroup(x, m, n)
<1> DEFINE y == x - 1
           q == y \div n
           r == y % n
<1>1. y \in Nat
  <2>1. m * n \in Nat
    OBVIOUS
  <2> QED
    BY <2>1
<1>2. q \in Int /\ r \in 0..(n - 1) /\ y = n * q + r
  <2> HIDE DEF y
  <2> QED
    BY <1>1
<1> HIDE DEF q, r
<1>3. q >= 0
  <2>1. CASE q <= -1
    <3>1. n * q <= -n
      BY <1>2, <2>1
    <3> QED
      BY <1>1, <1>2, <3>1
  <2> QED
    BY <1>2, <2>1
<1>4. q <= m - 1
  <2>1. CASE q >= m
    <3>1. n * q >= m * n
      BY <1>2, <2>1
    <3>2. m * n \in Nat
      OBVIOUS
    <3> QED
      BY <1>1, <1>2, <3>1, <3>2
  <2> QED
    BY <1>2, <2>1
<1>5. q + 1 \in 1..m /\ r + 1 \in 1..n /\ ((q + 1) - 1) * n = n * q
  BY <1>2, <1>3, <1>4
<1>6. x = ((q + 1) - 1) * n + (r + 1)
  <2>1. n * q \in Int
    BY <1>2
  <2> QED
    BY <1>1, <1>2, <1>5, <2>1
<1> QED
  BY <1>5, <1>6 DEF InGroup

LEMMA GroupWithin ==
    ASSUME NEW n \in Nat \ {0}, NEW m \in Nat, NEW c \in 1..m, NEW a \in 1..n
    PROVE  (c - 1) * n + a \in 1..(m * n)
<1>1. (c - 1) * n >= 0 /\ (c - 1) * n \in Int
  OBVIOUS
<1>2. (c - 1) * n <= (m - 1) * n
  OBVIOUS
<1>3. (m - 1) * n = m * n - n /\ m * n \in Int
  OBVIOUS
<1> QED
  BY <1>1, <1>2, <1>3

(***************************************************************************)
(* The initial states.                                                     *)
(***************************************************************************)

\* The states of a split that leaves the sizes open hold one item each.
LEMMA AloneStates ==
    ASSUME IsInput, ~equal
    PROVE  LET ss == InitialStates(lens, k, equal)
           IN  /\ \A s \in ss : IsState(s) /\ IsOrdered(s) /\ IsEven(s)
               /\ Covered(ss) /\ Once(ss)
<1> DEFINE ss == InitialStates(lens, k, equal)
<1>1. Len(lens) \in Nat /\ k \in Nat /\ 1 \in 1..k
  BY DEF IsInput, IsBatch
<1>2. ss = {Alone(k, i) : i \in Items}
  BY DEF InitialStates, Items
<1>3. ASSUME NEW i \in Items
      PROVE  /\ Alone(k, i) = [p \in 1..k |-> Alone(k, i)[p]]
             /\ \A p \in 1..k : Alone(k, i)[p] = IF p = 1 THEN <<i>> ELSE <<>>
  BY DEF Alone
<1>4. ASSUME NEW i \in Items
      PROVE  /\ IsState(Alone(k, i)) /\ IsOrdered(Alone(k, i)) /\ IsEven(Alone(k, i))
  <2> DEFINE s == Alone(k, i)
  <2>1. \A p \in 1..k : s[p] = IF p = 1 THEN <<i>> ELSE <<>>
    BY <1>3
  <2>2. IsItemSet(lens, <<i>>) /\ IsItemSet(lens, <<>>)
    BY DEF IsItemSet, Items
  <2>3. s = [p \in 1..k |-> s[p]]
    BY <1>3
  <2> HIDE DEF s
  <2>4. IsState(s)
    BY <2>1, <2>2, <2>3 DEF IsState
  <2>5. Total(lens, <<>>) = 0 /\ Total(lens, <<i>>) \in Nat
    BY <2>2, TotalFacts DEF IsInput
  <2>6. IsOrdered(s)
    <3>1. ASSUME NEW p \in 1..k, NEW r \in 1..k, p < r
          PROVE  Total(lens, s[p]) >= Total(lens, s[r])
      <4>1. r # 1
        BY <3>1
      <4>2. s[r] = <<>> /\ (s[p] = <<i>> \/ s[p] = <<>>)
        BY <2>1, <4>1
      <4> QED
        BY <2>5, <4>2
    <3> QED
      BY <3>1 DEF IsOrdered
  <2>7. \A p \in 1..k : Len(s[p]) <= 1
    <3>1. Len(<<i>>) <= 1 /\ Len(<<>>) <= 1
      OBVIOUS
    <3>2. \A p \in 1..k : s[p] = <<i>> \/ s[p] = <<>>
      BY <2>1, Zenon
    <3> QED
      BY <3>1, <3>2, Zenon
  <2> QED
    BY <2>4, <2>6, <2>7 DEF IsEven, s
<1>5. Covered(ss)
  <2>1. ASSUME NEW i \in Items
        PROVE  \E s \in ss, p \in 1..k : \E j \in DOMAIN s[p] : s[p][j] = i
    <3>1. Alone(k, i) \in ss /\ Alone(k, i)[1] = <<i>>
      BY <1>1, <1>2, <1>3
    <3>2. 1 \in DOMAIN <<i>> /\ <<i>>[1] = i
      OBVIOUS
    <3> HIDE DEF ss
    <3> QED
      BY <1>1, <3>1, <3>2
  <2> QED
    BY <2>1 DEF Covered
<1>6. Once(ss)
  <2>1. ASSUME NEW s \in ss, NEW t \in ss, NEW p \in 1..k, NEW r \in 1..k,
               NEW j \in DOMAIN s[p], NEW l \in DOMAIN t[r], s[p][j] = t[r][l]
        PROVE  s = t /\ p = r /\ j = l
    <3>1. PICK i \in Items : s = Alone(k, i)
      BY <1>2
    <3>2. PICK h \in Items : t = Alone(k, h)
      BY <1>2
    <3>3. \A x : DOMAIN <<x>> = {1} /\ <<x>>[1] = x
      OBVIOUS
    <3>4. DOMAIN <<>> = {}
      OBVIOUS
    <3>5. p = 1 /\ s[p] = <<i>> /\ r = 1 /\ t[r] = <<h>>
      BY <1>3, <3>1, <3>2, <3>4
    <3>6. j = 1 /\ l = 1 /\ i = h
      BY <2>1, <3>3, <3>5
    <3> QED
      BY <3>1, <3>2, <3>5, <3>6
  <2> QED
    BY <2>1 DEF Once
<1> QED
  BY <1>2, <1>4, <1>5, <1>6

\* Those of a split into equal sizes hold a group of k neighbours each.
Group(c) == [j \in 1..k |-> <<Ascending(lens)[(c - 1) * k + j]>>]

LEMMA GroupStates ==
    ASSUME IsInput, equal, Len(lens) % k = 0
    PROVE  LET ss == InitialStates(lens, k, equal)
           IN  /\ \A s \in ss : IsState(s) /\ IsOrdered(s) /\ IsEven(s)
               /\ Covered(ss) /\ Once(ss)
<1> DEFINE ss == InitialStates(lens, k, equal)
           n == Len(lens)
           m == n \div k
           order == Ascending(lens)
           state(c) == Descending(lens, Group(c))
<1>1. n \in Nat /\ k \in Nat \ {0} /\ 1 \in 1..k /\ IsBatch(lens) /\ lens \in [1..n -> Int]
  BY DEF IsInput, IsBatch
<1>2. m \in Nat /\ m * k = n
  <2> HIDE DEF n
  <2>1. n = (k * (n \div k)) + (n % k) /\ n \div k \in Int
    BY <1>1
  <2>2. n % k = 0 /\ n \in Nat
    BY <1>1 DEF n
  <2>3. n = k * (n \div k)
    <3>1. k * (n \div k) \in Int
      BY <1>1, <2>1
    <3> DEFINE r == n % k
               y == k * (n \div k)
    <3>2. n = y + r /\ r = 0 /\ y \in Int
      BY <2>1, <2>2, <3>1
    <3> HIDE DEF r, y
    <3>3. n = y
      BY <3>2
    <3> QED
      BY <3>3 DEF y
  <2>4. n \div k >= 0
    <3>1. CASE n \div k <= -1
      <4>1. k * (n \div k) <= -k
        BY <1>1, <2>1, <3>1
      <4> QED
        BY <1>1, <2>3, <4>1
    <3> QED
      BY <2>1, <3>1
  <2>5. (n \div k) * k = k * (n \div k)
    BY <1>1, <2>1
  <2> QED
    BY <2>1, <2>3, <2>4, <2>5
<1>3. ss = {state(c) : c \in 1..m}
  BY DEF InitialStates, Group
<1>4. Permutes(order, n)
  BY <1>1, AscendingSorts
<1> HIDE DEF m, order, n
<1>5. ASSUME NEW c \in 1..m, NEW j \in 1..k
      PROVE  /\ (c - 1) * k + j \in 1..n
             /\ order[(c - 1) * k + j] \in Items
             /\ Group(c)[j] = <<order[(c - 1) * k + j]>>
  <2>1. (c - 1) * k + j \in 1..n
    BY <1>1, <1>2, GroupWithin
  <2>2. order[(c - 1) * k + j] \in Items
    BY <1>4, <2>1 DEF Permutes, Items, n
  <2> QED
    BY <2>1, <2>2 DEF Group, order
<1>6. ASSUME NEW c \in 1..m
      PROVE  IsDescending(lens, state(c), Group(c), k)
  <2>1. Group(c) = [j \in 1..k |-> Group(c)[j]]
    BY DEF Group
  <2>2. \A j \in 1..k : IsItemSet(lens, Group(c)[j])
    <3>1. \A i \in Items : IsItemSet(lens, <<i>>)
      BY DEF IsItemSet, Items
    <3> QED
      BY <1>5, <3>1, Zenon
  <2> QED
    BY <1>1, <2>1, <2>2, DescendingSorts
<1> HIDE DEF state
\* where the sets of a state come from
<1>7. ASSUME NEW c \in 1..m
      PROVE  \E move : /\ Permutes(move, k)
                       /\ state(c) = [p \in 1..k |-> state(c)[p]]
                       /\ \A p \in 1..k :
                             state(c)[p] = <<order[(c - 1) * k + move[p]]>>
  <2>1. PICK move : /\ Permutes(move, k)
                    /\ state(c) = [p \in 1..k |-> Group(c)[move[p]]]
    BY <1>6 DEF IsDescending
  <2>2. \A p \in 1..k : state(c)[p] = Group(c)[move[p]] /\ move[p] \in 1..k
    BY <2>1 DEF Permutes
  <2>3. state(c) = [p \in 1..k |-> state(c)[p]]
    BY <2>1
  <2> QED
    BY <1>5, <2>1, <2>2, <2>3
<1>8. ASSUME NEW s \in ss
      PROVE  IsState(s) /\ IsOrdered(s) /\ IsEven(s)
  <2>1. PICK c \in 1..m : s = state(c)
    BY <1>3
  <2>2. PICK move : /\ Permutes(move, k)
                    /\ s = [p \in 1..k |-> s[p]]
                    /\ \A p \in 1..k : s[p] = <<order[(c - 1) * k + move[p]]>>
    BY <1>7, <2>1
  <2>3. \A p \in 1..k : IsItemSet(lens, s[p]) /\ Len(s[p]) = 1
    <3>1. ASSUME NEW p \in 1..k
          PROVE  IsItemSet(lens, s[p]) /\ Len(s[p]) = 1
      <4>1. move[p] \in 1..k
        BY <2>2 DEF Permutes
      <4>2. order[(c - 1) * k + move[p]] \in Items
        BY <1>5, <4>1
      <4>3. \A i \in Items : IsItemSet(lens, <<i>>) /\ Len(<<i>>) = 1
        BY DEF IsItemSet, Items
      <4> QED
        BY <2>2, <4>2, <4>3, Zenon
    <3> QED
      BY <3>1
  <2>4. IsOrdered(s)
    <3>1. IsDescending(lens, s, Group(c), k)
      BY <1>6, <2>1
    <3> QED
      BY <3>1 DEF IsDescending, IsOrdered
  <2> QED
    BY <2>2, <2>3, <2>4 DEF IsState, IsEven
<1>9. Covered(ss)
  <2>1. ASSUME NEW i \in Items
        PROVE  \E s \in ss, p \in 1..k : \E j \in DOMAIN s[p] : s[p][j] = i
    <3>1. PICK x \in 1..n : order[x] = i
      BY <1>4 DEF Permutes, Items, n
    <3>2. PICK c \in 1..m, a \in 1..k : x = (c - 1) * k + a
      <4>1. x \in 1..(m * k) /\ m \in Nat /\ k \in Nat \ {0}
        BY <1>1, <1>2
      <4> QED
        <5>1. InGroup(x, m, k)
          BY <4>1, GroupExists
        <5> QED
          BY <5>1 DEF InGroup
    <3>3. PICK move : /\ Permutes(move, k)
                      /\ \A p \in 1..k :
                            state(c)[p] = <<order[(c - 1) * k + move[p]]>>
      BY <1>7
    <3>4. PICK p \in 1..k : move[p] = a
      BY <3>3 DEF Permutes
    <3>5. state(c)[p] = <<i>> /\ state(c) \in ss
      BY <1>3, <3>1, <3>2, <3>3, <3>4
    <3>6. 1 \in DOMAIN <<i>> /\ <<i>>[1] = i
      OBVIOUS
    <3> HIDE DEF ss
    <3> QED
      BY <3>5, <3>6
  <2> QED
    BY <2>1 DEF Covered
<1>10. Once(ss)
  <2>1. ASSUME NEW s \in ss, NEW t \in ss, NEW p \in 1..k, NEW r \in 1..k,
               NEW j \in DOMAIN s[p], NEW l \in DOMAIN t[r], s[p][j] = t[r][l]
        PROVE  s = t /\ p = r /\ j = l
    <3>1. PICK c \in 1..m : s = state(c)
      BY <1>3
    <3>2. PICK d \in 1..m : t = state(d)
      BY <1>3
    <3>3. PICK move : /\ Permutes(move, k)
                      /\ \A x \in 1..k : s[x] = <<order[(c - 1) * k + move[x]]>>
      BY <1>7, <3>1
    <3>4. PICK turn : /\ Permutes(turn, k)
                      /\ \A x \in 1..k : t[x] = <<order[(d - 1) * k + turn[x]]>>
      BY <1>7, <3>2
    <3> DEFINE a == move[p]
               b == turn[r]
               x == (c - 1) * k + a
               y == (d - 1) * k + b
    <3>5. s[p] = <<order[x]>> /\ t[r] = <<order[y]>>
      BY <3>3, <3>4
    <3>6. a \in 1..k /\ b \in 1..k
      BY <3>3, <3>4 DEF Permutes
    <3> HIDE DEF a, b
    <3>7. x \in 1..n /\ y \in 1..n
      BY <1>5, <3>6
    <3>8. j = 1 /\ l = 1 /\ order[x] = order[y]
      <4>1. \A v : DOMAIN <<v>> = {1} /\ <<v>>[1] = v
        OBVIOUS
      <4> HIDE DEF x, y
      <4> QED
        BY <2>1, <3>5, <4>1
    <3>9. x = y
      BY <1>4, <3>7, <3>8 DEF Permutes
    <3>10. c \in Nat /\ d \in Nat
      BY <1>2
    <3>11. c = d /\ a = b
      BY <1>1, <3>6, <3>9, <3>10, GroupUnique
    <3>12. s = t
      BY <3>1, <3>2, <3>11
    <3>13. order[(c - 1) * k + move[r]] = order[(c - 1) * k + turn[r]]
      <4>1. \A v, w : <<v>> = <<w>> => v = w
        OBVIOUS
      <4>2. <<order[(c - 1) * k + move[r]]>> = <<order[(c - 1) * k + turn[r]]>>
        BY <3>3, <3>4, <3>11, <3>12, Zenon
      <4> QED
        BY <4>1, <4>2
    <3>14. move[r] \in 1..k /\ turn[r] \in 1..k
      BY <3>3, <3>4 DEF Permutes
    <3>15. (c - 1) * k + move[r] = (c - 1) * k + turn[r]
      <4>1. (c - 1) * k + move[r] \in 1..n /\ (c - 1) * k + turn[r] \in 1..n
        BY <1>5, <3>14
      <4> QED
        BY <1>4, <3>13, <4>1 DEF Permutes
    <3>16. move[r] = turn[r]
      <4> DEFINE o == (c - 1) * k
      <4>1. o \in Int /\ move[r] \in Int /\ turn[r] \in Int
        BY <1>1, <3>10, <3>14
      <4>2. o + move[r] = o + turn[r]
        BY <3>15
      <4> HIDE DEF o
      <4> QED
        BY <4>1, <4>2
    <3>17. p = r
      <4>1. move[p] = move[r]
        BY <3>11, <3>16 DEF a, b
      <4>2. Permutes(move, k)
        BY <3>3, Zenon
      <4> QED
        BY <4>1, <4>2, Zenon DEF Permutes
    <3> QED
      BY <3>8, <3>12, <3>17
  <2> QED
    BY <2>1 DEF Once
<1> QED
  BY <1>8, <1>9, <1>10


LEMMA CeilDivPositive ==
    ASSUME NEW a \in Nat \ {0}, NEW b \in Nat \ {0}
    PROVE  CeilDiv(a, b) \in Nat \ {0}
<1> DEFINE x == a + b - 1
           d == x \div b
           r == x % b
<1>1. x \in Nat /\ x >= b
  OBVIOUS
<1>2. d \in Int /\ r \in 0..(b - 1) /\ x = (b * d) + r
  <2> HIDE DEF x
  <2> QED
    BY <1>1
<1>3. d = CeilDiv(a, b)
  BY DEF CeilDiv
<1> HIDE DEF d, r, x
<1>4. CASE d <= 0
  <2>1. b * d <= 0 /\ b * d \in Int
    BY <1>2, <1>4
  <2> QED
    BY <1>1, <1>2, <2>1
<1> QED
  BY <1>2, <1>3, <1>4

LEMMA MicroBatchesPositive ==
    ASSUME SizesAssumption, NEW q, IsBatch(q), Len(q) >= 1, NEW max \in TokenLimits,
           NEW min \in MinMicros, NEW d \in Divisors
    PROVE  MicroBatches(q, max, min, d) \in Nat \ {0}
<1> DEFINE all == [i \in 1..Len(q) |-> i]
           sum == Total(q, all)
           lower == CeilDiv(sum, max)
           wanted == Larger(min, Smaller(Len(q), lower))
<1>1. /\ max \in Nat \ {0} /\ min \in Nat /\ d \in Nat \ {0}
      /\ Len(q) \in Nat
  BY DEF SizesAssumption, IsBatch
<1>2. sum \in Nat \ {0}
  <2>1. all \in Seq(1..Len(q)) /\ Len(all) = Len(q)
    BY <1>1
  <2>2. IsItemSet(q, all) /\ all # <<>>
    BY <1>1, <2>1 DEF IsItemSet
  <2> QED
    BY <2>2, TotalFacts
<1> HIDE DEF sum
<1>3. lower \in Nat \ {0}
  BY <1>1, <1>2, CeilDivPositive
<1> HIDE DEF lower
<1>4. wanted \in Nat \ {0}
  BY <1>1, <1>3 DEF Larger, Smaller
<1>5. MicroBatches(q, max, min, d) = CeilDiv(wanted, d) * d
  BY DEF MicroBatches, RoundUp, sum, lower
<1> HIDE DEF wanted
<1>6. CeilDiv(wanted, d) \in Nat \ {0}
  BY <1>1, <1>4, CeilDivPositive
<1>7. \A x, y \in Nat \ {0} : x * y \in Nat \ {0}
  OBVIOUS
<1> QED
  BY <1>1, <1>5, <1>6, <1>7

LEMMA DividesIsAtMost ==
    ASSUME NEW a \in Nat \ {0}, NEW b \in Nat \ {0}, a % b = 0
    PROVE  b <= a
<1> DEFINE d == a \div b
           r == a % b
<1>1. d \in Int /\ a = (b * d) + r
  OBVIOUS
<1>2. r = 0
  OBVIOUS
<1> HIDE DEF d, r
<1>3. CASE d <= 0
  <2>1. b * d <= 0 /\ b * d \in Int
    BY <1>1, <1>3
  <2> QED
    BY <1>1, <1>2, <2>1
<1>4. CASE d >= 1
  <2>1. b * d >= b /\ b * d \in Int
    BY <1>1, <1>4
  <2> QED
    BY <1>1, <1>2, <2>1
<1> QED
  BY <1>1, <1>3, <1>4

LEMMA InitSplitInv ==
    ASSUME SizesAssumption, Init
    PROVE  SplitInv
<1>1. IsBatch(lens) /\ Len(lens) \in Nat /\ Len(lens) >= 1
  <2>1. PICK n \in 1..MaxItems : lens \in [1..n -> 1..MaxSeqLen]
    BY DEF Init, Batches
  <2>2. lens \in Seq(Nat \ {0}) /\ Len(lens) = n
    BY <2>1 DEF SizesAssumption
  <2> QED
    BY <2>2 DEF IsBatch
<1>2. k \in Nat \ {0} /\ k <= Len(lens) /\ equal \in BOOLEAN
  <2>1. CASE equal = TRUE /\ k \in RankCounts /\ Len(lens) % k = 0
    <3>1. k \in Nat \ {0} /\ Len(lens) \in Nat \ {0}
      BY <1>1, <2>1 DEF SizesAssumption
    <3> QED
      BY <2>1, <3>1, DividesIsAtMost
  <2>2. CASE /\ limit \in TokenLimits /\ equal = FALSE
             /\ \E min \in MinMicros, d \in Divisors : k = MicroBatches(lens, limit, min, d)
             /\ k <= Len(lens)
    BY <1>1, <2>2, MicroBatchesPositive
  <2> QED
    BY <2>1, <2>2 DEF Init
<1>3. IsInput
  BY <1>1, <1>2 DEF IsInput
<1>4. states = InitialStates(lens, k, equal)
  BY DEF Init
<1>5. /\ \A s \in states : IsState(s) /\ IsOrdered(s) /\ IsEven(s)
      /\ Covered(states) /\ Once(states)
  <2>1. CASE equal
    <3>1. Len(lens) % k = 0
      BY <2>1 DEF Init
    <3> QED
      BY <1>3, <1>4, <2>1, <3>1, GroupStates
  <2>2. CASE ~equal
    BY <1>3, <1>4, <2>2, AloneStates
  <2> QED
    BY <2>1, <2>2
<1>6. \A s \in states : IsWithin(s)
  BY <1>3, <1>4, <1>5, WithinItself
<1>7. ResultInv
  BY DEF ResultInv, Init
<1> QED
  BY <1>3, <1>5, <1>6, <1>7 DEF SplitInv

(***************************************************************************)
(* A merge.                                                                *)
(***************************************************************************)

\* The places of c are those of a, then those of b.
IsJoined(c, a, b) ==
    /\ \A j \in DOMAIN a : j \in DOMAIN c /\ c[j] = a[j]
    /\ \A j \in DOMAIN b : Len(a) + j \in DOMAIN c /\ c[Len(a) + j] = b[j]
    /\ \A j \in DOMAIN c : j \in DOMAIN a \/ \E l \in DOMAIN b : j = Len(a) + l

LEMMA JoinedPlaces ==
    ASSUME NEW S, NEW a \in Seq(S), NEW b \in Seq(S), NEW c, c = a \o b
    PROVE  IsJoined(c, a, b)
<1>1. Len(a) \in Nat /\ Len(b) \in Nat /\ DOMAIN a = 1..Len(a) /\ DOMAIN b = 1..Len(b)
  OBVIOUS
<1>2. c \in Seq(S) /\ Len(c) = Len(a) + Len(b)
  OBVIOUS
<1>3. DOMAIN c = 1..(Len(a) + Len(b))
  BY <1>2
<1>4. \A j \in DOMAIN a : j \in DOMAIN c /\ c[j] = a[j]
  BY <1>1, <1>3
<1>5. \A j \in DOMAIN b : Len(a) + j \in DOMAIN c /\ c[Len(a) + j] = b[j]
  BY <1>1, <1>3
<1>6. ASSUME NEW j \in DOMAIN c, j \notin DOMAIN a
      PROVE  \E l \in DOMAIN b : j = Len(a) + l
  <2>1. j - Len(a) \in 1..Len(b) /\ j = Len(a) + (j - Len(a))
    BY <1>1, <1>3, <1>6
  <2> QED
    BY <1>1, <2>1
<1> QED
  BY <1>4, <1>5, <1>6, Zenon DEF IsJoined

\* The set at place p of the merged state: the largest of one with the smallest
\* of the other, in the order of their totals.
IsMerged(m, s, t, order) ==
    /\ Permutes(order, k)
    /\ m = [p \in 1..k |-> m[p]]
    /\ \A p \in 1..k : m[p] = s[order[p]] \o t[k + 1 - order[p]]

LEMMA MergedSorts ==
    ASSUME IsInput, NEW s, NEW t, IsState(s), IsState(t)
    PROVE  LET m == Merged(lens, s, t)
           IN  IsState(m) /\ IsOrdered(m) /\ \E order : IsMerged(m, s, t, order)
<1> DEFINE m == Merged(lens, s, t)
           z == [i \in 1..Len(s) |-> s[i] \o t[Partner(Len(s), i)]]
<1>1. k \in Nat /\ Len(s) = k /\ IsBatch(lens)
  BY StateFacts DEF IsInput, IsBatch
<1>2. /\ z = [i \in 1..k |-> z[i]]
      /\ \A i \in 1..k : z[i] = s[i] \o t[k + 1 - i]
  BY <1>1 DEF Partner
<1>3. m = Descending(lens, z)
  BY DEF Merged
<1> HIDE DEF z, m
<1>4. \A i \in 1..k : k + 1 - i \in 1..k
  BY <1>1
<1>5. \A i \in 1..k : IsItemSet(lens, z[i])
  <2>1. ASSUME NEW i \in 1..k
        PROVE  IsItemSet(lens, z[i])
    <3>1. IsItemSet(lens, s[i]) /\ IsItemSet(lens, t[k + 1 - i])
      BY <1>4 DEF IsState
    <3>2. IsItemSet(lens, s[i] \o t[k + 1 - i])
      BY <1>1, <3>1, TotalOfJoined, Zenon
    <3> QED
      BY <1>2, <3>2
  <2> QED
    BY <2>1
<1>6. IsDescending(lens, m, z, k)
  BY <1>1, <1>2, <1>3, <1>5, DescendingSorts
<1>7. PICK order : /\ Permutes(order, k)
                   /\ m = [p \in 1..k |-> z[order[p]]]
                   /\ \A p, r \in 1..k : p < r => Total(lens, m[p]) >= Total(lens, m[r])
  BY <1>6 DEF IsDescending
<1>8. \A p \in 1..k : m[p] = z[order[p]] /\ order[p] \in 1..k
  BY <1>7 DEF Permutes
<1>9. m = [p \in 1..k |-> m[p]]
  BY <1>7
<1>10. IsState(m)
  BY <1>5, <1>8, <1>9 DEF IsState
<1>11. IsOrdered(m)
  BY <1>7 DEF IsOrdered
<1>12. IsMerged(m, s, t, order)
  BY <1>2, <1>7, <1>8, <1>9 DEF IsMerged
<1> QED
  BY <1>10, <1>11, <1>12 DEF m

\* In a sorted state nothing follows an empty set.
LEMMA EmptyFollows ==
    ASSUME IsInput, NEW s, IsState(s), IsOrdered(s), NEW p \in 1..k, NEW r \in 1..k,
           p <= r, s[p] = <<>>
    PROVE  s[r] = <<>>
<1>1. IsItemSet(lens, s[p]) /\ IsItemSet(lens, s[r]) /\ IsBatch(lens)
  BY DEF IsState, IsInput
<1>2. /\ Total(lens, s[p]) = 0
      /\ Total(lens, s[r]) \in Nat
      /\ Total(lens, s[r]) = 0 => s[r] = <<>>
  BY <1>1, TotalFacts
<1>3. CASE p = r
  BY <1>3
<1>4. CASE p < r
  <2>1. Total(lens, s[p]) >= Total(lens, s[r])
    BY <1>4 DEF IsOrdered
  <2> QED
    BY <1>2, <2>1
<1> QED
  <2>1. p \in Int /\ r \in Int
    BY DEF IsInput
  <2> QED
    BY <1>3, <1>4, <2>1

LEMMA MergedEven ==
    ASSUME IsInput, NEW s, NEW t, NEW m, NEW order, IsState(s), IsState(t), IsState(m),
           IsOrdered(s), IsOrdered(t), IsEven(s), IsEven(t), IsMerged(m, s, t, order)
    PROVE  IsEven(m)
<1> DEFINE mate(p) == k + 1 - order[p]
<1>1. k \in Nat
  BY DEF IsInput, IsBatch
<1>2. \A p \in 1..k : /\ order[p] \in 1..k /\ mate(p) \in 1..k
                      /\ m[p] = s[order[p]] \o t[mate(p)]
  <2>1. \A p \in 1..k : order[p] \in 1..k /\ m[p] = s[order[p]] \o t[mate(p)]
    BY DEF IsMerged, Permutes
  <2>2. \A x \in 1..k : k + 1 - x \in 1..k
    BY <1>1
  <2> QED
    BY <2>1, <2>2
<1>3. \A p \in 1..k : s[p] \in Seq(Items) /\ t[p] \in Seq(Items)
  BY StateFacts
<1>4. \A p, r \in 1..k : /\ Len(s[p]) \in Nat /\ Len(t[r]) \in Nat
                         /\ Len(s[p] \o t[r]) = Len(s[p]) + Len(t[r])
                         /\ s[p] = <<>> <=> Len(s[p]) = 0
                         /\ t[p] = <<>> <=> Len(t[p]) = 0
  <2>1. ASSUME NEW p \in 1..k, NEW r \in 1..k
        PROVE  /\ Len(s[p]) \in Nat /\ Len(t[r]) \in Nat
               /\ Len(s[p] \o t[r]) = Len(s[p]) + Len(t[r])
    BY <1>3
  <2>2. ASSUME NEW p \in 1..k
        PROVE  /\ s[p] = <<>> <=> Len(s[p]) = 0
               /\ t[p] = <<>> <=> Len(t[p]) = 0
    BY <1>3
  <2> QED
    BY <2>1, <2>2
<1>5. CASE equal
  <2>1. ASSUME NEW p \in 1..k, NEW r \in 1..k
        PROVE  Len(m[p]) = Len(m[r])
    <3>1. Len(s[order[p]]) = Len(s[order[r]]) /\ Len(t[mate(p)]) = Len(t[mate(r)])
      BY <1>2, <1>5 DEF IsEven
    <3>2. /\ Len(m[p]) = Len(s[order[p]]) + Len(t[mate(p)])
          /\ Len(m[r]) = Len(s[order[r]]) + Len(t[mate(r)])
      <4>1. /\ m[p] = s[order[p]] \o t[mate(p)] /\ m[r] = s[order[r]] \o t[mate(r)]
            /\ order[p] \in 1..k /\ mate(p) \in 1..k
            /\ order[r] \in 1..k /\ mate(r) \in 1..k
        BY <1>2, Zenon
      <4> HIDE DEF mate
      <4>2. /\ Len(s[order[p]] \o t[mate(p)]) = Len(s[order[p]]) + Len(t[mate(p)])
            /\ Len(s[order[r]] \o t[mate(r)]) = Len(s[order[r]]) + Len(t[mate(r)])
        BY <1>4, <4>1, Zenon
      <4> QED
        BY <4>1, <4>2, Zenon
    <3> QED
      BY <3>1, <3>2
  <2> QED
    BY <1>5, <2>1 DEF IsEven
<1>6. CASE ~equal
  <2>1. ASSUME NEW p \in 1..k, m[p] = <<>>, NEW r \in 1..k
        PROVE  Len(m[r]) <= 1
    <3> DEFINE i == order[p]
               j == order[r]
    <3>1. i \in 1..k /\ j \in 1..k /\ k + 1 - i \in 1..k /\ k + 1 - j \in 1..k
      BY <1>2
    <3>2. m[p] = s[i] \o t[k + 1 - i] /\ m[r] = s[j] \o t[k + 1 - j]
      BY <1>2
    <3> HIDE DEF i, j
    <3>3. Len(s[i]) + Len(t[k + 1 - i]) = 0
      <4>1. Len(m[p]) = 0
        BY <2>1
      <4>2. Len(s[i] \o t[k + 1 - i]) = Len(s[i]) + Len(t[k + 1 - i])
        BY <1>4, <3>1, Zenon
      <4> QED
        BY <3>2, <4>1, <4>2
    <3>4. Len(s[i]) = 0 /\ Len(t[k + 1 - i]) = 0
      <4>1. Len(s[i]) \in Nat /\ Len(t[k + 1 - i]) \in Nat
        BY <1>4, <3>1, Zenon
      <4>2. \A x, y \in Nat : x + y = 0 => x = 0 /\ y = 0
        OBVIOUS
      <4> QED
        BY <3>3, <4>1, <4>2, Zenon
    <3>5. s[i] = <<>> /\ t[k + 1 - i] = <<>>
      BY <1>4, <3>1, <3>4, Zenon
    <3>6. \A x \in 1..k : Len(s[x]) <= 1 /\ Len(t[x]) <= 1
      BY <1>6, <3>1, <3>5 DEF IsEven
    <3>7. Len(m[r]) = Len(s[j]) + Len(t[k + 1 - j])
      BY <1>4, <3>1, <3>2
    <3>8. CASE i <= j
      <4>1. s[j] = <<>>
        BY <3>1, <3>5, <3>8, EmptyFollows
      <4>2. Len(s[j]) = 0 /\ Len(t[k + 1 - j]) \in Nat /\ Len(t[k + 1 - j]) <= 1
        BY <1>4, <3>1, <3>6, <4>1
      <4> QED
        BY <3>7, <4>2
    <3>9. CASE j <= i
      <4>1. k + 1 - i <= k + 1 - j
        BY <1>1, <3>1, <3>9
      <4>2. t[k + 1 - j] = <<>>
        BY <3>1, <3>5, <4>1, EmptyFollows
      <4>3. Len(t[k + 1 - j]) = 0 /\ Len(s[j]) \in Nat /\ Len(s[j]) <= 1
        BY <1>4, <3>1, <3>6, <4>2
      <4> QED
        BY <3>7, <4>3
    <3> QED
      BY <3>1, <3>8, <3>9
  <2> QED
    BY <1>6, <2>1 DEF IsEven
<1> QED
  BY <1>5, <1>6

\* The differences of the two parts of a merged set go opposite ways, so that
\* they never add up to more than one of them.
LEMMA MergedWithin ==
    ASSUME IsInput, NEW s, NEW t, NEW m, NEW order, IsState(s), IsState(t), IsState(m),
           IsOrdered(s), IsOrdered(t), IsWithin(s), IsWithin(t), IsMerged(m, s, t, order)
    PROVE  IsWithin(m)
<1> DEFINE S == [p \in 1..k |-> Total(lens, s[p])]
           T == [p \in 1..k |-> Total(lens, t[p])]
           i == order[1]
           j == order[k]
<1>1. k \in Nat /\ 1 \in 1..k /\ k \in 1..k /\ IsBatch(lens)
  BY StateFacts DEF IsInput, IsBatch
<1>2. i \in 1..k /\ j \in 1..k
  BY <1>1 DEF IsMerged, Permutes
<1>3. \A p \in 1..k : S[p] = Total(lens, s[p]) /\ T[p] = Total(lens, t[p])
  BY Zenon
<1>4. \A p \in 1..k : S[p] \in Int /\ T[p] \in Int
  <2>1. \A p \in 1..k : Total(lens, s[p]) \in Nat /\ Total(lens, t[p]) \in Nat
    BY StateFacts
  <2> QED
    BY <1>3, <2>1
<1> HIDE DEF S, T
<1>5. \A p, r \in 1..k : p <= r => S[p] >= S[r] /\ T[p] >= T[r]
  <2>1. ASSUME NEW p \in 1..k, NEW r \in 1..k, p <= r
        PROVE  S[p] >= S[r] /\ T[p] >= T[r]
    <3>1. CASE p = r
      <4>1. \A x \in Int : x >= x
        OBVIOUS
      <4> QED
        BY <1>4, <3>1, <4>1
    <3>2. CASE p < r
      BY <1>3, <3>2 DEF IsOrdered
    <3> QED
      BY <1>1, <2>1, <3>1, <3>2
  <2> QED
    BY <2>1
<1>6. \A p \in 1..k : k + 1 - p \in 1..k
  BY <1>1
<1>7. \A p, r \in 1..k : Total(lens, s[p] \o t[r]) = S[p] + T[r]
  <2>1. ASSUME NEW p \in 1..k, NEW r \in 1..k
        PROVE  Total(lens, s[p] \o t[r]) = S[p] + T[r]
    <3>1. IsItemSet(lens, s[p]) /\ IsItemSet(lens, t[r])
      BY DEF IsState
    <3>2. Total(lens, s[p] \o t[r]) = Total(lens, s[p]) + Total(lens, t[r])
      BY <1>1, <3>1, TotalOfJoined, Zenon
    <3> QED
      BY <1>3, <3>2
  <2> QED
    BY <2>1
<1>8. m[1] = s[i] \o t[k + 1 - i] /\ m[k] = s[j] \o t[k + 1 - j]
  BY <1>1 DEF IsMerged
<1>9. Spread(lens, m) = (S[i] + T[k + 1 - i]) - (S[j] + T[k + 1 - j])
  <2>1. Spread(lens, m) = Total(lens, m[1]) - Total(lens, m[k])
    BY StateFacts
  <2>2. /\ Total(lens, m[1]) = S[i] + T[k + 1 - i]
        /\ Total(lens, m[k]) = S[j] + T[k + 1 - j]
    <3> HIDE DEF i, j
    <3> QED
      BY <1>2, <1>6, <1>7, <1>8
  <2> QED
    BY <2>1, <2>2
<1>10. Spread(lens, s) = S[1] - S[k] /\ Spread(lens, t) = T[1] - T[k]
  <2>1. /\ Spread(lens, s) = Total(lens, s[1]) - Total(lens, s[k])
        /\ Spread(lens, t) = Total(lens, t[1]) - Total(lens, t[k])
    BY StateFacts
  <2> QED
    BY <1>1, <1>3, <2>1
<1> HIDE DEF i, j
<1> DEFINE a == k + 1 - i
           b == k + 1 - j
<1>11. a \in 1..k /\ b \in 1..k /\ (i <= j => b <= a) /\ (j <= i => a <= b)
  BY <1>1, <1>2
<1> HIDE DEF a, b
<1>12. /\ S[i] \in Int /\ S[j] \in Int /\ T[a] \in Int /\ T[b] \in Int
       /\ S[1] \in Int /\ S[k] \in Int /\ T[1] \in Int /\ T[k] \in Int
  BY <1>1, <1>2, <1>4, <1>11
<1>13. /\ S[1] >= S[i] /\ S[j] >= S[k] /\ T[1] >= T[a] /\ T[b] >= T[k]
  <2>1. \A p \in 1..k : 1 <= p /\ p <= k
    BY <1>1
  <2> QED
    BY <1>1, <1>2, <1>5, <1>11, <2>1
<1>14. CASE i <= j
  <2>1. T[b] >= T[a]
    BY <1>5, <1>11, <1>14
  <2>2. (S[i] + T[a]) - (S[j] + T[b]) <= S[1] - S[k]
    BY <1>12, <1>13, <2>1
  <2>3. Spread(lens, m) <= Spread(lens, s)
    BY <1>9, <1>10, <2>2 DEF a, b
  <2>4. PICK o \in InitialStates(lens, k, equal) :
            IsState(o) /\ Spread(lens, s) <= Spread(lens, o)
    BY DEF IsWithin
  <2>5. Spread(lens, o) \in Int /\ Spread(lens, s) \in Int /\ Spread(lens, m) \in Int
    BY <2>4, StateFacts
  <2>6. Spread(lens, m) <= Spread(lens, o)
    BY <2>3, <2>4, <2>5
  <2> QED
    BY <2>4, <2>6 DEF IsWithin
<1>15. CASE j <= i
  <2>1. S[j] >= S[i]
    BY <1>2, <1>5, <1>15
  <2>2. (S[i] + T[a]) - (S[j] + T[b]) <= T[1] - T[k]
    BY <1>12, <1>13, <2>1
  <2>3. Spread(lens, m) <= Spread(lens, t)
    BY <1>9, <1>10, <2>2 DEF a, b
  <2>4. PICK o \in InitialStates(lens, k, equal) :
            IsState(o) /\ Spread(lens, t) <= Spread(lens, o)
    BY DEF IsWithin
  <2>5. Spread(lens, o) \in Int /\ Spread(lens, t) \in Int /\ Spread(lens, m) \in Int
    BY <2>4, StateFacts
  <2>6. Spread(lens, m) <= Spread(lens, o)
    BY <2>3, <2>4, <2>5
  <2> QED
    BY <2>4, <2>6 DEF IsWithin
<1> QED
  BY <1>1, <1>2, <1>14, <1>15

\* The places of a merged set are those of the two it is made of.
ComesFrom(j, m, s, t, order, p) ==
    \/ j \in DOMAIN s[order[p]] /\ m[p][j] = s[order[p]][j]
    \/ \E l \in DOMAIN t[k + 1 - order[p]] :
          j = Len(s[order[p]]) + l /\ m[p][j] = t[k + 1 - order[p]][l]

LEMMA MergedPlaces ==
    ASSUME IsInput, NEW s, NEW t, NEW m, NEW order, IsState(s), IsState(t),
           IsMerged(m, s, t, order)
    PROVE  /\ \A p \in 1..k : \A j \in DOMAIN m[p] : ComesFrom(j, m, s, t, order, p)
           /\ \A r \in 1..k : \A j \in DOMAIN s[r] :
                 \E p \in 1..k : j \in DOMAIN m[p] /\ m[p][j] = s[r][j]
           /\ \A r \in 1..k : \A j \in DOMAIN t[r] :
                 \E p \in 1..k : \E l \in DOMAIN m[p] : m[p][l] = t[r][j]
<1>1. k \in Nat
  BY DEF IsInput, IsBatch
<1>2. \A x \in 1..k : k + 1 - x \in 1..k /\ k + 1 - (k + 1 - x) = x
  BY <1>1
<1>3. \A p \in 1..k : order[p] \in 1..k /\ m[p] = s[order[p]] \o t[k + 1 - order[p]]
  BY DEF IsMerged, Permutes
<1>4. \A x \in 1..k : \E p \in 1..k : order[p] = x
  BY DEF IsMerged, Permutes
<1>5. \A p \in 1..k : s[p] \in Seq(Items) /\ t[p] \in Seq(Items)
  BY StateFacts
<1>6. ASSUME NEW p \in 1..k
      PROVE  IsJoined(m[p], s[order[p]], t[k + 1 - order[p]])
  <2>1. s[order[p]] \in Seq(Items) /\ t[k + 1 - order[p]] \in Seq(Items)
    BY <1>2, <1>3, <1>5
  <2>2. m[p] = s[order[p]] \o t[k + 1 - order[p]]
    BY <1>3
  <2> QED
    BY <2>1, <2>2, JoinedPlaces, Zenon
<1>7. ASSUME NEW p \in 1..k, NEW j \in DOMAIN m[p]
      PROVE  ComesFrom(j, m, s, t, order, p)
  <2> DEFINE a == s[order[p]]
             b == t[k + 1 - order[p]]
             c == m[p]
  <2>1. IsJoined(c, a, b) /\ j \in DOMAIN c
    BY <1>6
  <2> HIDE DEF a, b, c
  <2>2. j \in DOMAIN a \/ \E l \in DOMAIN b : j = Len(a) + l
    BY <2>1, Zenon DEF IsJoined
  <2>3. CASE j \in DOMAIN a
    <3>1. c[j] = a[j]
      BY <2>1, <2>3, Zenon DEF IsJoined
    <3> QED
      BY <2>3, <3>1, Zenon DEF ComesFrom, a, c
  <2>4. CASE \E l \in DOMAIN b : j = Len(a) + l
    <3>1. PICK l \in DOMAIN b : j = Len(a) + l
      BY <2>4
    <3>2. c[j] = b[l]
      BY <2>1, <3>1, Zenon DEF IsJoined
    <3> QED
      BY <3>1, <3>2, Zenon DEF ComesFrom, a, b, c
  <2> QED
    BY <2>2, <2>3, <2>4, Zenon
<1>8. ASSUME NEW r \in 1..k, NEW j \in DOMAIN s[r]
      PROVE  \E p \in 1..k : j \in DOMAIN m[p] /\ m[p][j] = s[r][j]
  <2>1. PICK p \in 1..k : order[p] = r
    BY <1>4
  <2>2. j \in DOMAIN s[order[p]] /\ s[order[p]] = s[r]
    BY <2>1
  <2>3. j \in DOMAIN m[p] /\ m[p][j] = s[order[p]][j]
    BY <1>6, <2>2, Zenon DEF IsJoined
  <2> QED
    BY <2>2, <2>3, Zenon
<1>9. ASSUME NEW r \in 1..k, NEW j \in DOMAIN t[r]
      PROVE  \E p \in 1..k : \E l \in DOMAIN m[p] : m[p][l] = t[r][j]
  <2>1. PICK p \in 1..k : order[p] = k + 1 - r
    BY <1>2, <1>4
  <2>2. t[k + 1 - order[p]] = t[r]
    BY <1>2, <2>1
  <2> DEFINE a == s[order[p]]
             b == t[k + 1 - order[p]]
             c == m[p]
  <2>3. IsJoined(c, a, b) /\ b = t[r] /\ j \in DOMAIN b
    BY <1>6, <2>2
  <2> HIDE DEF a, b, c
  <2>4. Len(a) + j \in DOMAIN c /\ c[Len(a) + j] = b[j]
    BY <2>3, Zenon DEF IsJoined
  <2>5. Len(a) + j \in DOMAIN m[p] /\ m[p][Len(a) + j] = t[r][j]
    BY <2>3, <2>4 DEF c
  <2> QED
    BY <2>5, Zenon
<1> QED
  BY <1>7, <1>8, <1>9

LEMMA MergedCovered ==
    ASSUME IsInput, NEW ss, NEW s \in ss, NEW t \in ss, NEW m, NEW order, IsState(s),
           IsState(t), IsMerged(m, s, t, order), Covered(ss)
    PROVE  Covered((ss \ {s, t}) \cup {m})
<1> DEFINE rest == (ss \ {s, t}) \cup {m}
<1>1. ASSUME NEW i \in Items
      PROVE  \E o \in rest, p \in 1..k : \E j \in DOMAIN o[p] : o[p][j] = i
  <2>1. PICK o \in ss, p \in 1..k : \E j \in DOMAIN o[p] : o[p][j] = i
    BY <1>1 DEF Covered
  <2>2. PICK j \in DOMAIN o[p] : o[p][j] = i
    BY <2>1
  <2>3. m \in rest /\ (o \in rest \/ o = s \/ o = t)
    OBVIOUS
  <2> HIDE DEF rest
  <2>4. CASE o \in rest
    BY <2>2, <2>4
  <2>5. CASE o = s
    <3>1. \E r \in 1..k : j \in DOMAIN m[r] /\ m[r][j] = s[p][j]
      BY <2>2, <2>5, MergedPlaces
    <3> QED
      BY <2>2, <2>3, <2>5, <3>1
  <2>6. CASE o = t
    <3>1. \E r \in 1..k : \E l \in DOMAIN m[r] : m[r][l] = t[p][j]
      BY <2>2, <2>6, MergedPlaces
    <3> QED
      BY <2>2, <2>3, <2>6, <3>1
  <2> QED
    BY <2>3, <2>4, <2>5, <2>6
<1> QED
  BY <1>1 DEF Covered

At(i, s, p, j) == j \in DOMAIN s[p] /\ s[p][j] = i

LEMMA OnePlace ==
    ASSUME NEW ss, Once(ss), NEW i, NEW a \in ss, NEW b \in ss, NEW p \in 1..k,
           NEW r \in 1..k, NEW j, NEW l, At(i, a, p, j), At(i, b, r, l)
    PROVE  a = b /\ p = r /\ j = l
<1>1. j \in DOMAIN a[p] /\ l \in DOMAIN b[r] /\ a[p][j] = b[r][l]
  BY DEF At
<1>2. \A x \in ss : \A y \in ss : \A c \in 1..k : \A d \in 1..k :
         \A g \in DOMAIN x[c] : \A h \in DOMAIN y[d] :
            x[c][g] = y[d][h] => x = y /\ c = d /\ g = h
  BY Zenon DEF Once
<1>3. \A g \in DOMAIN a[p] : \A h \in DOMAIN b[r] :
         a[p][g] = b[r][h] => a = b /\ p = r /\ g = h
  <2>1. \A c \in 1..k : \A d \in 1..k : \A g \in DOMAIN a[c] : \A h \in DOMAIN b[d] :
           a[c][g] = b[d][h] => a = b /\ c = d /\ g = h
    BY <1>2
  <2> QED
    BY <2>1
<1> QED
  BY <1>1, <1>3, Zenon

LEMMA MergedOnce ==
    ASSUME IsInput, NEW ss, NEW s \in ss, NEW t \in ss, s # t, NEW m, NEW order, IsState(s),
           IsState(t), IsMerged(m, s, t, order), Once(ss)
    PROVE  Once((ss \ {s, t}) \cup {m})
<1> DEFINE rest == (ss \ {s, t}) \cup {m}
<1>1. /\ k \in Nat
      /\ \A p \in 1..k : order[p] \in 1..k /\ k + 1 - order[p] \in 1..k
      /\ \A p, r \in 1..k : order[p] = order[r] => p = r
      /\ \A p, r \in 1..k : k + 1 - order[p] = k + 1 - order[r] => order[p] = order[r]
  <2>1. k \in Nat
    BY DEF IsInput, IsBatch
  <2>2. /\ \A p \in 1..k : order[p] \in 1..k
        /\ \A p, r \in 1..k : order[p] = order[r] => p = r
    BY DEF IsMerged, Permutes
  <2>3. \A x, y \in 1..k : k + 1 - x \in 1..k /\ (k + 1 - x = k + 1 - y => x = y)
    BY <2>1
  <2> QED
    BY <2>1, <2>2, <2>3
<1>2. \A p \in 1..k : \A j \in DOMAIN m[p] :
         \/ j \in DOMAIN s[order[p]] /\ m[p][j] = s[order[p]][j]
         \/ \E l \in DOMAIN t[k + 1 - order[p]] :
               j = Len(s[order[p]]) + l /\ m[p][j] = t[k + 1 - order[p]][l]
  <2>1. \A p \in 1..k : \A j \in DOMAIN m[p] : ComesFrom(j, m, s, t, order, p)
    BY MergedPlaces
  <2> QED
    BY <2>1, Zenon DEF ComesFrom
\* a place of m never holds what a place of another state holds
<1>3. ASSUME NEW i, NEW p \in 1..k, NEW j, At(i, m, p, j), NEW o \in ss \ {s, t},
             NEW r \in 1..k, NEW l, At(i, o, r, l)
      PROVE  FALSE
  <2>1. j \in DOMAIN m[p] /\ m[p][j] = i
    BY <1>3 DEF At
  <2>2. order[p] \in 1..k /\ k + 1 - order[p] \in 1..k
    BY <1>1
  <2>3. CASE j \in DOMAIN s[order[p]] /\ m[p][j] = s[order[p]][j]
    <3>1. At(i, s, order[p], j)
      BY <2>1, <2>3 DEF At
    <3>2. s = o
      BY <1>3, <2>2, <3>1, OnePlace
    <3> QED
      BY <3>2
  <2>4. ASSUME NEW h \in DOMAIN t[k + 1 - order[p]], m[p][j] = t[k + 1 - order[p]][h]
        PROVE  FALSE
    <3>1. At(i, t, k + 1 - order[p], h)
      BY <2>1, <2>4 DEF At
    <3>2. t = o
      BY <1>3, <2>2, <3>1, OnePlace
    <3> QED
      BY <3>2
  <2> QED
    BY <1>2, <2>1, <2>3, <2>4
<1>4. ASSUME NEW i, NEW p \in 1..k, NEW j, At(i, m, p, j), NEW r \in 1..k, NEW l,
             At(i, m, r, l)
      PROVE  p = r /\ j = l
  <2> DEFINE a == order[p]
             b == order[r]
             c == k + 1 - a
             d == k + 1 - b
  <2>1. a \in 1..k /\ b \in 1..k /\ c \in 1..k /\ d \in 1..k
    BY <1>1
  <2>2. (a = b => p = r) /\ (c = d => a = b)
    BY <1>1
  <2>3. \/ At(i, s, a, j)
        \/ \E h : j = Len(s[a]) + h /\ At(i, t, c, h)
    BY <1>2, <1>4 DEF At
  <2>4. \/ At(i, s, b, l)
        \/ \E h : l = Len(s[b]) + h /\ At(i, t, d, h)
    BY <1>2, <1>4 DEF At
  <2> HIDE DEF a, b, c, d
  <2>5. CASE At(i, s, a, j) /\ At(i, s, b, l)
    <3>1. a = b /\ j = l
      BY <2>1, <2>5, OnePlace
    <3> QED
      BY <2>2, <3>1
  <2>6. ASSUME NEW h, At(i, t, d, h), At(i, s, a, j)
        PROVE  FALSE
    <3>1. s = t
      BY <2>1, <2>6, OnePlace
    <3> QED
      BY <3>1
  <2>7. ASSUME NEW g, At(i, t, c, g), At(i, s, b, l)
        PROVE  FALSE
    <3>1. s = t
      BY <2>1, <2>7, OnePlace
    <3> QED
      BY <3>1
  <2>8. ASSUME NEW g, NEW h, j = Len(s[a]) + g, l = Len(s[b]) + h,
               At(i, t, c, g), At(i, t, d, h)
        PROVE  p = r /\ j = l
    <3>1. c = d /\ g = h
      BY <2>1, <2>8, OnePlace
    <3>2. a = b
      BY <2>2, <3>1
    <3> QED
      BY <2>2, <2>8, <3>1, <3>2
  <2> QED
    BY <2>3, <2>4, <2>5, <2>6, <2>7, <2>8
<1>5. ASSUME NEW a \in rest, NEW b \in rest, NEW p \in 1..k, NEW r \in 1..k,
             NEW j \in DOMAIN a[p], NEW l \in DOMAIN b[r], a[p][j] = b[r][l]
      PROVE  a = b /\ p = r /\ j = l
  <2> DEFINE i == a[p][j]
  <2>1. At(i, a, p, j) /\ At(i, b, r, l)
    BY <1>5 DEF At
  <2>2. /\ a \in ss \ {s, t} \/ a = m
        /\ b \in ss \ {s, t} \/ b = m
    OBVIOUS
  <2> HIDE DEF rest, i
  <2>3. CASE a = m /\ b = m
    BY <1>4, <2>1, <2>3
  <2>4. CASE a = m /\ b \in ss \ {s, t}
    BY <1>3, <2>1, <2>4
  <2>5. CASE a \in ss \ {s, t} /\ b = m
    BY <1>3, <2>1, <2>5
  <2>6. CASE a \in ss \ {s, t} /\ b \in ss \ {s, t}
    BY <2>1, <2>6, OnePlace
  <2> QED
    BY <2>2, <2>3, <2>4, <2>5, <2>6
<1> QED
  BY <1>5 DEF Once

(***************************************************************************)
(* The steps.                                                              *)
(***************************************************************************)

\* What a state is said to be depends on the input alone, which no step changes.
LEMMA InputKept ==
    ASSUME UNCHANGED <<lens, k, equal>>, NEW s
    PROVE  /\ (IsState(s))' <=> IsState(s)
           /\ (IsOrdered(s))' <=> IsOrdered(s)
           /\ (IsEven(s))' <=> IsEven(s)
           /\ (IsWithin(s))' <=> IsWithin(s)
           /\ IsInput' <=> IsInput
<1>1. lens' = lens /\ k' = k /\ equal' = equal
  OBVIOUS
<1>2. (IsState(s))' <=> IsState(s)
  BY <1>1, Zenon DEF IsState
<1>3. (IsOrdered(s))' <=> IsOrdered(s)
  BY <1>1, Zenon DEF IsOrdered
<1>4. (IsEven(s))' <=> IsEven(s)
  BY <1>1 DEF IsEven
<1>5. (IsWithin(s))' <=> IsWithin(s)
  BY <1>1, Zenon DEF IsWithin, IsState
<1>6. IsInput' <=> IsInput
  BY <1>1, Zenon DEF IsInput
<1> QED
  BY <1>2, <1>3, <1>4, <1>5, <1>6

LEMMA PlacesKept ==
    ASSUME UNCHANGED <<lens, k>>, NEW ss, states' = ss
    PROVE  /\ Covered(ss) => (Covered(states))'
           /\ Once(ss) => (Once(states))'
<1>1. lens' = lens /\ k' = k /\ states' = ss
  OBVIOUS
<1>2. (Covered(states))' <=> Covered(ss)
  BY <1>1, SMT DEF Covered, Items
<1>3. (Once(states))' <=> Once(ss)
  BY <1>1, SMT DEF Once
<1> QED
  BY <1>2, <1>3

LEMMA MergeTwoSplitInv ==
    ASSUME SplitInv, MergeTwo
    PROVE  SplitInv'
<1>1. PICK s \in states, t \in states :
         s # t /\ states' = (states \ {s, t}) \cup {Merged(lens, s, t)}
  BY DEF MergeTwo
<1>2. UNCHANGED <<lens, k, equal, result>>
  BY DEF MergeTwo
<1> DEFINE m == Merged(lens, s, t)
           rest == (states \ {s, t}) \cup {m}
<1>3. /\ IsInput
      /\ \A o \in states : IsState(o) /\ IsOrdered(o) /\ IsEven(o) /\ IsWithin(o)
      /\ Covered(states) /\ Once(states) /\ ResultInv
  BY DEF SplitInv
<1>4. s \in states /\ t \in states /\ s # t
  BY <1>1
<1>5. IsState(m) /\ IsOrdered(m) /\ \E order : IsMerged(m, s, t, order)
  BY <1>3, <1>4, MergedSorts
<1> HIDE DEF m
<1>6. PICK order : IsMerged(m, s, t, order)
  BY <1>5
<1>7. IsEven(m)
  BY <1>3, <1>4, <1>5, <1>6, MergedEven
<1>8. IsWithin(m)
  BY <1>3, <1>4, <1>5, <1>6, MergedWithin
<1>9. Covered(rest) /\ Once(rest)
  BY <1>3, <1>4, <1>6, MergedCovered, MergedOnce
<1>10. states' = rest
  BY <1>1 DEF m
<1>11. \A o \in rest : IsState(o) /\ IsOrdered(o) /\ IsEven(o) /\ IsWithin(o)
  BY <1>3, <1>5, <1>7, <1>8
<1> HIDE DEF rest
<1>12. IsInput'
  BY <1>2, <1>3, InputKept
<1>13. (\A o \in states : IsState(o) /\ IsOrdered(o) /\ IsEven(o) /\ IsWithin(o))'
  <2>1. ASSUME NEW o \in states'
        PROVE  (IsState(o))' /\ (IsOrdered(o))' /\ (IsEven(o))' /\ (IsWithin(o))'
    BY <1>2, <1>10, <1>11, <2>1, InputKept
  <2> QED
    BY <2>1
<1>14. (Covered(states))' /\ (Once(states))'
  BY <1>2, <1>9, <1>10, PlacesKept
<1>15. result = <<>>
  BY <1>3, <1>4 DEF ResultInv
<1>16. ResultInv'
  BY <1>2, <1>15 DEF ResultInv
<1> QED
  BY <1>12, <1>13, <1>14, <1>16 DEF SplitInv

LEMMA SameStatesSplitInv ==
    ASSUME SplitInv, UNCHANGED <<lens, k, equal, states>>, ResultInv'
    PROVE  SplitInv'
<1>1. /\ IsInput
      /\ \A o \in states : IsState(o) /\ IsOrdered(o) /\ IsEven(o) /\ IsWithin(o)
      /\ Covered(states) /\ Once(states)
  BY DEF SplitInv
<1>2. IsInput'
  BY <1>1, InputKept
<1>3. (\A o \in states : IsState(o) /\ IsOrdered(o) /\ IsEven(o) /\ IsWithin(o))'
  <2>1. ASSUME NEW o \in states'
        PROVE  (IsState(o))' /\ (IsOrdered(o))' /\ (IsEven(o))' /\ (IsWithin(o))'
    BY <1>1, <2>1, InputKept
  <2> QED
    BY <2>1
<1>4. (Covered(states))' /\ (Once(states))'
  BY <1>1, PlacesKept
<1> QED
  BY <1>2, <1>3, <1>4 DEF SplitInv

LEMMA NextSplitInv ==
    ASSUME SplitInv, [Next]_vars
    PROVE  SplitInv'
<1>1. CASE MergeTwo
  BY <1>1, MergeTwoSplitInv
<1>2. CASE Return
  <2>1. UNCHANGED <<lens, k, equal, states>>
    BY <1>2 DEF Return
  <2>2. PICK final \in states :
           /\ states = {final}
           /\ result' = [i \in 1..k |-> SortedItems(final[i])]
    BY <1>2 DEF Return
  <2>3. ResultInv'
    BY <2>1, <2>2 DEF ResultInv
  <2> QED
    BY <2>1, <2>3, SameStatesSplitInv
<1>3. CASE UNCHANGED vars
  <2>1. UNCHANGED <<lens, k, equal, states>> /\ result' = result
    BY <1>3 DEF vars
  <2>2. ResultInv'
    BY <2>1 DEF SplitInv, ResultInv
  <2> QED
    BY <2>1, <2>2, SameStatesSplitInv
<1> QED
  BY <1>1, <1>2, <1>3 DEF Next

LEMMA AlwaysSplitInv == Spec => []SplitInv
<1>1. Init => SplitInv
  BY SizesAssumption, InitSplitInv
<1>2. SplitInv /\ [Next]_vars => SplitInv'
  BY NextSplitInv
<1> QED
  BY <1>1, <1>2, PTL DEF Spec

(***************************************************************************)
(* What the invariant says of the partitions.                              *)
(***************************************************************************)

\* Sorting the items of a set changes neither the items nor their total.
LEMMA SortedItemsSame ==
    ASSUME IsInput, NEW set, IsItemSet(lens, set)
    PROVE  /\ SortedItems(set) \in Seq(Items)
           /\ Len(SortedItems(set)) = Len(set)
           /\ SortedItems(set) = <<>> <=> set = <<>>
           /\ Total(lens, SortedItems(set)) = Total(lens, set)
           /\ \A i : i \in ToSet(SortedItems(set)) <=> \E j \in DOMAIN set : set[j] = i
<1> DEFINE sorted == SortedItems(set)
           n == Len(set)
<1>1. /\ Len(lens) \in Nat /\ IsBatch(lens) /\ set \in Seq(1..Len(lens))
      /\ set \in Seq(Items)
  BY DEF IsInput, IsBatch, IsItemSet, Items
<1>2. n \in Nat /\ DOMAIN set = 1..n
  BY <1>1
<1>3. PICK order : Permutes(order, n) /\ sorted = [p \in 1..n |-> set[order[p]]]
  BY <1>1, SortedItemsPermute
<1> HIDE DEF sorted
<1>4. /\ order \in [1..n -> 1..n]
      /\ \A p, r \in 1..n : order[p] = order[r] => p = r
      /\ \A i \in 1..n : \E p \in 1..n : order[p] = i
  BY <1>3 DEF Permutes
<1>5. DOMAIN sorted = 1..n /\ \A p \in 1..n : sorted[p] = set[order[p]] /\ order[p] \in 1..n
  BY <1>3, <1>4
<1>6. \A p \in 1..n : set[p] \in Items
  BY <1>1, <1>2
<1> HIDE DEF n
<1>7. sorted \in Seq(Items) /\ Len(sorted) = n
  <2>1. sorted \in [1..n -> Items]
    BY <1>3, <1>5, <1>6
  <2> QED
    BY <1>2, <2>1
<1>8. IsItemSet(lens, sorted)
  BY <1>7 DEF IsItemSet, Items
<1>9. Total(lens, sorted) = Total(lens, set)
  <2>1. order \in [DOMAIN sorted -> DOMAIN set]
    BY <1>2, <1>4, <1>5
  <2>2. /\ \A p, r \in DOMAIN sorted : order[p] = order[r] => p = r
        /\ \A i \in DOMAIN set : \E p \in DOMAIN sorted : order[p] = i
        /\ \A p \in DOMAIN sorted : set[order[p]] = sorted[p]
    BY <1>2, <1>4, <1>5
  <2> QED
    BY <1>1, <1>8, <2>1, <2>2, TotalMoved
<1>10. sorted = <<>> <=> set = <<>>
  BY <1>1, <1>2, <1>7 DEF n
<1>11. ASSUME NEW i
       PROVE  i \in ToSet(sorted) <=> \E j \in DOMAIN set : set[j] = i
  <2>1. i \in ToSet(sorted) <=> \E p \in DOMAIN sorted : sorted[p] = i
    BY DEF ToSet
  <2> QED
    BY <1>2, <1>4, <1>5, <2>1
<1> QED
  BY <1>7, <1>9, <1>10, <1>11 DEF sorted, n

LEMMA ResultFacts ==
    ASSUME SplitInv, result # <<>>
    PROVE  \E final : /\ states = {final}
                      /\ IsState(final) /\ IsOrdered(final) /\ IsEven(final) /\ IsWithin(final)
                      /\ \A p \in 1..k : result[p] = SortedItems(final[p])
                      /\ \A i \in Items : \E p \in 1..k : \E j \in DOMAIN final[p] :
                            final[p][j] = i
<1>1. PICK final \in states : /\ states = {final}
                              /\ result = [p \in 1..k |-> SortedItems(final[p])]
  BY DEF SplitInv, ResultInv
<1>2. IsState(final) /\ IsOrdered(final) /\ IsEven(final) /\ IsWithin(final)
  BY DEF SplitInv
<1>3. \A p \in 1..k : result[p] = SortedItems(final[p])
  BY <1>1
<1>4. \A i \in Items : \E p \in 1..k : \E j \in DOMAIN final[p] : final[p][j] = i
  BY <1>1 DEF SplitInv, Covered
<1> QED
  BY <1>1, <1>2, <1>3, <1>4

\* There are not fewer items than partitions: were one empty, each other one
\* would hold one item at most, and some item would be in none.
LEMMA NoneEmpty ==
    ASSUME SplitInv, NEW s, IsState(s), IsEven(s),
           \A i \in Items : \E p \in 1..k : \E j \in DOMAIN s[p] : s[p][j] = i,
           NEW e \in 1..k, s[e] = <<>>
    PROVE  FALSE
<1> DEFINE n == Len(lens)
           place(i) == CHOOSE p \in 1..k : \E j \in DOMAIN s[p] : s[p][j] = i
           f == [i \in Items |-> place(i)]
<1>1. n \in Nat /\ k \in 1..n /\ Items = 1..n /\ 1 \in 1..k /\ IsInput
  BY DEF SplitInv, IsInput, IsBatch, Items
<1>2. \A i \in Items : \E p \in 1..k : \E j \in DOMAIN s[p] : s[p][j] = i
  OBVIOUS
<1>3. \A p \in 1..k : s[p] \in Seq(Items)
  BY <1>1, StateFacts
<1>4. \A p \in 1..k : Len(s[p]) <= 1
  <2>1. CASE equal
    <3>1. \A p \in 1..k : Len(s[p]) = Len(s[e])
      BY <2>1 DEF IsEven
    <3>2. Len(<<>>) = 0
      OBVIOUS
    <3> QED
      BY <3>1, <3>2
  <2>2. CASE ~equal
    BY <2>2 DEF IsEven
  <2> QED
    BY <2>1, <2>2
<1>5. \A p \in 1..k : \A j \in DOMAIN s[p] : j = 1
  <2>1. ASSUME NEW p \in 1..k, NEW j \in DOMAIN s[p]
        PROVE  j = 1
    <3>1. s[p] \in Seq(Items) /\ Len(s[p]) <= 1
      BY <1>3, <1>4
    <3> QED
      BY <3>1
  <2> QED
    BY <2>1
<1>6. \A i \in Items : f[i] = place(i)
  BY Zenon
<1>7. \A i \in Items : f[i] \in 1..k /\ \E j \in DOMAIN s[f[i]] : s[f[i]][j] = i
  <2>1. ASSUME NEW i \in Items
        PROVE  place(i) \in 1..k /\ \E j \in DOMAIN s[place(i)] : s[place(i)][j] = i
    BY <1>2, Zenon
  <2> QED
    BY <1>6, <2>1, Zenon
<1> HIDE DEF place
<1>8. f = [i \in Items |-> f[i]]
  OBVIOUS
<1> HIDE DEF f
<1>9. \A i \in Items : f[i] \in (1..k) \ {e}
  <2>1. DOMAIN <<>> = {}
    OBVIOUS
  <2> QED
    BY <1>7, <2>1
<1>10. \A i, h \in Items : f[i] = f[h] => i = h
  <2>1. \A i \in Items : s[f[i]][1] = i
    BY <1>5, <1>7
  <2> QED
    BY <2>1
<1>11. f \in Injection(Items, (1..k) \ {e})
  <2>1. f \in [Items -> (1..k) \ {e}]
    BY <1>8, <1>9
  <2> QED
    BY <1>10, <2>1 DEF Injection, IsInjective
<1>12. IsFiniteSet((1..k) \ {e}) /\ Cardinality((1..k) \ {e}) = k - 1
  <2>1. IsFiniteSet(1..k) /\ Cardinality(1..k) = k
    BY <1>1, FS_Interval
  <2> QED
    BY <2>1, FS_RemoveElement
<1>13. Cardinality(Items) = n
  <2>1. Cardinality(1..n) = IF 1 > n THEN 0 ELSE n - 1 + 1
    BY <1>1, FS_Interval
  <2>2. n >= 1 /\ n - 1 + 1 = n
    BY <1>1
  <2> QED
    BY <1>1, <2>1, <2>2
<1>14. n <= k - 1
  BY <1>11, <1>12, <1>13, FS_Injection
<1> QED
  BY <1>1, <1>14

\* With equal sizes, the places of a state that holds every item once are as
\* many as the items.
LEMMA SizesMultiply ==
    ASSUME SplitInv, equal, NEW s, states = {s}, IsState(s), IsEven(s),
           \A i \in Items : \E p \in 1..k : \E j \in DOMAIN s[p] : s[p][j] = i,
           NEW r \in 1..k
    PROVE  Len(s[r]) * k = Len(lens)
<1> DEFINE n == Len(lens)
           size == Len(s[r])
           P == (1..k) \X (1..size)
           f == [x \in P |-> s[x[1]][x[2]]]
<1>1. n \in Nat /\ k \in Nat /\ Items = 1..n /\ IsInput
  BY DEF SplitInv, IsInput, IsBatch, Items
<1>2. \A p \in 1..k : s[p] \in Seq(Items)
  BY <1>1, StateFacts
<1>3. size \in Nat
  BY <1>2
<1>4. \A p \in 1..k : Len(s[p]) = size
  BY DEF IsEven
<1> HIDE DEF size
<1>5. \A p \in 1..k : DOMAIN s[p] = 1..size /\ \A j \in 1..size : s[p][j] \in Items
  BY <1>2, <1>3, <1>4
<1>6. \A x \in P : f[x] = s[x[1]][x[2]] /\ x[1] \in 1..k /\ x[2] \in 1..size /\ x = <<x[1], x[2]>>
  OBVIOUS
<1>7. \A p \in 1..k, j \in 1..size : <<p, j>> \in P /\ f[<<p, j>>] = s[p][j]
  OBVIOUS
<1>8. f \in [P -> Items]
  BY <1>5
<1> HIDE DEF f, P
<1>9. \A x, y \in P : f[x] = f[y] => x = y
  <2>1. ASSUME NEW x \in P, NEW y \in P, f[x] = f[y]
        PROVE  x = y
    <3>1. At(f[x], s, x[1], x[2]) /\ At(f[x], s, y[1], y[2])
      BY <1>5, <1>6, <2>1 DEF At
    <3>2. s \in states /\ Once(states)
      BY DEF SplitInv
    <3>3. x[1] \in 1..k /\ y[1] \in 1..k
      BY <1>6
    <3>4. x[1] = y[1] /\ x[2] = y[2]
      BY <3>1, <3>2, <3>3, OnePlace
    <3> QED
      BY <1>6, <3>4
  <2> QED
    BY <2>1
<1>10. \A i \in Items : \E x \in P : f[x] = i
  <2>1. ASSUME NEW i \in Items
        PROVE  \E x \in P : f[x] = i
    <3>1. PICK p \in 1..k : \E j \in DOMAIN s[p] : s[p][j] = i
      OBVIOUS
    <3>2. PICK j \in 1..size : s[p][j] = i
      BY <1>5, <3>1
    <3> QED
      BY <1>7, <3>2
  <2> QED
    BY <2>1
<1>11. f \in Injection(P, Items) /\ f \in Surjection(P, Items)
  BY <1>8, <1>9, <1>10 DEF Injection, Surjection, IsInjective
<1>12. IsFiniteSet(Items) /\ Cardinality(Items) = n
  BY <1>1, FS_Interval
<1>13. Cardinality(P) = n
  BY <1>11, <1>12, FS_Injection
<1>14. Cardinality(P) = k * size
  <2>1. /\ IsFiniteSet(1..k) /\ Cardinality(1..k) = k
        /\ IsFiniteSet(1..size) /\ Cardinality(1..size) = size
    <3>1. \A x \in Nat : IsFiniteSet(1..x) /\ Cardinality(1..x) = x
      BY FS_Interval
    <3> QED
      BY <1>1, <1>3, <3>1
  <2> QED
    BY <2>1, FS_Product DEF P
<1>15. size * k = k * size
  BY <1>1, <1>3
<1> QED
  BY <1>13, <1>14, <1>15 DEF size

(***************************************************************************)
(* The theorems.                                                           *)
(***************************************************************************)

\* There are as many partitions as ranks or micro-batches, never more than
\* sequences and never none, from the first state of karmarkar_karp to the
\* sorted result.
THEOREM AlwaysTypeOK == Spec => []TypeOK
<1>1. SplitInv => TypeOK
  <2> SUFFICES ASSUME SplitInv
               PROVE  TypeOK
    OBVIOUS
  <2>1. k \in 1..Len(lens) /\ k \in Nat /\ IsInput
    BY DEF SplitInv, IsInput, IsBatch
  <2>2. \A s \in states : s \in Seq(Seq(Items)) /\ Len(s) = k
    BY <2>1, StateFacts DEF SplitInv
  <2>3. CASE result = <<>>
    BY <2>1, <2>2, <2>3 DEF TypeOK
  <2>4. CASE result # <<>>
    <3>1. PICK final \in states : result = [p \in 1..k |-> SortedItems(final[p])]
      BY <2>4 DEF SplitInv, ResultInv
    <3>2. \A p \in 1..k : SortedItems(final[p]) \in Seq(Items)
      BY <2>1, <3>1, SortedItemsSame DEF SplitInv, IsState
    <3>3. result \in Seq(Seq(Items))
      <4>1. result \in [1..k -> Seq(Items)]
        BY <3>1, <3>2
      <4> QED
        BY <2>1, <4>1
    <3> QED
      BY <2>1, <2>2, <3>3 DEF TypeOK
  <2> QED
    BY <2>3, <2>4
<1> QED
  BY <1>1, AlwaysSplitInv, PTL

\* The assertions on the partitions, in _check_and_sort_partitions and after
\* it, hold for every batch: each sequence is in a partition, no partition is
\* empty, and with equal_size all partitions have one size.
THEOREM AlwaysPartitionsUsable == Spec => []PartitionsUsable
<1>1. SplitInv => PartitionsUsable
  <2> SUFFICES ASSUME SplitInv, result # <<>>
               PROVE  /\ UNION {ToSet(result[p]) : p \in 1..k} = Items
                      /\ \A p \in 1..k : result[p] # <<>>
                      /\ equal => \A p \in 1..k : Len(result[p]) * k = Len(lens)
    BY DEF PartitionsUsable
  <2>1. PICK final :
           /\ states = {final}
           /\ IsState(final) /\ IsOrdered(final) /\ IsEven(final) /\ IsWithin(final)
           /\ \A p \in 1..k : result[p] = SortedItems(final[p])
           /\ \A i \in Items : \E p \in 1..k : \E j \in DOMAIN final[p] : final[p][j] = i
    BY ResultFacts
  <2>2. IsInput /\ \A p \in 1..k : IsItemSet(lens, final[p])
    BY <2>1 DEF SplitInv, IsState
  <2>3. \A p \in 1..k :
           /\ Len(result[p]) = Len(final[p])
           /\ result[p] = <<>> <=> final[p] = <<>>
           /\ \A i : i \in ToSet(result[p]) <=> \E j \in DOMAIN final[p] : final[p][j] = i
    BY <2>1, <2>2, SortedItemsSame
  <2>4. \A p \in 1..k : \A j \in DOMAIN final[p] : final[p][j] \in Items
    BY <2>2 DEF IsItemSet, Items
  <2>5. UNION {ToSet(result[p]) : p \in 1..k} = Items
    <3>1. \A i : i \in UNION {ToSet(result[p]) : p \in 1..k}
                  <=> \E p \in 1..k : i \in ToSet(result[p])
      OBVIOUS
    <3>2. \A i : (\E p \in 1..k : i \in ToSet(result[p]))
                  <=> \E p \in 1..k : \E j \in DOMAIN final[p] : final[p][j] = i
      BY <2>3
    <3>3. \A i : i \in Items
                  <=> \E p \in 1..k : \E j \in DOMAIN final[p] : final[p][j] = i
      BY <2>1, <2>4
    <3> DEFINE U == UNION {ToSet(result[p]) : p \in 1..k}
    <3>4. \A i : i \in U <=> i \in Items
      BY <3>1, <3>2, <3>3, Zenon
    <3> HIDE DEF U
    <3>5. U = Items
      BY <3>4
    <3> QED
      BY <3>5 DEF U
  <2>6. \A p \in 1..k : result[p] # <<>>
    BY <2>1, <2>3, NoneEmpty
  <2>7. ASSUME equal, NEW p \in 1..k
        PROVE  Len(result[p]) * k = Len(lens)
    BY <2>1, <2>3, <2>7, SizesMultiply
  <2> QED
    BY <2>5, <2>6, <2>7
<1> QED
  BY <1>1, AlwaysSplitInv, PTL

\* Two partitions differ by at most the widest spread that the differencing
\* method started from, however often states were merged.
THEOREM AlwaysBalanced == Spec => []Balanced
<1>1. SplitInv => Balanced
  <2> SUFFICES ASSUME SplitInv, result # <<>>, NEW p \in 1..k, NEW r \in 1..k
               PROVE  \E s \in InitialStates(lens, k, equal) :
                         Total(lens, result[p]) - Total(lens, result[r]) <= Spread(lens, s)
    BY DEF Balanced
  <2>1. PICK final :
           /\ states = {final}
           /\ IsState(final) /\ IsOrdered(final) /\ IsEven(final) /\ IsWithin(final)
           /\ \A x \in 1..k : result[x] = SortedItems(final[x])
           /\ \A i \in Items : \E x \in 1..k : \E j \in DOMAIN final[x] : final[x][j] = i
    BY ResultFacts
  <2>2. IsInput /\ \A x \in 1..k : IsItemSet(lens, final[x])
    BY <2>1 DEF SplitInv, IsState
  <2>3. \A x \in 1..k : Total(lens, result[x]) = Total(lens, final[x])
    BY <2>1, <2>2, SortedItemsSame
  <2>4. PICK s \in InitialStates(lens, k, equal) :
           IsState(s) /\ Spread(lens, final) <= Spread(lens, s)
    BY <2>1 DEF IsWithin
  <2> DEFINE T == [x \in 1..k |-> Total(lens, final[x])]
  <2>5. \A x \in 1..k : T[x] = Total(lens, final[x])
    BY Zenon
  <2> HIDE DEF T
  <2>6. /\ \A x \in 1..k : T[x] \in Int
        /\ 1 \in 1..k /\ k \in 1..k /\ Spread(lens, final) = T[1] - T[k]
    <3>1. \A x \in 1..k : Total(lens, final[x]) \in Nat
      BY <2>1, <2>2, StateFacts
    <3>2. /\ 1 \in 1..k /\ k \in 1..k
          /\ Spread(lens, final) = Total(lens, final[1]) - Total(lens, final[k])
      BY <2>1, <2>2, StateFacts
    <3> QED
      BY <2>5, <3>1, <3>2
  <2>7. Spread(lens, s) \in Int
    BY <2>2, <2>4, StateFacts
  <2>8. T[p] <= T[1] /\ T[k] <= T[r]
    <3>1. \A x, y \in 1..k : x < y => T[x] >= T[y]
      BY <2>1, <2>5 DEF IsOrdered
    <3>2. p = 1 \/ 1 < p
      OBVIOUS
    <3>3. r = k \/ r < k
      BY <2>6
    <3> QED
      BY <2>6, <3>1, <3>2, <3>3
  <2>9. T[p] - T[r] <= Spread(lens, s)
    BY <2>4, <2>6, <2>7, <2>8
  <2> QED
    BY <2>3, <2>5, <2>9
<1> QED
  BY <1>1, AlwaysSplitInv, PTL

(***************************************************************************)
(* The inductive invariant.                                                *)
(***************************************************************************)

PerRank == setting.rows \div setting.ranks
PerGroup == setting.sp * PerRank
NumGroups == setting.ranks \div setting.sp

\* The row of the driver's batch that is row x of group g.
RowOf(g, x) == g * PerGroup + x

\* What a group has of the batch.
Share(g) == [x \in 1..PerGroup |-> seqs[RowOf(g, x)]]

MiniCount == CeilOf(PerGroup, setting.mini)

\* The mini-batches of an update when d of them are done.
Ahead(q, d) ==
    [i \in 1..(setting.epochs * MiniCount - d) |->
        Split(q, setting.mini)[((d + i - 1) % MiniCount) + 1]]

\* Row x of a group has been part of as many of the d mini-batches.
PartOf(d, x) ==
    d \div MiniCount + (IF (x - 1) \div setting.mini < d % MiniCount THEN 1 ELSE 0)

\* The loss of a micro-batch is a mean over its sequences; and micro-batches are
\* cut by tokens, or those of one size cut the share of a group without rest.
Even(s) ==
    /\ s.agg = "seq-mean"
    /\ s.dynamic \/ ((s.rows \div s.ranks) * s.sp) % s.micro = 0

\* The micro-batches of n rows, of which idx are done and ms are left.
CutOf(n, ms, idx) ==
    /\ idx \in Seq(1..n) /\ ms \in Seq(SUBSET (1..n))
    /\ \A a, b \in DOMAIN idx : idx[a] = idx[b] => a = b
    /\ \A a \in DOMAIN ms : ms[a] # {}
    /\ \A a, b \in DOMAIN ms : a # b => ms[a] \cap ms[b] = {}
    /\ \A a \in DOMAIN ms, b \in DOMAIN idx : idx[b] \notin ms[a]
    /\ \A j \in 1..n : (\E b \in DOMAIN idx : idx[b] = j) \/ (\E a \in DOMAIN ms : j \in ms[a])

\* Micro-batches of one size are consecutive rows.
FixedCutOf(n, ms, idx) ==
    /\ idx = FirstRows(Len(idx))
    /\ Len(idx) = n \/ \E d \in Nat : Len(idx) = d * setting.micro
    /\ \A a \in DOMAIN ms :
          ms[a] = {j \in 1..n : j > Len(idx) + (a - 1) * setting.micro
                                /\ j <= Len(idx) + a * setting.micro}

Among(idx, j) == \E b \in DOMAIN idx : idx[b] = j

Progress(d) ==
    /\ d <= setting.epochs * MiniCount
    /\ \A g \in Groups : minis[g] = Ahead(local[g], d)
    /\ Everyone("none") <=> d = setting.epochs * MiniCount
    /\ Even(setting) => \A g \in Groups : \A x \in 1..PerGroup : times[local[g][x]] = PartOf(d, x)

SetupInv ==
    /\ setting \in Settings
    /\ tokens \in [Rows -> Nat \ {0}] /\ times \in [Rows -> Int]
    /\ SeqMean => grad \in [Rows -> Int]
    /\ Permutes(seqs, setting.rows)
    /\ \E where \in {"none", "split", "forward"} : Everyone(where)

CallInv ==
    /\ op \in {"validate", "balance", "dispatch", "log_prob", "union", "update", "done"}
    /\ op \notin {"log_prob", "update"} => Everyone("none")
    /\ op \notin {"update", "done"} => \A i \in Rows : times[i] = 0
    /\ op = "balance" => results = FirstRows(setting.test)
    /\ op = "union" => results = seqs
    /\ op \in {"log_prob", "update"} => \A g \in Groups : local[g] = Share(g)
    /\ op = "log_prob" => ~Everyone("none") /\ \A g \in Groups : minis[g] = <<local[g]>>
    /\ op = "update" => \E d \in Nat : Progress(d)
    /\ op = "done" => (Even(setting) => \A i \in Rows : times[i] = setting.epochs)

MicroInv ==
    /\ Everyone("split") => \A g \in Groups : index[g] = <<>>
    /\ Everyone("forward") =>
          \A g \in Groups : 
              /\ CutOf(Len(minis[g][1]), micros[g], index[g])
              /\ ~setting.dynamic => FixedCutOf(Len(minis[g][1]), micros[g], index[g])

WeightInv ==
    op = "update" /\ Everyone("forward") /\ Even(setting) =>
        /\ \A g \in Groups : \A j \in 1..Len(minis[g][1]) :
              grad[minis[g][1][j]] = IF Among(index[g], j) THEN Unit ELSE 0
        /\ \A i \in Rows :
              (\A g \in Groups : i \notin ToSet(minis[g][1])) => grad[i] = 0

BatchInv == SetupInv /\ CallInv /\ MicroInv /\ WeightInv

(***************************************************************************)
(* Sequences given by their elements.                                      *)
(***************************************************************************)

IsList(q, n) == q = [i \in 1..n |-> q[i]]
ItemsOf(q, n) == {q[i] : i \in 1..n}

LEMMA ListFacts ==
    ASSUME NEW n \in Nat, NEW q, IsList(q, n)
    PROVE  /\ q \in Seq(ItemsOf(q, n)) /\ Len(q) = n /\ DOMAIN q = 1..n
<1> DEFINE S == ItemsOf(q, n)
<1>1. \A i \in 1..n : q[i] \in S
  BY DEF ItemsOf
<1>2. q \in [1..n -> S]
  <2> HIDE DEF S
  <2>1. [i \in 1..n |-> q[i]] \in [1..n -> S]
    BY <1>1
  <2> QED
    BY <2>1, Zenon DEF IsList
<1> HIDE DEF S
<1>3. q \in Seq(S)
  BY <1>2, SeqDef
<1>4. DOMAIN q = 1..n
  BY <1>2
<1>5. DOMAIN q = 1..Len(q) /\ Len(q) \in Nat
  BY <1>3, LenProperties
<1>6. Len(q) = n
  BY <1>4, <1>5
<1> QED
  BY <1>3, <1>4, <1>6 DEF S

LEMMA SeqIsList ==
    ASSUME NEW S, NEW q \in Seq(S)
    PROVE  IsList(q, Len(q)) /\ Len(q) \in Nat
<1>1. q \in [1..Len(q) -> S] /\ Len(q) \in Nat
  BY LenProperties
<1> QED
  BY <1>1 DEF IsList

LEMMA ListsEqual ==
    ASSUME NEW n, NEW q, NEW r, IsList(q, n), IsList(r, n), \A i \in 1..n : q[i] = r[i]
    PROVE  q = r
<1>1. [i \in 1..n |-> q[i]] = [i \in 1..n |-> r[i]]
  OBVIOUS
<1> QED
  BY <1>1, Zenon DEF IsList

\* A sequence of all the elements of two.
LEMMA ListInSeq ==
    ASSUME NEW n \in Nat, NEW q, IsList(q, n), NEW S, \A i \in 1..n : q[i] \in S
    PROVE  q \in Seq(S)
<1>1. q \in Seq(ItemsOf(q, n))
  BY ListFacts
<1>2. ItemsOf(q, n) \subseteq S
  BY DEF ItemsOf
<1> QED
  BY <1>1, <1>2, SeqMonotonic

IsAppended(s, q, n, r, m) ==
    /\ IsList(s, n + m)
    /\ \A i \in 1..n : s[i] = q[i]
    /\ \A i \in 1..m : s[n + i] = r[i]

LEMMA JoinedList ==
    ASSUME NEW n \in Nat, NEW m \in Nat, NEW q, NEW r, IsList(q, n), IsList(r, m)
    PROVE  IsAppended(q \o r, q, n, r, m)
<1> DEFINE S == ItemsOf(q, n) \cup ItemsOf(r, m)
<1>1. q \in Seq(S) /\ r \in Seq(S)
  <2>1. (\A i \in 1..n : q[i] \in S) /\ (\A i \in 1..m : r[i] \in S)
    BY DEF ItemsOf
  <2> HIDE DEF S
  <2> QED
    BY <2>1, ListInSeq
<1>2. Len(q) = n /\ Len(r) = m
  BY ListFacts
<1> HIDE DEF S
<1>3. /\ q \o r \in Seq(S) /\ Len(q \o r) = n + m
      /\ \A i \in 1..(n + m) : (q \o r)[i] = IF i <= n THEN q[i] ELSE r[i - n]
  BY <1>1, <1>2, ConcatProperties
<1>4. IsList(q \o r, n + m)
  BY <1>3, SeqIsList
<1>5. \A i \in 1..n : (q \o r)[i] = q[i]
  BY <1>3
<1>6. ASSUME NEW i \in 1..m
      PROVE  (q \o r)[n + i] = r[i]
  <2>1. n + i \in 1..(n + m) /\ ~(n + i <= n) /\ (n + i) - n = i
    OBVIOUS
  <2> QED
    BY <1>3, <2>1
<1> QED
  BY <1>4, <1>5, <1>6 DEF IsAppended

LEMMA SubList ==
    ASSUME NEW q, NEW m \in Int, NEW n \in Int, m - 1 <= n
    PROVE  /\ IsList(SubSeq(q, m, n), n - m + 1) /\ Len(SubSeq(q, m, n)) = n - m + 1
           /\ \A i \in 1..(n - m + 1) : SubSeq(q, m, n)[i] = q[m + i - 1]
<1> DEFINE S == {q[i] : i \in m..n}
<1>1. \A i \in m..n : q[i] \in S
  OBVIOUS
<1> HIDE DEF S
<1>2. /\ SubSeq(q, m, n) \in Seq(S)
      /\ Len(SubSeq(q, m, n)) = IF m <= n THEN n - m + 1 ELSE 0
      /\ \A i \in 1..(n - m + 1) : SubSeq(q, m, n)[i] = q[m + i - 1]
  BY <1>1, SubSeqProperties
<1>3. Len(SubSeq(q, m, n)) = n - m + 1
  BY <1>2
<1> QED
  BY <1>2, <1>3, SeqIsList

LEMMA TailList ==
    ASSUME NEW n \in Nat, NEW q, IsList(q, n), n > 0
    PROVE  /\ IsList(Tail(q), n - 1)
           /\ \A i \in 1..(n - 1) : Tail(q)[i] = q[i + 1]
<1>1. q \in Seq(ItemsOf(q, n)) /\ Len(q) = n
  BY ListFacts
<1>2. q # <<>>
  BY <1>1, EmptySeq
<1>3. Tail(q) = SubSeq(q, 2, n)
  BY <1>1, <1>2, TailIsSubSeq
<1>4. /\ IsList(SubSeq(q, 2, n), n - 2 + 1)
      /\ \A i \in 1..(n - 2 + 1) : SubSeq(q, 2, n)[i] = q[2 + i - 1]
  BY SubList
<1>5. n - 2 + 1 = n - 1 /\ \A i \in 1..(n - 1) : 2 + i - 1 = i + 1
  OBVIOUS
<1> QED
  BY <1>3, <1>4, <1>5

(***************************************************************************)
(* Arithmetic of parts of one size.                                        *)
(***************************************************************************)

LEMMA TimesGrows ==
    ASSUME NEW a \in Nat, NEW b \in Nat, a <= b, NEW n \in Nat
    PROVE  a * n <= b * n
<1> DEFINE c == b - a
           x == a * n
           y == c * n
<1>1. c \in Nat /\ b = a + c
  OBVIOUS
<1> HIDE DEF c
<1>2. (a + c) * n = x + y /\ x \in Nat /\ y \in Nat
  BY <1>1
<1> HIDE DEF y
<1>3. b * n = x + y
  BY <1>1, <1>2
<1> HIDE DEF x
<1>4. x <= x + y
  BY <1>2
<1> QED
  BY <1>3, <1>4 DEF x

LEMMA DivMod ==
    ASSUME NEW n \in Nat \ {0}, NEW a \in Int, NEW x \in 0..(n - 1)
    PROVE  (a * n + x) \div n = a /\ (a * n + x) % n = x
<1> DEFINE y == a * n + x
           d == y \div n
           r == y % n
<1>1. y \in Int /\ d \in Int /\ r \in 0..(n - 1) /\ y = (n * d) + r
  <2>1. y \in Int
    OBVIOUS
  <2> HIDE DEF y
  <2> QED
    BY <2>1
<1>2. (a - d) * n = r - x
  <2>1. a * n + x = (n * d) + r
    BY <1>1
  <2> HIDE DEF d, r, y
  <2> QED
    BY <1>1, <2>1
<1> HIDE DEF d, r
<1>3. CASE a - d >= 1
  <2>1. (a - d) * n >= n
    BY <1>1, <1>3
  <2> QED
    BY <1>1, <1>2, <2>1
<1>4. CASE a - d <= -1
  <2>1. (a - d) * n <= -n
    BY <1>1, <1>4
  <2> QED
    BY <1>1, <1>2, <2>1
<1>5. CASE a - d = 0
  <2>1. a = d /\ r = x
    BY <1>1, <1>2, <1>5
  <2> QED
    BY <2>1 DEF d, r
<1> QED
  BY <1>1, <1>3, <1>4, <1>5

LEMMA ExactDiv ==
    ASSUME NEW n \in Nat \ {0}, NEW a \in Int
    PROVE  (n * a) \div n = a /\ (a * n) \div n = a /\ (a * n) % n = 0
<1>1. (a * n + 0) \div n = a /\ (a * n + 0) % n = 0
  <2>1. 0 \in 0..(n - 1)
    OBVIOUS
  <2> QED
    BY <2>1, DivMod
<1>2. a * n + 0 = a * n /\ n * a = a * n
  OBVIOUS
<1> QED
  BY <1>1, <1>2

LEMMA WholeDiv ==
    ASSUME NEW n \in Nat \ {0}, NEW a \in Nat, a % n = 0
    PROVE  a = (a \div n) * n /\ a \div n \in Nat
<1> DEFINE d == a \div n
<1>1. d \in Int /\ a = (n * d) + (a % n)
  OBVIOUS
<1> HIDE DEF d
<1>2. a = d * n
  BY <1>1
<1>3. d >= 0
  <2>1. CASE d <= -1
    <3>1. d * n <= -n /\ d * n \in Int
      BY <1>1, <2>1
    <3> QED
      BY <1>2, <3>1
  <2> QED
    BY <1>1, <2>1
<1> QED
  BY <1>1, <1>2, <1>3 DEF d

(***************************************************************************)
(* FlattenSeq of pieces of one size.                                       *)
(***************************************************************************)

\* What a piece is joined to: the first i pieces.
IsFlattened(f, pieces, n) ==
    f = [i \in 1..n |-> IF i = 1 THEN pieces[i] ELSE f[i - 1] \o pieces[i]]

LEMMA FlattenLast ==
    ASSUME NEW n \in Nat \ {0}, NEW pieces, Len(pieces) = n
    PROVE  FlattenSeq(pieces) = (CHOOSE f : IsFlattened(f, pieces, n))[n]
<1>1. Len(pieces) # 0
  OBVIOUS
<1> QED
  BY <1>1, Zenon DEF FlattenSeq, IsFlattened

ItemAt(pieces, c, y) == pieces[((y - 1) \div c) + 1][((y - 1) % c) + 1]

ArePieces(pieces, n, c) ==
    IsList(pieces, n) /\ \A i \in 1..n : IsList(pieces[i], c)

LEMMA ItemOfPiece ==
    ASSUME NEW pieces, NEW c \in Nat \ {0}, NEW i \in Int, NEW x \in 1..c
    PROVE  ItemAt(pieces, c, (i - 1) * c + x) = pieces[i][x]
<1>1. (((i - 1) * c + (x - 1)) \div c) = i - 1 /\ (((i - 1) * c + (x - 1)) % c) = x - 1
  <2>1. i - 1 \in Int /\ x - 1 \in 0..(c - 1)
    OBVIOUS
  <2> QED
    BY <2>1, DivMod
<1>2. ((i - 1) * c + x) - 1 = (i - 1) * c + (x - 1)
  OBVIOUS
<1>3. (i - 1) + 1 = i /\ (x - 1) + 1 = x
  OBVIOUS
<1> QED
  BY <1>1, <1>2, <1>3, Zenon DEF ItemAt

LEMMA FlattenExists ==
    ASSUME NEW n \in Nat \ {0}, NEW c \in Nat \ {0}, NEW pieces, ArePieces(pieces, n, c)
    PROVE  \E f : IsFlattened(f, pieces, n)
<1> DEFINE f == [i \in 1..n |-> [y \in 1..(i * c) |-> ItemAt(pieces, c, y)]]
           g == [i \in 1..n |-> IF i = 1 THEN pieces[i] ELSE f[i - 1] \o pieces[i]]
<1>1. \A i \in 1..n : IsList(f[i], i * c) /\ \A y \in 1..(i * c) : f[i][y] = ItemAt(pieces, c, y)
  BY Zenon DEF IsList
<1>2. \A i \in 1..n : IsList(pieces[i], c)
  BY DEF ArePieces
<1>3. f = [i \in 1..n |-> f[i]]
  BY Zenon
<1> HIDE DEF f
<1>4. ASSUME NEW i \in 1..n
      PROVE  f[i] = IF i = 1 THEN pieces[i] ELSE f[i - 1] \o pieces[i]
  <2>1. i \in Int /\ c \in Nat /\ i * c \in Nat
    OBVIOUS
  <2>2. \A x \in 1..c : ItemAt(pieces, c, (i - 1) * c + x) = pieces[i][x]
    BY <2>1, ItemOfPiece
  <2>3. IsList(pieces[i], c)
    BY <1>2
  <2>4. CASE i = 1
    <3>1. i * c = c /\ \A x \in 1..c : (i - 1) * c + x = x
      BY <2>4
    <3>2. \A x \in 1..c : f[i][x] = pieces[i][x]
      BY <1>1, <2>2, <3>1
    <3>3. IsList(f[i], c)
      BY <1>1, <3>1
    <3>4. f[i] = pieces[i]
      BY <2>3, <3>2, <3>3, ListsEqual
    <3> QED
      BY <2>4, <3>4
  <2>5. CASE i # 1
    <3> DEFINE j == i - 1
               q == f[j] \o pieces[i]
    <3>1. j \in 1..n /\ j * c \in Nat /\ j * c + c = i * c
      BY <2>1, <2>5
    <3> HIDE DEF j
    <3>2. IsList(f[j], j * c) /\ \A y \in 1..(j * c) : f[j][y] = ItemAt(pieces, c, y)
      BY <1>1, <3>1
    <3>3. /\ IsList(q, j * c + c)
          /\ \A y \in 1..(j * c) : q[y] = f[j][y]
          /\ \A x \in 1..c : q[j * c + x] = pieces[i][x]
      <4> DEFINE a == j * c
      <4>1. a \in Nat /\ c \in Nat /\ IsList(f[j], a) /\ IsList(pieces[i], c)
        BY <2>3, <3>1, <3>2
      <4> HIDE DEF a, q
      <4>2. IsAppended(f[j] \o pieces[i], f[j], a, pieces[i], c)
        BY <4>1, JoinedList
      <4> QED
        BY <4>2 DEF a, q, IsAppended
    <3>4. ASSUME NEW y \in 1..(i * c)
          PROVE  q[y] = f[i][y]
      <4>1. CASE y <= j * c
        <5>1. y \in 1..(j * c)
          BY <3>1, <4>1
        <5> QED
          BY <1>1, <3>2, <3>3, <5>1
      <4>2. CASE ~(y <= j * c)
        <5> DEFINE x == y - j * c
        <5>1. x \in 1..c /\ j * c + x = y
          BY <3>1, <4>2
        <5> HIDE DEF x
        <5>2. q[y] = pieces[i][x]
          BY <3>3, <5>1
        <5>3. ItemAt(pieces, c, y) = pieces[i][x]
          BY <2>2, <5>1 DEF j
        <5> QED
          BY <1>1, <5>2, <5>3
      <4> QED
        BY <4>1, <4>2
    <3>5. IsList(f[i], i * c)
      BY <1>1
    <3>6. IsList(q, i * c)
      BY <3>1, <3>3
    <3> HIDE DEF q
    <3>7. q = f[i]
      BY <3>4, <3>5, <3>6, ListsEqual
    <3> QED
      BY <2>5, <3>7 DEF q, j
  <2> QED
    BY <2>4, <2>5
<1>5. f = g
  <2>1. \A i \in 1..n : f[i] = g[i]
    BY <1>4
  <2>2. g = [i \in 1..n |-> g[i]]
    BY Zenon
  <2> HIDE DEF g
  <2>3. [i \in 1..n |-> f[i]] = [i \in 1..n |-> g[i]]
    BY <2>1
  <2> QED
    BY <1>3, <2>2, <2>3
<1> QED
  BY <1>5, Zenon DEF IsFlattened

IsFlat(s, pieces, n, c) ==
    /\ IsList(s, n * c)
    /\ \A i \in 1..n, x \in 1..c : s[(i - 1) * c + x] = pieces[i][x]

LEMMA FlattenEqual ==
    ASSUME NEW n \in Nat \ {0}, NEW c \in Nat \ {0}, NEW pieces, ArePieces(pieces, n, c)
    PROVE  IsFlat(FlattenSeq(pieces), pieces, n, c)
<1> DEFINE f == CHOOSE f : IsFlattened(f, pieces, n)
           Joins(i) == /\ IsList(f[i], i * c)
                       /\ \A j \in 1..i, x \in 1..c : f[i][(j - 1) * c + x] = pieces[j][x]
           good == {i \in 0..n : i = 0 \/ Joins(i)}
<1>1. IsFlattened(f, pieces, n)
  <2>1. \E h : IsFlattened(h, pieces, n)
    BY FlattenExists
  <2> QED
    BY <2>1, Zenon
<1>2. IsList(pieces, n) /\ \A i \in 1..n : IsList(pieces[i], c)
  BY DEF ArePieces
<1>3. Len(pieces) = n
  BY <1>2, ListFacts
<1>4. FlattenSeq(pieces) = f[n]
  BY <1>3, FlattenLast
<1> HIDE DEF f
<1>5. \A i \in 1..n : f[i] = IF i = 1 THEN pieces[i] ELSE f[i - 1] \o pieces[i]
  <2> DEFINE e(i) == IF i = 1 THEN pieces[i] ELSE f[i - 1] \o pieces[i]
  <2>1. f = [i \in 1..n |-> e(i)]
    BY <1>1, Zenon DEF IsFlattened
  <2> HIDE DEF e
  <2>2. \A i \in 1..n : f[i] = e(i)
    BY <2>1, Zenon
  <2> QED
    BY <2>2 DEF e
<1>6. ASSUME NEW i \in 1..n, i = 1 \/ Joins(i - 1)
      PROVE  Joins(i)
  <2>1. CASE i = 1
    <3>1. f[i] = pieces[i] /\ IsList(pieces[i], c) /\ i * c = c
      BY <1>2, <1>5, <2>1
    <3>2. \A j \in 1..i, x \in 1..c : j = i /\ (j - 1) * c + x = x
      BY <2>1
    <3> QED
      BY <3>1, <3>2
  <2>2. CASE i # 1
    <3> DEFINE m == i - 1
    <3>1. m \in 1..n /\ m * c \in Nat /\ m * c + c = i * c
      BY <2>2
    <3>2. Joins(m)
      BY <1>6, <2>2
    <3>3. f[i] = f[m] \o pieces[i] /\ IsList(pieces[i], c)
      BY <1>2, <1>5, <2>2
    <3>4. /\ IsList(f[i], m * c + c)
          /\ \A y \in 1..(m * c) : f[i][y] = f[m][y]
          /\ \A x \in 1..c : f[i][m * c + x] = pieces[i][x]
      <4> DEFINE a == m * c
      <4>1. a \in Nat /\ c \in Nat /\ IsList(f[m], a) /\ IsList(pieces[i], c)
        BY <3>1, <3>2, <3>3
      <4> HIDE DEF a, m
      <4>2. IsAppended(f[m] \o pieces[i], f[m], a, pieces[i], c)
        BY <4>1, JoinedList
      <4> QED
        BY <3>3, <4>2 DEF a, IsAppended
    <3>5. ASSUME NEW j \in 1..i, NEW x \in 1..c
          PROVE  f[i][(j - 1) * c + x] = pieces[j][x]
      <4>1. CASE j = i
        BY <3>4, <4>1
      <4>2. CASE j # i
        <5>1. j \in 1..m
          BY <4>2
        <5> HIDE DEF m
        <5>2. (j - 1) * c + x \in 1..(m * c)
          <6>1. m \in Nat
            BY <3>1
          <6> QED
            BY <5>1, <6>1, GroupWithin
        <5> QED
          BY <3>2, <3>4, <5>1, <5>2
      <4> QED
        BY <4>1, <4>2
    <3>6. IsList(f[i], i * c)
      <4> HIDE DEF m
      <4> QED
        BY <3>1, <3>4
    <3> QED
      BY <3>5, <3>6
  <2> QED
    BY <2>1, <2>2
<1> HIDE DEF Joins
<1>7. \A i \in 0..(n - 1) : i \in good => i + 1 \in good
  <2>1. ASSUME NEW i \in 0..(n - 1), i \in good
        PROVE  i + 1 \in good
    <3>1. i + 1 \in 1..n /\ (i + 1) - 1 = i
      OBVIOUS
    <3>2. i + 1 = 1 \/ Joins((i + 1) - 1)
      BY <2>1, <3>1
    <3>3. Joins(i + 1)
      BY <1>6, <3>1, <3>2, Zenon
    <3> QED
      BY <3>1, <3>3
  <2> QED
    BY <2>1
<1>8. 0 \in good
  OBVIOUS
<1> HIDE DEF good
<1>9. n \in good
  <2>1. n \in Nat /\ n \in 0..n
    OBVIOUS
  <2> QED
    BY <1>7, <1>8, <2>1, UpToInduction
<1>10. Joins(n)
  BY <1>9 DEF good
<1> QED
  BY <1>4, <1>10 DEF Joins, IsFlat

(***************************************************************************)
(* Dispatch and collect.                                                   *)
(***************************************************************************)

Shaped ==
    /\ {setting.ranks, setting.sp, setting.rows, setting.mini, setting.micro,
        setting.epochs, setting.test} \subseteq Nat \ {0}
    /\ setting.dynamic \in BOOLEAN
    /\ {PerRank, PerGroup, NumGroups} \subseteq Nat \ {0}
    /\ setting.rows = setting.ranks * PerRank
    /\ setting.ranks = NumGroups * setting.sp
    /\ setting.rows = NumGroups * PerGroup
    /\ setting.rows <= MaxRows /\ setting.ranks <= MaxRows /\ MaxRows \in Nat
    /\ setting.mini = (setting.mini \div setting.micro) * setting.micro
    /\ setting.mini \div setting.micro \in Nat \ {0}
    /\ Groups = 0..(NumGroups - 1) /\ Rows = 1..setting.rows

LEMMA PositiveFactor ==
    ASSUME NEW a \in Nat \ {0}, NEW b \in Nat, NEW c \in Nat, a = b * c
    PROVE  b \in Nat \ {0} /\ c \in Nat \ {0}
<1>1. b = 0 => b * c = 0
  OBVIOUS
<1>2. c = 0 => b * c = 0
  OBVIOUS
<1> QED
  BY <1>1, <1>2

LEMMA SettingShaped ==
    ASSUME SettingsAssumption, setting \in Settings
    PROVE  Shaped
<1>1. setting \in [ranks : Positive, sp : Positive, rows : Positive, mini : Positive,
                   micro : Positive, dynamic : BOOLEAN, agg : {"token-mean", "seq-mean"},
                   epochs : Positive, test : Positive]
  BY DEF SettingsAssumption
<1>2. /\ setting.ranks \in Nat \ {0} /\ setting.sp \in Nat \ {0} /\ setting.rows \in Nat \ {0}
      /\ setting.mini \in Nat \ {0} /\ setting.micro \in Nat \ {0} /\ setting.epochs \in Nat \ {0}
      /\ setting.test \in Nat \ {0} /\ setting.dynamic \in BOOLEAN
  BY <1>1 DEF Positive
<1>3. /\ setting.ranks % setting.sp = 0 /\ setting.rows % setting.ranks = 0
      /\ setting.mini % setting.micro = 0 /\ setting.rows <= MaxRows /\ MaxRows \in Nat
  BY DEF SettingsAssumption
<1> DEFINE R == setting.ranks
           S == setting.sp
           W == setting.rows
           G == R \div S
           C == W \div R
           D == setting.mini \div setting.micro
<1>4. W = C * R /\ C \in Nat
  BY <1>2, <1>3, WholeDiv
<1>5. R = G * S /\ G \in Nat
  BY <1>2, <1>3, WholeDiv
<1>6. setting.mini = D * setting.micro /\ D \in Nat
  BY <1>2, <1>3, WholeDiv
<1>7. R \in Nat \ {0} /\ S \in Nat \ {0} /\ W \in Nat \ {0}
  BY <1>2
<1>8. D \in Nat \ {0}
  <2> HIDE DEF D
  <2> QED
    BY <1>2, <1>6, PositiveFactor
<1>9. R <= W
  BY <1>2, <1>3, DividesIsAtMost
<1>10. PerRank = C /\ PerGroup = S * C /\ NumGroups = G
       /\ Groups = 0..(G - 1) /\ Rows = 1..W
  BY DEF PerRank, PerGroup, NumGroups, Groups, Rows
<1> HIDE DEF R, S, W, G, C, D
<1>11. C \in Nat \ {0} /\ G \in Nat \ {0}
  BY <1>4, <1>5, <1>7, PositiveFactor
<1>12. S * C \in Nat \ {0} /\ W = R * C /\ W = G * (S * C)
  <2>1. W = R * C
    BY <1>4, <1>7
  <2>2. R * C = (G * S) * C
    BY <1>5
  <2>3. (G * S) * C = G * (S * C)
    BY <1>7, <1>11
  <2>4. S * C \in Nat /\ S * C # 0
    BY <1>7, <1>11
  <2> QED
    BY <2>1, <2>2, <2>3, <2>4
<1> QED
  BY <1>2, <1>3, <1>5, <1>6, <1>8, <1>9, <1>10, <1>11, <1>12 DEF Shaped, R, S, W, D

IsChunk(s, q, i, c) == IsList(s, c) /\ \A x \in 1..c : s[x] = q[i * c + x]

LEMMA ChunkFacts ==
    ASSUME NEW n \in Nat \ {0}, NEW c \in Nat \ {0}, NEW q, IsList(q, n * c), NEW i \in 0..(n - 1)
    PROVE  IsChunk(Chunk(q, n, i), q, i, c)
<1>1. n * c \in Nat
  OBVIOUS
<1>2. Len(q) = n * c
  BY <1>1, ListFacts
<1>3. (i * (n * c)) \div n = i * c
  <2>1. i * c \in Int /\ i * (n * c) = n * (i * c)
    OBVIOUS
  <2> QED
    BY <2>1, ExactDiv
<1>4. ((i + 1) * (n * c)) \div n = (i + 1) * c
  <2>1. (i + 1) * c \in Int /\ (i + 1) * (n * c) = n * ((i + 1) * c)
    OBVIOUS
  <2> QED
    BY <2>1, ExactDiv
<1> DEFINE a == i * c + 1
           b == (i + 1) * c
<1>5. Chunk(q, n, i) = SubSeq(q, a, b)
  BY <1>2, <1>3, <1>4, Zenon DEF Chunk
<1>6. a \in Int /\ b \in Int /\ a - 1 <= b /\ b - a + 1 = c /\ i * c \in Int
  OBVIOUS
<1>7. \A x \in 1..c : a + x - 1 = i * c + x
  BY <1>6
<1> HIDE DEF a, b
<1>8. /\ IsList(SubSeq(q, a, b), b - a + 1)
      /\ \A x \in 1..(b - a + 1) : SubSeq(q, a, b)[x] = q[a + x - 1]
  BY <1>6, SubList
<1> QED
  BY <1>5, <1>6, <1>7, <1>8 DEF IsChunk

\* Row x of group g, where each rank has c rows.
RowAt(g, x, c) == g * (setting.sp * c) + x

IsGathered(s, q, g, c) ==
    IsList(s, setting.sp * c) /\ \A x \in 1..(setting.sp * c) : s[x] = q[RowAt(g, x, c)]

LEMMA GatheredFacts ==
    ASSUME Shaped, NEW c \in Nat \ {0}, NEW q, IsList(q, setting.ranks * c), NEW g \in Groups
    PROVE  IsGathered(Gathered(q, g), q, g, c)
<1> DEFINE R == setting.ranks
           S == setting.sp
           rank(i) == g * S + i - 1
           pieces == [i \in 1..S |-> Dispatched(q, rank(i))]
<1>1. R \in Nat \ {0} /\ S \in Nat \ {0} /\ g \in Nat
  BY DEF Shaped
<1>2. \A i \in 1..S : rank(i) \in 0..(R - 1)
  <2>1. g <= NumGroups - 1 /\ NumGroups \in Nat /\ R = NumGroups * S
    BY DEF Shaped
  <2>2. g * S <= (NumGroups - 1) * S
    BY <1>1, <2>1
  <2>3. (NumGroups - 1) * S = R - S
    BY <1>1, <2>1
  <2>4. g * S \in Nat
    BY <1>1
  <2> HIDE DEF R, S
  <2> QED
    BY <1>1, <2>2, <2>3, <2>4
<1>3. Gathered(q, g) = FlattenSeq(pieces)
  BY Zenon DEF Gathered
<1>4. \A i \in 1..S : IsChunk(pieces[i], q, rank(i), c)
  <2>1. ASSUME NEW i \in 1..S
        PROVE  IsChunk(pieces[i], q, rank(i), c)
    <3>1. pieces[i] = Chunk(q, R, rank(i))
      BY Zenon DEF Dispatched
    <3>2. rank(i) \in 0..(R - 1)
      BY <1>2
    <3> HIDE DEF rank, pieces
    <3>3. IsChunk(Chunk(q, R, rank(i)), q, rank(i), c)
      BY <1>1, <3>2, ChunkFacts
    <3> QED
      BY <3>1, <3>3, Zenon
  <2> QED
    BY <2>1
<1>5. IsList(pieces, S)
  BY Zenon DEF IsList
<1> HIDE DEF pieces
<1>6. ArePieces(pieces, S, c)
  BY <1>4, <1>5 DEF ArePieces, IsChunk
<1>7. IsFlat(FlattenSeq(pieces), pieces, S, c)
  BY <1>1, <1>6, FlattenEqual
<1>8. ASSUME NEW x \in 1..(S * c)
      PROVE  Gathered(q, g)[x] = q[RowAt(g, x, c)]
  <2>1. InGroup(x, S, c)
    <3>1. S \in Nat
      BY <1>1
    <3> HIDE DEF S
    <3> QED
      BY <3>1, GroupExists
  <2>2. PICK i \in 1..S, y \in 1..c : x = (i - 1) * c + y
    BY <2>1 DEF InGroup
  <2>3. FlattenSeq(pieces)[x] = pieces[i][y]
    BY <1>7, <2>2 DEF IsFlat
  <2>4. pieces[i][y] = q[rank(i) * c + y]
    BY <1>4 DEF IsChunk
  <2>5. rank(i) * c + y = RowAt(g, x, c)
    <3>1. (g * S + i - 1) * c = g * (S * c) + (i - 1) * c
      BY <1>1
    <3>2. g * (S * c) \in Int /\ (i - 1) * c \in Int
      BY <1>1
    <3> QED
      BY <2>2, <3>1, <3>2 DEF RowAt
  <2> QED
    BY <1>3, <2>3, <2>4, <2>5
<1> QED
  BY <1>3, <1>7, <1>8 DEF IsGathered, IsFlat

IsCollected(s, outs, c) ==
    /\ IsList(s, setting.ranks * c)
    /\ \A g \in Groups : \A x \in 1..(setting.sp * c) : s[RowAt(g, x, c)] = outs[g][x]

LEMMA CollectedFacts ==
    ASSUME Shaped, NEW c \in Nat \ {0}, NEW outs,
           \A g \in Groups : IsList(outs[g], setting.sp * c)
    PROVE  IsCollected(Collected(outs), outs, c)
<1> DEFINE R == setting.ranks
           S == setting.sp
           pieces == [i \in 1..R |-> Chunked(outs[(i - 1) \div S], i - 1)]
<1>1. R \in Nat \ {0} /\ S \in Nat \ {0} /\ NumGroups \in Nat \ {0} /\ R = NumGroups * S
      /\ Groups = 0..(NumGroups - 1)
  BY DEF Shaped
<1>2. ASSUME NEW g \in Groups, NEW j \in 1..S
      PROVE  /\ g * S + j \in 1..R
             /\ ((g * S + j) - 1) \div S = g /\ ((g * S + j) - 1) % S = j - 1
  <2>1. g \in Nat /\ g + 1 \in 1..NumGroups /\ (g + 1) - 1 = g
    BY <1>1
  <2>2. NumGroups \in Nat
    BY <1>1
  <2> HIDE DEF S, R
  <2>3. ((g + 1) - 1) * S + j \in 1..(NumGroups * S)
    BY <1>1, <2>1, <2>2, GroupWithin
  <2>4. (g * S + (j - 1)) \div S = g /\ (g * S + (j - 1)) % S = j - 1
    <3>1. j - 1 \in 0..(S - 1) /\ g \in Int
      BY <1>1, <2>1
    <3> QED
      BY <1>1, <3>1, DivMod
  <2>5. (g * S + j) - 1 = g * S + (j - 1)
    <3>1. g * S \in Int
      BY <1>1, <2>1
    <3> QED
      BY <1>1, <3>1
  <2> QED
    BY <1>1, <2>1, <2>3, <2>4, <2>5
<1>3. ASSUME NEW g \in Groups, NEW j \in 1..S
      PROVE  IsChunk(pieces[g * S + j], outs[g], j - 1, c)
  <2> DEFINE i == g * S + j
  <2>1. i \in 1..R /\ (i - 1) \div S = g /\ (i - 1) % S = j - 1
    BY <1>2
  <2> HIDE DEF i
  <2>2. pieces[i] = Chunk(outs[g], S, j - 1)
    <3>1. pieces[i] = Chunked(outs[(i - 1) \div S], i - 1)
      BY <2>1, Zenon
    <3> QED
      BY <2>1, <3>1, Zenon DEF Chunked
  <2>3. j - 1 \in 0..(S - 1)
    BY <1>1
  <2>4. IsList(outs[g], S * c)
    OBVIOUS
  <2> HIDE DEF S
  <2>5. IsChunk(Chunk(outs[g], S, j - 1), outs[g], j - 1, c)
    BY <1>1, <2>3, <2>4, ChunkFacts
  <2> HIDE DEF pieces
  <2> QED
    BY <2>2, <2>5 DEF i
<1>4. IsList(pieces, R)
  BY Zenon DEF IsList
<1>5. Collected(outs) = FlattenSeq(pieces)
  BY Zenon DEF Collected
<1> HIDE DEF pieces
<1>6. ASSUME NEW i \in 1..R
      PROVE  IsList(pieces[i], c)
  <2>1. InGroup(i, NumGroups, S)
    <3>1. NumGroups \in Nat /\ i \in 1..(NumGroups * S)
      BY <1>1
    <3> HIDE DEF S, R
    <3> QED
      BY <1>1, <3>1, GroupExists
  <2>2. PICK d \in 1..NumGroups, j \in 1..S : i = (d - 1) * S + j
    BY <2>1 DEF InGroup
  <2>3. d - 1 \in Groups
    BY <1>1
  <2>4. IsChunk(pieces[(d - 1) * S + j], outs[d - 1], j - 1, c)
    BY <1>3, <2>3
  <2> QED
    BY <2>2, <2>4 DEF IsChunk
<1>7. IsFlat(FlattenSeq(pieces), pieces, R, c)
  <2>1. ArePieces(pieces, R, c)
    BY <1>4, <1>6 DEF ArePieces
  <2> QED
    BY <1>1, <2>1, FlattenEqual
<1>8. ASSUME NEW g \in Groups, NEW x \in 1..(S * c)
      PROVE  Collected(outs)[RowAt(g, x, c)] = outs[g][x]
  <2>1. InGroup(x, S, c)
    <3>1. S \in Nat
      BY <1>1
    <3> HIDE DEF S
    <3> QED
      BY <3>1, GroupExists
  <2>2. PICK j \in 1..S, y \in 1..c : x = (j - 1) * c + y
    BY <2>1 DEF InGroup
  <2> DEFINE i == g * S + j
  <2>3. i \in 1..R
    BY <1>2
  <2>4. FlattenSeq(pieces)[(i - 1) * c + y] = pieces[i][y]
    <3> HIDE DEF i
    <3> QED
      BY <1>7, <2>3 DEF IsFlat
  <2>5. IsChunk(pieces[i], outs[g], j - 1, c)
    BY <1>3
  <2>6. pieces[i][y] = outs[g][x]
    <3> HIDE DEF i
    <3> QED
      BY <2>2, <2>5 DEF IsChunk
  <2>7. (i - 1) * c + y = RowAt(g, x, c)
    <3>1. g \in Int
      BY <1>1
    <3>2. (g * S + j - 1) * c = g * (S * c) + (j - 1) * c
      BY <1>1, <3>1
    <3>3. g * (S * c) \in Int /\ (j - 1) * c \in Int
      BY <1>1, <3>1
    <3>4. (i - 1) * c = (g * S + j - 1) * c
      <4>1. i - 1 = g * S + j - 1
        <5>1. g * S \in Int
          BY <1>1, <3>1
        <5> QED
          BY <1>1, <5>1
      <4> HIDE DEF i
      <4> QED
        BY <4>1
    <3> HIDE DEF i
    <3>5. (i - 1) * c + y = g * (S * c) + ((j - 1) * c + y)
      BY <3>2, <3>3, <3>4
    <3> QED
      BY <2>2, <3>5 DEF RowAt
  <2> QED
    BY <1>5, <2>4, <2>6, <2>7
<1> QED
  BY <1>5, <1>7, <1>8 DEF IsCollected, IsFlat

\* Every row is one of a group's.
LEMMA RowPlaced ==
    ASSUME Shaped, NEW c \in Nat \ {0}, NEW y \in 1..(setting.ranks * c)
    PROVE  \E g \in Groups : \E x \in 1..(setting.sp * c) : y = RowAt(g, x, c)
<1> DEFINE S == setting.sp
           G == NumGroups
           n == S * c
<1>1. S \in Nat \ {0} /\ G \in Nat \ {0} /\ setting.ranks = G * S /\ Groups = 0..(G - 1)
  BY DEF Shaped
<1>2. n \in Nat \ {0} /\ y \in 1..(G * n)
  <2>1. setting.ranks * c = (G * S) * c
    BY <1>1
  <2>2. (G * S) * c = G * (S * c)
    BY <1>1
  <2>3. S * c \in Nat /\ S * c # 0
    BY <1>1
  <2> QED
    BY <2>1, <2>2, <2>3
<1> HIDE DEF n
<1>3. InGroup(y, G, n)
  <2>1. G \in Nat
    BY <1>1
  <2> HIDE DEF G
  <2> QED
    BY <1>2, <2>1, GroupExists
<1>4. PICK d \in 1..G, x \in 1..n : y = (d - 1) * n + x
  BY <1>3 DEF InGroup
<1>5. d - 1 \in Groups
  BY <1>1
<1> QED
  BY <1>4, <1>5 DEF RowAt, n

LEMMA RowsDiffer ==
    ASSUME Shaped, NEW c \in Nat \ {0}, NEW g \in Groups, NEW h \in Groups,
           NEW x \in 1..(setting.sp * c), NEW y \in 1..(setting.sp * c), RowAt(g, x, c) = RowAt(h, y, c)
    PROVE  g = h /\ x = y
<1> DEFINE n == setting.sp * c
<1>1. n \in Nat \ {0}
  <2>1. setting.sp \in Nat \ {0}
    BY DEF Shaped
  <2>2. setting.sp * c \in Nat /\ setting.sp * c # 0
    BY <2>1
  <2> QED
    BY <2>2
<1>2. g + 1 \in Nat /\ h + 1 \in Nat /\ (g + 1) - 1 = g /\ (h + 1) - 1 = h
  BY DEF Shaped
<1>3. g * n + x = h * n + y /\ x \in 1..n /\ y \in 1..n
  BY DEF RowAt
<1> HIDE DEF n
<1>4. ((g + 1) - 1) * n + x = ((h + 1) - 1) * n + y
  BY <1>2, <1>3
<1>5. g + 1 = h + 1 /\ x = y
  <2> DEFINE a == g + 1
             b == h + 1
  <2>1. a \in Nat /\ b \in Nat /\ (a - 1) * n + x = (b - 1) * n + y
    BY <1>2, <1>4
  <2> HIDE DEF a, b
  <2>2. a = b /\ x = y
    BY <1>1, <1>3, <2>1, GroupUnique
  <2> QED
    BY <2>2 DEF a, b
<1> QED
  BY <1>2, <1>5

LEMMA RowWithin ==
    ASSUME Shaped, NEW c \in Nat \ {0}, NEW g \in Groups, NEW x \in 1..(setting.sp * c)
    PROVE  RowAt(g, x, c) \in 1..(setting.ranks * c)
<1> DEFINE n == setting.sp * c
           G == NumGroups
<1>1. G \in Nat \ {0} /\ setting.sp \in Nat \ {0} /\ setting.ranks = G * setting.sp
  BY DEF Shaped
<1>2. n \in Nat \ {0} /\ setting.ranks * c = G * n
  <2>1. n \in Nat /\ n # 0
    BY <1>1
  <2>2. (G * setting.sp) * c = G * (setting.sp * c)
    BY <1>1
  <2> QED
    BY <1>1, <2>1, <2>2
<1>3. G \in Nat /\ g + 1 \in 1..G /\ (g + 1) - 1 = g
  BY DEF Shaped
<1>4. x \in 1..n
  OBVIOUS
<1> HIDE DEF n, G
<1>5. ((g + 1) - 1) * n + x \in 1..(G * n)
  BY <1>2, <1>3, <1>4, GroupWithin
<1> QED
  BY <1>2, <1>3, <1>5 DEF RowAt, n

\* Whatever is dispatched to the groups and collected again has not changed.
LEMMA RoundTrip ==
    ASSUME Shaped, NEW c \in Nat \ {0}, NEW q, IsList(q, setting.ranks * c),
           NEW outs, \A g \in Groups : IsGathered(outs[g], q, g, c)
    PROVE  Collected(outs) = q
<1>1. \A g \in Groups : IsList(outs[g], setting.sp * c)
  BY DEF IsGathered
<1>2. IsCollected(Collected(outs), outs, c)
  BY <1>1, CollectedFacts
<1>3. ASSUME NEW y \in 1..(setting.ranks * c)
      PROVE  Collected(outs)[y] = q[y]
  <2>1. PICK g \in Groups : \E x \in 1..(setting.sp * c) : y = RowAt(g, x, c)
    BY RowPlaced
  <2>2. PICK x \in 1..(setting.sp * c) : y = RowAt(g, x, c)
    BY <2>1
  <2> QED
    BY <1>2, <2>2 DEF IsCollected, IsGathered
<1>4. IsList(Collected(outs), setting.ranks * c)
  BY <1>2 DEF IsCollected
<1> QED
  BY <1>3, <1>4, ListsEqual

(***************************************************************************)
(* Rounding up, and the padding of a validation batch.                     *)
(***************************************************************************)

LEMMA CeilOfFacts ==
    ASSUME NEW a \in Nat \ {0}, NEW b \in Nat \ {0}
    PROVE  /\ CeilOf(a, b) \in Nat \ {0}
           /\ CeilOf(a, b) * b >= a /\ (CeilOf(a, b) - 1) * b < a
<1> DEFINE y == a + b - 1
           d == y \div b
           r == y % b
<1>1. d \in Int /\ r \in 0..(b - 1) /\ y = (b * d) + r
  <2>1. y \in Int
    OBVIOUS
  <2> HIDE DEF y
  <2> QED
    BY <2>1
<1>2. CeilOf(a, b) = d
  BY DEF CeilOf
<1> HIDE DEF d, r
<1>3. d * b >= a /\ (d - 1) * b < a
  <2>1. b * d \in Int /\ d * b = b * d /\ (d - 1) * b = b * d - b
    BY <1>1
  <2> QED
    BY <1>1, <2>1
<1>4. d >= 1
  <2>1. CASE d <= 0
    <3>1. d * b <= 0 /\ d * b \in Int
      BY <1>1, <2>1
    <3> QED
      BY <1>3, <3>1
  <2> QED
    BY <1>1, <2>1
<1> QED
  BY <1>1, <1>2, <1>3, <1>4

LEMMA FirstRowsList ==
    ASSUME NEW n
    PROVE  IsList(FirstRows(n), n) /\ \A i \in 1..n : FirstRows(n)[i] = i
<1>1. \A i \in 1..n : FirstRows(n)[i] = i
  BY DEF FirstRows
<1>2. FirstRows(n) = [i \in 1..n |-> i]
  BY DEF FirstRows
<1>3. [i \in 1..n |-> FirstRows(n)[i]] = [i \in 1..n |-> i]
  BY <1>1
<1> QED
  BY <1>1, <1>2, <1>3, Zenon DEF IsList

\* The rows of a padded batch, of which every rank gets as many.
LEMMA PaddedFacts ==
    ASSUME NEW n \in Nat \ {0}, NEW m \in Nat \ {0}
    PROVE  /\ IsList(Padded(FirstRows(n), m), m * CeilOf(n, m))
           /\ m * CeilOf(n, m) >= n
           /\ \A i \in 1..n : Padded(FirstRows(n), m)[i] = i
<1> DEFINE q == FirstRows(n)
           c == CeilOf(n, m)
<1>1. Len(q) = n /\ \A i \in 1..n : q[i] = i
  BY FirstRowsList, ListFacts
<1>2. c \in Nat \ {0} /\ c * m >= n
  BY CeilOfFacts
<1>3. Padded(q, m) = [i \in 1..(c * m) |-> q[((i - 1) % n) + 1]]
  BY <1>1, Zenon DEF Padded
<1> HIDE DEF q, c
<1>4. c * m = m * c
  BY <1>2
<1>5. IsList(Padded(q, m), m * c)
  BY <1>3, <1>4, Zenon DEF IsList
<1>6. ASSUME NEW i \in 1..n
      PROVE  Padded(q, m)[i] = i
  <2>1. i \in 1..(c * m)
    <3>1. c * m \in Int
      BY <1>2
    <3> QED
      BY <1>2, <3>1
  <2>2. Padded(q, m)[i] = q[((i - 1) % n) + 1]
    BY <1>3, <2>1
  <2>3. (i - 1) % n = i - 1
    <3>1. i - 1 \in 0..(n - 1) /\ 0 * n + (i - 1) = i - 1 /\ 0 \in Int
      OBVIOUS
    <3>2. (0 * n + (i - 1)) % n = i - 1
      BY <3>1, DivMod
    <3> QED
      BY <3>1, <3>2
  <2>4. (i - 1) + 1 = i
    OBVIOUS
  <2> QED
    BY <1>1, <2>2, <2>3, <2>4
<1>7. m * c >= n
  BY <1>2, <1>4
<1> QED
  BY <1>5, <1>6, <1>7 DEF q, c

\* Validation returns a result for every prompt, in its place.
LEMMA ValidateReturns ==
    ASSUME Shaped, NEW outs,
           outs = [g \in Groups |-> Gathered(Padded(FirstRows(setting.test), setting.ranks), g)]
    PROVE  Unpadded(Collected(outs), setting.test) = FirstRows(setting.test)
<1> DEFINE n == setting.test
           m == setting.ranks
           c == CeilOf(n, m)
           q == Padded(FirstRows(n), m)
<1>1. n \in Nat \ {0} /\ m \in Nat \ {0}
  BY DEF Shaped
<1>2. IsList(q, m * c) /\ m * c >= n /\ \A i \in 1..n : q[i] = i
  BY <1>1, PaddedFacts
<1>3. c \in Nat \ {0}
  BY <1>1, CeilOfFacts
<1>4. \A g \in Groups : outs[g] = Gathered(q, g)
  BY Zenon
<1> HIDE DEF c, q
<1>5. \A g \in Groups : IsGathered(outs[g], q, g, c)
  BY <1>2, <1>3, <1>4, GatheredFacts
<1>6. Collected(outs) = q
  BY <1>2, <1>3, <1>5, RoundTrip
<1> HIDE DEF n
<1>7. Unpadded(q, n) = FirstRows(n)
  <2>1. /\ IsList(SubSeq(q, 1, n), n - 1 + 1)
        /\ \A i \in 1..(n - 1 + 1) : SubSeq(q, 1, n)[i] = q[1 + i - 1]
    BY <1>1, SubList
  <2>2. n - 1 + 1 = n /\ \A i \in 1..n : 1 + i - 1 = i
    BY <1>1
  <2>3. IsList(SubSeq(q, 1, n), n) /\ \A i \in 1..n : SubSeq(q, 1, n)[i] = i
    BY <1>2, <2>1, <2>2
  <2>4. IsList(FirstRows(n), n) /\ \A i \in 1..n : FirstRows(n)[i] = i
    BY FirstRowsList
  <2>5. SubSeq(q, 1, n) = FirstRows(n)
    BY <2>3, <2>4, ListsEqual
  <2> QED
    BY <2>5, Zenon DEF Unpadded
<1> QED
  BY <1>6, <1>7, Zenon DEF n

(***************************************************************************)
(* InOrder: the elements of a set, each at the place that is its rank.     *)
(***************************************************************************)

Enumerates(s, T) ==
    /\ IsList(s, Cardinality(T))
    /\ \A p \in 1..Cardinality(T) : s[p] \in T
    /\ \A p, r \in 1..Cardinality(T) : s[p] = s[r] => p = r
    /\ \A i \in T : \E p \in 1..Cardinality(T) : s[p] = i

Smallers(T, i) == {j \in T : j < i}

LEMMA InOrderPlaces ==
    ASSUME NEW T
    PROVE  /\ IsList(InOrder(T), Cardinality(T))
           /\ \A p \in 1..Cardinality(T) :
                 InOrder(T)[p] = CHOOSE i \in T : Cardinality(Smallers(T, i)) = p - 1
<1> DEFINE e(p) == CHOOSE i \in T : Cardinality({j \in T : j < i}) = p - 1
<1>1. InOrder(T) = [p \in 1..Cardinality(T) |-> e(p)]
  BY DEF InOrder
<1>2. \A p : e(p) = CHOOSE i \in T : Cardinality(Smallers(T, i)) = p - 1
  BY DEF Smallers
<1> HIDE DEF e
<1>3. IsList(InOrder(T), Cardinality(T)) /\ \A p \in 1..Cardinality(T) : InOrder(T)[p] = e(p)
  BY <1>1, Zenon DEF IsList
<1> QED
  BY <1>2, <1>3, Zenon

LEMMA RankWithin ==
    ASSUME NEW T \in SUBSET Int, IsFiniteSet(T), NEW i \in T
    PROVE  /\ IsFiniteSet(Smallers(T, i))
           /\ Cardinality(Smallers(T, i)) \in 0..(Cardinality(T) - 1)
<1>1. IsFiniteSet(T \ {i}) /\ Cardinality(T \ {i}) = Cardinality(T) - 1
  BY FS_RemoveElement
<1>2. Smallers(T, i) \in SUBSET (T \ {i})
  BY DEF Smallers
<1>3. IsFiniteSet(Smallers(T, i)) /\ Cardinality(Smallers(T, i)) <= Cardinality(T) - 1
  BY <1>1, <1>2, FS_Subset
<1>4. Cardinality(Smallers(T, i)) \in Nat /\ Cardinality(T) \in Nat
  BY <1>3, FS_CardinalityType
<1> QED
  BY <1>3, <1>4

LEMMA RankGrows ==
    ASSUME NEW T \in SUBSET Int, IsFiniteSet(T), NEW i \in T, NEW j \in T, i < j
    PROVE  Cardinality(Smallers(T, i)) < Cardinality(Smallers(T, j))
<1>1. IsFiniteSet(Smallers(T, j))
  BY RankWithin
<1>2. Smallers(T, i) \in SUBSET Smallers(T, j) /\ Smallers(T, i) # Smallers(T, j)
  <2>1. i \in Smallers(T, j) /\ i \notin Smallers(T, i)
    BY DEF Smallers
  <2>2. \A l \in T : l < i => l < j
    OBVIOUS
  <2> QED
    BY <2>1, <2>2 DEF Smallers
<1>3. /\ Cardinality(Smallers(T, i)) <= Cardinality(Smallers(T, j))
      /\ Cardinality(Smallers(T, j)) = Cardinality(Smallers(T, i))
            => Smallers(T, j) = Smallers(T, i)
  BY <1>1, <1>2, FS_Subset
<1>4. Cardinality(Smallers(T, i)) \in Int /\ Cardinality(Smallers(T, j)) \in Int
  BY RankWithin
<1> QED
  BY <1>2, <1>3, <1>4

LEMMA InOrderEnumerates ==
    ASSUME NEW T \in SUBSET Int, IsFiniteSet(T)
    PROVE  Enumerates(InOrder(T), T)
<1> DEFINE n == Cardinality(T)
           N == 1..n
           s == InOrder(T)
           rank == [i \in T |-> Cardinality(Smallers(T, i)) + 1]
<1>1. n \in Nat /\ IsFiniteSet(N) /\ Cardinality(N) = n
  BY FS_CardinalityType, FS_Interval
<1>2. \A i \in T : Cardinality(Smallers(T, i)) \in 0..(n - 1)
  BY RankWithin
<1>3. \A i \in T : rank[i] = Cardinality(Smallers(T, i)) + 1
  BY Zenon
<1>4. rank \in [T -> N]
  <2>1. \A i \in T : Cardinality(Smallers(T, i)) + 1 \in N
    BY <1>1, <1>2
  <2> QED
    BY <2>1
<1> HIDE DEF rank
<1>5. \A i, j \in T : rank[i] = rank[j] => i = j
  <2>1. ASSUME NEW i \in T, NEW j \in T, i < j
        PROVE  rank[i] < rank[j]
    <3>1. Cardinality(Smallers(T, i)) < Cardinality(Smallers(T, j))
      BY <2>1, RankGrows
    <3> QED
      BY <1>2, <1>3, <3>1
  <2>2. \A i, j \in T : i # j => i < j \/ j < i
    OBVIOUS
  <2>3. \A i \in T : rank[i] \in Int
    BY <1>4
  <2> QED
    BY <2>1, <2>2, <2>3
<1>6. \A p \in N : \E i \in T : rank[i] = p
  <2>1. rank \in Injection(T, N)
    BY <1>4, <1>5 DEF Injection, IsInjective
  <2>2. rank \in Surjection(T, N)
    <3> HIDE DEF N
    <3> QED
      BY <1>1, <2>1, FS_Injection
  <2> QED
    BY <2>2 DEF Surjection
<1>7. IsList(s, n) /\ \A p \in N : s[p] = CHOOSE i \in T : Cardinality(Smallers(T, i)) = p - 1
  BY InOrderPlaces
<1> HIDE DEF s
<1>8. ASSUME NEW p \in N
      PROVE  s[p] \in T /\ rank[s[p]] = p
  <2>1. \E i \in T : Cardinality(Smallers(T, i)) = p - 1
    <3>1. PICK i \in T : rank[i] = p
      BY <1>6
    <3>2. Cardinality(Smallers(T, i)) + 1 = p /\ Cardinality(Smallers(T, i)) \in Int
      BY <1>2, <1>3, <3>1
    <3>3. Cardinality(Smallers(T, i)) = p - 1
      BY <3>2
    <3> QED
      BY <3>3
  <2>2. s[p] \in T /\ Cardinality(Smallers(T, s[p])) = p - 1
    <3>1. s[p] = CHOOSE i \in T : Cardinality(Smallers(T, i)) = p - 1
      BY <1>7
    <3> QED
      BY <2>1, <3>1, Zenon
  <2>3. rank[s[p]] = (p - 1) + 1
    BY <1>3, <2>2
  <2> QED
    BY <1>1, <2>2, <2>3
<1>9. \A i \in T : \E p \in N : s[p] = i
  <2>1. ASSUME NEW i \in T
        PROVE  s[rank[i]] = i /\ rank[i] \in N
    <3>1. rank[i] \in N
      BY <1>4
    <3>2. s[rank[i]] \in T /\ rank[s[rank[i]]] = rank[i]
      <4> HIDE DEF N
      <4> QED
        BY <1>8, <3>1, Zenon
    <3> QED
      BY <1>5, <3>1, <3>2
  <2> QED
    BY <2>1
<1>10. \A p, r \in N : s[p] = s[r] => p = r
  <2> HIDE DEF N
  <2> QED
    BY <1>8, Zenon
<1> QED
  BY <1>7, <1>8, <1>9, <1>10 DEF Enumerates, s

\* The one way to write a set of numbers in order.
LEMMA InOrderUnique ==
    ASSUME NEW n \in Nat, NEW q, IsList(q, n), \A p \in 1..n : q[p] \in Int,
           \A p, r \in 1..n : p < r => q[p] < q[r],
           NEW T, \A i : i \in T <=> \E p \in 1..n : q[p] = i
    PROVE  IsFiniteSet(T) /\ Cardinality(T) = n /\ InOrder(T) = q
<1>1. \A p, r \in 1..n : q[p] = q[r] => p = r
  <2>1. \A p, r \in 1..n : p < r \/ r < p \/ p = r
    OBVIOUS
  <2>2. \A p, r \in 1..n : p < r => q[p] < q[r] /\ q[p] \in Int /\ q[r] \in Int
    OBVIOUS
  <2> QED
    BY <2>1, <2>2
<1>2. ASSUME NEW m \in 0..n, NEW S, \A i : i \in S <=> \E p \in 1..m : q[p] = i
      PROVE  IsFiniteSet(S) /\ Cardinality(S) = m
  <2> DEFINE M == 1..m
             f == [p \in M |-> q[p]]
  <2>1. IsFiniteSet(M) /\ Cardinality(M) = m
    BY FS_Interval
  <2>2. M \subseteq 1..n
    OBVIOUS
  <2>3. f \in [M -> S] /\ \A p, r \in M : f[p] = f[r] => p = r
    BY <1>1, <1>2, <2>2
  <2>4. \A i \in S : \E p \in M : f[p] = i
    BY <1>2
  <2> HIDE DEF f, M
  <2>5. f \in Injection(M, S) /\ f \in Surjection(M, S)
    BY <2>3, <2>4 DEF Injection, IsInjective, Surjection
  <2>6. ExistsBijection(M, S)
    BY <2>5, Zenon DEF ExistsBijection, Bijection
  <2>7. f \in Surjection(M, S)
    BY <2>5
  <2>8. IsFiniteSet(S)
    BY <2>1, <2>7, FS_Surjection
  <2> QED
    BY <2>1, <2>6, <2>8, FS_Bijection
<1>3. IsFiniteSet(T) /\ Cardinality(T) = n
  BY <1>2
<1>4. T \in SUBSET Int
  <2>1. \A i \in T : i \in Int
    OBVIOUS
  <2> QED
    BY <2>1
<1>5. ASSUME NEW p \in 1..n
      PROVE  q[p] \in T /\ Cardinality(Smallers(T, q[p])) = p - 1
  <2>1. p - 1 \in 0..n /\ 1..(p - 1) \subseteq 1..n
    OBVIOUS
  <2>2. \A r \in 1..n : q[r] < q[p] <=> r \in 1..(p - 1)
    <3>1. ASSUME NEW r \in 1..n
          PROVE  q[r] < q[p] <=> r \in 1..(p - 1)
      <4>1. q[r] \in Int /\ q[p] \in Int
        OBVIOUS
      <4>2. CASE r < p
        BY <4>2
      <4>3. CASE r = p
        BY <4>1, <4>3
      <4>4. CASE p < r
        <5>1. q[p] < q[r]
          BY <4>4
        <5>2. ~(q[r] < q[p])
          BY <4>1, <5>1
        <5> QED
          BY <4>4, <5>2
      <4> QED
        BY <4>2, <4>3, <4>4
    <3> QED
      BY <3>1
  <2>3. \A i : i \in Smallers(T, q[p]) <=> \E r \in 1..(p - 1) : q[r] = i
    <3>1. \A i : i \in Smallers(T, q[p]) <=> i \in T /\ i < q[p]
      BY DEF Smallers
    <3> QED
      BY <2>1, <2>2, <3>1
  <2> QED
    BY <1>2, <2>1, <2>3
<1>6. \A i, j \in T : Cardinality(Smallers(T, i)) = Cardinality(Smallers(T, j)) => i = j
  <2>1. ASSUME NEW i \in T, NEW j \in T, i < j
        PROVE  Cardinality(Smallers(T, i)) # Cardinality(Smallers(T, j))
    <3>1. Cardinality(Smallers(T, i)) < Cardinality(Smallers(T, j))
      BY <1>3, <1>4, <2>1, RankGrows
    <3>2. Cardinality(Smallers(T, i)) \in Int
      BY <1>3, <1>4, RankWithin
    <3> QED
      BY <3>1, <3>2
  <2>2. \A i, j \in T : i = j \/ i < j \/ j < i
    BY <1>4
  <2> QED
    BY <2>1, <2>2
<1>7. /\ IsList(InOrder(T), n)
      /\ \A p \in 1..n : InOrder(T)[p] = CHOOSE i \in T : Cardinality(Smallers(T, i)) = p - 1
  BY <1>3, InOrderPlaces
<1>8. ASSUME NEW p \in 1..n
      PROVE  InOrder(T)[p] = q[p]
  <2> DEFINE s == CHOOSE i \in T : Cardinality(Smallers(T, i)) = p - 1
  <2>1. q[p] \in T /\ Cardinality(Smallers(T, q[p])) = p - 1
    BY <1>5
  <2>2. s \in T /\ Cardinality(Smallers(T, s)) = p - 1
    BY <2>1, Zenon
  <2>3. InOrder(T)[p] = s
    BY <1>7
  <2> HIDE DEF s
  <2> QED
    BY <1>6, <2>1, <2>2, <2>3
<1>9. InOrder(T) = q
  BY <1>7, <1>8, Zenon DEF IsList
<1> QED
  BY <1>3, <1>9

\* Consecutive numbers.
LEMMA InOrderInterval ==
    ASSUME NEW a \in Int, NEW m \in Nat, NEW T, T = (a + 1)..(a + m)
    PROVE  /\ IsFiniteSet(T) /\ Cardinality(T) = m
           /\ IsList(InOrder(T), m) /\ \A p \in 1..m : InOrder(T)[p] = a + p
<1>1. IsFiniteSet(T) /\ Cardinality(T) = m
  BY FS_Interval
<1>2. ASSUME NEW i \in T
      PROVE  Cardinality(Smallers(T, i)) = i - a - 1
  <2>1. Smallers(T, i) = (a + 1)..(i - 1)
    BY DEF Smallers
  <2>2. i \in Int /\ i - 1 \in Int /\ a + 1 \in Int /\ i >= a + 1
    OBVIOUS
  <2>3. Cardinality((a + 1)..(i - 1)) = IF a + 1 > i - 1 THEN 0 ELSE (i - 1) - (a + 1) + 1
    BY <2>2, FS_Interval
  <2> QED
    BY <2>1, <2>2, <2>3
<1>3. /\ IsList(InOrder(T), m)
      /\ \A p \in 1..m : InOrder(T)[p] = CHOOSE i \in T : Cardinality(Smallers(T, i)) = p - 1
  BY <1>1, InOrderPlaces
<1>4. ASSUME NEW p \in 1..m
      PROVE  InOrder(T)[p] = a + p
  <2> DEFINE s == CHOOSE i \in T : Cardinality(Smallers(T, i)) = p - 1
  <2>1. a + p \in T /\ (a + p) - a - 1 = p - 1
    OBVIOUS
  <2>2. \E i \in T : Cardinality(Smallers(T, i)) = p - 1
    BY <1>2, <2>1
  <2>3. s \in T /\ Cardinality(Smallers(T, s)) = p - 1
    BY <2>2, Zenon
  <2>4. InOrder(T)[p] = s
    BY <1>3
  <2> HIDE DEF s
  <2>5. s - a - 1 = p - 1 /\ s \in Int
    BY <1>2, <2>3
  <2> QED
    BY <2>4, <2>5
<1> QED
  BY <1>1, <1>3, <1>4

(***************************************************************************)
(* Partitions, and the balanced batch.                                     *)
(***************************************************************************)

IsPartition(ps, n, count) ==
    /\ IsList(ps, count)
    /\ \A a \in 1..count : ps[a] # {} /\ ps[a] \in SUBSET (1..n)
    /\ \A a, b \in 1..count : a # b => ps[a] \cap ps[b] = {}
    /\ \A j \in 1..n : \E a \in 1..count : j \in ps[a]

PartsOf(part, n, count) == [j \in 1..count |-> {i \in 1..n : part[i] = j}]

LEMMA PartitionFacts ==
    ASSUME NEW n \in 0..MaxRows, NEW count \in 0..MaxRows, NEW ps \in Partitions[n][count]
    PROVE  IsPartition(ps, n, count)
<1> DEFINE Givings(m, c) == {f \in [1..m -> 1..c] : \A j \in 1..c : \E i \in 1..m : f[i] = j}
           All(m, c) == {PartsOf(part, m, c) : part \in Givings(m, c)}
<1>1. Partitions = [m \in 0..MaxRows |-> [c \in 0..MaxRows |-> All(m, c)]]
  BY DEF Partitions, PartsOf
<1>2. ps \in All(n, count)
  <2> HIDE DEF All
  <2>1. Partitions[n][count] = All(n, count)
    BY <1>1, Zenon
  <2> QED
    BY <2>1
<1>3. PICK part \in [1..n -> 1..count] :
         /\ \A j \in 1..count : \E i \in 1..n : part[i] = j
         /\ ps = PartsOf(part, n, count)
  BY <1>2
<1>4. IsList(ps, count) /\ \A a \in 1..count : ps[a] = {i \in 1..n : part[i] = a}
  BY <1>3, Zenon DEF PartsOf, IsList
<1>5. \A a \in 1..count : \A j : j \in ps[a] <=> j \in 1..n /\ part[j] = a
  BY <1>4
<1>6. \A j \in 1..n : part[j] \in 1..count
  OBVIOUS
<1>7. \A a \in 1..count : ps[a] # {} /\ ps[a] \in SUBSET (1..n)
  <2>1. ASSUME NEW a \in 1..count
        PROVE  ps[a] # {} /\ ps[a] \in SUBSET (1..n)
    <3>1. PICK i \in 1..n : part[i] = a
      BY <1>3
    <3>2. i \in ps[a]
      BY <1>5, <3>1
    <3> QED
      BY <1>5, <3>2
  <2> QED
    BY <2>1
<1>8. \A a, b \in 1..count : a # b => ps[a] \cap ps[b] = {}
  BY <1>5
<1>9. \A j \in 1..n : \E a \in 1..count : j \in ps[a]
  BY <1>5, <1>6
<1> QED
  BY <1>4, <1>7, <1>8, <1>9 DEF IsPartition

\* Whatever has each row in one part, and a row in each part, is a partition.
LEMMA PartitionIs ==
    ASSUME NEW n \in 0..MaxRows, NEW count \in 0..MaxRows, NEW ps, IsPartition(ps, n, count)
    PROVE  ps \in Partitions[n][count]
<1> DEFINE Givings(m, c) == {f \in [1..m -> 1..c] : \A j \in 1..c : \E i \in 1..m : f[i] = j}
           All(m, c) == {PartsOf(part, m, c) : part \in Givings(m, c)}
           g == [i \in 1..n |-> CHOOSE a \in 1..count : i \in ps[a]]
<1>1. Partitions = [m \in 0..MaxRows |-> [c \in 0..MaxRows |-> All(m, c)]]
  BY DEF Partitions, PartsOf
<1>2. /\ IsList(ps, count)
      /\ \A a \in 1..count : ps[a] # {} /\ ps[a] \in SUBSET (1..n)
      /\ \A a, b \in 1..count : a # b => ps[a] \cap ps[b] = {}
      /\ \A j \in 1..n : \E a \in 1..count : j \in ps[a]
  BY DEF IsPartition
<1>3. \A i \in 1..n : g[i] \in 1..count /\ i \in ps[g[i]]
  <2>1. ASSUME NEW i \in 1..n
        PROVE  g[i] \in 1..count /\ i \in ps[g[i]]
    <3> DEFINE x == CHOOSE a \in 1..count : i \in ps[a]
    <3>1. x \in 1..count /\ i \in ps[x]
      BY <1>2, Zenon
    <3>2. g[i] = x
      BY Zenon
    <3> HIDE DEF x, g
    <3> QED
      BY <3>1, <3>2
  <2> QED
    BY <2>1
<1>4. g \in [1..n -> 1..count]
  <2>1. g = [i \in 1..n |-> g[i]]
    OBVIOUS
  <2> HIDE DEF g
  <2> QED
    BY <1>3, <2>1
<1> HIDE DEF g
<1>5. \A a \in 1..count, i \in 1..n : i \in ps[a] <=> g[i] = a
  <2>1. ASSUME NEW a \in 1..count, NEW i \in 1..n, i \in ps[a]
        PROVE  g[i] = a
    <3>1. g[i] \in 1..count /\ i \in ps[g[i]]
      BY <1>3
    <3>2. i \in ps[g[i]] \cap ps[a]
      BY <2>1, <3>1
    <3> QED
      BY <1>2, <3>1, <3>2
  <2> QED
    BY <1>3, <2>1
<1>6. \A j \in 1..count : \E i \in 1..n : g[i] = j
  BY <1>2, <1>5
<1>7. ps = PartsOf(g, n, count)
  <2>1. \A a \in 1..count : ps[a] = {i \in 1..n : g[i] = a}
    BY <1>2, <1>5
  <2> DEFINE e(a) == {i \in 1..n : g[i] = a}
  <2> HIDE DEF e
  <2>2. ps = [a \in 1..count |-> e(a)]
    <3>1. \A a \in 1..count : ps[a] = e(a)
      BY <2>1 DEF e
    <3>2. ps = [a \in 1..count |-> ps[a]]
      BY <1>2, Zenon DEF IsList
    <3> QED
      BY <3>1, <3>2
  <2> QED
    BY <2>2, Zenon DEF e, PartsOf
<1>8. ps \in All(n, count)
  BY <1>4, <1>6, <1>7
<1> HIDE DEF All
<1>9. Partitions[n][count] = All(n, count)
  BY <1>1, Zenon
<1> QED
  BY <1>8, <1>9

\* Any part is a finite set of numbers.
LEMMA PartFinite ==
    ASSUME NEW n \in Nat, NEW T \in SUBSET (1..n)
    PROVE  T \in SUBSET Int /\ IsFiniteSet(T) /\ Cardinality(T) \in Nat
<1>1. IsFiniteSet(1..n)
  BY FS_Interval
<1>2. IsFiniteSet(T)
  BY <1>1, FS_Subset
<1> QED
  BY <1>2, FS_CardinalityType

\* A list of n different numbers up to m, all of them, has m.
LEMMA SameLength ==
    ASSUME NEW n \in Nat, NEW m \in Nat, NEW q, IsList(q, n),
           \A i \in 1..n : q[i] \in 1..m,
           \A i, j \in 1..n : q[i] = q[j] => i = j,
           \A v \in 1..m : \E i \in 1..n : q[i] = v
    PROVE  n = m /\ Permutes(q, m)
<1> DEFINE N == 1..n
           M == 1..m
<1>1. IsFiniteSet(N) /\ Cardinality(N) = n /\ Cardinality(M) = m
  BY FS_Interval
<1>2. q \in [N -> M]
  <2> DEFINE r == [i \in N |-> q[i]]
  <2>1. r \in [N -> M]
    OBVIOUS
  <2>2. q = r
    BY Zenon DEF IsList
  <2> QED
    BY <2>1, <2>2
<1>3. ExistsBijection(N, M)
  <2>1. q \in Injection(N, M) /\ q \in Surjection(N, M)
    BY <1>2 DEF Injection, IsInjective, Surjection
  <2> QED
    BY <2>1, Zenon DEF ExistsBijection, Bijection
<1>4. Cardinality(M) = Cardinality(N)
  <2> HIDE DEF M, N
  <2> QED
    BY <1>1, <1>3, FS_Bijection
<1>5. n = m
  BY <1>1, <1>4
<1> QED
  BY <1>2, <1>5 DEF Permutes

\* The balanced batch is the old one in another order.
LEMMA FlatPermutes ==
    ASSUME NEW n \in Nat \ {0}, NEW count \in Nat \ {0}, NEW ps, IsPartition(ps, n, count),
           \A i, j \in DOMAIN ps : Cardinality(ps[i]) = Cardinality(ps[j])
    PROVE  Permutes(Flat(ps), n)
<1> DEFINE c == Cardinality(ps[1])
           pieces == [i \in 1..count |-> InOrder(ps[i])]
           q == Flat(ps)
<1>1. /\ DOMAIN ps = 1..count /\ Len(ps) = count
      /\ \A a \in 1..count : ps[a] # {} /\ ps[a] \in SUBSET (1..n)
      /\ \A a, b \in 1..count : a # b => ps[a] \cap ps[b] = {}
      /\ \A j \in 1..n : \E a \in 1..count : j \in ps[a]
  BY ListFacts DEF IsPartition
<1>2. \A a \in 1..count : ps[a] \in SUBSET Int /\ IsFiniteSet(ps[a]) /\ Cardinality(ps[a]) = c
  <2>1. 1 \in 1..count
    OBVIOUS
  <2> QED
    BY <1>1, <2>1, PartFinite
<1>3. c \in Nat \ {0}
  <2>1. 1 \in 1..count
    OBVIOUS
  <2>2. c \in Nat
    BY <1>1, <2>1, PartFinite
  <2>3. c # 0
    BY <1>1, <1>2, <2>1, FS_EmptySet
  <2> QED
    BY <2>2, <2>3
<1> HIDE DEF c
<1>4. \A a \in 1..count : pieces[a] = InOrder(ps[a])
  BY Zenon
<1>5. q = FlattenSeq(pieces)
  BY <1>1, Zenon DEF Flat
<1>6. IsList(pieces, count)
  BY Zenon DEF IsList
<1> HIDE DEF pieces, q
<1>7. ASSUME NEW a \in 1..count
      PROVE  /\ IsList(pieces[a], c)
             /\ \A p \in 1..c : pieces[a][p] \in ps[a]
             /\ \A p, r \in 1..c : pieces[a][p] = pieces[a][r] => p = r
             /\ \A i \in ps[a] : \E p \in 1..c : pieces[a][p] = i
  <2>1. Enumerates(InOrder(ps[a]), ps[a])
    BY <1>2, InOrderEnumerates
  <2>2. Cardinality(ps[a]) = c /\ pieces[a] = InOrder(ps[a])
    BY <1>2, <1>4
  <2> QED
    BY <2>1, <2>2 DEF Enumerates
<1>8. IsFlat(q, pieces, count, c)
  <2>1. ArePieces(pieces, count, c)
    BY <1>6, <1>7 DEF ArePieces
  <2> QED
    BY <1>3, <1>5, <2>1, FlattenEqual
<1> DEFINE L == count * c
<1>9. ASSUME NEW y \in 1..L
      PROVE  \E a \in 1..count : \E p \in 1..c : y = (a - 1) * c + p /\ q[y] = pieces[a][p]
  <2>1. InGroup(y, count, c)
    BY <1>3, GroupExists
  <2> HIDE DEF L
  <2>2. PICK a \in 1..count, p \in 1..c : y = (a - 1) * c + p
    BY <2>1 DEF InGroup
  <2>3. q[(a - 1) * c + p] = pieces[a][p]
    BY <1>8 DEF IsFlat
  <2> QED
    BY <2>2, <2>3
<1>10. \A y \in 1..L : q[y] \in 1..n
  <2>1. ASSUME NEW y \in 1..L
        PROVE  q[y] \in 1..n
    <3>1. PICK a \in 1..count : \E p \in 1..c : y = (a - 1) * c + p /\ q[y] = pieces[a][p]
      BY <1>9
    <3>2. PICK p \in 1..c : q[y] = pieces[a][p]
      BY <3>1
    <3>3. pieces[a][p] \in ps[a]
      BY <1>7
    <3> QED
      BY <1>1, <3>2, <3>3
  <2> QED
    BY <2>1
<1>11. \A y, z \in 1..L : q[y] = q[z] => y = z
  <2>1. ASSUME NEW y \in 1..L, NEW z \in 1..L, q[y] = q[z]
        PROVE  y = z
    <3>1. PICK a \in 1..count : \E p \in 1..c : y = (a - 1) * c + p /\ q[y] = pieces[a][p]
      BY <1>9
    <3>2. PICK p \in 1..c : y = (a - 1) * c + p /\ q[y] = pieces[a][p]
      BY <3>1
    <3>3. PICK b \in 1..count : \E r \in 1..c : z = (b - 1) * c + r /\ q[z] = pieces[b][r]
      BY <1>9
    <3>4. PICK r \in 1..c : z = (b - 1) * c + r /\ q[z] = pieces[b][r]
      BY <3>3
    <3>5. q[y] \in ps[a] /\ q[z] \in ps[b]
      BY <1>7, <3>2, <3>4
    <3>6. a = b
      BY <1>1, <2>1, <3>5
    <3>7. p = r
      BY <1>7, <2>1, <3>2, <3>4, <3>6
    <3> QED
      BY <3>2, <3>4, <3>6, <3>7
  <2> QED
    BY <2>1
<1>12. \A v \in 1..n : \E y \in 1..L : q[y] = v
  <2>1. ASSUME NEW v \in 1..n
        PROVE  \E y \in 1..L : q[y] = v
    <3>1. PICK a \in 1..count : v \in ps[a]
      BY <1>1
    <3>2. PICK p \in 1..c : pieces[a][p] = v
      BY <1>7, <3>1
    <3>3. q[(a - 1) * c + p] = v
      BY <1>8, <3>2 DEF IsFlat
    <3>4. (a - 1) * c + p \in 1..L
      <4>1. count \in Nat
        OBVIOUS
      <4> QED
        BY <1>3, <4>1, GroupWithin
    <3> QED
      BY <3>3, <3>4
  <2> QED
    BY <2>1
<1>13. L \in Nat /\ IsList(q, L)
  BY <1>3, <1>8 DEF IsFlat
<1> HIDE DEF L
<1>14. Permutes(q, n)
  BY <1>10, <1>11, <1>12, <1>13, SameLength
<1> QED
  BY <1>14 DEF q

(***************************************************************************)
(* Mini-batches.                                                           *)
(***************************************************************************)

LEMMA MinOfTwo ==
    ASSUME NEW a \in Int, NEW b \in Int
    PROVE  Min({a, b}) = IF a <= b THEN a ELSE b
<1> DEFINE m == IF a <= b THEN a ELSE b
           x == CHOOSE x \in {a, b} : \A y \in {a, b} : x <= y
<1>1. Min({a, b}) = x
  BY DEF Min
<1>2. \E l \in {a, b} : \A y \in {a, b} : l <= y
  <2>1. m \in {a, b} /\ \A y \in {a, b} : m <= y
    OBVIOUS
  <2> QED
    BY <2>1
<1>3. x \in {a, b} /\ \A y \in {a, b} : x <= y
  BY <1>2, Zenon
<1> HIDE DEF x
<1>4. x = m
  BY <1>3
<1> QED
  BY <1>1, <1>4

\* Part b of n rows split into parts of this size: w rows from row o on.
IsWindow(r, q, o, w) == IsList(r, w) /\ \A j \in 1..w : r[j] = q[o + j]

Width(n, size, b) == Min({b * size, n}) - (b - 1) * size

LEMMA WidthFacts ==
    ASSUME NEW n \in Nat \ {0}, NEW size \in Nat \ {0}, NEW b \in 1..CeilOf(n, size)
    PROVE  /\ Width(n, size, b) \in 1..size
           /\ (b - 1) * size \in Nat
           /\ (b - 1) * size + Width(n, size, b) <= n
           /\ Width(n, size, b) = IF b * size <= n THEN size ELSE n - (b - 1) * size
<1> DEFINE M == CeilOf(n, size)
           o == (b - 1) * size
           e == b * size
<1>1. M \in Nat \ {0} /\ (M - 1) * size < n
  BY CeilOfFacts
<1> HIDE DEF M
<1>2. b \in Nat /\ b >= 1 /\ b <= M
  BY <1>1 DEF M
<1>3. o \in Nat /\ e \in Nat /\ e = o + size
  BY <1>2
<1>4. o < n
  <2>1. (b - 1) * size <= (M - 1) * size
    BY <1>1, <1>2
  <2>2. (M - 1) * size \in Int
    BY <1>1
  <2> QED
    BY <1>1, <1>3, <2>1, <2>2
<1>5. Width(n, size, b) = Min({e, n}) - o
  BY DEF Width
<1> HIDE DEF o, e
<1>6. Min({e, n}) = IF e <= n THEN e ELSE n
  BY <1>3, MinOfTwo
<1>7. Width(n, size, b) = IF e <= n THEN size ELSE n - o
  BY <1>3, <1>5, <1>6
<1>8. Width(n, size, b) \in 1..size /\ o + Width(n, size, b) <= n
  BY <1>3, <1>4, <1>7
<1> QED
  BY <1>3, <1>7, <1>8 DEF o, e

LEMMA SplitFacts ==
    ASSUME NEW n \in Nat \ {0}, NEW size \in Nat \ {0}, NEW q, IsList(q, n)
    PROVE  /\ IsList(Split(q, size), CeilOf(n, size))
           /\ \A b \in 1..CeilOf(n, size) :
                 IsWindow(Split(q, size)[b], q, (b - 1) * size, Width(n, size, b))
<1> DEFINE M == CeilOf(n, size)
           part(b) == SubSeq(q, (b - 1) * size + 1, Min({b * size, n}))
<1>1. Len(q) = n
  BY ListFacts
<1>2. Split(q, size) = [b \in 1..M |-> part(b)]
  BY <1>1, Zenon DEF Split
<1>3. IsList(Split(q, size), M)
  <2> HIDE DEF part, M
  <2> QED
    BY <1>2, Zenon DEF IsList
<1>4. ASSUME NEW b \in 1..M
      PROVE  IsWindow(Split(q, size)[b], q, (b - 1) * size, Width(n, size, b))
  <2> DEFINE w == Width(n, size, b)
             o == (b - 1) * size
             e == Min({b * size, n})
  <2>1. w \in 1..size /\ o \in Nat
    BY WidthFacts
  <2>2. w = e - o
    BY DEF Width
  <2>3. e \in Int
    <3>1. b * size \in Int
      BY <1>4, CeilOfFacts
    <3>2. e = IF b * size <= n THEN b * size ELSE n
      BY <3>1, MinOfTwo
    <3> QED
      BY <3>1, <3>2
  <2>4. Split(q, size)[b] = SubSeq(q, o + 1, e)
    BY <1>2
  <2> HIDE DEF w, o, e
  <2>5. o + 1 \in Int /\ (o + 1) - 1 <= e /\ e - (o + 1) + 1 = w
    BY <2>1, <2>2, <2>3
  <2>6. /\ IsList(SubSeq(q, o + 1, e), e - (o + 1) + 1)
        /\ \A j \in 1..(e - (o + 1) + 1) : SubSeq(q, o + 1, e)[j] = q[(o + 1) + j - 1]
    BY <2>3, <2>5, SubList
  <2>7. \A j \in 1..w : (o + 1) + j - 1 = o + j
    BY <2>1
  <2>8. IsWindow(SubSeq(q, o + 1, e), q, o, w)
    BY <2>5, <2>6, <2>7 DEF IsWindow
  <2> QED
    BY <2>4, <2>8 DEF o, w
<1> QED
  BY <1>3, <1>4

\* The mini-batches of an update, one epoch after the other.
LEMMA EpochsFacts ==
    ASSUME Shaped, NEW m \in Nat \ {0}, NEW s, IsList(s, m)
    PROVE  /\ IsList(Epochs(s), setting.epochs * m)
           /\ \A i \in 1..(setting.epochs * m) : Epochs(s)[i] = s[((i - 1) % m) + 1]
<1> DEFINE E == setting.epochs
           pieces == [e \in 1..E |-> s]
<1>1. E \in Nat \ {0}
  BY DEF Shaped
<1>2. Epochs(s) = FlattenSeq(pieces)
  BY Zenon DEF Epochs
<1>3. ArePieces(pieces, E, m)
  BY Zenon DEF ArePieces, IsList
<1>4. \A e \in 1..E : pieces[e] = s
  OBVIOUS
<1> HIDE DEF pieces, E
<1>5. IsFlat(Epochs(s), pieces, E, m)
  BY <1>1, <1>2, <1>3, FlattenEqual
<1>6. ASSUME NEW i \in 1..(E * m)
      PROVE  Epochs(s)[i] = s[((i - 1) % m) + 1]
  <2>1. InGroup(i, E, m)
    BY <1>1, GroupExists
  <2>2. PICK e \in 1..E, j \in 1..m : i = (e - 1) * m + j
    BY <2>1 DEF InGroup
  <2>3. Epochs(s)[(e - 1) * m + j] = pieces[e][j]
    BY <1>5 DEF IsFlat
  <2>4. ((e - 1) * m + (j - 1)) % m = j - 1
    <3>1. e - 1 \in Int /\ j - 1 \in 0..(m - 1)
      BY <1>1
    <3> QED
      BY <3>1, DivMod
  <2>5. i - 1 = (e - 1) * m + (j - 1) /\ (j - 1) + 1 = j
    <3>1. (e - 1) * m \in Int
      BY <1>1
    <3> QED
      BY <2>2, <3>1
  <2> QED
    BY <1>4, <2>2, <2>3, <2>4, <2>5
<1> QED
  BY <1>5, <1>6 DEF IsFlat, E

LEMMA MiniCountFacts ==
    ASSUME Shaped
    PROVE  /\ MiniCount \in Nat \ {0} /\ setting.epochs * MiniCount \in Nat \ {0}
           /\ MiniCount = CeilOf(PerGroup, setting.mini)
<1>1. PerGroup \in Nat \ {0} /\ setting.mini \in Nat \ {0} /\ setting.epochs \in Nat \ {0}
  BY DEF Shaped
<1>2. MiniCount \in Nat \ {0}
  BY <1>1, CeilOfFacts DEF MiniCount
<1>3. setting.epochs * MiniCount \in Nat /\ setting.epochs * MiniCount # 0
  BY <1>1, <1>2
<1> QED
  BY <1>2, <1>3 DEF MiniCount

LEMMA AheadFacts ==
    ASSUME Shaped, NEW q, NEW d \in Nat, d <= setting.epochs * MiniCount
    PROVE  /\ IsList(Ahead(q, d), setting.epochs * MiniCount - d)
           /\ \A i \in 1..(setting.epochs * MiniCount - d) :
                 Ahead(q, d)[i] = Split(q, setting.mini)[((d + i - 1) % MiniCount) + 1]
BY Zenon DEF Ahead, IsList

\* The first one is the next one of this epoch.
LEMMA AheadFirst ==
    ASSUME Shaped, NEW q, IsList(q, PerGroup), NEW d \in Nat, d < setting.epochs * MiniCount
    PROVE  /\ d % MiniCount \in 0..(MiniCount - 1)
           /\ IsWindow(Ahead(q, d)[1], q, (d % MiniCount) * setting.mini,
                       Width(PerGroup, setting.mini, (d % MiniCount) + 1))
<1> DEFINE b == d % MiniCount
           L == setting.epochs * MiniCount
<1>1. MiniCount \in Nat \ {0} /\ L \in Nat /\ MiniCount = CeilOf(PerGroup, setting.mini)
  BY MiniCountFacts
<1>2. b \in 0..(MiniCount - 1)
  BY <1>1
<1>3. 1 \in 1..(L - d) /\ d + 1 - 1 = d
  BY <1>1
<1>4. Ahead(q, d)[1] = Split(q, setting.mini)[b + 1]
  <2>1. Ahead(q, d)[1] = Split(q, setting.mini)[((d + 1 - 1) % MiniCount) + 1]
    <3> HIDE DEF L
    <3>1. d <= L
      BY <1>1 DEF L
    <3> QED
      BY <1>3, <3>1, AheadFacts DEF L
  <2> QED
    BY <1>3, <2>1
<1> HIDE DEF b
<1>5. b + 1 \in 1..MiniCount /\ (b + 1) - 1 = b
  BY <1>1, <1>2
<1>6. PerGroup \in Nat \ {0} /\ setting.mini \in Nat \ {0}
  BY DEF Shaped
<1>7. IsWindow(Split(q, setting.mini)[b + 1], q, ((b + 1) - 1) * setting.mini,
               Width(PerGroup, setting.mini, b + 1))
  BY <1>1, <1>5, <1>6, SplitFacts
<1> QED
  BY <1>2, <1>4, <1>5, <1>7 DEF b

LEMMA AheadTail ==
    ASSUME Shaped, NEW q, NEW d \in Nat, d < setting.epochs * MiniCount
    PROVE  /\ Tail(Ahead(q, d)) = Ahead(q, d + 1)
           /\ Ahead(q, d + 1) = <<>> <=> d + 1 = setting.epochs * MiniCount
<1> DEFINE L == setting.epochs * MiniCount
           n == L - d
           a == Ahead(q, d)
           z == Ahead(q, d + 1)
           e(i) == Split(q, setting.mini)[(i % MiniCount) + 1]
<1>1. L \in Nat
  BY MiniCountFacts
<1>2. IsList(a, n) /\ \A i \in 1..n : a[i] = e(d + i - 1)
  BY <1>1, AheadFacts
<1>3. IsList(z, L - (d + 1)) /\ \A i \in 1..(L - (d + 1)) : z[i] = e((d + 1) + i - 1)
  BY <1>1, AheadFacts
<1>4. n \in Nat /\ n > 0 /\ L - (d + 1) = n - 1
  BY <1>1
<1>5. \A i \in 1..(n - 1) : i + 1 \in 1..n /\ d + (i + 1) - 1 = (d + 1) + i - 1
  BY <1>4
<1> HIDE DEF L, n, a, z, e
<1>6. IsList(Tail(a), n - 1) /\ \A i \in 1..(n - 1) : Tail(a)[i] = a[i + 1]
  BY <1>2, <1>4, TailList
<1>7. \A i \in 1..(n - 1) : Tail(a)[i] = z[i]
  BY <1>2, <1>3, <1>4, <1>5, <1>6
<1>8. Tail(a) = z
  BY <1>3, <1>4, <1>6, <1>7, ListsEqual
<1>9. z = <<>> <=> n - 1 = 0
  <2>1. n - 1 \in Nat /\ IsList(z, n - 1)
    BY <1>3, <1>4
  <2>2. Len(z) = n - 1 /\ z \in Seq(ItemsOf(z, n - 1))
    BY <2>1, ListFacts
  <2> QED
    BY <2>2, EmptySeq
<1>10. n - 1 = 0 <=> d + 1 = L
  BY <1>1 DEF n
<1> QED
  BY <1>8, <1>9, <1>10 DEF a, z, L

(***************************************************************************)
(* Micro-batches.                                                          *)
(***************************************************************************)

Part(n, size, b) == {j \in 1..n : j > (b - 1) * size /\ j <= b * size}

LEMMA PartIsWindow ==
    ASSUME NEW n \in Nat \ {0}, NEW size \in Nat \ {0}, NEW b \in 1..CeilOf(n, size)
    PROVE  Part(n, size, b) = ((b - 1) * size + 1)..((b - 1) * size + Width(n, size, b))
<1> DEFINE o == (b - 1) * size
           w == Width(n, size, b)
<1>1. o \in Nat /\ w \in 1..size /\ o + w <= n /\ w = IF b * size <= n THEN size ELSE n - o
  BY WidthFacts
<1>2. b * size = o + size
  <2>1. b \in Int
    BY CeilOfFacts
  <2> QED
    BY <2>1
<1>3. Part(n, size, b) = {j \in 1..n : j > o /\ j <= b * size}
  BY DEF Part
<1> HIDE DEF o, w
<1>4. Part(n, size, b) = (o + 1)..(o + w)
  BY <1>1, <1>2, <1>3
<1> QED
  BY <1>4 DEF o, w

\* The parts of one size hold every row once.
PartsSplit(n, size, count) ==
    /\ \A b \in 1..count : Part(n, size, b) # {} /\ Part(n, size, b) \in SUBSET (1..n)
    /\ \A a, b \in 1..count : a # b => Part(n, size, a) \cap Part(n, size, b) = {}
    /\ \A j \in 1..n : \E b \in 1..count : j \in Part(n, size, b)

LEMMA PartsCover ==
    ASSUME NEW n \in Nat \ {0}, NEW size \in Nat \ {0}
    PROVE  PartsSplit(n, size, CeilOf(n, size))
<1> DEFINE P == CeilOf(n, size)
<1>1. P \in Nat \ {0} /\ P * size >= n /\ P * size \in Nat
  BY CeilOfFacts
<1>2. ASSUME NEW b \in 1..P
      PROVE  Part(n, size, b) # {} /\ Part(n, size, b) \in SUBSET (1..n)
  <2> DEFINE o == (b - 1) * size
             w == Width(n, size, b)
  <2>1. o \in Nat /\ w \in 1..size /\ Part(n, size, b) = (o + 1)..(o + w)
    BY WidthFacts, PartIsWindow
  <2> HIDE DEF o, w
  <2>2. o + 1 \in Part(n, size, b)
    BY <2>1
  <2>3. Part(n, size, b) \in SUBSET (1..n)
    BY DEF Part
  <2> QED
    BY <2>2, <2>3
<1> HIDE DEF P
<1>3. ASSUME NEW a \in 1..P, NEW b \in 1..P, NEW j \in Part(n, size, a) \cap Part(n, size, b)
      PROVE  a = b
  <2>1. j \in Int /\ j > (a - 1) * size /\ j <= a * size /\ j > (b - 1) * size /\ j <= b * size
    BY DEF Part
  <2>2. a \in Nat /\ b \in Nat
    BY <1>1
  <2> DEFINE oa == (a - 1) * size
             ob == (b - 1) * size
  <2>3. oa \in Int /\ ob \in Int /\ a * size = oa + size /\ b * size = ob + size
    BY <2>2
  <2>4. j > oa /\ j <= oa + size /\ j > ob /\ j <= ob + size
    BY <2>1, <2>3
  <2> DEFINE x == j - oa
             y == j - ob
  <2>5. x \in 1..size /\ y \in 1..size /\ (a - 1) * size + x = (b - 1) * size + y
    <3> HIDE DEF oa, ob
    <3>1. x \in 1..size /\ y \in 1..size /\ oa + x = ob + y
      BY <2>1, <2>3, <2>4
    <3> QED
      BY <3>1 DEF oa, ob
  <2> HIDE DEF x, y
  <2> QED
    BY <2>2, <2>5, GroupUnique
<1>4. ASSUME NEW j \in 1..n
      PROVE  \E b \in 1..P : j \in Part(n, size, b)
  <2>1. P \in Nat /\ j \in 1..(P * size)
    BY <1>1
  <2>2. InGroup(j, P, size)
    BY <2>1, GroupExists
  <2>3. PICK b \in 1..P, y \in 1..size : j = (b - 1) * size + y
    BY <2>2 DEF InGroup
  <2>4. (b - 1) * size \in Int /\ b * size = (b - 1) * size + size
    BY <1>1
  <2>5. j > (b - 1) * size /\ j <= b * size
    BY <2>3, <2>4
  <2> QED
    BY <2>5 DEF Part
<1>5. \A a, b \in 1..P : a # b => Part(n, size, a) \cap Part(n, size, b) = {}
  BY <1>3
<1> QED
  BY <1>2, <1>4, <1>5, Zenon DEF P, PartsSplit

LEMMA FixedSplitFacts ==
    ASSUME NEW size \in Nat \ {0}, size = setting.micro, NEW n \in Nat \ {0}, NEW q, Len(q) = n
    PROVE  /\ IsList(FixedSplit(q), CeilOf(n, size))
           /\ \A b \in 1..CeilOf(n, size) : FixedSplit(q)[b] = Part(n, size, b)
<1> DEFINE P == CeilOf(n, size)
           r == FirstRows(n)
           parts == Split(r, size)
<1>1. IsList(r, n) /\ \A i \in 1..n : r[i] = i
  BY FirstRowsList
<1>2. /\ IsList(parts, P)
      /\ \A b \in 1..P : IsWindow(parts[b], r, (b - 1) * size, Width(n, size, b))
  <2> HIDE DEF r
  <2> QED
    BY <1>1, SplitFacts
<1>3. P \in Nat \ {0} /\ Len(parts) = P
  <2>1. P \in Nat \ {0}
    BY CeilOfFacts
  <2> HIDE DEF P, parts
  <2> QED
    BY <1>2, <2>1, ListFacts
<1>4. FixedSplit(q) = [b \in 1..P |-> ToSet(parts[b])]
  BY <1>3, Zenon DEF FixedSplit
<1> HIDE DEF parts, r
<1>5. ASSUME NEW b \in 1..P
      PROVE  FixedSplit(q)[b] = Part(n, size, b)
  <2> DEFINE o == (b - 1) * size
             w == Width(n, size, b)
             s == parts[b]
  <2>1. o \in Nat /\ w \in 1..size /\ o + w <= n /\ Part(n, size, b) = (o + 1)..(o + w)
    <3>1. o \in Nat /\ w \in 1..size /\ o + w <= n
      BY WidthFacts
    <3>2. Part(n, size, b) = (o + 1)..(o + w)
      BY PartIsWindow
    <3> QED
      BY <3>1, <3>2
  <2>2. IsList(s, w) /\ \A j \in 1..w : s[j] = r[o + j]
    BY <1>2 DEF IsWindow
  <2>3. FixedSplit(q)[b] = ToSet(s)
    BY <1>4
  <2> HIDE DEF s, o, w
  <2>4. \A j \in 1..w : s[j] = o + j
    BY <1>1, <2>1, <2>2
  <2>5. DOMAIN s = 1..w
    BY <2>1, <2>2, ListFacts
  <2>6. ToSet(s) = {s[j] : j \in 1..w}
    BY <2>5 DEF ToSet
  <2>7. \A j \in 1..w : s[j] \in (o + 1)..(o + w)
    BY <2>1, <2>4
  <2>8. \A x \in (o + 1)..(o + w) : x - o \in 1..w /\ s[x - o] = x
    BY <2>1, <2>4
  <2>9. {s[j] : j \in 1..w} = (o + 1)..(o + w)
    BY <2>7, <2>8
  <2> QED
    BY <2>1, <2>3, <2>6, <2>9
<1>6. IsList(FixedSplit(q), P)
  <2> HIDE DEF P
  <2> QED
    BY <1>4, Zenon DEF IsList
<1> QED
  BY <1>5, <1>6

\* A cut that no micro-batch has been done of.
LEMMA StartOfCut ==
    ASSUME NEW n \in Nat, NEW count \in Nat, NEW ms, IsPartition(ms, n, count)
    PROVE  CutOf(n, ms, <<>>)
<1>1. /\ ms \in Seq(ItemsOf(ms, count)) /\ Len(ms) = count /\ DOMAIN ms = 1..count
  BY ListFacts DEF IsPartition
<1>2. ms \in Seq(SUBSET (1..n))
  <2>1. \A a \in 1..count : ms[a] \in SUBSET (1..n)
    BY DEF IsPartition
  <2>2. IsList(ms, count)
    BY DEF IsPartition
  <2> QED
    BY <2>1, <2>2, ListInSeq
<1>3. <<>> \in Seq(1..n) /\ DOMAIN <<>> = {}
  OBVIOUS
<1> QED
  BY <1>1, <1>2, <1>3 DEF CutOf, IsPartition

LEMMA StartOfFixedCut ==
    ASSUME NEW n \in Nat \ {0}, NEW q, Len(q) = n, setting.micro \in Nat \ {0}
    PROVE  CutOf(n, FixedSplit(q), <<>>) /\ FixedCutOf(n, FixedSplit(q), <<>>)
<1> DEFINE size == setting.micro
           P == CeilOf(n, size)
           ms == FixedSplit(q)
<1>1. P \in Nat \ {0}
  BY CeilOfFacts
<1>2. IsList(ms, P) /\ \A b \in 1..P : ms[b] = Part(n, size, b)
  BY FixedSplitFacts
<1>3. PartsSplit(n, size, P)
  BY PartsCover
<1> HIDE DEF ms, P
<1>4. IsPartition(ms, n, P)
  <2>1. /\ \A a \in 1..P : Part(n, size, a) # {} /\ Part(n, size, a) \in SUBSET (1..n)
        /\ \A a, c \in 1..P : a # c => Part(n, size, a) \cap Part(n, size, c) = {}
        /\ \A j \in 1..n : \E a \in 1..P : j \in Part(n, size, a)
    BY <1>3, Zenon DEF PartsSplit
  <2>2. ASSUME NEW a \in 1..P
        PROVE  ms[a] # {} /\ ms[a] \in SUBSET (1..n)
    <3>1. ms[a] = Part(n, size, a)
      BY <1>2, Zenon
    <3>2. Part(n, size, a) # {} /\ Part(n, size, a) \in SUBSET (1..n)
      BY <2>1, Zenon
    <3> QED
      BY <3>1, <3>2, Zenon
  <2>3. ASSUME NEW a \in 1..P, NEW c \in 1..P, a # c
        PROVE  ms[a] \cap ms[c] = {}
    <3>1. ms[a] = Part(n, size, a) /\ ms[c] = Part(n, size, c)
      BY <1>2, Zenon
    <3>2. Part(n, size, a) \cap Part(n, size, c) = {}
      BY <2>1, <2>3, Zenon
    <3> QED
      BY <3>1, <3>2, Zenon
  <2>4. ASSUME NEW j \in 1..n
        PROVE  \E a \in 1..P : j \in ms[a]
    <3>1. PICK a \in 1..P : j \in Part(n, size, a)
      BY <2>1, Zenon
    <3>2. ms[a] = Part(n, size, a)
      BY <1>2, Zenon
    <3> QED
      BY <3>1, <3>2, Zenon
  <2> QED
    BY <1>2, <2>2, <2>3, <2>4, Zenon DEF IsPartition
<1>5. CutOf(n, ms, <<>>)
  BY <1>1, <1>4, StartOfCut
<1>6. DOMAIN ms = 1..P
  BY <1>1, <1>2, ListFacts
<1>7. FixedCutOf(n, ms, <<>>)
  <2>1. Len(<<>>) = 0 /\ 0 = 0 * size /\ 0 \in Nat
    OBVIOUS
  <2>2. <<>> = FirstRows(0)
    BY DEF FirstRows
  <2>3. ASSUME NEW a \in 1..P
        PROVE  ms[a] = {j \in 1..n : j > 0 + (a - 1) * size /\ j <= 0 + a * size}
    <3>1. a \in Int /\ (a - 1) * size \in Int /\ a * size \in Int
      BY <1>1
    <3>2. 0 + (a - 1) * size = (a - 1) * size /\ 0 + a * size = a * size
      BY <3>1
    <3> QED
      BY <1>2, <3>2 DEF Part
  <2> QED
    BY <1>6, <2>1, <2>2, <2>3 DEF FixedCutOf
<1> QED
  BY <1>5, <1>7 DEF ms

\* A micro-batch is done: its rows are among the computed ones.
LEMMA CutStep ==
    ASSUME NEW n \in Nat \ {0}, NEW ms, NEW idx, CutOf(n, ms, idx), ms # <<>>
    PROVE  /\ 1 \in DOMAIN ms
           /\ ms[1] \in SUBSET (1..n) /\ ms[1] # {}
           /\ IsFiniteSet(ms[1]) /\ Cardinality(ms[1]) \in Nat
           /\ CutOf(n, Tail(ms), idx \o InOrder(ms[1]))
           /\ \A j : Among(idx \o InOrder(ms[1]), j) <=> Among(idx, j) \/ j \in ms[1]
           /\ \A j \in ms[1] : ~Among(idx, j)
<1> DEFINE m == Len(ms)
           l == Len(idx)
           T == ms[1]
           c == Cardinality(T)
           s == InOrder(T)
           z == idx \o s
           t == Tail(ms)
<1>1. /\ ms \in Seq(SUBSET (1..n)) /\ m \in Nat /\ m > 0
      /\ DOMAIN ms = 1..m /\ IsList(ms, m)
  <2>1. ms \in Seq(SUBSET (1..n))
    BY DEF CutOf
  <2>2. DOMAIN ms = 1..m /\ m \in Nat
    BY <2>1, LenProperties
  <2>3. m \in Nat \ {0}
    BY <2>1, EmptySeq
  <2> QED
    BY <2>1, <2>2, <2>3, SeqIsList
<1>2. idx \in Seq(1..n) /\ l \in Nat /\ DOMAIN idx = 1..l /\ IsList(idx, l)
  <2>1. idx \in Seq(1..n)
    BY DEF CutOf
  <2> QED
    BY <2>1, LenProperties, SeqIsList
<1> HIDE DEF m, l
<1>3. /\ \A a \in 1..m : ms[a] \in SUBSET (1..n) /\ ms[a] # {}
      /\ \A a, b \in 1..m : a # b => ms[a] \cap ms[b] = {}
      /\ \A a \in 1..m, b \in 1..l : idx[b] \notin ms[a]
      /\ \A a, b \in 1..l : idx[a] = idx[b] => a = b
      /\ \A j \in 1..n : (\E b \in 1..l : idx[b] = j) \/ (\E a \in 1..m : j \in ms[a])
  <2>1. \A a \in 1..m : ms[a] \in SUBSET (1..n)
    BY <1>1
  <2> QED
    BY <1>1, <1>2, <2>1 DEF CutOf
<1>4. 1 \in 1..m
  BY <1>1
<1>5. T \in SUBSET (1..n) /\ T # {} /\ T \in SUBSET Int /\ IsFiniteSet(T) /\ c \in Nat
  BY <1>3, <1>4, PartFinite
<1> HIDE DEF T, c
<1>6. /\ IsList(s, c)
      /\ \A p \in 1..c : s[p] \in T
      /\ \A p, r \in 1..c : s[p] = s[r] => p = r
      /\ \A i \in T : \E p \in 1..c : s[p] = i
  BY <1>5, InOrderEnumerates DEF Enumerates, c
<1>7. IsAppended(z, idx, l, s, c)
  BY <1>2, <1>5, <1>6, JoinedList
<1> HIDE DEF s, z
<1>8. /\ IsList(z, l + c) /\ l + c \in Nat
      /\ \A i \in 1..l : z[i] = idx[i]
      /\ \A i \in 1..c : z[l + i] = s[i]
  BY <1>2, <1>5, <1>7 DEF IsAppended
<1>9. DOMAIN z = 1..(l + c)
  BY <1>8, ListFacts
<1>10. \A y \in 1..(l + c) : \/ y \in 1..l /\ z[y] = idx[y]
                             \/ y - l \in 1..c /\ z[y] = s[y - l] /\ y \notin 1..l
  <2>1. ASSUME NEW y \in 1..(l + c)
        PROVE  \/ y \in 1..l /\ z[y] = idx[y]
               \/ y - l \in 1..c /\ z[y] = s[y - l] /\ y \notin 1..l
    <3>1. CASE y <= l
      BY <1>2, <1>8, <3>1
    <3>2. CASE ~(y <= l)
      <4>1. y - l \in 1..c /\ l + (y - l) = y /\ y \notin 1..l
        BY <1>2, <1>5, <3>2
      <4> QED
        BY <1>8, <4>1
    <3> QED
      BY <3>1, <3>2
  <2> QED
    BY <2>1
<1>11. \A i \in 1..l : i \in 1..(l + c)
  BY <1>2, <1>5
<1>12. \A i \in 1..c : l + i \in 1..(l + c)
  BY <1>2, <1>5
<1>13. \A j : Among(z, j) <=> Among(idx, j) \/ j \in T
  <2>1. ASSUME NEW j, Among(z, j)
        PROVE  Among(idx, j) \/ j \in T
    <3>1. PICK y \in 1..(l + c) : z[y] = j
      BY <1>9, <2>1 DEF Among
    <3> QED
      BY <1>2, <1>6, <1>10, <3>1 DEF Among
  <2>2. ASSUME NEW j, Among(idx, j)
        PROVE  Among(z, j)
    <3>1. PICK i \in 1..l : idx[i] = j
      BY <1>2, <2>2 DEF Among
    <3> QED
      BY <1>8, <1>9, <1>11, <3>1 DEF Among
  <2>3. ASSUME NEW j \in T
        PROVE  Among(z, j)
    <3>1. PICK p \in 1..c : s[p] = j
      BY <1>6
    <3> QED
      BY <1>8, <1>9, <1>12, <3>1 DEF Among
  <2> QED
    BY <2>1, <2>2, <2>3
<1>14. \A j \in T : ~Among(idx, j)
  <2>1. \A b \in 1..l : idx[b] \notin T
    BY <1>3, <1>4 DEF T
  <2> QED
    BY <1>2, <2>1 DEF Among
<1>15. z \in Seq(1..n)
  <2>1. ASSUME NEW y \in 1..(l + c)
        PROVE  z[y] \in 1..n
    <3>1. \A i \in 1..l : idx[i] \in 1..n
      BY <1>2, ElementOfSeq DEF l
    <3> QED
      BY <1>5, <1>6, <1>10, <3>1
  <2> QED
    BY <1>8, <2>1, ListInSeq
<1>16. ASSUME NEW y \in 1..(l + c), NEW x \in 1..(l + c), z[y] = z[x]
       PROVE  y = x
  <2>1. CASE y \in 1..l /\ x \in 1..l
    BY <1>3, <1>8, <1>16, <2>1
  <2>2. CASE y \in 1..l /\ x \notin 1..l
    <3>1. z[x] \in T /\ z[x] = idx[y]
      BY <1>6, <1>10, <1>16, <2>2
    <3>2. Among(idx, z[x])
      BY <1>2, <2>2, <3>1 DEF Among
    <3> QED
      BY <1>14, <3>1, <3>2
  <2>3. CASE y \notin 1..l /\ x \in 1..l
    <3>1. z[y] \in T /\ z[y] = idx[x]
      BY <1>6, <1>10, <1>16, <2>3
    <3>2. Among(idx, z[y])
      BY <1>2, <2>3, <3>1 DEF Among
    <3> QED
      BY <1>14, <3>1, <3>2
  <2>4. CASE y \notin 1..l /\ x \notin 1..l
    <3>1. y - l \in 1..c /\ x - l \in 1..c /\ s[y - l] = s[x - l]
      BY <1>10, <1>16, <2>4
    <3>2. y - l = x - l
      BY <1>6, <3>1
    <3> QED
      BY <1>2, <1>5, <3>2
  <2> QED
    BY <2>1, <2>2, <2>3, <2>4
<1>17. IsList(t, m - 1) /\ \A i \in 1..(m - 1) : t[i] = ms[i + 1]
  BY <1>1, TailList
<1> HIDE DEF t
<1>18. m - 1 \in Nat /\ \A i \in 1..(m - 1) : i + 1 \in 1..m /\ i + 1 # 1
  BY <1>1
<1>19. DOMAIN t = 1..(m - 1)
  BY <1>17, <1>18, ListFacts
<1>20. \A i \in 1..(m - 1) : t[i] \in SUBSET (1..n) /\ t[i] # {} /\ t[i] \cap T = {}
  <2>1. ASSUME NEW i \in 1..(m - 1)
        PROVE  t[i] \in SUBSET (1..n) /\ t[i] # {} /\ t[i] \cap T = {}
    <3>1. t[i] = ms[i + 1] /\ i + 1 \in 1..m /\ i + 1 # 1
      BY <1>17, <1>18, Zenon
    <3>2. ms[i + 1] \in SUBSET (1..n) /\ ms[i + 1] # {}
      BY <1>3, <3>1, Zenon
    <3>3. ms[i + 1] \cap T = {}
      BY <1>3, <1>4, <3>1, Zenon DEF T
    <3> QED
      BY <3>1, <3>2, <3>3, Zenon
  <2> QED
    BY <2>1, Zenon
<1>21. t \in Seq(SUBSET (1..n))
  BY <1>17, <1>18, <1>20, ListInSeq
<1>22. \A a, b \in 1..(m - 1) : a # b => t[a] \cap t[b] = {}
  <2>1. ASSUME NEW a \in 1..(m - 1), NEW b \in 1..(m - 1), a # b
        PROVE  t[a] \cap t[b] = {}
    <3>1. a + 1 # b + 1
      BY <1>1, <2>1
    <3>2. t[a] = ms[a + 1] /\ t[b] = ms[b + 1] /\ a + 1 \in 1..m /\ b + 1 \in 1..m
      BY <1>17, <1>18, Zenon
    <3>3. ms[a + 1] \cap ms[b + 1] = {}
      BY <1>3, <3>1, <3>2, Zenon
    <3> QED
      BY <3>2, <3>3, Zenon
  <2> QED
    BY <2>1, Zenon
<1>23. \A a \in 1..(m - 1), b \in 1..(l + c) : z[b] \notin t[a]
  <2>1. ASSUME NEW a \in 1..(m - 1), NEW b \in 1..(l + c)
        PROVE  z[b] \notin t[a]
    <3>1. CASE b \in 1..l /\ z[b] = idx[b]
      BY <1>3, <1>17, <1>18, <3>1
    <3>2. CASE z[b] \in T
      BY <1>20, <3>2
    <3> QED
      BY <1>6, <1>10, <3>1, <3>2
  <2> QED
    BY <2>1
<1>24. ASSUME NEW j \in 1..n
       PROVE  (\E b \in 1..(l + c) : z[b] = j) \/ (\E a \in 1..(m - 1) : j \in t[a])
  <2>1. CASE Among(z, j)
    BY <1>9, <2>1 DEF Among
  <2>2. CASE ~Among(z, j)
    <3>1. ~Among(idx, j) /\ j \notin T
      BY <1>13, <2>2
    <3>2. PICK a \in 1..m : j \in ms[a]
      BY <1>2, <1>3, <3>1 DEF Among
    <3>3. a # 1
      BY <3>1, <3>2 DEF T
    <3>4. a - 1 \in 1..(m - 1) /\ (a - 1) + 1 = a
      BY <1>1, <3>3
    <3>5. j \in t[a - 1]
      BY <1>17, <3>2, <3>4
    <3> QED
      BY <3>4, <3>5
  <2> QED
    BY <2>1, <2>2
<1>25. CutOf(n, t, z)
  BY <1>9, <1>15, <1>16, <1>19, <1>20, <1>21, <1>22, <1>23, <1>24 DEF CutOf
<1> QED
  BY <1>1, <1>4, <1>5, <1>13, <1>14, <1>25 DEF T, c, s, z, t

\* When no micro-batch is left, every row is computed once.
LEMMA EndOfCut ==
    ASSUME NEW n \in Nat, NEW idx, CutOf(n, <<>>, idx)
    PROVE  Permutes(idx, n) /\ IsList(idx, n)
<1> DEFINE l == Len(idx)
<1>1. idx \in Seq(1..n)
  BY DEF CutOf
<1>2. l \in Nat /\ DOMAIN idx = 1..l /\ IsList(idx, l)
  BY <1>1, LenProperties, SeqIsList
<1>3. \A i \in 1..l : idx[i] \in 1..n
  BY <1>1, ElementOfSeq
<1> HIDE DEF l
<1>4. \A i, j \in 1..l : idx[i] = idx[j] => i = j
  BY <1>2 DEF CutOf
<1>5. \A v \in 1..n : \E i \in 1..l : idx[i] = v
  <2>1. DOMAIN <<>> = {}
    OBVIOUS
  <2> QED
    BY <1>2, <2>1 DEF CutOf
<1>6. l = n /\ Permutes(idx, n)
  BY <1>2, <1>3, <1>4, <1>5, SameLength
<1> QED
  BY <1>2, <1>6

\* The next micro-batch has the rows behind the first l.
IsNextCut(n, size, ms, l) ==
    /\ l \in Nat /\ l < n /\ \E d \in Nat : l = d * size
    /\ ms[1] = (l + 1)..(l + (IF l + size <= n THEN size ELSE n - l))

\* With micro-batches of one size, the next one is full unless it is the last.
LEMMA FixedNext ==
    ASSUME NEW size \in Nat \ {0}, size = setting.micro, NEW n \in Nat \ {0}, NEW ms, NEW idx,
           CutOf(n, ms, idx), FixedCutOf(n, ms, idx), ms # <<>>
    PROVE  IsNextCut(n, size, ms, Len(idx))
<1> DEFINE l == Len(idx)
<1>1. 1 \in DOMAIN ms /\ ms[1] # {}
  BY CutStep
<1>2. l \in Nat
  <2>1. idx \in Seq(1..n)
    BY DEF CutOf
  <2> QED
    BY <2>1, LenProperties
<1>3. ms[1] = {j \in 1..n : j > l + (1 - 1) * size /\ j <= l + 1 * size}
  BY <1>1 DEF FixedCutOf
<1>4. l = n \/ \E d \in Nat : l = d * size
  BY DEF FixedCutOf
<1> HIDE DEF l
<1>5. ms[1] = {j \in 1..n : j > l /\ j <= l + size}
  <2>1. l + (1 - 1) * size = l /\ l + 1 * size = l + size
    BY <1>2
  <2> QED
    BY <1>3, <2>1
<1>6. l < n
  <2>1. PICK j \in ms[1] : TRUE
    BY <1>1
  <2>2. j \in 1..n /\ j > l
    BY <1>5, <2>1
  <2> QED
    BY <1>2, <2>2
<1>7. \E d \in Nat : l = d * size
  BY <1>2, <1>4, <1>6
<1>8. ms[1] = (l + 1)..(l + (IF l + size <= n THEN size ELSE n - l))
  BY <1>2, <1>5, <1>6
<1> QED
  BY <1>2, <1>6, <1>7, <1>8, Zenon DEF l, IsNextCut

LEMMA FixedStep ==
    ASSUME NEW size \in Nat \ {0}, size = setting.micro, NEW n \in Nat \ {0}, NEW ms, NEW idx,
           CutOf(n, ms, idx), FixedCutOf(n, ms, idx), ms # <<>>
    PROVE  FixedCutOf(n, Tail(ms), idx \o InOrder(ms[1]))
<1> DEFINE l == Len(idx)
           c == IF l + size <= n THEN size ELSE n - l
           s == InOrder(ms[1])
           z == idx \o s
           m == Len(ms)
           t == Tail(ms)
<1>1. IsNextCut(n, size, ms, l)
  BY FixedNext
<1>2. Len(idx) = l /\ l \in Nat /\ l < n /\ ms[1] = (l + 1)..(l + c)
  BY <1>1, Zenon DEF IsNextCut
<1>3. \E e \in Nat : l + size = e * size
  <2>1. PICK d \in Nat : l = d * size
    BY <1>1, Zenon DEF IsNextCut
  <2> HIDE DEF l
  <2>2. (d + 1) * size = d * size + size /\ d + 1 \in Nat
    OBVIOUS
  <2> QED
    BY <2>1, <2>2
<1> HIDE DEF l
<1>4. c \in Nat /\ l + c \in Nat /\ (l + c = n \/ c = size) /\ l + c <= n /\ (c # size => l + size > n)
  BY <1>2
<1> HIDE DEF c
<1>5. IsList(s, c) /\ \A p \in 1..c : s[p] = l + p
  <2> DEFINE T == ms[1]
  <2>1. l \in Int /\ c \in Nat /\ T = (l + 1)..(l + c)
    BY <1>2, <1>4
  <2>2. s = InOrder(T)
    OBVIOUS
  <2> HIDE DEF T, s
  <2>3. IsList(InOrder(T), c) /\ \A p \in 1..c : InOrder(T)[p] = l + p
    BY <2>1, InOrderInterval
  <2> QED
    BY <2>2, <2>3
<1>6. idx = FirstRows(l)
  BY <1>2 DEF FixedCutOf
<1>7. IsList(idx, l) /\ \A i \in 1..l : idx[i] = i
  BY <1>6, FirstRowsList
<1> HIDE DEF s
<1>8. IsAppended(z, idx, l, s, c)
  BY <1>2, <1>4, <1>5, <1>7, JoinedList
<1> HIDE DEF z
<1>9. /\ IsList(z, l + c)
      /\ \A i \in 1..l : z[i] = idx[i]
      /\ \A i \in 1..c : z[l + i] = s[i]
  BY <1>8 DEF IsAppended
<1>10. z = FirstRows(l + c)
  <2>1. ASSUME NEW y \in 1..(l + c)
        PROVE  z[y] = y
    <3>1. CASE y <= l
      BY <1>2, <1>7, <1>9, <3>1
    <3>2. CASE ~(y <= l)
      <4>1. y - l \in 1..c /\ l + (y - l) = y
        BY <1>2, <1>4, <3>2
      <4> QED
        BY <1>5, <1>9, <4>1
    <3> QED
      BY <3>1, <3>2
  <2>2. IsList(FirstRows(l + c), l + c) /\ \A i \in 1..(l + c) : FirstRows(l + c)[i] = i
    BY FirstRowsList
  <2>3. \A i \in 1..(l + c) : z[i] = FirstRows(l + c)[i]
    BY <2>1, <2>2
  <2> QED
    BY <1>9, <2>2, <2>3, ListsEqual
<1>11. Len(z) = l + c
  BY <1>4, <1>9, ListFacts
<1>12. l + c = n \/ \E e \in Nat : l + c = e * size
  BY <1>3, <1>4
<1>13. ms \in Seq(SUBSET (1..n)) /\ m \in Nat /\ m > 0 /\ IsList(ms, m) /\ DOMAIN ms = 1..m
  <2>1. ms \in Seq(SUBSET (1..n))
    BY DEF CutOf
  <2>2. DOMAIN ms = 1..m /\ m \in Nat /\ m \in Nat \ {0}
    BY <2>1, LenProperties, EmptySeq
  <2> QED
    BY <2>1, <2>2, SeqIsList
<1> HIDE DEF m
<1>14. IsList(t, m - 1) /\ \A i \in 1..(m - 1) : t[i] = ms[i + 1]
  BY <1>13, TailList
<1> HIDE DEF t
<1>15. m - 1 \in Nat /\ \A i \in 1..(m - 1) : i + 1 \in 1..m
  BY <1>13
<1>16. DOMAIN t = 1..(m - 1)
  BY <1>14, <1>15, ListFacts
<1>17. ASSUME NEW a \in 1..(m - 1)
       PROVE  t[a] = {j \in 1..n : j > (l + c) + (a - 1) * size /\ j <= (l + c) + a * size}
  <2> DEFINE x == a * size
  <2>1. a + 1 \in 1..m /\ t[a] = ms[a + 1] /\ a \in Nat /\ a >= 1
    BY <1>14, <1>15
  <2>2. ms[a + 1] = {j \in 1..n : j > l + ((a + 1) - 1) * size /\ j <= l + (a + 1) * size}
    BY <1>2, <1>13, <2>1 DEF FixedCutOf
  <2>3. /\ ((a + 1) - 1) * size = x /\ (a + 1) * size = x + size /\ (a - 1) * size = x - size
        /\ x \in Int /\ x >= size
    <3>1. x \in Int /\ a \in Int
      BY <2>1
    <3>2. a * size >= size
      BY <2>1
    <3>3. (a + 1) * size = a * size + size /\ (a - 1) * size = a * size - size
      BY <2>1
    <3>4. (a + 1) - 1 = a
      BY <2>1
    <3> QED
      BY <3>1, <3>2, <3>3, <3>4
  <2> HIDE DEF x
  <2>4. ms[a + 1] = {j \in 1..n : j > l + x /\ j <= l + (x + size)}
    BY <2>2, <2>3
  <2>5. {j \in 1..n : j > l + x /\ j <= l + (x + size)}
           = {j \in 1..n : j > (l + c) + (x - size) /\ j <= (l + c) + x}
    <3>1. CASE c = size
      <4>1. (l + c) + (x - size) = l + x /\ (l + c) + x = l + (x + size)
        <5>1. l \in Int /\ x \in Int /\ size \in Int
          BY <1>2, <2>3
        <5> QED
          BY <3>1, <5>1
      <4> QED
        BY <4>1
    <3>2. CASE c # size
      <4>1. l + c = n /\ l + size > n
        BY <1>4, <3>2
      <4>2. \A j \in 1..n : ~(j > l + x) /\ ~(j > (l + c) + (x - size))
        <5>1. l \in Int /\ c \in Int /\ x \in Int /\ size \in Int /\ x >= size
          BY <1>2, <1>4, <2>3
        <5> QED
          BY <4>1, <5>1
      <4> QED
        BY <4>2
    <3> QED
      BY <3>1, <3>2
  <2>6. x = a * size
    BY DEF x
  <2> QED
    BY <2>1, <2>3, <2>4, <2>5, <2>6
<1>18. FixedCutOf(n, t, z)
  BY <1>10, <1>11, <1>12, <1>16, <1>17 DEF FixedCutOf
<1> QED
  BY <1>18 DEF t, z, s

(***************************************************************************)
(* The weights of one forward pass.                                        *)
(***************************************************************************)

WeightOf(i, g) == Scaled(i, g)

IsWeightSum(i, f, S) ==
    f = [s \in SUBSET S |-> IF s = {} THEN 0
                            ELSE LET x == CHOOSE x \in s : TRUE IN f[s \ {x}] + WeightOf(i, x)]

WeightSum(i, S) ==
    FoldSet(LAMBDA g, sum : sum + Scaled(i, g), 0, S)

LEMMA WeightSumIs ==
    ASSUME NEW i, NEW S
    PROVE  WeightSum(i, S) = (CHOOSE f : IsWeightSum(i, f, S))[S]
BY Zenon DEF WeightSum, FoldSet, MapThenFoldSet, IsWeightSum, WeightOf

\* A row that no group is at gets no gradient, and one that one group is at
\* gets its.
LEMMA NoWeight ==
    ASSUME NEW i
    PROVE  WeightSum(i, {}) = 0
<1> DEFINE f == [s \in SUBSET {} |-> 0]
           g == [s \in SUBSET {} |-> IF s = {} THEN 0
                    ELSE LET x == CHOOSE x \in s : TRUE IN f[s \ {x}] + WeightOf(i, x)]
           h == CHOOSE h : IsWeightSum(i, h, {})
<1>1. f = g
  <2>1. \A s \in SUBSET {} : s = {}
    OBVIOUS
  <2> QED
    BY <2>1
<1>2. IsWeightSum(i, h, {})
  <2>1. IsWeightSum(i, f, {})
    BY <1>1, Zenon DEF IsWeightSum
  <2> QED
    BY <2>1, Zenon
<1> HIDE DEF h
<1>3. h[{}] = 0
  <2> DEFINE e(s) == IF s = {} THEN 0
                     ELSE LET x == CHOOSE x \in s : TRUE IN h[s \ {x}] + WeightOf(i, x)
  <2>1. h = [s \in SUBSET {} |-> e(s)]
    BY <1>2, Zenon DEF IsWeightSum
  <2>2. e({}) = 0
    OBVIOUS
  <2> HIDE DEF e
  <2>3. {} \in SUBSET {}
    OBVIOUS
  <2>4. h[{}] = e({})
    BY <2>1, <2>3, Zenon
  <2> QED
    BY <2>2, <2>4
<1> QED
  BY <1>3, WeightSumIs DEF h

LEMMA OneWeight ==
    ASSUME NEW i, NEW y, WeightOf(i, y) \in Int
    PROVE  WeightSum(i, {y}) = WeightOf(i, y)
<1> DEFINE D == SUBSET {y}
           w == WeightOf(i, y)
           f == [s \in D |-> IF s = {} THEN 0 ELSE w]
           e(k0, s) == IF s = {} THEN 0
                       ELSE LET x == CHOOSE x \in s : TRUE IN k0[s \ {x}] + WeightOf(i, x)
           h == CHOOSE h : IsWeightSum(i, h, {y})
<1>1. {} \in D /\ {y} \in D /\ \A s \in D : s = {} \/ s = {y}
  OBVIOUS
<1>2. (CHOOSE x \in {y} : TRUE) = y /\ {y} \ {y} = {} /\ {y} # {}
  OBVIOUS
<1>3. \A k0 : e(k0, {}) = 0 /\ e(k0, {y}) = k0[{}] + w
  BY <1>2, Zenon
<1>4. w \in Int /\ 0 + w = w
  OBVIOUS
<1> HIDE DEF D, w, e
<1>5. \A s \in D : f[s] = e(f, s)
  <2>1. f[{}] = 0 /\ f[{y}] = w
    BY <1>1, <1>2
  <2> HIDE DEF f
  <2>2. e(f, {}) = 0 /\ e(f, {y}) = w
    BY <1>3, <1>4, <2>1
  <2> QED
    BY <1>1, <2>1, <2>2
<1>6. f = [s \in D |-> e(f, s)]
  <2>1. f = [s \in D |-> f[s]]
    BY Zenon
  <2> HIDE DEF f
  <2> QED
    BY <1>5, <2>1
<1>7. IsWeightSum(i, h, {y})
  <2>1. IsWeightSum(i, f, {y})
    <3> HIDE DEF f
    <3> QED
      BY <1>6, Zenon DEF IsWeightSum, e, D
  <2> HIDE DEF f
  <2> QED
    BY <2>1, Zenon
<1> HIDE DEF h, f
<1>8. h = [s \in D |-> e(h, s)]
  BY <1>7, Zenon DEF IsWeightSum, e, D
<1>9. h[{}] = 0
  BY <1>1, <1>3, <1>8
<1>10. h[{y}] = w
  <2>1. h[{y}] = e(h, {y})
    BY <1>1, <1>8, Zenon
  <2> QED
    BY <1>3, <1>4, <1>9, <2>1
<1> QED
  BY <1>10, WeightSumIs DEF h, w

\* Micro-batches by tokens, whatever their size, and full ones of one size
\* give every sequence the same weight.
LEMMA ScaledIsUnit ==
    ASSUME Shaped, UnitAssumption, setting \in Settings, SeqMean, NEW i, NEW g,
           NEW n \in 1..setting.mini, Cardinality(micros[g][1]) = n,
           setting.dynamic \/ n = setting.micro
    PROVE  Scaled(i, g) = Unit
<1> DEFINE M == setting.mini
           c == setting.micro
           D == M \div c
<1>1. M \in Nat \ {0} /\ c \in Nat \ {0} /\ D \in Nat \ {0} /\ M = D * c /\ setting.dynamic \in BOOLEAN
  BY DEF Shaped
<1>2. Unit \in Nat \ {0} /\ (Unit * M) % n = 0
  BY DEF UnitAssumption, Positive
<1>3. n \in Nat \ {0} /\ Unit * M \in Nat
  BY <1>1, <1>2
<1>4. MeanOf(i, g) = (Unit * M) \div n
  BY DEF MeanOf
<1>5. Scaled(i, g) = IF setting.dynamic THEN (MeanOf(i, g) * n) \div M ELSE MeanOf(i, g) \div D
  BY DEF Scaled
<1> HIDE DEF M, c, D
<1>6. CASE setting.dynamic
  <2>1. Unit * M = ((Unit * M) \div n) * n
    <3> DEFINE a == Unit * M
    <3>1. a \in Nat /\ a % n = 0
      BY <1>2, <1>3
    <3> HIDE DEF a
    <3>2. a = (a \div n) * n
      BY <1>3, <3>1, WholeDiv
    <3> QED
      BY <3>2 DEF a
  <2>2. (Unit * M) \div M = Unit
    BY <1>1, <1>2, ExactDiv
  <2> QED
    BY <1>4, <1>5, <1>6, <2>1, <2>2
<1>7. CASE ~setting.dynamic
  <2>1. n = c
    BY <1>7 DEF c
  <2>2. Unit * M = (Unit * D) * c
    BY <1>1, <1>2
  <2>3. ((Unit * D) * c) \div c = Unit * D
    <3>1. Unit * D \in Int
      BY <1>1, <1>2
    <3> QED
      BY <1>1, <3>1, ExactDiv
  <2>4. (Unit * D) \div D = Unit
    BY <1>1, <1>2, ExactDiv
  <2> QED
    BY <1>4, <1>5, <1>7, <2>1, <2>2, <2>3, <2>4
<1> QED
  BY <1>6, <1>7

\* With micro-batches of one size that cut the share of a group without rest,
\* they cut each of its mini-batches so.
Multiple(n, size) == \E e \in Nat : n = e * size

LEMMA WholeWidth ==
    ASSUME Shaped, Even(setting), ~setting.dynamic, NEW b \in 1..MiniCount
    PROVE  Multiple(Width(PerGroup, setting.mini, b), setting.micro)
<1> DEFINE M == setting.mini
           c == setting.micro
           D == M \div c
           A == PerGroup \div c
           w == Width(PerGroup, M, b)
<1>1. M \in Nat \ {0} /\ c \in Nat \ {0} /\ D \in Nat \ {0} /\ M = D * c /\ PerGroup \in Nat \ {0}
  BY DEF Shaped
<1>2. PerGroup % c = 0
  <2>1. PerGroup = PerRank * setting.sp
    <3>1. PerRank \in Nat \ {0} /\ setting.sp \in Nat \ {0}
      BY DEF Shaped
    <3> QED
      BY <3>1 DEF PerGroup
  <2> QED
    BY <2>1 DEF Even, PerRank
<1>3. PerGroup = A * c /\ A \in Nat
  BY <1>1, <1>2, WholeDiv
<1>4. /\ w \in 1..M
      /\ w = IF b * M <= PerGroup THEN M ELSE PerGroup - (b - 1) * M
  BY <1>1, WidthFacts DEF MiniCount
<1>5. b \in Int
  BY MiniCountFacts
<1> HIDE DEF M, c, D, A, w
<1>6. CASE b * M <= PerGroup
  BY <1>1, <1>4, <1>6 DEF w, M, c, Multiple
<1>7. CASE ~(b * M <= PerGroup)
  <2> DEFINE e == A - (b - 1) * D
  <2>1. e \in Int
    BY <1>1, <1>3, <1>5
  <2>2. e * c = A * c - (b - 1) * (D * c)
    BY <1>1, <1>3, <1>5
  <2>3. w = e * c
    BY <1>1, <1>3, <1>4, <1>7, <2>2
  <2> HIDE DEF e
  <2>4. e >= 0
    <3>1. CASE e <= -1
      <4>1. e * c <= -c /\ e * c \in Int
        BY <1>1, <2>1, <3>1
      <4> QED
        BY <1>1, <1>4, <2>3, <4>1
    <3> QED
      BY <2>1, <3>1
  <2> QED
    BY <2>1, <2>3, <2>4 DEF w, M, c, Multiple
<1> QED
  BY <1>6, <1>7

\* Then every micro-batch is full.
LEMMA FullMicro ==
    ASSUME NEW size \in Nat \ {0}, size = setting.micro, NEW n \in Nat \ {0}, NEW ms, NEW idx,
           CutOf(n, ms, idx), FixedCutOf(n, ms, idx), ms # <<>>, Multiple(n, size)
    PROVE  Cardinality(ms[1]) = size
<1> DEFINE l == Len(idx)
<1>1. IsNextCut(n, size, ms, l)
  BY FixedNext
<1> HIDE DEF l
<1>2. PICK d \in Nat : l = d * size
  BY <1>1, Zenon DEF IsNextCut
<1>3. PICK e \in Nat : n = e * size
  BY DEF Multiple
<1>4. l \in Int /\ l < n
  BY <1>1 DEF IsNextCut
<1>5. l + size <= n
  <2>1. d + 1 <= e
    <3>1. CASE e <= d
      <4>1. n <= l
        BY <1>2, <1>3, <3>1, TimesGrows
      <4> QED
        BY <1>4, <4>1
    <3> QED
      BY <3>1
  <2>2. (d + 1) * size <= e * size
    BY <2>1, TimesGrows
  <2> DEFINE x == d * size
             y == e * size
             z == (d + 1) * size
  <2>3. x \in Int /\ y \in Int /\ z \in Int /\ z = x + size
    OBVIOUS
  <2>4. l = x /\ n = y /\ z <= y
    BY <1>2, <1>3, <2>2
  <2> HIDE DEF x, y, z
  <2> QED
    BY <2>3, <2>4
<1>6. ms[1] = (l + 1)..(l + size)
  BY <1>1, <1>5, Zenon DEF IsNextCut
<1> DEFINE T == ms[1]
<1>7. T = (l + 1)..(l + size)
  BY <1>6
<1> HIDE DEF T
<1>8. Cardinality(T) = size
  BY <1>4, <1>7, InOrderInterval
<1> QED
  BY <1>8 DEF T

(***************************************************************************)
(* What the groups work on.                                                *)
(***************************************************************************)

LEMMA OneStage ==
    ASSUME Shaped
    PROVE  0 \in Groups /\ \A a, b : Everyone(a) /\ Everyone(b) => a = b
<1>1. 0 \in Groups
  BY DEF Shaped
<1> QED
  BY <1>1 DEF Everyone

LEMMA RowOfIsRowAt ==
    ASSUME Shaped
    PROVE  PerGroup = setting.sp * PerRank /\ \A g, x : RowOf(g, x) = RowAt(g, x, PerRank)
BY DEF PerGroup, RowOf, RowAt

LEMMA ShareIsList ==
    ASSUME Shaped, NEW g
    PROVE  IsList(Share(g), PerGroup) /\ \A x \in 1..PerGroup : Share(g)[x] = seqs[RowOf(g, x)]
BY Zenon DEF IsList, Share

Opened(w) ==
    /\ w \in Nat \ {0}
    /\ \A g \in Groups : IsList(minis[g][1], w) /\ Len(minis[g][1]) = w
    /\ \A g \in Groups : \A j \in 1..w : minis[g][1][j] \in Rows
    /\ \A g, h \in Groups : \A i, j \in 1..w :
          minis[g][1][i] = minis[h][1][j] => g = h /\ i = j

\* The groups have different rows, each of them once.
LEMMA ShareOpened ==
    ASSUME Shaped, Permutes(seqs, setting.rows), \A g \in Groups : local[g] = Share(g),
           NEW o \in Nat, NEW w \in Nat \ {0}, o + w <= PerGroup,
           \A g \in Groups : IsWindow(minis[g][1], local[g], o, w)
    PROVE  /\ Opened(w)
           /\ \A g \in Groups : \A j \in 1..w : minis[g][1][j] = seqs[RowOf(g, o + j)]
<1> DEFINE c == PerRank
           n == setting.sp * c
<1>1. c \in Nat \ {0} /\ PerGroup = n /\ \A g, x : RowOf(g, x) = RowAt(g, x, c)
  BY RowOfIsRowAt DEF Shaped
<1>2. setting.rows = setting.ranks * c /\ Rows = 1..setting.rows
  BY DEF Shaped
<1> HIDE DEF c
<1>3. \A j \in 1..w : o + j \in 1..n
  BY <1>1
<1>4. ASSUME NEW g \in Groups, NEW j \in 1..w
      PROVE  minis[g][1][j] = seqs[RowAt(g, o + j, c)]
  <2>1. minis[g][1][j] = local[g][o + j]
    BY DEF IsWindow
  <2>2. local[g][o + j] = seqs[RowOf(g, o + j)]
    <3>1. local[g] = Share(g) /\ o + j \in 1..PerGroup
      BY <1>1, <1>3
    <3> QED
      BY <3>1, ShareIsList
  <2> QED
    BY <1>1, <2>1, <2>2
<1>5. ASSUME NEW g \in Groups, NEW j \in 1..w
      PROVE  RowAt(g, o + j, c) \in Rows
  <2>1. o + j \in 1..(setting.sp * c)
    BY <1>3
  <2>2. RowAt(g, o + j, c) \in 1..(setting.ranks * c)
    BY <1>1, <2>1, RowWithin
  <2> QED
    BY <1>2, <2>2
<1>6. ASSUME NEW g \in Groups, NEW h \in Groups, NEW i \in 1..w, NEW j \in 1..w,
             minis[g][1][i] = minis[h][1][j]
      PROVE  g = h /\ i = j
  <2>1. RowAt(g, o + i, c) = RowAt(h, o + j, c)
    <3>1. seqs[RowAt(g, o + i, c)] = seqs[RowAt(h, o + j, c)]
      BY <1>4, <1>6
    <3> QED
      BY <1>2, <1>5, <3>1 DEF Permutes
  <2> DEFINE x == o + i
             y == o + j
  <2>2. x \in 1..(setting.sp * c) /\ y \in 1..(setting.sp * c) /\ RowAt(g, x, c) = RowAt(h, y, c)
    BY <1>3, <2>1
  <2> HIDE DEF x, y
  <2>3. g = h /\ x = y
    BY <1>1, <2>2, RowsDiffer
  <2> QED
    BY <2>3 DEF x, y
<1>7. \A g \in Groups : IsList(minis[g][1], w) /\ Len(minis[g][1]) = w
  <2>1. w \in Nat
    OBVIOUS
  <2> QED
    BY <2>1, ListFacts DEF IsWindow
<1>8. \A g \in Groups : \A j \in 1..w : minis[g][1][j] \in Rows
  <2>1. ASSUME NEW g \in Groups, NEW j \in 1..w
        PROVE  minis[g][1][j] \in Rows
    <3>1. minis[g][1][j] = seqs[RowAt(g, o + j, c)]
      BY <1>4
    <3>2. seqs[RowAt(g, o + j, c)] \in Rows
      BY <1>2, <1>5 DEF Permutes
    <3> QED
      BY <3>1, <3>2, Zenon
  <2> QED
    BY <2>1, Zenon
<1> QED
  BY <1>1, <1>4, <1>6, <1>7, <1>8 DEF Opened

\* Where the mini-batch that all groups are at begins.
MiniAt(d) == (d % MiniCount) * setting.mini
MiniWidth(d) == Width(PerGroup, setting.mini, (d % MiniCount) + 1)

LEMMA UpdateOpened ==
    ASSUME Shaped, Permutes(seqs, setting.rows), \A g \in Groups : local[g] = Share(g),
           NEW d \in Nat, d < setting.epochs * MiniCount,
           \A g \in Groups : minis[g] = Ahead(local[g], d)
    PROVE  /\ d % MiniCount \in 0..(MiniCount - 1)
           /\ MiniAt(d) \in Nat /\ MiniWidth(d) \in 1..setting.mini
           /\ MiniAt(d) + MiniWidth(d) <= PerGroup
           /\ \A g \in Groups : IsWindow(minis[g][1], local[g], MiniAt(d), MiniWidth(d))
           /\ Opened(MiniWidth(d))
<1> DEFINE b == d % MiniCount
           o == MiniAt(d)
           w == MiniWidth(d)
<1>1. PerGroup \in Nat \ {0} /\ setting.mini \in Nat \ {0}
  BY DEF Shaped
<1>2. MiniCount \in Nat \ {0} /\ MiniCount = CeilOf(PerGroup, setting.mini)
  BY MiniCountFacts
<1>3. b \in 0..(MiniCount - 1)
  BY <1>2
<1> HIDE DEF b
<1>4. b + 1 \in 1..MiniCount /\ (b + 1) - 1 = b
  BY <1>2, <1>3
<1>5. /\ Width(PerGroup, setting.mini, b + 1) \in 1..setting.mini
      /\ ((b + 1) - 1) * setting.mini \in Nat
      /\ ((b + 1) - 1) * setting.mini + Width(PerGroup, setting.mini, b + 1) <= PerGroup
  BY <1>1, <1>2, <1>4, WidthFacts
<1>6. o \in Nat /\ w \in 1..setting.mini /\ o + w <= PerGroup
  BY <1>4, <1>5 DEF MiniAt, MiniWidth, b
<1>7. \A g \in Groups : IsWindow(minis[g][1], local[g], o, w)
  <2>1. ASSUME NEW g \in Groups
        PROVE  IsWindow(minis[g][1], local[g], o, w)
    <3>1. IsList(local[g], PerGroup)
      BY ShareIsList
    <3>2. IsWindow(Ahead(local[g], d)[1], local[g], (d % MiniCount) * setting.mini,
                   Width(PerGroup, setting.mini, (d % MiniCount) + 1))
      BY <3>1, AheadFirst
    <3> QED
      BY <3>2 DEF MiniAt, MiniWidth
  <2> QED
    BY <2>1
<1> HIDE DEF o, w
<1>8. w \in Nat \ {0}
  BY <1>1, <1>6
<1>9. Opened(w)
  BY <1>6, <1>7, <1>8, ShareOpened
<1> QED
  BY <1>3, <1>6, <1>7, <1>9 DEF o, w, b

LEMMA LogProbOpened ==
    ASSUME Shaped, Permutes(seqs, setting.rows), \A g \in Groups : local[g] = Share(g),
           \A g \in Groups : minis[g] = <<local[g]>>
    PROVE  Opened(PerGroup) /\ \A g \in Groups : minis[g][1] = local[g]
<1>1. PerGroup \in Nat \ {0} /\ 0 \in Nat /\ 0 + PerGroup <= PerGroup
  BY DEF Shaped
<1>2. \A g \in Groups : minis[g][1] = local[g]
  OBVIOUS
<1>3. \A g \in Groups : IsWindow(minis[g][1], local[g], 0, PerGroup)
  <2>1. \A j \in 1..PerGroup : 0 + j = j
    OBVIOUS
  <2> QED
    BY <1>2, <2>1, ShareIsList DEF IsWindow
<1>4. Opened(PerGroup)
  BY <1>1, <1>3, ShareOpened
<1> QED
  BY <1>2, <1>4

\* The mini-batch that the groups are at, while they work.
Working(w) ==
    /\ Opened(w) /\ w <= PerGroup
    /\ op = "update" =>
          /\ w <= setting.mini
          /\ Even(setting) /\ ~setting.dynamic => Multiple(w, setting.micro)
    /\ op = "log_prob" => w = PerGroup /\ \A g \in Groups : minis[g][1] = local[g]

LEMMA InWork ==
    ASSUME Shaped, SetupInv, CallInv, ~Everyone("none")
    PROVE  op \in {"log_prob", "update"} /\ \E w \in Nat \ {0} : Working(w)
<1>1. op \in {"log_prob", "update"}
  BY DEF CallInv
<1>2. Permutes(seqs, setting.rows) /\ \A g \in Groups : local[g] = Share(g)
  BY <1>1 DEF SetupInv, CallInv
<1>3. CASE op = "log_prob"
  <2>1. \A g \in Groups : minis[g] = <<local[g]>>
    BY <1>3 DEF CallInv
  <2>2. Opened(PerGroup) /\ \A g \in Groups : minis[g][1] = local[g]
    BY <1>2, <2>1, LogProbOpened
  <2>4. PerGroup \in Nat \ {0} /\ PerGroup <= PerGroup
    BY DEF Shaped
  <2>3. Working(PerGroup)
    BY <1>3, <2>2, <2>4 DEF Working
  <2> QED
    BY <1>1, <2>3, <2>4
<1>4. CASE op = "update"
  <2>1. PICK d \in Nat : Progress(d)
    BY <1>4 DEF CallInv
  <2>2. d <= setting.epochs * MiniCount /\ d # setting.epochs * MiniCount
    BY <2>1 DEF Progress
  <2>3. d < setting.epochs * MiniCount /\ \A g \in Groups : minis[g] = Ahead(local[g], d)
    BY <2>1, <2>2, MiniCountFacts DEF Progress
  <2> DEFINE w == MiniWidth(d)
  <2>4. d % MiniCount \in 0..(MiniCount - 1) /\ w \in 1..setting.mini /\ Opened(w)
        /\ MiniAt(d) \in Nat /\ MiniAt(d) + w <= PerGroup
    BY <1>2, <2>3, UpdateOpened
  <2>5. Even(setting) /\ ~setting.dynamic => Multiple(w, setting.micro)
    <3>1. (d % MiniCount) + 1 \in 1..MiniCount
      BY <2>4, MiniCountFacts
    <3> QED
      BY <3>1, WholeWidth DEF MiniWidth
  <2>6. setting.mini \in Nat \ {0} /\ PerGroup \in Nat
    BY DEF Shaped
  <2> HIDE DEF w
  <2>7. w \in Nat \ {0} /\ w <= setting.mini /\ w <= PerGroup
    BY <2>4, <2>6
  <2>8. Working(w)
    BY <1>4, <2>4, <2>5, <2>7 DEF Working
  <2> QED
    BY <1>1, <2>7, <2>8
<1> QED
  BY <1>1, <1>3, <1>4

\* What a group returns is about its rows, in place.
LEMMA OutputInPlace ==
    ASSUME Shaped, NEW g, IsList(local[g], PerGroup), CutOf(PerGroup, <<>>, index[g]),
           ~setting.dynamic => FixedCutOf(PerGroup, <<>>, index[g])
    PROVE  Output(g) = local[g]
<1> DEFINE n == PerGroup
           idx == index[g]
           back == Reverted(idx)
<1>1. n \in Nat
  BY DEF Shaped
<1>2. Permutes(idx, n) /\ IsList(idx, n)
  BY <1>1, EndOfCut
<1>3. Len(idx) = n
  BY <1>1, <1>2, ListFacts
<1>4. IsList(back, n) /\ \A j \in 1..n : back[j] \in 1..n /\ idx[back[j]] = j
  <2>1. CASE setting.dynamic
    <3> DEFINE place(j) == CHOOSE i \in 1..Len(idx) : idx[i] = j
    <3>1. back = [j \in 1..Len(idx) |-> place(j)]
      BY <2>1, Zenon DEF Reverted
    <3>2. \A j \in 1..n : place(j) \in 1..n /\ idx[place(j)] = j
      <4>1. \A j \in 1..n : \E i \in 1..Len(idx) : idx[i] = j
        BY <1>2, <1>3 DEF Permutes
      <4>2. \A j \in 1..n : place(j) \in 1..Len(idx) /\ idx[place(j)] = j
        BY <4>1, Zenon
      <4> HIDE DEF place
      <4> QED
        BY <1>3, <4>2
    <3> HIDE DEF place, back
    <3>3. back = [j \in 1..n |-> place(j)]
      BY <1>3, <3>1, Zenon
    <3>4. IsList(back, n) /\ \A j \in 1..n : back[j] = place(j)
      BY <3>3, Zenon DEF IsList
    <3> QED
      BY <3>2, <3>4
  <2>2. CASE ~setting.dynamic
    <3>1. back = FirstRows(n) /\ idx = FirstRows(n)
      BY <1>3, <2>2 DEF Reverted, FixedCutOf
    <3>2. IsList(FirstRows(n), n) /\ \A j \in 1..n : FirstRows(n)[j] = j
      BY FirstRowsList
    <3> QED
      BY <3>1, <3>2
  <2> QED
    BY <2>1, <2>2
<1>5. Len(back) = n
  BY <1>1, <1>4, ListFacts
<1>6. Output(g) = [j \in 1..n |-> local[g][idx[back[j]]]]
  BY <1>5, Zenon DEF Output
<1>7. [j \in 1..n |-> local[g][idx[back[j]]]] = [j \in 1..n |-> local[g][j]]
  BY <1>4
<1> QED
  BY <1>6, <1>7, Zenon DEF IsList

(***************************************************************************)
(* How many micro-batches a mini-batch is cut into.                        *)
(***************************************************************************)

LEMMA MaxWithin ==
    ASSUME NEW n \in Nat, NEW T \in SUBSET (0..n), T # {}
    PROVE  Max(T) \in T
<1> DEFINE under == {n - y : y \in T}
<1>1. under \in SUBSET Nat /\ under # {}
  <2>1. ASSUME NEW y \in T
        PROVE  n - y \in Nat
    OBVIOUS
  <2>2. under \in SUBSET Nat
    BY <2>1
  <2>3. PICK y \in T : TRUE
    OBVIOUS
  <2>4. n - y \in under
    OBVIOUS
  <2> QED
    BY <2>2, <2>4
<1>2. PICK m \in under : \A x \in under : m <= x
  BY <1>1, LeastNumber
<1>3. \E t \in T : \A y \in T : t >= y
  <2>1. PICK t \in T : m = n - t
    BY <1>2
  <2>2. \A y \in T : n - t <= n - y
    BY <1>2, <2>1
  <2>3. \A y \in T : t >= y
    BY <2>2
  <2> QED
    BY <2>3
<1> DEFINE x == CHOOSE t \in T : \A y \in T : t >= y
<1>4. x \in T
  BY <1>3, Zenon
<1>5. Max(T) = x
  BY Zenon DEF Max
<1> QED
  BY <1>4, <1>5

LEMMA WantedWithin ==
    ASSUME Shaped, LimitAssumption, tokens \in [Rows -> Nat \ {0}],
           NEW w \in Nat \ {0}, NEW q, IsList(q, w), Len(q) = w, \A j \in 1..w : q[j] \in Rows
    PROVE  Wanted(q) \in 1..w
<1>1. Rows = 1..setting.rows /\ setting.rows \in Nat
  BY DEF Shaped
<1>2. IsBatch(tokens) /\ Len(tokens) = setting.rows
  <2>1. tokens \in [1..setting.rows -> Nat \ {0}]
    BY <1>1
  <2>2. tokens \in Seq(Nat \ {0}) /\ Len(tokens) = setting.rows
    <3>1. IsList(tokens, setting.rows) /\ \A j \in 1..setting.rows : tokens[j] \in Nat \ {0}
      BY <2>1 DEF IsList
    <3> QED
      BY <1>1, <3>1, ListInSeq, ListFacts
  <2> QED
    BY <2>2 DEF IsBatch
<1>3. q \in Seq(Rows)
  BY ListInSeq
<1>4. IsItemSet(tokens, q)
  BY <1>1, <1>2, <1>3 DEF IsItemSet
<1>5. Tokens(q) = Total(tokens, q)
  BY Zenon DEF Tokens, Total
<1>6. q # <<>>
  BY <1>3
<1>7. Tokens(q) \in Nat \ {0}
  <2>1. Total(tokens, q) \in Nat /\ Total(tokens, q) # 0
    BY <1>2, <1>4, <1>6, TotalFacts
  <2> QED
    BY <1>5, <2>1
<1>8. TokenLimit \in Nat \ {0}
  BY DEF LimitAssumption, Positive
<1> DEFINE c == CeilOf(Tokens(q), TokenLimit)
<1>9. c \in Nat \ {0}
  BY <1>7, <1>8, CeilOfFacts
<1> HIDE DEF c
<1>10. Min({w, c}) = IF w <= c THEN w ELSE c
  BY <1>9, MinOfTwo
<1>11. Wanted(q) = Min({w, c})
  BY DEF Wanted, c
<1> QED
  BY <1>9, <1>10, <1>11

LEMMA CountWithin ==
    ASSUME Shaped, LimitAssumption, tokens \in [Rows -> Nat \ {0}],
           NEW w \in Nat \ {0}, Opened(w), NEW g
    PROVE  NumMicros(g) \in 1..w
<1> DEFINE T == {Wanted(minis[h][1]) : h \in Groups}
<1>1. \A h \in Groups : Wanted(minis[h][1]) \in 1..w
  <2>1. ASSUME NEW h \in Groups
        PROVE  Wanted(minis[h][1]) \in 1..w
    <3> DEFINE q == minis[h][1]
    <3>1. IsList(q, w) /\ Len(q) = w /\ \A j \in 1..w : q[j] \in Rows
      BY DEF Opened
    <3> HIDE DEF q
    <3>2. Wanted(q) \in 1..w
      BY <3>1, WantedWithin
    <3> QED
      BY <3>2 DEF q
  <2> QED
    BY <2>1
<1>2. T # {}
  <2>1. 0 \in Groups
    BY OneStage
  <2> QED
    BY <2>1
<1>3. T \in SUBSET (1..w)
  BY <1>1
<1> HIDE DEF T
<1>4. Max(T) \in T
  <2>1. w \in Nat /\ T \in SUBSET (0..w)
    BY <1>3
  <2> QED
    BY <1>2, <2>1, MaxWithin
<1>5. NumMicros(g) = Max(T)
  BY Zenon DEF NumMicros, T
<1> QED
  BY <1>3, <1>4, <1>5

\* Whatever cut a group takes, it has all rows of the mini-batch still to do.
LEMMA CutsFacts ==
    ASSUME Shaped, LimitAssumption, tokens \in [Rows -> Nat \ {0}],
           NEW w \in Nat \ {0}, Opened(w), w <= PerGroup,
           NEW g \in Groups, NEW ms \in Cuts(g)
    PROVE  CutOf(w, ms, <<>>) /\ (~setting.dynamic => FixedCutOf(w, ms, <<>>))
<1>1. Len(minis[g][1]) = w
  BY DEF Opened
<1>2. setting.micro \in Nat \ {0}
  BY DEF Shaped
<1>3. CASE setting.dynamic
  <2>1. ms \in Partitions[w][NumMicros(g)]
    BY <1>1, <1>3 DEF Cuts
  <2>2. NumMicros(g) \in 1..w
    BY CountWithin
  <2> DEFINE c == NumMicros(g)
  <2>3. MaxRows \in Nat /\ w <= MaxRows
    <3>1. PerGroup <= setting.rows
      <4>1. setting.rows = NumGroups * PerGroup /\ PerGroup \in Nat /\ NumGroups \in Nat \ {0}
        BY DEF Shaped
      <4>2. \A a, b \in Nat : a # 0 => b <= a * b
        OBVIOUS
      <4> QED
        BY <4>1, <4>2
    <3>2. setting.rows <= MaxRows /\ MaxRows \in Nat /\ setting.rows \in Nat /\ PerGroup \in Nat
      BY DEF Shaped
    <3> QED
      BY <3>1, <3>2
  <2> HIDE DEF c
  <2>4. w \in 0..MaxRows /\ c \in 0..MaxRows /\ c \in Nat
    BY <2>2, <2>3 DEF c
  <2>5. IsPartition(ms, w, c)
    BY <2>1, <2>4, PartitionFacts DEF c
  <2>6. CutOf(w, ms, <<>>)
    BY <2>4, <2>5, StartOfCut
  <2> QED
    BY <1>3, <2>6
<1>4. CASE ~setting.dynamic
  <2>1. ms = FixedSplit(minis[g][1])
    BY <1>4 DEF Cuts
  <2> QED
    BY <1>1, <1>2, <2>1, StartOfFixedCut
<1> QED
  BY <1>3, <1>4

(***************************************************************************)
(* The mini-batches that an update begins with.                            *)
(***************************************************************************)

LEMMA AllAhead ==
    ASSUME Shaped, NEW q, IsList(q, PerGroup)
    PROVE  Epochs(Split(q, setting.mini)) = Ahead(q, 0)
<1> DEFINE m == MiniCount
           s == Split(q, setting.mini)
           L == setting.epochs * m
<1>1. m \in Nat \ {0} /\ L \in Nat /\ m = CeilOf(PerGroup, setting.mini)
  BY MiniCountFacts
<1>2. PerGroup \in Nat \ {0} /\ setting.mini \in Nat \ {0}
  BY DEF Shaped
<1>3. IsList(s, m)
  BY <1>1, <1>2, SplitFacts
<1> HIDE DEF m, s
<1>4. IsList(Epochs(s), L) /\ \A i \in 1..L : Epochs(s)[i] = s[((i - 1) % m) + 1]
  BY <1>1, <1>3, EpochsFacts
<1>5. IsList(Ahead(q, 0), L - 0) /\ \A i \in 1..(L - 0) : Ahead(q, 0)[i] = s[((0 + i - 1) % m) + 1]
  <2>1. 0 \in Nat /\ 0 <= L
    BY <1>1
  <2> QED
    BY <2>1, AheadFacts DEF m, s
<1> HIDE DEF L
<1>6. L - 0 = L /\ \A i \in 1..L : 0 + i - 1 = i - 1
  BY <1>1
<1>7. \A i \in 1..L : Epochs(s)[i] = Ahead(q, 0)[i]
  BY <1>4, <1>5, <1>6
<1>8. Epochs(s) = Ahead(q, 0)
  BY <1>4, <1>5, <1>6, <1>7, ListsEqual
<1> QED
  BY <1>8 DEF s

(***************************************************************************)
(* Every step keeps the invariant.                                         *)
(***************************************************************************)

LEMMA FirstRowsPermute ==
    ASSUME NEW n \in Nat
    PROVE  Permutes(FirstRows(n), n)
<1>1. FirstRows(n) = [i \in 1..n |-> i]
  BY Zenon DEF FirstRows
<1> QED
  BY <1>1 DEF Permutes

LEMMA InitBatch ==
    ASSUME SettingsAssumption, LimitAssumption, DPInit
    PROVE  BatchInv
<1>1. Shaped
  BY SettingShaped DEF DPInit
<1>2. /\ setting \in Settings /\ op = "validate" /\ seqs = FirstRows(setting.rows)
      /\ at = [g \in Groups |-> "none"]
      /\ grad = [i \in Rows |-> 0] /\ times = [i \in Rows |-> 0]
  BY DEF DPInit
<1>3. Everyone("none") /\ ~Everyone("split") /\ ~Everyone("forward")
  <2>1. 0 \in Groups
    BY <1>1, OneStage
  <2> QED
    BY <1>2, <2>1 DEF Everyone
<1>4. tokens \in [Rows -> Nat \ {0}]
  <2>1. tokens \in [Rows -> 1..MaxTokens] /\ MaxTokens \in Nat
    BY DEF DPInit, LimitAssumption, Positive
  <2> QED
    BY <2>1
<1>5. SetupInv
  <2>1. Permutes(seqs, setting.rows)
    BY <1>1, <1>2, FirstRowsPermute DEF Shaped
  <2>2. grad \in [Rows -> Int] /\ times \in [Rows -> Int]
    BY <1>2
  <2> QED
    BY <1>2, <1>3, <1>4, <2>1, <2>2 DEF SetupInv
<1>6. CallInv
  BY <1>2, <1>3 DEF CallInv
<1>7. MicroInv
  BY <1>3 DEF MicroInv
<1>8. WeightInv
  BY <1>2 DEF WeightInv
<1> QED
  BY <1>5, <1>6, <1>7, <1>8 DEF BatchInv

\* What no step changes.
LEMMA Kept ==
    ASSUME setting' = setting
    PROVE  /\ Rows' = Rows /\ Groups' = Groups
           /\ PerGroup' = PerGroup /\ MiniCount' = MiniCount
           /\ Even(setting)' <=> Even(setting)
BY DEF Rows, Groups, PerRank, PerGroup, MiniCount, CeilOf, Even

LEMMA ValidateBatch ==
    ASSUME SettingsAssumption, LimitAssumption, BatchInv, Validate
    PROVE  BatchInv'
<1>1. Shaped
  BY SettingShaped DEF BatchInv, SetupInv
<1>2. /\ op = "validate" /\ op' = "balance" /\ setting' = setting
      /\ UNCHANGED <<tokens, seqs, local, minis, at, micros, index, grad, times>>
  BY DEF Validate, groupVars
<1>3. Rows' = Rows /\ Groups' = Groups
  BY <1>2, Kept
<1>4. Everyone("none") /\ \A i \in Rows : times[i] = 0
  BY <1>2 DEF BatchInv, CallInv
<1>5. results' = FirstRows(setting.test)
  <2> DEFINE batch == Padded(FirstRows(setting.test), setting.ranks)
             outs == [g \in Groups |-> Gathered(batch, g)]
  <2>1. results' = Unpadded(Collected(outs), setting.test)
    BY DEF Validate
  <2>2. Unpadded(Collected(outs), setting.test) = FirstRows(setting.test)
    BY <1>1, ValidateReturns
  <2> QED
    BY <2>1, <2>2
<1>6. Everyone("none")' /\ ~Everyone("split")' /\ ~Everyone("forward")'
  <2>1. 0 \in Groups
    BY <1>1, OneStage
  <2> QED
    BY <1>2, <1>3, <1>4, <2>1 DEF Everyone
<1>7. SetupInv'
  BY <1>2, <1>3, <1>6 DEF BatchInv, SetupInv, SeqMean, Permutes
<1>8. CallInv'
  <2>1. results' = FirstRows(setting.test)'
    BY <1>2, <1>5 DEF FirstRows
  <2> QED
    BY <1>2, <1>3, <1>4, <1>6, <2>1 DEF CallInv
<1>9. MicroInv'
  BY <1>6 DEF MicroInv
<1>10. WeightInv'
  BY <1>2 DEF WeightInv
<1> QED
  BY <1>7, <1>8, <1>9, <1>10 DEF BatchInv

LEMMA BalanceBatch ==
    ASSUME SettingsAssumption, LimitAssumption, BatchInv, Balance
    PROVE  BatchInv'
<1>1. Shaped
  BY SettingShaped DEF BatchInv, SetupInv
<1>2. /\ op = "balance" /\ op' = "dispatch" /\ setting' = setting
      /\ UNCHANGED <<tokens, results, local, minis, at, micros, index, grad, times>>
  BY DEF Balance, groupVars
<1>3. Rows' = Rows /\ Groups' = Groups
  BY <1>2, Kept
<1>4. Everyone("none") /\ \A i \in Rows : times[i] = 0
  BY <1>2 DEF BatchInv, CallInv
<1>5. Permutes(seqs', setting.rows)
  <2>1. PICK ps \in Partitions[setting.rows][setting.ranks] :
           /\ \A i, j \in DOMAIN ps : Cardinality(ps[i]) = Cardinality(ps[j])
           /\ seqs' = Flat(ps)
    BY DEF Balance
  <2> DEFINE n == setting.rows
             c == setting.ranks
  <2>2. /\ n \in 0..MaxRows /\ c \in 0..MaxRows
        /\ n \in Nat \ {0} /\ c \in Nat \ {0}
    BY <1>1 DEF Shaped
  <2> HIDE DEF n, c
  <2>3. ps \in Partitions[n][c]
    BY DEF n, c
  <2>4. IsPartition(ps, n, c)
    BY <2>2, <2>3, PartitionFacts
  <2>5. Permutes(Flat(ps), n)
    BY <2>1, <2>2, <2>4, FlatPermutes
  <2> QED
    BY <2>1, <2>5 DEF n
<1>6. Everyone("none")' /\ ~Everyone("split")' /\ ~Everyone("forward")'
  <2>1. 0 \in Groups
    BY <1>1, OneStage
  <2> QED
    BY <1>2, <1>3, <1>4, <2>1 DEF Everyone
<1>7. SetupInv'
  BY <1>2, <1>3, <1>5, <1>6 DEF BatchInv, SetupInv, SeqMean, Permutes
<1>8. CallInv'
  BY <1>2, <1>3, <1>4, <1>6 DEF CallInv
<1>9. MicroInv'
  BY <1>6 DEF MicroInv
<1>10. WeightInv'
  BY <1>2 DEF WeightInv
<1> QED
  BY <1>7, <1>8, <1>9, <1>10 DEF BatchInv

LEMMA ShareKept ==
    ASSUME setting' = setting, seqs' = seqs
    PROVE  \A g : Share(g)' = Share(g)
BY DEF Share, RowOf, PerGroup, PerRank

LEMMA AheadKept ==
    ASSUME setting' = setting, NEW d, NEW g
    PROVE  /\ Ahead(local[g], d)' = Ahead(local'[g], d)
           /\ \A x : PartOf(d, x)' = PartOf(d, x)
BY DEF Ahead, PartOf, MiniCount, PerGroup, PerRank, CeilOf, Split

\* Each group gets its share of the driver's batch.
LEMMA DispatchedShare ==
    ASSUME Shaped, Permutes(seqs, setting.rows)
    PROVE  \A g \in Groups : Gathered(seqs, g) = Share(g)
<1> DEFINE c == PerRank
<1>1. c \in Nat \ {0} /\ PerGroup = setting.sp * c /\ \A g, x : RowOf(g, x) = RowAt(g, x, c)
  BY RowOfIsRowAt DEF Shaped
<1>2. IsList(seqs, setting.ranks * c)
  <2>1. setting.rows = setting.ranks * c
    BY DEF Shaped
  <2>2. seqs = [i \in 1..setting.rows |-> seqs[i]]
    BY DEF Permutes
  <2> HIDE DEF c
  <2> QED
    BY <2>1, <2>2 DEF IsList
<1> HIDE DEF c
<1>3. ASSUME NEW g \in Groups
      PROVE  Gathered(seqs, g) = Share(g)
  <2>1. IsGathered(Gathered(seqs, g), seqs, g, c)
    BY <1>1, <1>2, GatheredFacts
  <2>2. IsList(Gathered(seqs, g), PerGroup)
    BY <1>1, <2>1 DEF IsGathered
  <2>3. IsList(Share(g), PerGroup) /\ \A x \in 1..PerGroup : Share(g)[x] = seqs[RowOf(g, x)]
    BY ShareIsList
  <2>4. \A x \in 1..PerGroup : Gathered(seqs, g)[x] = Share(g)[x]
    BY <1>1, <2>1, <2>3 DEF IsGathered
  <2> QED
    BY <2>2, <2>3, <2>4, ListsEqual
<1> QED
  BY <1>3

LEMMA DispatchLogProbBatch ==
    ASSUME SettingsAssumption, LimitAssumption, BatchInv, DispatchLogProb
    PROVE  BatchInv'
<1>1. Shaped
  BY SettingShaped DEF BatchInv, SetupInv
<1>2. /\ op = "dispatch" /\ op' = "log_prob" /\ setting' = setting
      /\ UNCHANGED <<tokens, seqs, results, grad, times>>
      /\ at' = [g \in Groups |-> "split"] /\ index' = [g \in Groups |-> <<>>]
  BY DEF DispatchLogProb
<1>3. Rows' = Rows /\ Groups' = Groups
  BY <1>2, Kept
<1>4. \A i \in Rows : times[i] = 0
  BY <1>2 DEF BatchInv, CallInv
<1>5. \A g \in Groups : local'[g] = Share(g)' /\ minis'[g] = <<local'[g]>>
  <2>1. \A g \in Groups : local'[g] = Gathered(seqs, g) /\ minis'[g] = <<local'[g]>>
    BY DEF DispatchLogProb
  <2>2. Permutes(seqs, setting.rows)
    BY DEF BatchInv, SetupInv
  <2> QED
    BY <1>1, <1>2, <2>1, <2>2, DispatchedShare, ShareKept
<1>6. Everyone("split")' /\ ~Everyone("none")' /\ ~Everyone("forward")'
  <2>1. 0 \in Groups
    BY <1>1, OneStage
  <2> QED
    BY <1>2, <1>3, <2>1 DEF Everyone
<1>7. SetupInv'
  BY <1>2, <1>3, <1>6 DEF BatchInv, SetupInv, SeqMean, Permutes
<1>8. CallInv'
  BY <1>2, <1>3, <1>4, <1>5, <1>6 DEF CallInv
<1>9. MicroInv'
  BY <1>2, <1>3, <1>6 DEF MicroInv
<1>10. WeightInv'
  BY <1>2 DEF WeightInv
<1> QED
  BY <1>7, <1>8, <1>9, <1>10 DEF BatchInv

LEMMA NothingDone ==
    ASSUME Shaped, NEW x \in 1..PerGroup
    PROVE  PartOf(0, x) = 0
<1>1. MiniCount \in Nat \ {0}
  BY MiniCountFacts
<1>2. 0 \div MiniCount = 0 /\ 0 % MiniCount = 0
  BY <1>1
<1>3. setting.mini \in Nat \ {0} /\ PerGroup \in Nat
  BY DEF Shaped
<1>4. ~((x - 1) \div setting.mini < 0)
  BY <1>3
<1> QED
  BY <1>2, <1>4 DEF PartOf

LEMMA DispatchUpdateBatch ==
    ASSUME SettingsAssumption, LimitAssumption, BatchInv, DispatchUpdate
    PROVE  BatchInv'
<1>1. Shaped
  BY SettingShaped DEF BatchInv, SetupInv
<1>2. /\ op = "union" /\ op' = "update" /\ setting' = setting
      /\ UNCHANGED <<tokens, seqs, results, grad, times>>
      /\ at' = [g \in Groups |-> "split"] /\ index' = [g \in Groups |-> <<>>]
  BY DEF DispatchUpdate
<1>3. Rows' = Rows /\ Groups' = Groups /\ PerGroup' = PerGroup /\ MiniCount' = MiniCount
  BY <1>2, Kept
<1>4. \A i \in Rows : times[i] = 0
  BY <1>2 DEF BatchInv, CallInv
<1>5. Permutes(seqs, setting.rows)
  BY DEF BatchInv, SetupInv
<1>6. \A g \in Groups : /\ local'[g] = Gathered(seqs, g)
                        /\ minis'[g] = Epochs(Split(local'[g], setting.mini))
  BY DEF DispatchUpdate
<1>7. \A g \in Groups : local'[g] = Share(g) /\ local'[g] = Share(g)'
  BY <1>1, <1>2, <1>5, <1>6, DispatchedShare, ShareKept
<1>8. \A g \in Groups : minis'[g] = Ahead(local[g], 0)'
  <2>1. ASSUME NEW g \in Groups
        PROVE  minis'[g] = Ahead(local[g], 0)'
    <3>1. IsList(local'[g], PerGroup)
      BY <1>1, <1>7, ShareIsList
    <3>2. Epochs(Split(local'[g], setting.mini)) = Ahead(local'[g], 0)
      BY <1>1, <3>1, AllAhead
    <3> QED
      BY <1>2, <1>6, <3>2, AheadKept
  <2> QED
    BY <2>1
<1>9. Everyone("split")' /\ ~Everyone("none")' /\ ~Everyone("forward")'
  <2>1. 0 \in Groups
    BY <1>1, OneStage
  <2> QED
    BY <1>2, <1>3, <2>1 DEF Everyone
<1>10. \A g \in Groups : \A x \in 1..PerGroup : times'[local'[g][x]] = PartOf(0, x)'
  <2>1. ASSUME NEW g \in Groups, NEW x \in 1..PerGroup
        PROVE  times'[local'[g][x]] = PartOf(0, x)'
    <3>1. local'[g][x] = seqs[RowOf(g, x)]
      BY <1>1, <1>7, ShareIsList
    <3>2. RowOf(g, x) \in 1..setting.rows
      <4>1. PerGroup = setting.sp * PerRank /\ RowOf(g, x) = RowAt(g, x, PerRank)
        BY <1>1, RowOfIsRowAt
      <4>2. x \in 1..(setting.sp * PerRank) /\ PerRank \in Nat \ {0}
        BY <1>1, <4>1 DEF Shaped
      <4>3. RowAt(g, x, PerRank) \in 1..(setting.ranks * PerRank)
        BY <1>1, <4>2, RowWithin
      <4> QED
        BY <1>1, <4>1, <4>3 DEF Shaped
    <3>3. local'[g][x] \in Rows
      BY <1>1, <1>5, <3>1, <3>2 DEF Permutes, Shaped
    <3>4. PartOf(0, x)' = 0
      BY <1>1, <1>2, NothingDone, AheadKept
    <3> QED
      BY <1>2, <1>4, <3>3, <3>4
  <2> QED
    BY <2>1
<1>11. SetupInv'
  BY <1>2, <1>3, <1>9 DEF BatchInv, SetupInv, SeqMean, Permutes
<1>12. Progress(0)'
  <2>1. setting'.epochs * MiniCount' \in Nat \ {0}
    BY <1>1, <1>2, <1>3, MiniCountFacts
  <2>2. 0 <= setting'.epochs * MiniCount' /\ 0 # setting'.epochs * MiniCount'
    BY <2>1
  <2> QED
    BY <1>3, <1>8, <1>9, <1>10, <2>2 DEF Progress
<1>13. CallInv'
  BY <1>2, <1>3, <1>7, <1>12 DEF CallInv
<1>14. MicroInv'
  BY <1>2, <1>3, <1>9 DEF MicroInv
<1>15. WeightInv'
  BY <1>9 DEF WeightInv
<1> QED
  BY <1>11, <1>13, <1>14, <1>15 DEF BatchInv

\* What is in progress stays so while the groups work on.
LEMMA CallKept ==
    ASSUME UNCHANGED <<setting, op, seqs, results, local, minis, times>>,
           Everyone("none")' <=> Everyone("none"), CallInv
    PROVE  CallInv'
<1>1. /\ Rows' = Rows /\ Groups' = Groups /\ PerGroup' = PerGroup /\ MiniCount' = MiniCount
      /\ Even(setting)' <=> Even(setting)
  BY Kept
<1>2. \A g : Share(g)' = Share(g)
  BY ShareKept
<1>3. \A d \in Nat : Progress(d) => Progress(d)'
  <2>1. ASSUME NEW d \in Nat, Progress(d)
        PROVE  Progress(d)'
    <3>1. \A g : Ahead(local[g], d)' = Ahead(local[g], d)
      BY AheadKept
    <3>2. \A x : PartOf(d, x)' = PartOf(d, x)
      BY AheadKept
    <3>3. \A g \in Groups' : minis'[g] = Ahead(local[g], d)'
      BY <1>1, <2>1, <3>1 DEF Progress
    <3>4. Everyone("none")' <=> d = setting'.epochs * MiniCount'
      BY <1>1, <2>1 DEF Progress
    <3>5. d <= setting'.epochs * MiniCount'
      BY <1>1, <2>1 DEF Progress
    <3>6. Even(setting)' => \A g \in Groups' : \A x \in 1..PerGroup' :
             times'[local'[g][x]] = PartOf(d, x)'
      BY <1>1, <2>1, <3>2 DEF Progress
    <3> QED
      BY <3>3, <3>4, <3>5, <3>6 DEF Progress
  <2> QED
    BY <2>1
<1>4. op = "balance" => results' = FirstRows(setting.test)'
  BY DEF CallInv, FirstRows
<1>5. op = "update" => \E d \in Nat : Progress(d)'
  BY <1>3 DEF CallInv
<1>6. op \in {"log_prob", "update"} => \A g \in Groups' : local'[g] = Share(g)'
  BY <1>1, <1>2 DEF CallInv
<1>7. op = "done" => (Even(setting)' => \A i \in Rows' : times'[i] = setting'.epochs)
  BY <1>1 DEF CallInv
<1> QED
  BY <1>1, <1>4, <1>5, <1>6, <1>7 DEF CallInv

LEMMA FixedKept ==
    ASSUME setting' = setting, NEW g
    PROVE  FixedCutOf(Len(minis[g][1]), micros[g], index[g])'
              <=> FixedCutOf(Len(minis'[g][1]), micros'[g], index'[g])
BY DEF FixedCutOf, FirstRows

LEMMA SplitMicrosBatch ==
    ASSUME SettingsAssumption, LimitAssumption, BatchInv, SplitMicros
    PROVE  BatchInv'
<1>1. Shaped
  BY SettingShaped DEF BatchInv, SetupInv
<1>2. /\ Everyone("split") /\ at' = [g \in Groups |-> "forward"] /\ grad' = [i \in Rows |-> 0]
      /\ UNCHANGED <<setting, tokens, op, seqs, results, local, minis, index, times>>
  BY DEF SplitMicros
<1>3. Rows' = Rows /\ Groups' = Groups
  BY <1>2, Kept
<1>4. ~Everyone("none") /\ Everyone("forward")' /\ ~Everyone("none")' /\ ~Everyone("split")'
  <2>1. 0 \in Groups
    BY <1>1, OneStage
  <2> QED
    BY <1>2, <1>3, <2>1 DEF Everyone
<1>5. PICK w \in Nat \ {0} : Working(w)
  BY <1>1, <1>4, InWork DEF BatchInv
<1>6. Opened(w) /\ w <= PerGroup /\ \A g \in Groups : Len(minis[g][1]) = w
  BY <1>5 DEF Working, Opened
<1>7. \A g \in Groups : index[g] = <<>>
  BY <1>2 DEF BatchInv, MicroInv
<1>8. \A g \in Groups : /\ CutOf(w, micros'[g], <<>>)
                        /\ ~setting.dynamic => FixedCutOf(w, micros'[g], <<>>)
  <2>1. \A g \in Groups : micros'[g] \in Cuts(g)
    BY DEF SplitMicros
  <2>2. tokens \in [Rows -> Nat \ {0}]
    BY DEF BatchInv, SetupInv
  <2> QED
    BY <1>1, <1>6, <2>1, <2>2, CutsFacts
<1>9. SetupInv'
  BY <1>2, <1>3, <1>4 DEF BatchInv, SetupInv, SeqMean, Permutes
<1>10. CallInv'
  BY <1>2, <1>4, CallKept DEF BatchInv
<1>11. MicroInv'
  <2>1. ASSUME NEW g \in Groups
        PROVE  /\ CutOf(Len(minis'[g][1]), micros'[g], index'[g])
               /\ ~setting'.dynamic => FixedCutOf(Len(minis[g][1]), micros[g], index[g])'
    BY <1>2, <1>6, <1>7, <1>8, FixedKept
  <2> QED
    BY <1>3, <1>4, <2>1 DEF MicroInv
<1>12. WeightInv'
  <2>1. ASSUME NEW g \in Groups, NEW j \in 1..Len(minis'[g][1])
        PROVE  grad'[minis'[g][1][j]] = 0 /\ ~Among(index'[g], j)
    <3>1. minis[g][1][j] \in Rows
      BY <1>2, <1>6, <2>1 DEF Opened
    <3>2. ~Among(<<>>, j)
      BY DEF Among
    <3> QED
      BY <1>2, <1>7, <3>1, <3>2
  <2>2. \A i \in Rows' : grad'[i] = 0
    BY <1>2, <1>3
  <2> QED
    BY <1>3, <2>1, <2>2 DEF WeightInv
<1> QED
  BY <1>9, <1>10, <1>11, <1>12 DEF BatchInv

\* The groups whose micro-batch a row is in.
Landed(i) == {g \in Groups : i \in Current(g)}

LEMMA Landing ==
    ASSUME Shaped, NEW w \in Nat \ {0}, Opened(w),
           \A g \in Groups : micros[g][1] \in SUBSET (1..w)
    PROVE  /\ \A g \in Groups : \A j \in 1..w :
                 Landed(minis[g][1][j]) = IF j \in micros[g][1] THEN {g} ELSE {}
           /\ \A i : (\A g \in Groups : i \notin ToSet(minis[g][1])) => Landed(i) = {}
<1>1. \A h \in Groups : \A i : i \in Current(h) <=> \E y \in micros[h][1] : minis[h][1][y] = i
  BY Zenon DEF Current
<1>2. ASSUME NEW g \in Groups, NEW j \in 1..w
      PROVE  Landed(minis[g][1][j]) = IF j \in micros[g][1] THEN {g} ELSE {}
  <2>1. ASSUME NEW h \in Groups
        PROVE  minis[g][1][j] \in Current(h) <=> h = g /\ j \in micros[g][1]
    <3>1. ASSUME NEW y \in micros[h][1], minis[h][1][y] = minis[g][1][j]
          PROVE  h = g /\ y = j
      <4>1. y \in 1..w
        OBVIOUS
      <4> QED
        BY <3>1, <4>1 DEF Opened
    <3> QED
      BY <1>1, <3>1
  <2>2. \A h : h \in Landed(minis[g][1][j]) <=> h \in Groups /\ minis[g][1][j] \in Current(h)
    BY Zenon DEF Landed
  <2>3. \A h : h \in Landed(minis[g][1][j]) <=> h = g /\ j \in micros[g][1]
    BY <2>1, <2>2
  <2> QED
    BY <2>3
<1>3. ASSUME NEW i, \A g \in Groups : i \notin ToSet(minis[g][1])
      PROVE  Landed(i) = {}
  <2>1. ASSUME NEW h \in Groups, NEW y \in micros[h][1], minis[h][1][y] = i
        PROVE  FALSE
    <3>1. y \in 1..w
      OBVIOUS
    <3>2. IsList(minis[h][1], w)
      BY DEF Opened
    <3>3. DOMAIN minis[h][1] = 1..w
      BY <3>2, ListFacts
    <3>4. i \in ToSet(minis[h][1])
      BY <2>1, <3>1, <3>3 DEF ToSet
    <3> QED
      BY <1>3, <3>4
  <2> QED
    BY <1>1, <2>1 DEF Landed
<1> QED
  BY <1>2, <1>3

\* Of every row it is known whether a group has it.
LEMMA RowIn ==
    ASSUME NEW w \in Nat \ {0}, Opened(w), NEW g \in Groups, NEW i, i \in ToSet(minis[g][1])
    PROVE  \E j \in 1..w : i = minis[g][1][j]
<1>1. IsList(minis[g][1], w)
  BY DEF Opened
<1>2. DOMAIN minis[g][1] = 1..w
  BY <1>1, ListFacts
<1> QED
  BY <1>2 DEF ToSet

LEMMA RowOpened ==
    ASSUME NEW w \in Nat \ {0}, Opened(w), NEW i
    PROVE  \/ \A g \in Groups : i \notin ToSet(minis[g][1])
           \/ \E g \in Groups : \E j \in 1..w : i = minis[g][1][j]
<1>1. ASSUME NEW g \in Groups, i \in ToSet(minis[g][1])
      PROVE  \E j \in 1..w : i = minis[g][1][j]
  BY <1>1, RowIn
<1> QED
  BY <1>1

LEMMA ScaledInt ==
    ASSUME Shaped, UnitAssumption, SeqMean, NEW i, NEW g,
           NEW n \in Nat \ {0}, Cardinality(micros[g][1]) = n
    PROVE  Scaled(i, g) \in Int
<1> DEFINE m == setting.mini
           d == m \div setting.micro
<1>1. m \in Nat \ {0} /\ d \in Nat \ {0} /\ Unit \in Nat
  BY DEF Shaped, UnitAssumption, Positive
<1> HIDE DEF m, d
<1>2. Unit * m \in Int
  BY <1>1
<1>3. MeanOf(i, g) \in Int
  <2>1. MeanOf(i, g) = (Unit * m) \div n
    BY DEF MeanOf, m
  <2> DEFINE y == Unit * m
  <2>2. y \in Int
    BY <1>2
  <2> HIDE DEF y
  <2>3. y \div n \in Int
    BY <2>2
  <2> QED
    BY <2>1, <2>3 DEF y
<1> DEFINE z == MeanOf(i, g)
<1> HIDE DEF z
<1>4. z \in Int
  BY <1>3 DEF z
<1>5. z \div d \in Int
  BY <1>1, <1>4
<1>6. z * n \in Int
  BY <1>4
<1> DEFINE y == z * n
<1> HIDE DEF y
<1>7. y \in Int
  BY <1>6 DEF y
<1>8. y \div m \in Int
  BY <1>1, <1>7
<1>9. Scaled(i, g) = IF setting.dynamic THEN y \div m ELSE z \div d
  BY Zenon DEF Scaled, y, z, m, d
<1> QED
  BY <1>5, <1>8, <1>9

\* The micro-batch that each group is at.
AtMicro(w) ==
    /\ \A g \in Groups : CutOf(w, micros[g], index[g]) /\ micros[g] # <<>>
    /\ ~setting.dynamic => \A g \in Groups : FixedCutOf(w, micros[g], index[g])

LEMMA MicroFacts ==
    ASSUME Shaped, NEW w \in Nat \ {0}, AtMicro(w), NEW g \in Groups
    PROVE  /\ micros[g][1] \in SUBSET (1..w) /\ IsFiniteSet(micros[g][1])
           /\ Cardinality(micros[g][1]) \in 1..w
           /\ CutOf(w, Tail(micros[g]), index[g] \o InOrder(micros[g][1]))
           /\ \A j : Among(index[g] \o InOrder(micros[g][1]), j)
                        <=> Among(index[g], j) \/ j \in micros[g][1]
           /\ \A j \in micros[g][1] : ~Among(index[g], j)
           /\ ~setting.dynamic =>
                 FixedCutOf(w, Tail(micros[g]), index[g] \o InOrder(micros[g][1]))
<1> DEFINE ms == micros[g]
           idx == index[g]
<1>1. CutOf(w, ms, idx) /\ ms # <<>> /\ (~setting.dynamic => FixedCutOf(w, ms, idx))
  BY DEF AtMicro
<1>2. setting.micro \in Nat \ {0}
  BY DEF Shaped
<1> HIDE DEF ms, idx
<1>3. /\ ms[1] \in SUBSET (1..w) /\ ms[1] # {}
      /\ IsFiniteSet(ms[1]) /\ Cardinality(ms[1]) \in Nat
      /\ CutOf(w, Tail(ms), idx \o InOrder(ms[1]))
      /\ \A j : Among(idx \o InOrder(ms[1]), j) <=> Among(idx, j) \/ j \in ms[1]
      /\ \A j \in ms[1] : ~Among(idx, j)
  BY <1>1, CutStep
<1>4. Cardinality(ms[1]) \in 1..w
  <2> DEFINE S == ms[1]
  <2>1. S \in SUBSET (1..w) /\ S # {} /\ IsFiniteSet(S) /\ Cardinality(S) \in Nat
    BY <1>3
  <2> HIDE DEF S
  <2>2. IsFiniteSet(1..w) /\ Cardinality(1..w) = w
    <3>1. 1 \in Int /\ w \in Int
      OBVIOUS
    <3>2. IsFiniteSet(1..w) /\ Cardinality(1..w) = IF 1 > w THEN 0 ELSE w - 1 + 1
      BY <3>1, FS_Interval
    <3> QED
      BY <3>2
  <2>3. Cardinality(S) <= Cardinality(1..w)
    BY <2>1, <2>2, FS_Subset
  <2>4. Cardinality(S) # 0
    BY <2>1, FS_EmptySet
  <2>5. Cardinality(S) \in 1..w
    BY <2>1, <2>2, <2>3, <2>4
  <2> QED
    BY <2>5 DEF S
<1>5. ~setting.dynamic => FixedCutOf(w, Tail(ms), idx \o InOrder(ms[1]))
  BY <1>1, <1>2, FixedStep
<1> QED
  BY <1>3, <1>4, <1>5 DEF ms, idx

\* Every sequence of a micro-batch weighs one Unit.
LEMMA MicroWeighs ==
    ASSUME Shaped, UnitAssumption, setting \in Settings, Even(setting), op = "update",
           NEW w \in Nat \ {0}, Working(w), AtMicro(w), NEW i, NEW g \in Groups
    PROVE  WeightOf(i, g) = Unit
<1> DEFINE n == Cardinality(micros[g][1])
<1>1. n \in 1..w
  BY MicroFacts
<1>2. w <= setting.mini /\ (~setting.dynamic => Multiple(w, setting.micro))
  BY DEF Working
<1>3. setting.mini \in Nat /\ setting.micro \in Nat \ {0} /\ setting.dynamic \in BOOLEAN
  BY DEF Shaped
<1>4. ~setting.dynamic => n = setting.micro
  <2> SUFFICES ASSUME ~setting.dynamic
               PROVE  n = setting.micro
    OBVIOUS
  <2>1. CutOf(w, micros[g], index[g]) /\ FixedCutOf(w, micros[g], index[g]) /\ micros[g] # <<>>
    BY DEF AtMicro
  <2> QED
    BY <1>2, <1>3, <2>1, FullMicro
<1> HIDE DEF n
<1>5. n \in 1..setting.mini
  BY <1>1, <1>2, <1>3
<1>6. SeqMean /\ Cardinality(micros[g][1]) = n
  BY DEF Even, SeqMean, n
<1>7. Scaled(i, g) = Unit
  BY <1>3, <1>4, <1>5, <1>6, ScaledIsUnit
<1> QED
  BY <1>7 DEF WeightOf

LEMMA WeightInt ==
    ASSUME Shaped, UnitAssumption, SeqMean, NEW w \in Nat \ {0}, Opened(w), AtMicro(w), NEW i
    PROVE  WeightSum(i, Landed(i)) \in Int
<1>1. \A g \in Groups : micros[g][1] \in SUBSET (1..w)
  BY MicroFacts
<1>2. WeightSum(i, {}) \in Int
  BY NoWeight
<1>3. ASSUME NEW g \in Groups
      PROVE  WeightSum(i, {g}) \in Int
  <2> DEFINE n == Cardinality(micros[g][1])
  <2>1. n \in 1..w /\ Cardinality(micros[g][1]) = n
    BY MicroFacts
  <2> HIDE DEF n
  <2>2. Scaled(i, g) \in Int
    BY <2>1, ScaledInt
  <2>3. WeightOf(i, g) \in Int
    BY <2>2 DEF WeightOf
  <2> QED
    BY <2>3, OneWeight
<1>4. CASE \A g \in Groups : i \notin ToSet(minis[g][1])
  BY <1>1, <1>2, <1>4, Landing
<1>5. CASE \E g \in Groups : \E j \in 1..w : i = minis[g][1][j]
  <2>1. PICK g \in Groups : \E j \in 1..w : i = minis[g][1][j]
    BY <1>5
  <2>2. PICK j \in 1..w : i = minis[g][1][j]
    BY <2>1
  <2>3. Landed(i) = {g} \/ Landed(i) = {}
    BY <1>1, <2>2, Landing
  <2> QED
    BY <1>2, <1>3, <2>3
<1> QED
  BY <1>4, <1>5, RowOpened

LEMMA ForwardBatch ==
    ASSUME SettingsAssumption, LimitAssumption, UnitAssumption, BatchInv, Forward
    PROVE  BatchInv'
<1>1. Shaped
  BY SettingShaped DEF BatchInv, SetupInv
<1>2. /\ Everyone("forward") /\ \A g \in Groups : micros[g] # <<>>
      /\ micros' = [g \in Groups |-> Tail(micros[g])]
      /\ index' = [g \in Groups |-> index[g] \o InOrder(micros[g][1])]
      /\ UNCHANGED <<setting, tokens, op, seqs, results, local, minis, at, times>>
  BY DEF Forward
<1>3. Rows' = Rows /\ Groups' = Groups
  BY <1>2, Kept
<1>4. /\ ~Everyone("none") /\ ~Everyone("split")
      /\ Everyone("forward")' /\ ~Everyone("none")' /\ ~Everyone("split")'
  <2>1. 0 \in Groups
    BY <1>1, OneStage
  <2> QED
    BY <1>2, <1>3, <2>1 DEF Everyone
<1>5. PICK w \in Nat \ {0} : Working(w)
  BY <1>1, <1>4, InWork DEF BatchInv
<1>6. Opened(w) /\ \A g \in Groups : Len(minis[g][1]) = w
  BY <1>5 DEF Working, Opened
<1>7. AtMicro(w)
  BY <1>2, <1>6 DEF BatchInv, MicroInv, AtMicro
<1>8. \A i \in Rows : /\ op = "update" => grad'[i] = grad[i] + WeightSum(i, Landed(i))
                      /\ op # "update" => grad'[i] = grad[i]
  BY Zenon DEF Forward, WeightSum, Landed
<1>9. (SeqMean => grad \in [Rows -> Int]) /\ setting \in Settings
  BY DEF BatchInv, SetupInv
<1>10. ASSUME SeqMean
       PROVE  grad' \in [Rows -> Int]
  <2>1. ASSUME NEW i \in Rows
        PROVE  grad'[i] \in Int
    <3>1. grad[i] \in Int
      BY <1>9, <1>10
    <3>2. WeightSum(i, Landed(i)) \in Int
      BY <1>1, <1>6, <1>7, <1>10, WeightInt
    <3> DEFINE y == WeightSum(i, Landed(i))
    <3> HIDE DEF y
    <3>3. y \in Int
      BY <3>2 DEF y
    <3>4. op = "update" => grad'[i] = grad[i] + y
      BY <1>8 DEF y
    <3>5. op # "update" => grad'[i] = grad[i]
      BY <1>8
    <3> QED
      BY <3>1, <3>3, <3>4, <3>5
  <2>2. grad' = [i \in Rows |-> grad'[i]]
    <3>1. CASE op = "update"
      <4>1. grad' = [i \in Rows |-> grad[i] + WeightSum(i, Landed(i))]
        BY <3>1, Zenon DEF Forward, WeightSum, Landed
      <4> QED
        BY <4>1
    <3>2. CASE op # "update"
      <4>1. grad' = grad
        BY <3>2 DEF Forward
      <4> QED
        BY <1>9, <1>10, <4>1
    <3> QED
      BY <3>1, <3>2
  <2> QED
    BY <2>1, <2>2
<1>11. SetupInv'
  BY <1>2, <1>3, <1>4, <1>10 DEF BatchInv, SetupInv, SeqMean, Permutes
<1>12. CallInv'
  BY <1>2, <1>4, CallKept DEF BatchInv
<1>13. ASSUME NEW g \in Groups
       PROVE  /\ CutOf(w, micros'[g], index'[g])
              /\ ~setting.dynamic => FixedCutOf(w, micros'[g], index'[g])
              /\ \A j : Among(index'[g], j) <=> Among(index[g], j) \/ j \in micros[g][1]
              /\ \A j \in micros[g][1] : ~Among(index[g], j)
  <2>1. micros'[g] = Tail(micros[g]) /\ index'[g] = index[g] \o InOrder(micros[g][1])
    BY <1>2
  <2> QED
    BY <1>1, <1>7, <2>1, MicroFacts
<1>14. MicroInv'
  <2>1. ASSUME NEW g \in Groups
        PROVE  /\ CutOf(Len(minis'[g][1]), micros'[g], index'[g])
               /\ ~setting'.dynamic => FixedCutOf(Len(minis[g][1]), micros[g], index[g])'
    BY <1>2, <1>6, <1>13, FixedKept
  <2> QED
    BY <1>3, <1>4, <2>1 DEF MicroInv
<1>15. WeightInv'
  <2> SUFFICES ASSUME op = "update", Even(setting)
               PROVE  /\ \A g \in Groups : \A j \in 1..w :
                            grad'[minis[g][1][j]] = IF Among(index'[g], j) THEN Unit ELSE 0
                      /\ \A i \in Rows :
                            (\A g \in Groups : i \notin ToSet(minis[g][1])) => grad'[i] = 0
    <3>1. \A g \in Groups : Len(minis'[g][1]) = w /\ minis'[g] = minis[g]
      BY <1>2, <1>6
    <3>2. Even(setting)' <=> Even(setting)
      BY <1>2, Kept
    <3> QED
      BY <1>2, <1>3, <3>1, <3>2 DEF WeightInv
  <2>1. /\ \A g \in Groups : \A j \in 1..w :
              grad[minis[g][1][j]] = IF Among(index[g], j) THEN Unit ELSE 0
        /\ \A i \in Rows : (\A g \in Groups : i \notin ToSet(minis[g][1])) => grad[i] = 0
    BY <1>2, <1>6 DEF BatchInv, WeightInv
  <2>2. \A g \in Groups : micros[g][1] \in SUBSET (1..w)
    BY <1>1, <1>7, MicroFacts
  <2>3. Unit \in Int
    BY DEF UnitAssumption, Positive
  <2>4. \A i : WeightSum(i, {}) = 0 /\ \A g \in Groups : WeightSum(i, {g}) = Unit
    <3>1. \A i : \A g \in Groups : WeightOf(i, g) = Unit
      BY <1>1, <1>5, <1>7, <1>9, MicroWeighs
    <3> QED
      BY <2>3, <3>1, NoWeight, OneWeight
  <2>5. ASSUME NEW g \in Groups, NEW j \in 1..w
        PROVE  grad'[minis[g][1][j]] = IF Among(index'[g], j) THEN Unit ELSE 0
    <3> DEFINE i == minis[g][1][j]
    <3>1. i \in Rows
      BY <1>6 DEF Opened
    <3>2. grad'[i] = grad[i] + WeightSum(i, Landed(i))
      BY <1>8, <3>1
    <3>3. Landed(i) = IF j \in micros[g][1] THEN {g} ELSE {}
      BY <1>1, <1>6, <2>2, Landing
    <3>4. grad[i] = IF Among(index[g], j) THEN Unit ELSE 0
      BY <2>1
    <3> HIDE DEF i
    <3>5. CASE j \in micros[g][1]
      <4>1. grad'[i] = 0 + Unit /\ Among(index'[g], j)
        BY <1>13, <2>4, <3>2, <3>3, <3>4, <3>5
      <4> QED
        BY <2>3, <4>1 DEF i
    <3>6. CASE j \notin micros[g][1]
      <4>1. grad'[i] = grad[i] + 0 /\ (Among(index'[g], j) <=> Among(index[g], j))
        BY <1>13, <2>4, <3>2, <3>3, <3>6
      <4> QED
        BY <2>3, <3>4, <4>1 DEF i
    <3> QED
      BY <3>5, <3>6
  <2>6. ASSUME NEW i \in Rows, \A g \in Groups : i \notin ToSet(minis[g][1])
        PROVE  grad'[i] = 0
    <3>1. grad[i] = 0 /\ Landed(i) = {}
      BY <1>1, <1>6, <2>1, <2>2, <2>6, Landing
    <3>2. grad'[i] = 0 + 0
      BY <1>8, <2>4, <3>1
    <3> QED
      BY <3>2
  <2> QED
    BY <2>5, <2>6
<1> QED
  BY <1>11, <1>12, <1>14, <1>15 DEF BatchInv

LEMMA ReturnLogProbBatch ==
    ASSUME SettingsAssumption, LimitAssumption, BatchInv, ReturnLogProb
    PROVE  BatchInv'
<1>1. Shaped
  BY SettingShaped DEF BatchInv, SetupInv
<1>2. /\ op = "log_prob" /\ op' = "union" /\ Everyone("forward")
      /\ at' = [g \in Groups |-> "none"]
      /\ UNCHANGED <<setting, tokens, seqs, local, minis, micros, grad, times>>
      /\ \A g \in Groups : micros[g] = <<>>
      /\ results' = Collected([g \in Groups |-> Output(g)])
  BY DEF ReturnLogProb
<1>3. Rows' = Rows /\ Groups' = Groups
  BY <1>2, Kept
<1>4. /\ Everyone("none")' /\ ~Everyone("split")' /\ ~Everyone("forward")' /\ ~Everyone("none")
  <2>1. 0 \in Groups
    BY <1>1, OneStage
  <2> QED
    BY <1>2, <1>3, <2>1 DEF Everyone
<1>5. /\ \A i \in Rows : times[i] = 0
      /\ \A g \in Groups : local[g] = Share(g)
  BY <1>2 DEF BatchInv, CallInv
<1>6. Permutes(seqs, setting.rows)
  BY DEF BatchInv, SetupInv
<1>7. PICK w \in Nat \ {0} : Working(w)
  BY <1>1, <1>4, InWork DEF BatchInv
<1>8. w = PerGroup /\ Opened(w)
  BY <1>2, <1>7 DEF Working
<1>9. ASSUME NEW g \in Groups
      PROVE  Output(g) = Share(g)
  <2>1. local[g] = Share(g) /\ IsList(local[g], PerGroup)
    BY <1>1, <1>5, ShareIsList
  <2>2. Len(minis[g][1]) = PerGroup
    BY <1>8 DEF Opened
  <2>3. CutOf(PerGroup, <<>>, index[g]) /\ (~setting.dynamic => FixedCutOf(PerGroup, <<>>, index[g]))
    BY <1>2, <2>2 DEF BatchInv, MicroInv
  <2> QED
    BY <1>1, <2>1, <2>3, OutputInPlace
<1>10. results' = seqs
  <2> DEFINE outs == [g \in Groups |-> Output(g)]
             c == PerRank
  <2>1. c \in Nat \ {0} /\ PerGroup = setting.sp * c /\ \A g, x : RowOf(g, x) = RowAt(g, x, c)
    BY <1>1, RowOfIsRowAt DEF Shaped
  <2>2. IsList(seqs, setting.ranks * c)
    <3>1. setting.rows = setting.ranks * c
      BY <1>1 DEF Shaped
    <3>2. seqs = [i \in 1..setting.rows |-> seqs[i]]
      BY <1>6 DEF Permutes
    <3> HIDE DEF c
    <3> QED
      BY <3>1, <3>2 DEF IsList
  <2> HIDE DEF c
  <2>3. ASSUME NEW g \in Groups
        PROVE  IsGathered(outs[g], seqs, g, c)
    <3>1. outs[g] = Share(g)
      BY <1>9
    <3>2. IsList(Share(g), PerGroup) /\ \A x \in 1..PerGroup : Share(g)[x] = seqs[RowOf(g, x)]
      BY <1>1, ShareIsList
    <3> HIDE DEF outs
    <3> QED
      BY <2>1, <3>1, <3>2 DEF IsGathered
  <2> HIDE DEF outs
  <2>4. Collected(outs) = seqs
    BY <1>1, <2>1, <2>2, <2>3, RoundTrip
  <2> QED
    BY <1>2, <2>4 DEF outs
<1>11. SetupInv'
  BY <1>2, <1>3, <1>4 DEF BatchInv, SetupInv, SeqMean, Permutes
<1>12. CallInv'
  BY <1>2, <1>3, <1>4, <1>5, <1>10 DEF CallInv
<1>13. MicroInv'
  BY <1>4 DEF MicroInv
<1>14. WeightInv'
  BY <1>2 DEF WeightInv
<1> QED
  BY <1>11, <1>12, <1>13, <1>14 DEF BatchInv

\* One more mini-batch: its rows have been part of one more.
LEMMA NextDone ==
    ASSUME Shaped, NEW d \in Nat, d < setting.epochs * MiniCount, NEW x \in 1..PerGroup
    PROVE  PartOf(d + 1, x) =
              PartOf(d, x) + (IF x > MiniAt(d) /\ x <= MiniAt(d) + MiniWidth(d) THEN 1 ELSE 0)
<1> DEFINE M == MiniCount
           size == setting.mini
           n == PerGroup
           b == d % M
           a == d \div M
           y == (x - 1) \div size
           r == (x - 1) % size
           o == b * size
           w == Width(n, size, b + 1)
<1>1. M \in Nat \ {0} /\ M = CeilOf(n, size)
  BY MiniCountFacts
<1>2. size \in Nat \ {0} /\ n \in Nat \ {0}
  BY DEF Shaped
<1>3. M * size >= n
  BY <1>1, <1>2, CeilOfFacts
<1> HIDE DEF M, size, n
<1>4. d = a * M + b /\ a \in Nat /\ b \in 0..(M - 1)
  <2>1. a \in Int /\ b \in 0..(M - 1) /\ d = (M * a) + b
    BY <1>1
  <2> HIDE DEF a, b
  <2>2. a * M = M * a /\ a * M \in Int
    BY <1>1, <2>1
  <2>3. a >= 0
    <3>1. CASE a <= -1
      <4>1. a * M <= -M
        BY <1>1, <2>1, <3>1
      <4> QED
        BY <1>1, <2>1, <2>2, <4>1
    <3> QED
      BY <2>1, <3>1
  <2> QED
    BY <2>1, <2>2, <2>3
<1>5. x - 1 = y * size + r /\ y \in Nat /\ r \in 0..(size - 1)
  <2>1. x \in 1..n
    BY DEF n
  <2> QED
    BY <1>2, <2>1
<1>6. /\ x \in 1..n
      /\ PartOf(d, x) = a + (IF y < b THEN 1 ELSE 0)
      /\ PartOf(d + 1, x) = (d + 1) \div M + (IF y < (d + 1) % M THEN 1 ELSE 0)
  BY Zenon DEF PartOf, M, n, a, b, y, size
<1>7. MiniAt(d) = o /\ MiniWidth(d) = w
  BY Zenon DEF MiniAt, MiniWidth, o, w, b, M, n, size
<1> HIDE DEF a, b, y, r
<1>8. /\ b + 1 \in 1..M /\ (b + 1) - 1 = b
      /\ w = IF (b + 1) * size <= n THEN size ELSE n - o
  <2>1. b + 1 \in 1..M /\ (b + 1) - 1 = b
    BY <1>1, <1>4
  <2>2. b + 1 \in 1..CeilOf(n, size)
    BY <1>1, <2>1
  <2>3. w = IF (b + 1) * size <= n THEN size ELSE n - ((b + 1) - 1) * size
    BY <1>2, <2>2, WidthFacts
  <2> QED
    BY <2>1, <2>3
<1>9. /\ o \in Int /\ (b + 1) * size = o + size /\ y * size \in Int
      /\ w = IF o + size <= n THEN size ELSE n - o
  <2>1. o \in Int /\ (b + 1) * size = o + size /\ y * size \in Int
    BY <1>2, <1>4, <1>5
  <2> HIDE DEF o, w
  <2> QED
    BY <1>8, <2>1
<1>10. (x > o /\ x <= o + w) <=> y = b
  <2>1. CASE y = b
    <3>1. y * size = o
      BY <2>1
    <3>2. x = o + r + 1
      BY <1>5, <1>6, <1>9, <3>1
    <3>3. o \in Int /\ w = IF o + size <= n THEN size ELSE n - o
      BY <1>9
    <3> HIDE DEF o, w
    <3>4. r \in 0..(size - 1) /\ x \in 1..n
      BY <1>5, <1>6
    <3>5. x > o /\ x <= o + w
      BY <1>2, <3>2, <3>3, <3>4
    <3> QED
      BY <2>1, <3>5
  <2>2. CASE y < b
    <3>1. y + 1 <= b /\ y + 1 \in Int /\ b \in Int
      BY <1>4, <1>5, <2>2
    <3>2. (y + 1) * size <= b * size
      BY <1>2, <3>1
    <3>3. (y + 1) * size = y * size + size
      BY <1>2, <1>5
    <3> DEFINE z == y * size
    <3>4. z + size <= o /\ x - 1 = z + r /\ z \in Int
      BY <1>5, <1>9, <3>2, <3>3
    <3> HIDE DEF z, o, w
    <3>5. x <= o
      BY <1>2, <1>5, <1>6, <1>9, <3>4
    <3> QED
      BY <1>4, <1>5, <1>6, <1>9, <2>2, <3>5
  <2>3. CASE y > b
    <3>1. b + 1 <= y /\ b + 1 \in Int /\ y \in Int
      BY <1>4, <1>5, <2>3
    <3>2. (b + 1) * size <= y * size
      BY <1>2, <3>1
    <3> DEFINE z == y * size
    <3>3. o + size <= z /\ x - 1 = z + r /\ z \in Int
      BY <1>5, <1>9, <3>2
    <3> HIDE DEF z, o
    <3>4. x > o + size /\ x <= n
      BY <1>2, <1>5, <1>6, <1>9, <3>3
    <3>5. (b + 1) * size <= n /\ w = size
      <4>1. o + size <= n
        BY <1>2, <1>6, <1>9, <3>4
      <4> HIDE DEF w
      <4> QED
        BY <1>8, <1>9, <4>1
    <3>6. o \in Int /\ x \in 1..n /\ w = size
      BY <1>6, <1>9, <3>5
    <3> HIDE DEF w
    <3>7. ~(x <= o + w)
      BY <1>2, <3>4, <3>6
    <3> QED
      BY <1>4, <1>5, <2>3, <3>7
  <2> QED
    BY <1>4, <1>5, <2>1, <2>2, <2>3
<1>11. y <= M - 1
  <2>1. CASE y >= M
    <3>1. y * size >= M * size
      BY <1>1, <1>2, <1>5, <2>1
    <3> DEFINE z == y * size
               u == M * size
    <3>2. z >= u /\ u >= n /\ x - 1 = z + r /\ z \in Int /\ u \in Int
      BY <1>1, <1>2, <1>3, <1>5, <1>9, <3>1
    <3> HIDE DEF z, u
    <3>3. FALSE
      BY <1>2, <1>5, <1>6, <3>2
    <3> QED
      BY <3>3
  <2> QED
    BY <1>1, <1>5, <2>1
<1> HIDE DEF o, w
<1>12. CASE b < M - 1
  <2>1. d + 1 = a * M + (b + 1) /\ b + 1 \in 0..(M - 1) /\ a \in Int
    <3> DEFINE z == a * M
    <3>1. d = z + b /\ z \in Int
      BY <1>1, <1>4
    <3>2. a \in Int /\ b \in 0..(M - 1)
      BY <1>4
    <3> HIDE DEF z
    <3>3. d + 1 = z + (b + 1)
      BY <1>1, <3>1, <3>2
    <3>4. b + 1 \in 0..(M - 1)
      BY <1>1, <1>12, <3>2
    <3> QED
      BY <3>2, <3>3, <3>4 DEF z
  <2>2. (d + 1) \div M = a /\ (d + 1) % M = b + 1
    <3>1. (a * M + (b + 1)) \div M = a /\ (a * M + (b + 1)) % M = b + 1
      BY <1>1, <2>1, DivMod
    <3> QED
      BY <2>1, <3>1
  <2>3. PartOf(d + 1, x) = a + (IF y < b + 1 THEN 1 ELSE 0)
    BY <1>6, <2>2
  <2>4. a + (IF y < b + 1 THEN 1 ELSE 0)
           = (a + (IF y < b THEN 1 ELSE 0)) + (IF y = b THEN 1 ELSE 0)
    BY <1>4, <1>5
  <2> QED
    BY <1>6, <1>7, <1>10, <2>3, <2>4
<1>13. CASE b = M - 1
  <2>1. d + 1 = (a + 1) * M + 0 /\ 0 \in 0..(M - 1) /\ a + 1 \in Int
    <3>1. (a + 1) * M = a * M + M /\ a * M \in Int
      BY <1>1, <1>4
    <3> DEFINE z == a * M
    <3>2. d = z + b /\ z \in Int /\ (a + 1) * M = z + M
      BY <1>4, <3>1
    <3> HIDE DEF z
    <3>3. d + 1 = z + M
      BY <1>1, <1>13, <3>2
    <3> QED
      BY <1>1, <1>4, <3>2, <3>3
  <2>2. (d + 1) \div M = a + 1 /\ (d + 1) % M = 0
    <3>1. ((a + 1) * M + 0) \div M = a + 1 /\ ((a + 1) * M + 0) % M = 0
      BY <1>1, <2>1, DivMod
    <3> QED
      BY <2>1, <3>1
  <2>3. PartOf(d + 1, x) = (a + 1) + (IF y < 0 THEN 1 ELSE 0)
    BY <1>6, <2>2
  <2>4. (a + 1) + (IF y < 0 THEN 1 ELSE 0)
           = (a + (IF y < b THEN 1 ELSE 0)) + (IF y = b THEN 1 ELSE 0)
    BY <1>1, <1>4, <1>5, <1>11, <1>13
  <2> QED
    BY <1>6, <1>7, <1>10, <2>3, <2>4
<1> QED
  BY <1>1, <1>4, <1>12, <1>13

\* What the optimizer step adds to the mini-batches that a row was part of.
LEMMA Counted ==
    ASSUME Shaped, Permutes(seqs, setting.rows), \A g \in Groups : local[g] = Share(g),
           NEW o \in Nat, NEW w \in Nat \ {0}, o + w <= PerGroup,
           \A g \in Groups : IsWindow(minis[g][1], local[g], o, w),
           \A g \in Groups : \A j \in 1..w : grad[minis[g][1][j]] = Unit,
           \A i \in Rows : (\A g \in Groups : i \notin ToSet(minis[g][1])) => grad[i] = 0,
           NEW g \in Groups, NEW x \in 1..PerGroup
    PROVE  /\ local[g][x] \in Rows
           /\ grad[local[g][x]] = IF x > o /\ x <= o + w THEN Unit ELSE 0
<1> DEFINE c == PerRank
           n == setting.sp * c
<1>1. c \in Nat \ {0} /\ PerGroup = n /\ \A h, z : RowOf(h, z) = RowAt(h, z, c)
  BY RowOfIsRowAt DEF Shaped
<1>2. setting.rows = setting.ranks * c /\ Rows = 1..setting.rows
  BY DEF Shaped
<1>3. Opened(w) /\ \A h \in Groups : \A j \in 1..w : minis[h][1][j] = seqs[RowOf(h, o + j)]
  BY ShareOpened
<1> HIDE DEF c
<1>4. local[g][x] = seqs[RowAt(g, x, c)]
  <2>1. local[g] = Share(g)
    OBVIOUS
  <2> QED
    BY <1>1, <2>1, ShareIsList
<1>5. RowAt(g, x, c) \in 1..setting.rows
  <2>1. x \in 1..(setting.sp * c)
    BY <1>1
  <2>2. RowAt(g, x, c) \in 1..(setting.ranks * c)
    BY <1>1, <2>1, RowWithin
  <2> QED
    BY <1>2, <2>2
<1>6. local[g][x] \in Rows
  BY <1>2, <1>4, <1>5 DEF Permutes
<1>7. PerGroup \in Nat /\ x \in 1..PerGroup
  BY DEF Shaped
<1>8. CASE x > o /\ x <= o + w
  <2> DEFINE j == x - o
  <2>1. j \in 1..w /\ o + j = x
    BY <1>7, <1>8
  <2> HIDE DEF j
  <2>2. minis[g][1][j] = local[g][x]
    BY <2>1 DEF IsWindow
  <2>3. grad[local[g][x]] = Unit
    BY <2>1, <2>2
  <2> QED
    BY <1>6, <1>8, <2>3
<1>9. CASE ~(x > o /\ x <= o + w)
  <2>1. ASSUME NEW h \in Groups, local[g][x] \in ToSet(minis[h][1])
        PROVE  FALSE
    <3>1. PICK j \in 1..w : local[g][x] = minis[h][1][j]
      BY <1>3, <2>1, RowIn
    <3> DEFINE z == o + j
    <3>2. z \in 1..PerGroup /\ z > o /\ z <= o + w
      BY <1>7
    <3>3. minis[h][1][j] = seqs[RowAt(h, z, c)]
      BY <1>1, <1>3
    <3> HIDE DEF z
    <3>4. RowAt(h, z, c) \in 1..setting.rows
      <4>1. z \in 1..(setting.sp * c)
        BY <1>1, <3>2
      <4>2. RowAt(h, z, c) \in 1..(setting.ranks * c)
        BY <1>1, <4>1, RowWithin
      <4> QED
        BY <1>2, <4>2
    <3>5. RowAt(g, x, c) = RowAt(h, z, c)
      <4> DEFINE a == RowAt(g, x, c)
                 b == RowAt(h, z, c)
      <4>1. seqs[a] = seqs[b]
        BY <1>4, <3>1, <3>3
      <4>2. a \in 1..setting.rows /\ b \in 1..setting.rows
        BY <1>5, <3>4
      <4> HIDE DEF a, b
      <4>3. a = b
        BY <4>1, <4>2 DEF Permutes
      <4> QED
        BY <4>3 DEF a, b
    <3>6. x \in 1..(setting.sp * c) /\ z \in 1..(setting.sp * c)
      BY <1>1, <3>2
    <3>7. x = z
      BY <1>1, <3>5, <3>6, RowsDiffer
    <3> QED
      BY <1>9, <3>2, <3>7
  <2>2. grad[local[g][x]] = 0
    BY <1>6, <2>1
  <2> QED
    BY <1>6, <1>9, <2>2
<1> QED
  BY <1>8, <1>9

LEMMA OptimizerStepBatch ==
    ASSUME SettingsAssumption, LimitAssumption, UnitAssumption, BatchInv,
           NEW finite \in BOOLEAN, OptimizerStep(finite)
    PROVE  BatchInv'
<1> DEFINE L == setting.epochs * MiniCount
<1>1. Shaped
  BY SettingShaped DEF BatchInv, SetupInv
<1>2. /\ op = "update" /\ Everyone("forward")
      /\ \A g \in Groups : micros[g] = <<>>
      /\ times' = [i \in Rows |-> times[i] + (IF grad[i] # 0 THEN 1 ELSE 0)]
      /\ minis' = [g \in Groups |-> Tail(minis[g])]
      /\ index' = [g \in Groups |-> <<>>]
      /\ at' = [g \in Groups |-> IF minis'[g] = <<>> THEN "none" ELSE "split"]
      /\ UNCHANGED <<setting, tokens, op, seqs, results, local, micros>>
  BY DEF OptimizerStep
<1>3. /\ Rows' = Rows /\ Groups' = Groups /\ PerGroup' = PerGroup /\ MiniCount' = MiniCount
      /\ Even(setting)' <=> Even(setting)
  BY <1>2, Kept
<1>4. ~Everyone("none") /\ 0 \in Groups
  BY <1>1, <1>2, OneStage DEF Everyone
<1>5. Permutes(seqs, setting.rows) /\ \A g \in Groups : local[g] = Share(g)
  BY <1>2 DEF BatchInv, SetupInv, CallInv
<1>6. PICK d \in Nat : Progress(d)
  BY <1>2 DEF BatchInv, CallInv
<1>7. L \in Nat \ {0}
  BY <1>1, MiniCountFacts
<1>8. d < L
  <2>1. d <= L /\ d # L
    BY <1>4, <1>6 DEF Progress
  <2> HIDE DEF L
  <2> QED
    BY <1>7, <2>1
<1>9. \A g \in Groups : minis[g] = Ahead(local[g], d)
  BY <1>6 DEF Progress
<1>10. \A g \in Groups : /\ minis'[g] = Ahead(local'[g], d + 1)
                         /\ minis'[g] = <<>> <=> d + 1 = L
  <2>1. ASSUME NEW g \in Groups
        PROVE  minis'[g] = Ahead(local'[g], d + 1) /\ (minis'[g] = <<>> <=> d + 1 = L)
    <3>1. minis'[g] = Tail(minis[g]) /\ minis[g] = Ahead(local[g], d) /\ local' = local
      BY <1>2, <1>9
    <3>2. /\ Tail(Ahead(local[g], d)) = Ahead(local[g], d + 1)
          /\ Ahead(local[g], d + 1) = <<>> <=> d + 1 = L
      BY <1>1, <1>8, AheadTail
    <3>3. minis'[g] = Ahead(local[g], d + 1)
      BY <3>1, <3>2
    <3> HIDE DEF L
    <3> QED
      BY <3>1, <3>2, <3>3
  <2> QED
    BY <2>1
<1>11. /\ Everyone("none")' <=> d + 1 = L
       /\ Everyone("none")' \/ Everyone("split")'
       /\ ~Everyone("forward")'
  <2>1. CASE d + 1 = L
    BY <1>2, <1>3, <1>4, <1>10, <2>1 DEF Everyone
  <2>2. CASE d + 1 # L
    BY <1>2, <1>3, <1>4, <1>10, <2>2 DEF Everyone
  <2> QED
    BY <2>1, <2>2
<1>12. SetupInv'
  <2>1. (SeqMean => grad \in [Rows -> Int]) /\ times \in [Rows -> Int]
    BY DEF BatchInv, SetupInv
  <2>2. SeqMean => grad' \in [Rows -> Int]
    BY <2>1 DEF OptimizerStep
  <2>3. times' \in [Rows -> Int]
    BY <1>2, <2>1
  <2> QED
    BY <1>2, <1>3, <1>11, <2>2, <2>3 DEF BatchInv, SetupInv, SeqMean, Permutes
<1>13. ASSUME Even(setting), NEW g \in Groups, NEW x \in 1..PerGroup
       PROVE  times'[local'[g][x]] = PartOf(d + 1, x)
  <2> DEFINE o == MiniAt(d)
             w == MiniWidth(d)
  <2>1. /\ o \in Nat /\ w \in 1..setting.mini /\ o + w <= PerGroup
        /\ \A h \in Groups : IsWindow(minis[h][1], local[h], o, w)
        /\ Opened(w)
    BY <1>1, <1>5, <1>8, <1>9, UpdateOpened
  <2>2. w \in Nat \ {0}
    BY <2>1 DEF Opened
  <2> HIDE DEF o, w
  <2>3. \A h \in Groups : Len(minis[h][1]) = w
    BY <2>1 DEF Opened
  <2>4. /\ \A h \in Groups : \A j \in 1..w :
              grad[minis[h][1][j]] = IF Among(index[h], j) THEN Unit ELSE 0
        /\ \A i \in Rows : (\A h \in Groups : i \notin ToSet(minis[h][1])) => grad[i] = 0
    BY <1>2, <1>13, <2>3 DEF BatchInv, WeightInv
  <2>5. ASSUME NEW h \in Groups, NEW j \in 1..w
        PROVE  grad[minis[h][1][j]] = Unit
    <3>1. CutOf(w, <<>>, index[h])
      BY <1>2, <2>3 DEF BatchInv, MicroInv
    <3>2. Permutes(index[h], w)
      BY <2>2, <3>1, EndOfCut
    <3>3. Among(index[h], j)
      BY <3>2 DEF Permutes, Among
    <3> QED
      BY <2>4, <3>3
  <2> DEFINE i == local[g][x]
             inside == x > o /\ x <= o + w
  <2>6. i \in Rows /\ grad[i] = IF inside THEN Unit ELSE 0
    BY <1>1, <1>5, <2>1, <2>2, <2>4, <2>5, Counted
  <2>7. Unit # 0
    BY DEF UnitAssumption, Positive
  <2>8. times[i] = PartOf(d, x)
    BY <1>6, <1>13 DEF Progress
  <2>9. PartOf(d + 1, x) = PartOf(d, x) + (IF inside THEN 1 ELSE 0)
    BY <1>1, <1>8, NextDone DEF o, w
  <2> HIDE DEF i, inside
  <2>10. times'[i] = times[i] + (IF inside THEN 1 ELSE 0)
    BY <1>2, <2>6, <2>7
  <2>11. times'[i] = PartOf(d + 1, x)
    BY <2>8, <2>9, <2>10
  <2> QED
    BY <1>2, <2>11 DEF i
<1>14. Progress(d + 1)'
  <2>1. \A g \in Groups : Ahead(local[g], d + 1)' = Ahead(local'[g], d + 1)
    BY <1>2, AheadKept
  <2>2. \A x : PartOf(d + 1, x)' = PartOf(d + 1, x)
    BY <1>2, AheadKept
  <2>3. d + 1 <= L
    <3> HIDE DEF L
    <3> QED
      BY <1>7, <1>8
  <2>4. setting'.epochs * MiniCount' = L
    BY <1>2, <1>3
  <2>5. d + 1 <= setting'.epochs * MiniCount' /\ (Everyone("none")' <=> d + 1 = setting'.epochs * MiniCount')
    BY <1>11, <2>3, <2>4
  <2>6. \A g \in Groups' : minis'[g] = Ahead(local[g], d + 1)'
    BY <1>3, <1>10, <2>1
  <2>7. Even(setting)' => \A g \in Groups' : \A x \in 1..PerGroup' :
           times'[local'[g][x]] = PartOf(d + 1, x)'
    BY <1>3, <1>13, <2>2
  <2> QED
    BY <2>5, <2>6, <2>7 DEF Progress
<1>15. CallInv'
  <2>1. d + 1 \in Nat
    OBVIOUS
  <2>2. \A g \in Groups' : local'[g] = Share(g)'
    BY <1>2, <1>3, <1>5, ShareKept
  <2> QED
    BY <1>2, <1>14, <2>1, <2>2 DEF CallInv
<1>16. MicroInv'
  BY <1>2, <1>3, <1>11 DEF MicroInv
<1>17. WeightInv'
  BY <1>11 DEF WeightInv
<1> QED
  BY <1>12, <1>15, <1>16, <1>17 DEF BatchInv

LEMMA ReturnUpdateBatch ==
    ASSUME SettingsAssumption, LimitAssumption, BatchInv, ReturnUpdate
    PROVE  BatchInv'
<1> DEFINE L == setting.epochs * MiniCount
<1>1. Shaped
  BY SettingShaped DEF BatchInv, SetupInv
<1>2. /\ op = "update" /\ op' = "done" /\ Everyone("none")
      /\ grad' = [i \in Rows |-> 0]
      /\ UNCHANGED <<setting, tokens, seqs, results, local, minis, at, micros, index, times>>
  BY DEF ReturnUpdate, groupVars
<1>3. Rows' = Rows /\ Groups' = Groups /\ (Even(setting)' <=> Even(setting))
  BY <1>2, Kept
<1>4. Everyone("none")' /\ ~Everyone("split")' /\ ~Everyone("forward")'
  <2>1. 0 \in Groups
    BY <1>1, OneStage
  <2> QED
    BY <1>2, <1>3, <2>1 DEF Everyone
<1>5. SetupInv'
  BY <1>2, <1>3, <1>4 DEF BatchInv, SetupInv, SeqMean, Permutes
<1>6. ASSUME Even(setting), NEW i \in Rows
      PROVE  times[i] = setting.epochs
  <2>1. Permutes(seqs, setting.rows) /\ \A g \in Groups : local[g] = Share(g)
    BY <1>2 DEF BatchInv, SetupInv, CallInv
  <2>2. PICK d \in Nat : Progress(d)
    BY <1>2 DEF BatchInv, CallInv
  <2>3. \A g \in Groups : \A x \in 1..PerGroup : times[local[g][x]] = PartOf(L, x)
    BY <1>2, <1>6, <2>2 DEF Progress
  <2> DEFINE c == PerRank
  <2>4. /\ c \in Nat \ {0} /\ PerGroup = setting.sp * c /\ \A g, x : RowOf(g, x) = RowAt(g, x, c)
        /\ setting.rows = setting.ranks * c /\ Rows = 1..setting.rows
    BY <1>1, RowOfIsRowAt DEF Shaped
  <2> HIDE DEF c
  <2>5. PICK y \in 1..setting.rows : seqs[y] = i
    BY <2>1, <2>4 DEF Permutes
  <2>6. y \in 1..(setting.ranks * c)
    BY <2>4
  <2>7. PICK g \in Groups : \E x \in 1..(setting.sp * c) : y = RowAt(g, x, c)
    BY <1>1, <2>4, <2>6, RowPlaced
  <2>8. PICK x \in 1..PerGroup : y = RowOf(g, x)
    BY <2>4, <2>7
  <2>9. local[g][x] = i
    <3>1. local[g] = Share(g)
      BY <2>1
    <3> QED
      BY <1>1, <2>5, <2>8, <3>1, ShareIsList
  <2>10. PartOf(L, x) = setting.epochs
    <3> DEFINE M == MiniCount
               E == setting.epochs
    <3>1. M \in Nat \ {0} /\ E \in Nat
      BY <1>1, MiniCountFacts DEF Shaped
    <3> HIDE DEF M, E
    <3>2. (E * M) \div M = E /\ (E * M) % M = 0
      BY <3>1, ExactDiv
    <3>3. ~((x - 1) \div setting.mini < 0)
      <4>1. setting.mini \in Nat \ {0} /\ PerGroup \in Nat
        BY <1>1 DEF Shaped
      <4> QED
        BY <4>1
    <3>4. PartOf(L, x) = (E * M) \div M + (IF (x - 1) \div setting.mini < (E * M) % M THEN 1 ELSE 0)
      BY Zenon DEF PartOf, M, E
    <3>5. PartOf(L, x) = E + 0
      BY <3>2, <3>3, <3>4
    <3> QED
      BY <3>1, <3>5 DEF E
  <2> QED
    BY <2>3, <2>9, <2>10
<1>7. CallInv'
  BY <1>2, <1>3, <1>4, <1>6 DEF CallInv
<1>8. MicroInv'
  BY <1>4 DEF MicroInv
<1>9. WeightInv'
  BY <1>2 DEF WeightInv
<1> QED
  BY <1>5, <1>7, <1>8, <1>9 DEF BatchInv

LEMMA IdleBatch ==
    ASSUME BatchInv, UNCHANGED dpVars
    PROVE  BatchInv'
<1>1. UNCHANGED <<setting, tokens, op, seqs, results, local, minis, at, micros, index, grad, times>>
  BY DEF dpVars, groupVars
<1>2. Rows' = Rows /\ Groups' = Groups /\ (Even(setting)' <=> Even(setting))
  BY <1>1, Kept
<1>3. \A where : Everyone(where)' <=> Everyone(where)
  BY <1>1, <1>2 DEF Everyone
<1>4. SetupInv'
  BY <1>1, <1>2, <1>3 DEF BatchInv, SetupInv, SeqMean, Permutes
<1>5. CallInv'
  BY <1>1, <1>3, CallKept DEF BatchInv
<1>6. MicroInv'
  <2>1. ASSUME NEW g \in Groups
        PROVE  FixedCutOf(Len(minis[g][1]), micros[g], index[g])'
                  <=> FixedCutOf(Len(minis[g][1]), micros[g], index[g])
    BY <1>1, FixedKept
  <2> QED
    BY <1>1, <1>2, <1>3, <2>1 DEF BatchInv, MicroInv
<1>7. WeightInv'
  BY <1>1, <1>2, <1>3 DEF BatchInv, WeightInv
<1> QED
  BY <1>4, <1>5, <1>6, <1>7 DEF BatchInv

LEMMA StepBatch ==
    ASSUME SettingsAssumption, LimitAssumption, UnitAssumption, BatchInv, [DPNext]_dpVars
    PROVE  BatchInv'
<1>1. CASE Validate
  BY <1>1, ValidateBatch
<1>2. CASE Balance
  BY <1>2, BalanceBatch
<1>3. CASE DispatchLogProb
  BY <1>3, DispatchLogProbBatch
<1>4. CASE DispatchUpdate
  BY <1>4, DispatchUpdateBatch
<1>5. CASE SplitMicros
  BY <1>5, SplitMicrosBatch
<1>6. CASE Forward
  BY <1>6, ForwardBatch
<1>7. CASE ReturnLogProb
  BY <1>7, ReturnLogProbBatch
<1>8. ASSUME NEW finite \in BOOLEAN, OptimizerStep(finite)
      PROVE  BatchInv'
  BY <1>8, OptimizerStepBatch
<1>9. CASE ReturnUpdate
  BY <1>9, ReturnUpdateBatch
<1>10. CASE UNCHANGED dpVars
  BY <1>10, IdleBatch
<1> QED
  BY <1>1, <1>2, <1>3, <1>4, <1>5, <1>6, <1>7, <1>8, <1>9, <1>10 DEF DPNext

LEMMA AlwaysBatchInv == DPSpec => []BatchInv
<1>1. DPInit => BatchInv
  BY SettingsAssumption, LimitAssumption, InitBatch
<1>2. BatchInv /\ [DPNext]_dpVars => BatchInv'
  BY SettingsAssumption, LimitAssumption, UnitAssumption, StepBatch
<1> QED
  BY <1>1, <1>2, PTL DEF DPSpec

\* A call of the worker group is the function of the rank applied to the whole
\* batch: row i of what comes back is about row i of what was passed, through
\* padding, dispatch, gathering, micro-batches in any order and back, for every
\* number of ranks, groups and rows, and every batch size.
THEOREM AlwaysResultsInPlace == DPSpec => []ResultsInPlace
<1>1. BatchInv => ResultsInPlace
  BY DEF BatchInv, CallInv, ResultsInPlace
<1> QED
  BY <1>1, AlwaysBatchInv, PTL

LEMMA BatchWeighsEvenly ==
    ASSUME SettingsAssumption, LimitAssumption, UnitAssumption, BatchInv, Even(setting)
    PROVE  EvenlyWeighted
<1>1. Shaped
  BY SettingShaped DEF BatchInv, SetupInv
<1>2. Even(setting) /\ SeqMean
  BY DEF Even, SeqMean
<1>3. ASSUME op = "update", Everyone("forward"), \A g \in Groups : micros[g] = <<>>, NEW i \in Rows
      PROVE  grad[i] = IF \E g \in Groups : i \in ToSet(minis[g][1]) THEN Unit ELSE 0
  <2>1. ~Everyone("none")
    BY <1>1, <1>3, OneStage DEF Everyone
  <2>2. PICK w \in Nat \ {0} : Working(w)
    BY <1>1, <2>1, InWork DEF BatchInv
  <2>3. Opened(w) /\ \A g \in Groups : Len(minis[g][1]) = w
    BY <2>2 DEF Working, Opened
  <2>4. /\ \A g \in Groups : \A j \in 1..w :
              grad[minis[g][1][j]] = IF Among(index[g], j) THEN Unit ELSE 0
        /\ (\A g \in Groups : i \notin ToSet(minis[g][1])) => grad[i] = 0
    BY <1>2, <1>3, <2>3 DEF BatchInv, WeightInv
  <2>5. CASE \A g \in Groups : i \notin ToSet(minis[g][1])
    BY <2>4, <2>5
  <2>6. CASE ~(\A g \in Groups : i \notin ToSet(minis[g][1]))
    <3>1. PICK g \in Groups : i \in ToSet(minis[g][1])
      BY <2>6
    <3>2. PICK j \in 1..w : i = minis[g][1][j]
      <4>1. Opened(w)
        BY <2>3
      <4> QED
        BY <3>1, <4>1, RowIn
    <3>3. CutOf(w, <<>>, index[g])
      BY <1>3, <2>3 DEF BatchInv, MicroInv
    <3>4. Permutes(index[g], w)
      BY <3>3, EndOfCut
    <3>5. Among(index[g], j)
      BY <3>4 DEF Permutes, Among
    <3>6. grad[i] = Unit
      BY <2>4, <3>2, <3>5
    <3> QED
      BY <2>6, <3>6
  <2> QED
    BY <2>5, <2>6
<1>4. op = "done" => \A i \in Rows : times[i] = setting.epochs
  BY <1>2 DEF BatchInv, CallInv
<1> QED
  BY <1>2, <1>3, <1>4 DEF EvenlyWeighted

\* Where the loss of a micro-batch is a mean over its sequences, and micro-batches
\* are cut by tokens or those of one size cut the share of a group without rest:
\* every optimizer step is taken on one mini-batch of each group, in which all
\* sequences weigh the same, and in each epoch every sequence is part of exactly
\* one.
THEOREM AlwaysEvenlyWeighted == DPSpec => [](Even(setting) => EvenlyWeighted)
<1>1. BatchInv => (Even(setting) => EvenlyWeighted)
  BY SettingsAssumption, LimitAssumption, UnitAssumption, BatchWeighsEvenly
<1> QED
  BY <1>1, AlwaysBatchInv, PTL
(***************************************************************************)
(* What the one takes from the other.                                      *)
(***************************************************************************)

\* The partitions as the sets of rows that DataParallel has.
Parts == [p \in 1..k |-> ToSet(result[p])]

\* What get_seqlen_balanced_partitions promises to its callers in DataParallel:
\* its result is among the partitions that Balance and SplitMicros choose from;
\* with equal_size all parts have one size; and the rows of the parts one after
\* the other are the order that _balance_batch reorders the batch by.
KeepsPromise ==
    result # <<>> /\ Len(lens) <= MaxRows =>
        /\ Parts \in Partitions[Len(lens)][k]
        /\ equal => \A i, j \in DOMAIN Parts : Cardinality(Parts[i]) = Cardinality(Parts[j])
        /\ Flat(Parts) = FlattenSeq(result)

\* The differencing method returns nothing that DataParallel leaves out: for
\* batches of any size and lengths its result is a choice of Balance or of
\* SplitMicros, in the order of rows that _balance_batch reads off it.
THEOREM AlwaysKeepsPromise == Spec => []KeepsPromise
<1>1. SplitInv => KeepsPromise
  <2> SUFFICES ASSUME SplitInv, result # <<>>, Len(lens) <= MaxRows
               PROVE  /\ Parts \in Partitions[Len(lens)][k]
                      /\ equal => \A i, j \in DOMAIN Parts :
                                      Cardinality(Parts[i]) = Cardinality(Parts[j])
                      /\ Flat(Parts) = FlattenSeq(result)
    BY DEF KeepsPromise
  <2>1. PICK final :
           /\ states = {final}
           /\ IsState(final) /\ IsOrdered(final) /\ IsEven(final) /\ IsWithin(final)
           /\ \A p \in 1..k : result[p] = SortedItems(final[p])
           /\ \A i \in Items : \E p \in 1..k : \E j \in DOMAIN final[p] : final[p][j] = i
    BY ResultFacts
  <2>2. IsInput /\ \A p \in 1..k : IsItemSet(lens, final[p])
    BY <2>1 DEF SplitInv, IsState
  <2>3. Len(lens) \in Nat /\ k \in 1..Len(lens) /\ k \in Nat /\ Items = 1..Len(lens)
    BY <2>2 DEF IsInput, IsBatch, Items
  <2>4. \A p \in 1..k :
           /\ Len(result[p]) = Len(final[p])
           /\ result[p] = <<>> <=> final[p] = <<>>
           /\ \A i : i \in ToSet(result[p]) <=> \E j \in DOMAIN final[p] : final[p][j] = i
    BY <2>1, <2>2, SortedItemsSame
  <2>5. \A p \in 1..k : \A j \in DOMAIN final[p] : final[p][j] \in Items
    BY <2>2 DEF IsItemSet, Items
  <2>6. \A p \in 1..k : result[p] # <<>>
    BY <2>1, <2>4, NoneEmpty
  <2>7. Once(states)
    BY DEF SplitInv
  <2>8. IsList(result, k)
    <3>1. PICK f : result = [p \in 1..k |-> SortedItems(f[p])]
      BY Zenon DEF SplitInv, ResultInv
    <3> QED
      BY <3>1, Zenon DEF IsList
  <2>9. ASSUME NEW p \in 1..k
        PROVE  /\ IsFiniteSet(Parts[p]) /\ Cardinality(Parts[p]) = Len(final[p])
               /\ InOrder(Parts[p]) = result[p]
               /\ Parts[p] = ToSet(result[p])
    <3> DEFINE q == final[p]
               n == Len(q)
               order == Ascending(q)
               s == result[p]
               T == ToSet(s)
    <3>1. /\ q \in Seq(Items) /\ Items \subseteq Int /\ n \in Nat /\ DOMAIN q = 1..n
          /\ q \in [1..n -> Int]
      BY <2>2, <2>3 DEF IsItemSet, Items
    <3>2. Permutes(order, n) /\ \A a, b \in 1..n : a < b => q[order[a]] <= q[order[b]]
      BY <3>1, AscendingSorts
    <3>3. s = [a \in 1..n |-> q[order[a]]]
      <4>1. SortedItems(q) = [a \in 1..n |-> q[Ascending(q)[a]]]
        BY <3>1, Zenon DEF SortedItems
      <4> QED
        BY <2>1, <4>1
    <3>4. \A a, b \in 1..n : q[a] = q[b] => a = b
      <4>1. ASSUME NEW a \in 1..n, NEW b \in 1..n, q[a] = q[b]
            PROVE  a = b
        <5>1. At(q[a], final, p, a) /\ At(q[a], final, p, b) /\ final \in states
          BY <2>1, <3>1, <4>1 DEF At
        <5> QED
          BY <2>7, <5>1, OnePlace
      <4> QED
        BY <4>1
    <3>5. T = ToSet(s) /\ \A i : i \in T <=> \E a \in 1..n : s[a] = i
      <4>1. DOMAIN s = 1..n
        BY <3>3
      <4> QED
        BY <4>1 DEF ToSet
    <3>6. IsList(s, n) /\ \A a \in 1..n : s[a] = q[order[a]]
      <4>1. IsList(s, n)
        BY <3>3, Zenon DEF IsList
      <4> QED
        BY <3>3, <4>1
    <3> HIDE DEF q, order, s, T
    <3>7. order \in [1..n -> 1..n] /\ \A a, b \in 1..n : order[a] = order[b] => a = b
      BY <3>2 DEF Permutes
    <3>8. \A a \in 1..n : s[a] \in Int
      BY <3>1, <3>6, <3>7
    <3>9. \A a, b \in 1..n : a < b => s[a] < s[b]
      <4>1. ASSUME NEW a \in 1..n, NEW b \in 1..n, a < b
            PROVE  s[a] < s[b]
        <5>1. order[a] # order[b] /\ order[a] \in 1..n /\ order[b] \in 1..n
          BY <3>7, <4>1
        <5>2. q[order[a]] # q[order[b]] /\ q[order[a]] <= q[order[b]]
          BY <3>2, <3>4, <4>1, <5>1
        <5>3. s[a] # s[b] /\ s[a] <= s[b] /\ s[a] \in Int /\ s[b] \in Int
          BY <3>6, <3>8, <5>2
        <5> QED
          BY <5>3
      <4> QED
        BY <4>1
    <3> HIDE DEF n
    <3>10. IsFiniteSet(T) /\ Cardinality(T) = n /\ InOrder(T) = s
      BY <3>1, <3>5, <3>6, <3>8, <3>9, InOrderUnique
    <3>11. Parts[p] = T
      BY Zenon DEF Parts, T, s
    <3> QED
      BY <3>10, <3>11 DEF s, n, q, T
  <2>10. IsList(Parts, k)
    BY Zenon DEF IsList, Parts
  <2>11. IsPartition(Parts, Len(lens), k)
    <3>1. \A p \in 1..k : \A i : i \in Parts[p] <=> \E j \in DOMAIN final[p] : final[p][j] = i
      BY <2>4, <2>9
    <3>2. \A a \in 1..k : Parts[a] \in SUBSET (1..Len(lens))
      BY <2>3, <2>5, <3>1
    <3>3. \A j \in 1..Len(lens) : \E a \in 1..k : j \in Parts[a]
      BY <2>1, <2>3, <3>1
    <3>4. ASSUME NEW a \in 1..k
          PROVE  Parts[a] # {}
      <4>1. final[a] # <<>> /\ final[a] \in Seq(Items)
        BY <2>2, <2>4, <2>6 DEF IsItemSet, Items
      <4>2. 1 \in DOMAIN final[a]
        BY <4>1
      <4> QED
        BY <3>1, <4>2
    <3>5. ASSUME NEW a \in 1..k, NEW b \in 1..k, NEW i, i \in Parts[a], i \in Parts[b]
          PROVE  a = b
      <4>1. PICK j : At(i, final, a, j)
        BY <3>1, <3>5 DEF At
      <4>2. PICK l : At(i, final, b, l)
        BY <3>1, <3>5 DEF At
      <4>3. final \in states
        BY <2>1
      <4> QED
        BY <2>7, <4>1, <4>2, <4>3, OnePlace
    <3>6. \A a, b \in 1..k : a # b => Parts[a] \cap Parts[b] = {}
      BY <3>5
    <3> QED
      BY <2>10, <3>2, <3>3, <3>4, <3>6 DEF IsPartition
  <2>12. Parts \in Partitions[Len(lens)][k]
    <3>1. MaxRows \in Nat
      BY SettingsAssumption
    <3>2. Len(lens) \in 0..MaxRows /\ k \in 0..MaxRows
      BY <2>3, <3>1
    <3> QED
      BY <2>11, <3>2, PartitionIs
  <2>13. DOMAIN Parts = 1..k /\ Len(Parts) = k
    BY <2>3, <2>10, ListFacts
  <2>14. ASSUME equal, NEW i \in DOMAIN Parts, NEW j \in DOMAIN Parts
         PROVE  Cardinality(Parts[i]) = Cardinality(Parts[j])
    <3>1. Len(final[i]) = Len(final[j])
      BY <2>1, <2>13, <2>14 DEF IsEven
    <3> QED
      BY <2>9, <2>13, <3>1
  <2>15. Flat(Parts) = FlattenSeq(result)
    <3>1. [p \in 1..Len(Parts) |-> InOrder(Parts[p])] = [p \in 1..k |-> result[p]]
      BY <2>9, <2>13
    <3>2. [p \in 1..k |-> result[p]] = result
      BY <2>8, Zenon DEF IsList
    <3> QED
      BY <3>1, <3>2, Zenon DEF Flat
  <2> QED
    BY <2>12, <2>14, <2>15
<1> QED
  BY <1>1, AlwaysSplitInv, PTL
=============================================================================
