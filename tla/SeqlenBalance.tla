---------------------------- MODULE SeqlenBalance ----------------------------
(***************************************************************************)
(* How a batch is split by sequence length: karmarkar_karp behind          *)
(* get_seqlen_balanced_partitions, called with equal sizes to give every   *)
(* data-parallel rank its share (_balance_batch), and without to make the  *)
(* micro-batches of a rank (rearrange_micro_batches).                      *)
(*                                                                         *)
(* The merge loop of the differencing method is the next-state relation;   *)
(* the inputs are the initial states.  A set of the method is the sequence *)
(* of its items, an item is the index of a sequence.                       *)
(***************************************************************************)
EXTENDS Integers, Sequences, FiniteSets, SequencesExt

CONSTANTS
    MaxItems,       \* bound: sequences of a batch
    MaxSeqLen,      \* bound: tokens of a sequence
    RankCounts,     \* numbers of ranks a batch is balanced over
    TokenLimits,    \* values of max_token_len
    MinMicros,      \* values of min_num_micro_batch; 0 is None
    Divisors        \* values of num_batches_divided_by; 1 is None

ASSUME SizesAssumption ==
    /\ {MaxItems, MaxSeqLen} \subseteq Nat
    /\ {0} \cap (RankCounts \cup TokenLimits \cup Divisors) = {}
    /\ RankCounts \cup TokenLimits \cup MinMicros \cup Divisors \subseteq Nat

VARIABLES
    lens,       \* seqlen_list
    k,          \* k_partitions
    equal,      \* equal_size
    limit,      \* max_token_len; 0 for _balance_batch
    states,     \* the heap: the partial partitions still to be merged
    result      \* the partitions, sorted; <<>> until they are known

vars == <<lens, k, equal, limit, states, result>>

Items == 1..Len(lens)

(***************************************************************************)
(* Sets and states of the differencing method.                             *)
(***************************************************************************)

Total(q, set) == FoldSeq(LAMBDA i, sum : sum + q[i], 0, set)

\* Set.__lt__: by sum, then by length, then by the items, of which the first
\* already differ.
SetLess(q, a, b) ==
    \/ Total(q, a) < Total(q, b)
    \/ /\ Total(q, a) = Total(q, b)
       /\ \/ Len(a) < Len(b)
          \/ Len(a) = Len(b) /\ a # <<>> /\ a[1] < b[1]

\* The places of a sequence in the order that a sort brings them in, where
\* ahead[i] are the places that come before place i.
Places(ahead) ==
    [p \in DOMAIN ahead |-> CHOOSE i \in DOMAIN ahead : Cardinality(ahead[i]) = p - 1]

\* sorted(sets, reverse=True), which leaves equal ones as they were.
Descending(q, sets) ==
    LET ahead == [i \in DOMAIN sets |->
                     {j \in DOMAIN sets : \/ SetLess(q, sets[i], sets[j])
                                          \/ ~SetLess(q, sets[j], sets[i]) /\ j < i}]
        order == Places(ahead)
    IN [p \in DOMAIN sets |-> sets[order[p]]]

Spread(q, state) == Total(q, state[1]) - Total(q, state[Len(state)])

\* State.__lt__: the largest spread is popped first, then the largest set.
Before(q, s, t) ==
    \/ Spread(q, s) > Spread(q, t)
    \/ Spread(q, s) = Spread(q, t) /\ SetLess(q, t[1], s[1])

\* State.merge: the largest set of one is joined with the smallest of the other.
Partner_SameRank(n, i) == i    \* seeded fault: largest joins largest
Partner(n, i) == n + 1 - i
Merged(q, s, t) == Descending(q, [i \in 1..Len(s) |-> s[i] \o t[Partner(Len(s), i)]])

(***************************************************************************)
(* The inputs.                                                             *)
(***************************************************************************)

\* The places of q, of the smaller numbers first.
Ascending(q) ==
    Places([i \in DOMAIN q |-> {j \in DOMAIN q : q[j] < q[i] \/ (q[j] = q[i] /\ j < i)}])

Alone(n, i) == [j \in 1..n |-> IF j = 1 THEN <<i>> ELSE <<>>]

InitialStates(q, n, eq) ==
    IF eq
    THEN LET order == Ascending(q) IN
         {Descending(q, [j \in 1..n |-> <<order[(c - 1) * n + j]>>]) : c \in 1..(Len(q) \div n)}
    ELSE {Alone(n, i) : i \in 1..Len(q)}

CeilDiv_Floor(a, b) == a \div b    \* seeded fault: rounds down
CeilDiv(a, b) == (a + b - 1) \div b
RoundUp(a, b) == CeilDiv(a, b) * b
Smaller(a, b) == IF a <= b THEN a ELSE b
Larger(a, b) == IF a >= b THEN a ELSE b

\* The number of micro-batches, and the assertion on it. (The all_reduce over
\* the data-parallel group only raises it: min_num_micro_batch does as well.)
MicroBatches(q, max, min, divisor) ==
    RoundUp(Larger(min, Smaller(Len(q), CeilDiv(Total(q, [i \in 1..Len(q) |-> i]), max))),
            divisor)

Batches == UNION {[1..n -> 1..MaxSeqLen] : n \in 1..MaxItems}

Init ==
    /\ lens \in Batches
    /\ \/ /\ limit = 0 /\ equal = TRUE
          /\ k \in RankCounts
          /\ Len(lens) % k = 0
       \/ /\ limit \in TokenLimits /\ equal = FALSE
          /\ \E min \in MinMicros, d \in Divisors : k = MicroBatches(lens, limit, min, d)
          /\ k <= Len(lens)
    /\ states = InitialStates(lens, k, equal)
    /\ result = <<>>

\* Two states are popped from the heap, merged and pushed back.
MergeTwo ==
    /\ Cardinality(states) > 1
    /\ \E s \in states :
          /\ \A o \in states \ {s} : Before(lens, s, o)
          /\ \E t \in states \ {s} :
                /\ \A o \in states \ {s, t} : Before(lens, t, o)
                /\ states' = (states \ {s, t}) \cup {Merged(lens, s, t)}
    /\ UNCHANGED <<lens, k, equal, limit, result>>

\* get_partitions, and _check_and_sort_partitions, whose assertions the
\* properties state.
SortedItems(set) == LET order == Ascending(set) IN [p \in DOMAIN set |-> set[order[p]]]
Return ==
    /\ result = <<>>
    /\ \E final \in states :
          /\ states = {final}
          /\ result' = [i \in 1..k |-> SortedItems(final[i])]
    /\ UNCHANGED <<lens, k, equal, limit, states>>

Next == MergeTwo \/ Return

Spec == Init /\ [][Next]_vars

(***************************************************************************)
(* Properties.                                                             *)
(***************************************************************************)

\* There are as many partitions as micro-batches or ranks, at least one and at
\* most one per sequence; every state has that many sets of items.
TypeOK ==
    /\ k \in 1..Len(lens)
    /\ \A s \in states : s \in Seq(Seq(Items)) /\ Len(s) = k
    /\ result \in Seq(Seq(Items))

\* The assertions of _check_and_sort_partitions and of equal_size never fail,
\* whatever the lengths: the partitions hold every sequence, none is empty, and
\* for _balance_batch all have one size.
PartitionsUsable ==
    result # <<>> =>
        /\ UNION {ToSet(result[p]) : p \in 1..k} = Items
        /\ \A p \in 1..k : result[p] # <<>>
        /\ equal => \A p \in 1..k : Len(result[p]) * k = Len(lens)

\* Balance, which both callers want of the differencing method: two partitions
\* differ by at most the largest spread of a state the method started from (the
\* longest sequence; for equal sizes the widest group of k neighbours in
\* length).
Balanced ==
    result # <<>> =>
        \A p, r \in 1..k :
            \E s \in InitialStates(lens, k, equal) :
                Total(lens, result[p]) - Total(lens, result[r]) <= Spread(lens, s)

=============================================================================
