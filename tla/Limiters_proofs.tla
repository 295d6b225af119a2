--------------------------- MODULE Limiters_proofs ---------------------------
(***************************************************************************)
(* Theorems about the two places where concurrent calls are limited:       *)
(* SandboxReward, for every number of responses, test cases, processes and *)
(* slots, and whatever is killed; RateLimit, for every number of pools,    *)
(* threads and calls and all limits.                                       *)
(***************************************************************************)
EXTENDS SandboxReward, RateLimit, FiniteSetTheorems, TLAPS

(***************************************************************************)
(* The sandbox: the inductive invariant.                                   *)
(***************************************************************************)

CaseStates == {"none", "waiting", "calling", "backoff", "answered", "read"}

\* f[r] is a function on the cases of each response r.
PerCase(f, S) ==
    /\ f = [r \in Responses |-> f[r]]
    /\ \A r \in Responses : f[r] \in [Cases(r) -> S]

CasesTyped ==
    /\ PerCase(case, CaseStates)
    /\ PerCase(attempts, 0..MaxRetries)
    /\ PerCase(outcome, Outcomes \cup {"none"})

RowsTyped ==
    /\ phase \in {"idle", "scoring"} /\ batch \in 0..MaxBatches
    /\ row \in [Responses -> {"queued", "running", "scored", "timed_out"}]
    /\ compile \in [Responses -> Nat] /\ \A r \in Responses : compile[r] <= NumCases[r]
    /\ score \in [Responses -> Int]
    /\ \A r \in Responses : score[r] \in -1..NumCases[r]
    /\ slots \in 0..MaxConcurrent /\ timeouts \in 0..MaxTimeouts

\* Slots are lost when a process is killed, but none is made.
SlotInv ==
    /\ IsFiniteSet(Holding)
    /\ slots + Cardinality(Holding) <= MaxConcurrent

\* A case that will be sent again has not used up its attempts.
RetryInv ==
    \A r \in Responses : \A c \in Cases(r) :
        case[r][c] = "backoff" => attempts[r][c] < MaxRetries

IndInv == CasesTyped /\ RowsTyped /\ SlotInv /\ RetryInv

LEMMA IndInit == Init => IndInv
<1> SUFFICES ASSUME Init PROVE IndInv
  OBVIOUS
<1> USE SizesAssumption DEF Init, Everywhere
<1>1. CasesTyped
  BY DEF CasesTyped, PerCase, CaseStates, Outcomes, MaxRetries
<1>2. RowsTyped
  BY DEF RowsTyped
<1>3. Holding = {}
  BY DEF Holding
<1> QED
  BY <1>1, <1>2, <1>3, FS_EmptySet DEF IndInv, SlotInv, RetryInv, MaxRetries

(***************************************************************************)
(* Steps.                                                                  *)
(***************************************************************************)

LEMMA Members ==
    /\ "calling" \in CaseStates /\ "backoff" \in CaseStates
    /\ "answered" \in CaseStates /\ "read" \in CaseStates
    /\ 0 \in 0..MaxRetries /\ 1 \in 0..MaxRetries
  BY DEF CaseStates, MaxRetries

\* The states of the cases of all responses when the one of (r, c) becomes to,
\* and the requests made for them when those for (r, c) are n.
CaseNow(r, c, to) ==
    \A q \in Responses : \A d \in Cases(q) :
        case'[q][d] = IF q = r /\ d = c THEN to ELSE case[q][d]
AttemptsNow(r, c, n) ==
    \A q \in Responses : \A d \in Cases(q) :
        attempts'[q][d] = IF q = r /\ d = c THEN n ELSE attempts[q][d]

\* One case moves to another state.
LEMMA CaseMoves ==
    ASSUME IndInv, NEW r \in Responses, NEW c \in Cases(r), NEW to \in CaseStates,
           case' = [case EXCEPT ![r][c] = to]
    PROVE  PerCase(case', CaseStates) /\ CaseNow(r, c, to)
<1> DEFINE old == case[r]
           new == [old EXCEPT ![c] = to]
<1>1. PerCase(case, CaseStates)
  BY DEF IndInv, CasesTyped
<1>2. case' = [q \in Responses |-> IF q = r THEN new ELSE case[q]]
  BY <1>1 DEF PerCase
<1>3. old \in [Cases(r) -> CaseStates]
  BY <1>1 DEF PerCase
<1>4. new \in [Cases(r) -> CaseStates]
      /\ \A d \in Cases(r) : new[d] = IF d = c THEN to ELSE old[d]
  BY <1>3
<1> HIDE DEF new
<1>5. case'[r] = new /\ \A q \in Responses : q # r => case'[q] = case[q]
  BY <1>2
<1>6. PerCase(case', CaseStates)
  BY <1>1, <1>2, <1>4, <1>5 DEF PerCase
<1>7. \A q \in Responses : \A d \in Cases(q) :
          case'[q][d] = IF q = r /\ d = c THEN to ELSE case[q][d]
  BY <1>4, <1>5
<1> QED
  BY <1>6, <1>7 DEF CaseNow

\* The requests made for one case change.
LEMMA AttemptsMove ==
    ASSUME IndInv, NEW r \in Responses, NEW c \in Cases(r), NEW n \in 0..MaxRetries,
           attempts' = [attempts EXCEPT ![r][c] = n]
    PROVE  PerCase(attempts', 0..MaxRetries) /\ AttemptsNow(r, c, n)
<1> DEFINE old == attempts[r]
           new == [old EXCEPT ![c] = n]
<1>1. PerCase(attempts, 0..MaxRetries)
  BY DEF IndInv, CasesTyped
<1>2. attempts' = [q \in Responses |-> IF q = r THEN new ELSE attempts[q]]
  BY <1>1 DEF PerCase
<1>3. old \in [Cases(r) -> 0..MaxRetries]
  BY <1>1 DEF PerCase
<1>4. new \in [Cases(r) -> 0..MaxRetries]
      /\ \A d \in Cases(r) : new[d] = IF d = c THEN n ELSE old[d]
  BY <1>3
<1> HIDE DEF new
<1>5. attempts'[r] = new /\ \A q \in Responses : q # r => attempts'[q] = attempts[q]
  BY <1>2
<1>6. PerCase(attempts', 0..MaxRetries)
  BY <1>1, <1>2, <1>4, <1>5 DEF PerCase
<1>7. \A q \in Responses : \A d \in Cases(q) :
          attempts'[q][d] = IF q = r /\ d = c THEN n ELSE attempts[q][d]
  BY <1>4, <1>5
<1> QED
  BY <1>6, <1>7 DEF AttemptsNow

\* Who holds a slot, case by case.
LEMMA Holders ==
    /\ \A q, d : <<q, d>> \in Holding <=>
           q \in Responses /\ d \in Cases(q) /\ case[q][d] \in {"calling", "backoff"}
    /\ \A x \in Holding : \E q, d : x = <<q, d>>
  BY DEF Holding, Cases

LEMMA HoldersAfter ==
    ASSUME IndInv, NEW r \in Responses, NEW c \in Cases(r), NEW to \in CaseStates,
           case' = [case EXCEPT ![r][c] = to]
    PROVE  Holding' = IF to \in {"calling", "backoff"}
                      THEN Holding \cup {<<r, c>>} ELSE Holding \ {<<r, c>>}
<1>1. \A q \in Responses : \A d \in Cases(q) :
          case'[q][d] = IF q = r /\ d = c THEN to ELSE case[q][d]
  BY CaseMoves DEF CaseNow
<1>2. \A q, d : <<q, d>> \in Holding' <=>
          q \in Responses /\ d \in Cases(q) /\ case'[q][d] \in {"calling", "backoff"}
  BY DEF Holding, Cases
<1>3. \A x \in Holding' : \E q, d : x = <<q, d>>
  BY DEF Holding, Cases
<1>4. ASSUME NEW q, NEW d
      PROVE  <<q, d>> \in Holding' <=>
          IF q = r /\ d = c THEN to \in {"calling", "backoff"} ELSE <<q, d>> \in Holding
  <2>1. CASE q \in Responses /\ d \in Cases(q)
    <3>1. case'[q][d] = IF q = r /\ d = c THEN to ELSE case[q][d]
      BY <1>1, <2>1
    <3> QED
      BY <1>2, <2>1, <3>1, Holders
  <2>2. CASE ~(q \in Responses /\ d \in Cases(q))
    BY <1>2, <2>2, Holders
  <2> QED
    BY <2>1, <2>2
<1>5. ASSUME NEW x PROVE x \in Holding' <=>
          IF x = <<r, c>> THEN to \in {"calling", "backoff"} ELSE x \in Holding
  <2>1. CASE \E q, d : x = <<q, d>>
    BY <1>4, <2>1
  <2>2. CASE ~\E q, d : x = <<q, d>>
    BY <1>3, <2>2, Holders
  <2> QED
    BY <2>1, <2>2
<1> QED
  BY <1>5

\* A step that takes and returns no slot keeps the holders, or loses some.
LEMMA SlotsLeft ==
    ASSUME IndInv, slots' = slots, Holding' \subseteq Holding
    PROVE  SlotInv'
<1>1. IsFiniteSet(Holding) /\ slots \in Nat /\ MaxConcurrent \in Nat
      /\ slots + Cardinality(Holding) <= MaxConcurrent
  BY SizesAssumption DEF IndInv, RowsTyped, SlotInv
<1>2. IsFiniteSet(Holding') /\ Cardinality(Holding') <= Cardinality(Holding)
  BY <1>1, FS_Subset
<1>3. Cardinality(Holding') \in Nat /\ Cardinality(Holding) \in Nat
  BY <1>1, <1>2, FS_CardinalityType
<1> QED
  BY <1>1, <1>2, <1>3 DEF SlotInv

LEMMA BatchKeeps ==
    ASSUME IndInv, StartBatch \/ Finish PROVE IndInv'
<1>1. case' = Everywhere("none") /\ slots' = slots
  BY DEF StartBatch, Finish
<1>2. Holding' = {}
  BY <1>1 DEF Holding, Everywhere
<1>3. SlotInv' /\ RetryInv'
  BY <1>1, <1>2, SlotsLeft DEF RetryInv, Everywhere
<1>4. CASE StartBatch
  <2>1. CasesTyped'
    BY <1>4 DEF StartBatch, CasesTyped, PerCase, Everywhere, CaseStates, MaxRetries
  <2>2. RowsTyped'
    BY <1>4, SizesAssumption DEF StartBatch, IndInv, RowsTyped
  <2> QED
    BY <1>3, <2>1, <2>2 DEF IndInv
<1>5. CASE Finish
  <2>1. CasesTyped'
    BY <1>5 DEF Finish, IndInv, CasesTyped, PerCase, Everywhere, CaseStates
  <2>2. RowsTyped'
    BY <1>5 DEF Finish, IndInv, RowsTyped
  <2> QED
    BY <1>3, <2>1, <2>2 DEF IndInv
<1> QED
  BY <1>4, <1>5

LEMMA PassedBounded ==
    ASSUME NEW r \in Responses
    PROVE  Cardinality({c \in Scored(r) : Marked(r)[c] = "pass"}) \in 0..NumCases[r]
<1> DEFINE passed == {c \in Scored(r) : Marked(r)[c] = "pass"}
<1>1. NumCases[r] \in Nat /\ passed \subseteq 1..NumCases[r]
  BY SizesAssumption DEF Scored, Cases
<1>2. IsFiniteSet(1..NumCases[r]) /\ Cardinality(1..NumCases[r]) = NumCases[r]
  <2> DEFINE n == NumCases[r]
  <2> HIDE DEF n
  <2>1. n \in Int /\ 1 \in Int /\ (1 > n => n = 0) /\ n - 1 + 1 = n
    BY <1>1 DEF n
  <2>2. IsFiniteSet(1..n) /\ Cardinality(1..n) = n
    BY <2>1, FS_Interval
  <2> QED
    BY <2>2 DEF n
<1> HIDE DEF passed
<1>3. Cardinality(passed) <= NumCases[r] /\ Cardinality(passed) \in Nat
  <2>1. IsFiniteSet(passed) /\ Cardinality(passed) <= Cardinality(1..NumCases[r])
    BY <1>1, <1>2, FS_Subset, Zenon
  <2>2. Cardinality(passed) \in Nat
    BY <2>1, FS_CardinalityType, Zenon
  <2> QED
    BY <1>2, <2>1, <2>2, Zenon
<1>4. Cardinality(passed) \in 0..NumCases[r]
  BY <1>1, <1>3
<1> QED
  BY <1>4 DEF passed

LEMMA RowKeeps ==
    ASSUME IndInv, NEW r \in Responses,
           StartRow(r) \/ NoCode(r) \/ TimeOut(r) \/ Score(r)
    PROVE  IndInv'
<1> USE DEF IndInv
<1>1. CASE StartRow(r)
  <2> USE <1>1 DEF StartRow
  <2>1. Holding' \subseteq Holding
    BY DEF CasesTyped, PerCase, Holding, Cases
  <2>2. CasesTyped'
    BY DEF CasesTyped, PerCase, CaseStates
  <2>3. RowsTyped' /\ RetryInv'
    BY DEF RowsTyped, RetryInv, CasesTyped, PerCase
  <2> QED
    BY <2>1, <2>2, <2>3, SlotsLeft
<1>2. CASE NoCode(r)
  <2> USE <1>2 DEF NoCode, caseVars
  <2>1. Holding' = Holding
    BY DEF Holding, Cases
  <2>2. CasesTyped' /\ RetryInv'
    BY DEF CasesTyped, PerCase, RetryInv
  <2>3. \A q \in Responses : NumCases[q] \in Nat
    BY SizesAssumption
  <2>4. score' \in [Responses -> Int] /\ \A q \in Responses : score'[q] \in -1..NumCases[q]
    BY <2>3 DEF RowsTyped
  <2>5. RowsTyped'
    BY <2>4, SizesAssumption DEF RowsTyped
  <2> QED
    BY <2>1, <2>2, <2>5, SlotsLeft
<1>3. CASE TimeOut(r)
  <2> USE <1>3 DEF TimeOut, caseVars
  <2>1. Holding' = Holding
    BY DEF Holding, Cases
  <2>2. CasesTyped' /\ RetryInv'
    BY DEF CasesTyped, PerCase, RetryInv
  <2>3. \A q \in Responses : NumCases[q] \in Nat
    BY SizesAssumption
  <2>4. score' \in [Responses -> Int] /\ \A q \in Responses : score'[q] \in -1..NumCases[q]
    BY <2>3 DEF RowsTyped
  <2>5. RowsTyped'
    BY <2>4, SizesAssumption DEF RowsTyped
  <2> QED
    BY <2>1, <2>2, <2>5, SlotsLeft
<1>4. CASE Score(r)
  <2> USE <1>4 DEF Score
  <2>1. Holding' \subseteq Holding
    BY DEF CasesTyped, PerCase, Holding, Cases
  <2>2. CasesTyped' /\ RetryInv'
    BY DEF CasesTyped, PerCase, CaseStates, RetryInv
  <2>3. RowsTyped'
    BY PassedBounded, SizesAssumption DEF RowsTyped
  <2> QED
    BY <2>1, <2>2, <2>3, SlotsLeft
<1> QED
  BY <1>1, <1>2, <1>3, <1>4

\* A call that ends gives back the slot of a case that has one.
LEMMA ReturnKeeps ==
    ASSUME IndInv, NEW r \in Responses, NEW c \in Cases(r), NEW result \in Outcomes,
           case[r][c] \in {"calling", "backoff"}, Return(r, c, result),
           UNCHANGED <<phase, batch, row, compile, score, timeouts>>
    PROVE  IndInv'
<1> DEFINE one == <<r, c>>
<1>1. one \in Holding
  BY Holders
<1>1a. Holding' = Holding \ {one}
  BY HoldersAfter, Members DEF Return
<1>2. IsFiniteSet(Holding) /\ slots \in Nat /\ slots + Cardinality(Holding) <= MaxConcurrent
      /\ MaxConcurrent \in Nat
  BY SizesAssumption DEF IndInv, RowsTyped, SlotInv
<1>3. IsFiniteSet(Holding') /\ Cardinality(Holding') = Cardinality(Holding) - 1
  BY <1>1, <1>1a, <1>2, FS_RemoveElement
<1>4. Cardinality(Holding) \in Nat /\ Cardinality(Holding') \in Nat
  BY <1>2, <1>3, FS_CardinalityType
<1>5. slots' = slots + 1
  BY DEF Return, Released
<1>6. SlotInv' /\ slots' \in 0..MaxConcurrent
  BY <1>2, <1>3, <1>4, <1>5 DEF SlotInv
<1>7. PerCase(case', CaseStates) /\ CaseNow(r, c, "answered")
  BY CaseMoves, Members, Zenon DEF Return
<1>8. PerCase(attempts', 0..MaxRetries) /\ AttemptsNow(r, c, 0)
  BY AttemptsMove, Members, Zenon DEF Return
<1>9. PerCase(outcome', Outcomes \cup {"none"})
  <2>1. PerCase(outcome, Outcomes \cup {"none"})
    BY DEF IndInv, CasesTyped
  <2>2. outcome' = [outcome EXCEPT ![r] = [outcome[r] EXCEPT ![c] = result]]
    BY DEF Return
  <2>3. [outcome[r] EXCEPT ![c] = result] \in [Cases(r) -> Outcomes \cup {"none"}]
    BY <2>1 DEF PerCase
  <2> QED
    BY <2>1, <2>2, <2>3 DEF PerCase
<1>10. CasesTyped'
  BY <1>7, <1>8, <1>9, Zenon DEF CasesTyped
<1>11. RowsTyped' /\ RetryInv'
  BY <1>6, <1>7, <1>8 DEF IndInv, RowsTyped, RetryInv, CaseNow, AttemptsNow
<1> QED
  BY <1>6, <1>10, <1>11 DEF IndInv

LEMMA AcquireKeeps ==
    ASSUME IndInv, NEW r \in Responses, NEW c \in Cases(r), Acquire(r, c) PROVE IndInv'
<1> DEFINE one == <<r, c>>
<1>1. Holding' = Holding \cup {one} /\ one \notin Holding
  BY HoldersAfter, Holders, Members DEF Acquire
<1>2. IsFiniteSet(Holding) /\ slots \in Nat /\ slots + Cardinality(Holding) <= MaxConcurrent
      /\ MaxConcurrent \in Nat
  BY SizesAssumption DEF IndInv, RowsTyped, SlotInv
<1>3. IsFiniteSet(Holding') /\ Cardinality(Holding') = Cardinality(Holding) + 1
  BY <1>1, <1>2, FS_AddElement
<1>4. Cardinality(Holding) \in Nat
  BY <1>2, FS_CardinalityType
<1>5. slots' = slots - 1 /\ slots > 0
  BY DEF Acquire, MayCall
<1>6. SlotInv' /\ slots' \in 0..MaxConcurrent
  BY <1>2, <1>3, <1>4, <1>5 DEF SlotInv
<1>7. PerCase(case', CaseStates) /\ CaseNow(r, c, "calling")
  BY CaseMoves, Members, Zenon DEF Acquire
<1>8. PerCase(attempts', 0..MaxRetries) /\ AttemptsNow(r, c, 1)
  BY AttemptsMove, Members, Zenon DEF Acquire
<1>9. CasesTyped'
  BY <1>7, <1>8, Zenon DEF IndInv, CasesTyped, Acquire
<1>10. RowsTyped' /\ RetryInv'
  BY <1>6, <1>7, <1>8 DEF IndInv, RowsTyped, RetryInv, CaseNow, AttemptsNow, Acquire
<1> QED
  BY <1>6, <1>9, <1>10 DEF IndInv

LEMMA CaseKeeps ==
    ASSUME IndInv, NEW r \in Responses, NEW c \in Cases(r), CaseStep(r, c)
    PROVE  IndInv'
<1>1. ASSUME NEW result \in Outcomes, Answer(r, c, result) PROVE IndInv'
  BY <1>1, ReturnKeeps DEF Answer
<1>2. CASE GatewayTimeout(r, c) /\ ~(attempts[r][c] < MaxRetries)
  BY <1>2, ReturnKeeps DEF GatewayTimeout, Outcomes
<1>3. CASE GatewayTimeout(r, c) /\ attempts[r][c] < MaxRetries
  <2>1. Holding' = Holding \cup {<<r, c>>} /\ <<r, c>> \in Holding
    BY <1>3, HoldersAfter, Holders, Members DEF GatewayTimeout
  <2>2. PerCase(case', CaseStates) /\ CaseNow(r, c, "backoff")
    BY <1>3, CaseMoves, Members, Zenon DEF GatewayTimeout
  <2>3. CasesTyped' /\ RetryInv' /\ RowsTyped'
    BY <1>3, <2>2 DEF IndInv, CasesTyped, PerCase, RetryInv, RowsTyped, CaseNow, GatewayTimeout
  <2> QED
    BY <1>3, <2>1, <2>3, SlotsLeft DEF IndInv, GatewayTimeout
<1>4. CASE Retry(r, c)
  <2>1. Holding' = Holding \cup {<<r, c>>} /\ <<r, c>> \in Holding
    BY <1>4, HoldersAfter, Holders, Members DEF Retry
  <2>2. PerCase(case', CaseStates) /\ CaseNow(r, c, "calling")
    BY <1>4, CaseMoves, Members, Zenon DEF Retry
  <2>3. attempts[r][c] + 1 \in 0..MaxRetries
    BY <1>4 DEF IndInv, CasesTyped, PerCase, RetryInv, Retry, MaxRetries
  <2>4. attempts' = [attempts EXCEPT ![r][c] = attempts[r][c] + 1]
    BY <1>4 DEF Retry
  <2>5. PerCase(attempts', 0..MaxRetries) /\ AttemptsNow(r, c, attempts[r][c] + 1)
    BY <2>3, <2>4, AttemptsMove, Zenon
  <2>6. CasesTyped' /\ RetryInv' /\ RowsTyped'
    BY <1>4, <2>2, <2>5
    DEF IndInv, CasesTyped, PerCase, RetryInv, RowsTyped, CaseNow, AttemptsNow, Retry
  <2> QED
    BY <1>4, <2>1, <2>6, SlotsLeft DEF IndInv, Retry
<1>5. CASE Read(r, c)
  <2>1. Holding' = Holding \ {<<r, c>>}
    BY <1>5, HoldersAfter, Members DEF Read
  <2>2. PerCase(case', CaseStates) /\ CaseNow(r, c, "read")
    BY <1>5, CaseMoves, Members, Zenon DEF Read
  <2>3. CasesTyped' /\ RetryInv'
    BY <1>5, <2>2 DEF IndInv, CasesTyped, PerCase, RetryInv, CaseNow, Read
  <2>4. RowsTyped'
    BY <1>5, SizesAssumption DEF IndInv, RowsTyped, Read, FirstCompile, Cases
  <2> QED
    BY <1>5, <2>1, <2>3, <2>4, SlotsLeft DEF IndInv, Read
<1> QED
  BY <1>1, <1>2, <1>3, <1>4, <1>5, AcquireKeeps DEF CaseStep

LEMMA IndStep == IndInv /\ [Next]_vars => IndInv'
<1> SUFFICES ASSUME IndInv, [Next]_vars PROVE IndInv'
  OBVIOUS
<1>1. CASE UNCHANGED vars
  BY <1>1 DEF vars, caseVars, IndInv, CasesTyped, PerCase, RowsTyped, SlotInv, RetryInv, Holding,
     Cases
<1> QED
  BY <1>1, BatchKeeps, RowKeeps, CaseKeeps DEF Next

\* Every variable keeps its type; in particular no case is sent more than
\* MAX_RETRIES times, and releasing never makes slots.
THEOREM TypeCorrect == Spec => []TypeOK
<1>1. IndInv => TypeOK
  BY SizesAssumption DEF IndInv, CasesTyped, PerCase, RowsTyped, CaseStates, TypeOK
<1> QED
  BY <1>1, IndInit, IndStep, PTL DEF Spec

\* The sandbox never gets more than max_concurrent requests at a time from all
\* the processes together, whatever fails and whoever is killed.
THEOREM AlwaysWithinLimit == Spec => []WithinLimit
<1>1. ASSUME IndInv PROVE WithinLimit
  <2>1. Cardinality(Holding) \in Nat /\ slots \in Nat /\ MaxConcurrent \in Nat
    BY <1>1, SizesAssumption, FS_CardinalityType DEF IndInv, SlotInv, RowsTyped
  <2> QED
    BY <1>1, <2>1 DEF IndInv, SlotInv, WithinLimit
<1> QED
  BY <1>1, IndInit, IndStep, PTL DEF Spec

(***************************************************************************)
(* What keeps a thread from holding its slot for ever.                     *)
(***************************************************************************)

\* A bound on the steps a case still takes: two for each request that may still
\* be sent again, the one that ends the call, and to be read.
CaseStepsFrom(s, n) ==
    CASE s = "waiting" -> 2 * MaxRetries + 1
      [] s = "calling" -> 2 * (MaxRetries - n) + 2
      [] s = "backoff" -> 2 * (MaxRetries - n) + 1
      [] s = "answered" -> 1
      [] OTHER -> 0
CaseStepsLeft(r, c) == CaseStepsFrom(case[r][c], attempts[r][c])

CaseRunsDown(r, c) ==
    /\ CaseStepsLeft(r, c)' < CaseStepsLeft(r, c)
    /\ \A q \in Responses : \A d \in Cases(q) :
          <<q, d>> # <<r, c>> => CaseStepsLeft(q, d)' = CaseStepsLeft(q, d)

LEMMA CaseStepsAre ==
    ASSUME NEW n \in 0..MaxRetries
    PROVE  /\ CaseStepsFrom("waiting", n) = 7
           /\ CaseStepsFrom("calling", n) = 8 - 2 * n
           /\ CaseStepsFrom("backoff", n) = 7 - 2 * n
           /\ CaseStepsFrom("answered", n) = 1
           /\ CaseStepsFrom("read", n) = 0 /\ CaseStepsFrom("none", n) = 0
  BY DEF CaseStepsFrom, MaxRetries

LEMMA CaseStepsBounded ==
    ASSUME IndInv, NEW r \in Responses, NEW c \in Cases(r)
    PROVE  CaseStepsLeft(r, c) \in 0..(2 * MaxRetries + 2)
<1>1. case[r][c] \in CaseStates /\ attempts[r][c] \in 0..MaxRetries
  BY DEF IndInv, CasesTyped, PerCase
<1>2. ASSUME NEW s \in CaseStates, NEW n \in 0..MaxRetries
      PROVE  CaseStepsFrom(s, n) \in 0..(2 * MaxRetries + 2)
  BY CaseStepsAre DEF CaseStates, MaxRetries
<1> QED
  BY <1>1, <1>2, Zenon DEF CaseStepsLeft

\* The steps left of all cases when the state and the requests of one change.
LEMMA CaseStepsNow ==
    ASSUME NEW r \in Responses, NEW c \in Cases(r), NEW to, NEW n, CaseNow(r, c, to),
           AttemptsNow(r, c, n)
    PROVE  /\ CaseStepsLeft(r, c)' = CaseStepsFrom(to, n)
           /\ \A q \in Responses : \A d \in Cases(q) :
                 <<q, d>> # <<r, c>> => CaseStepsLeft(q, d)' = CaseStepsLeft(q, d)
<1>1. case'[r][c] = to /\ attempts'[r][c] = n
  BY DEF CaseNow, AttemptsNow
<1>2. ASSUME NEW q \in Responses, NEW d \in Cases(q), <<q, d>> # <<r, c>>
      PROVE  case'[q][d] = case[q][d] /\ attempts'[q][d] = attempts[q][d]
  BY <1>2 DEF CaseNow, AttemptsNow
<1> QED
  BY <1>1, <1>2 DEF CaseStepsLeft

LEMMA CaseStepRunsDown ==
    ASSUME IndInv, NEW r \in Responses, NEW c \in Cases(r), CaseStep(r, c)
    PROVE  CaseRunsDown(r, c)
<1> DEFINE n == attempts[r][c]
<1>1. n \in 0..MaxRetries
  BY DEF IndInv, CasesTyped, PerCase
<1>2. attempts' = attempts => AttemptsNow(r, c, n)
  BY DEF AttemptsNow
<1> HIDE DEF n
<1>3. CASE Acquire(r, c)
  <2>1. CaseNow(r, c, "calling") /\ AttemptsNow(r, c, 1)
    BY <1>3, CaseMoves, AttemptsMove, Members, Zenon DEF Acquire
  <2>2. CaseStepsLeft(r, c) = 7 /\ CaseStepsFrom("calling", 1) = 6
    BY <1>1, <1>3, Members, CaseStepsAre DEF Acquire, CaseStepsLeft, n
  <2> QED
    BY <2>1, <2>2, CaseStepsNow DEF CaseRunsDown
<1>4. ASSUME NEW result, case[r][c] = "calling", Return(r, c, result)
      PROVE  CaseRunsDown(r, c)
  <2>1. CaseNow(r, c, "answered") /\ AttemptsNow(r, c, 0)
    BY <1>4, CaseMoves, AttemptsMove, Members, Zenon DEF Return
  <2>2. CaseStepsLeft(r, c) = 8 - 2 * n /\ CaseStepsFrom("answered", 0) = 1
    BY <1>1, <1>4, Members, CaseStepsAre DEF CaseStepsLeft, n
  <2>3. CaseStepsLeft(r, c) >= 2
    BY <1>1, <2>2 DEF MaxRetries
  <2> QED
    BY <1>1, <2>1, <2>2, <2>3, CaseStepsNow DEF CaseRunsDown
<1>5. CASE \E result \in Outcomes : Answer(r, c, result)
  BY <1>4, <1>5 DEF Answer
<1>6. CASE GatewayTimeout(r, c)
  <2>1. CASE n < MaxRetries
    <3>1. case' = [case EXCEPT ![r][c] = "backoff"] /\ attempts' = attempts
          /\ case[r][c] = "calling"
      BY <1>6, <2>1 DEF GatewayTimeout, n
    <3>2. CaseNow(r, c, "backoff") /\ AttemptsNow(r, c, n)
      BY <1>2, <3>1, CaseMoves, Members, Zenon
    <3>3. CaseStepsLeft(r, c) = 8 - 2 * n /\ CaseStepsFrom("backoff", n) = 7 - 2 * n
      BY <1>1, <3>1, CaseStepsAre DEF CaseStepsLeft, n
    <3> QED
      BY <1>1, <3>2, <3>3, CaseStepsNow DEF CaseRunsDown
  <2>2. CASE ~(n < MaxRetries)
    BY <1>4, <1>6, <2>2 DEF GatewayTimeout, n
  <2> QED
    BY <2>1, <2>2
<1>7. CASE Retry(r, c)
  <2>1. n + 1 \in 0..MaxRetries
    BY <1>1, <1>7 DEF IndInv, RetryInv, Retry, MaxRetries, n
  <2>2. /\ case' = [case EXCEPT ![r][c] = "calling"] /\ case[r][c] = "backoff"
        /\ attempts' = [attempts EXCEPT ![r][c] = n + 1]
    BY <1>7 DEF Retry, n
  <2>3. CaseNow(r, c, "calling") /\ AttemptsNow(r, c, n + 1)
    BY <2>1, <2>2, CaseMoves, AttemptsMove, Members, Zenon
  <2>4. CaseStepsLeft(r, c) = 7 - 2 * n /\ CaseStepsFrom("calling", n + 1) = 8 - 2 * (n + 1)
    BY <1>1, <2>1, <2>2, CaseStepsAre DEF CaseStepsLeft, n
  <2> QED
    BY <1>1, <2>3, <2>4, CaseStepsNow DEF CaseRunsDown
<1>8. CASE Read(r, c)
  <2>1. CaseNow(r, c, "read") /\ AttemptsNow(r, c, n)
    BY <1>2, <1>8, CaseMoves, Members, Zenon DEF Read
  <2>2. CaseStepsLeft(r, c) = 1 /\ CaseStepsFrom("read", n) = 0
    BY <1>1, <1>8, CaseStepsAre DEF CaseStepsLeft, Read, n
  <2> QED
    BY <2>1, <2>2, CaseStepsNow DEF CaseRunsDown
<1> QED
  BY <1>3, <1>5, <1>6, <1>7, <1>8 DEF CaseStep

\* Whatever the sandbox answers, a test case needs its slot for a bounded number
\* of requests: each step of its thread uses up one of at most 2 * MAX_RETRIES + 2,
\* and none of another case's.
THEOREM CasesRunOut ==
    Spec => /\ [](\A r \in Responses : \A c \in Cases(r) :
                     CaseStepsLeft(r, c) \in 0..(2 * MaxRetries + 2))
            /\ [][\A r \in Responses : \A c \in Cases(r) :
                     CaseStep(r, c) => CaseRunsDown(r, c)]_vars
<1>1. IndInv => \A r \in Responses : \A c \in Cases(r) :
                    CaseStepsLeft(r, c) \in 0..(2 * MaxRetries + 2)
  BY CaseStepsBounded
<1>2. IndInv => [\A r \in Responses : \A c \in Cases(r) :
                     CaseStep(r, c) => CaseRunsDown(r, c)]_vars
  BY CaseStepRunsDown
<1> QED
  BY <1>1, <1>2, IndInit, IndStep, PTL DEF Spec

(***************************************************************************)
(* The score does not depend on the order in which the threads return.     *)
(***************************************************************************)

\* A response that waits or has its score has no thread, so its outcomes stay.
RowInv ==
    \A r \in Responses :
        /\ row[r] \in {"queued", "scored"} => \A c \in Cases(r) : case[r][c] = "none"
        /\ row[r] = "queued" =>
              compile[r] = 0 /\ \A c \in Cases(r) : outcome[r][c] = "none"

\* What has been read so far determines first_compile_error_index.
CompileInv ==
    \A r \in Responses :
        /\ compile[r] # 0 => /\ outcome[r][compile[r]] = "compile_error"
                             /\ case[r][compile[r]] \in {"read", "none"}
        /\ \A c \in Cases(r) :
              case[r][c] = "read" /\ outcome[r][c] = "compile_error" =>
                  compile[r] # 0 /\ compile[r] <= c

\* The cases of a response that count as passed, and ScoreOfCases for it.
Passed(r) ==
    {c \in Scored(r) : outcome[r][c] = "pass"
                       /\ \A d \in 1..c : outcome[r][d] # "compile_error"}
ScoreOf(r) == row[r] = "scored" /\ score[r] >= 0 => score[r] = Cardinality(Passed(r))

ScoreInv == RowInv /\ CompileInv /\ \A r \in Responses : ScoreOf(r)

LEMMA ScoreInit == Init => ScoreInv
<1> SUFFICES ASSUME Init PROVE ScoreInv
  OBVIOUS
<1> USE DEF Init, Everywhere
<1>1. RowInv /\ CompileInv
  BY DEF RowInv, CompileInv
<1>2. \A r \in Responses : ~(score[r] >= 0)
  OBVIOUS
<1> QED
  BY <1>1, <1>2 DEF ScoreInv, ScoreOf

\* A response whose outcomes and score stay.
LEMMA ScoreKept ==
    ASSUME NEW r \in Responses, ScoreOf(r), UNCHANGED <<row[r], score[r], outcome[r]>>
    PROVE  ScoreOf(r)'
<1>1. Passed(r)' = Passed(r)
  BY DEF Passed, Scored, Cases
<1> QED
  BY <1>1 DEF ScoreOf

\* When all cases are read, those that count as passed are those before the
\* first compile error.
LEMMA MarkedPasses ==
    ASSUME IndInv, CompileInv, NEW r \in Responses, \A c \in Cases(r) : case[r][c] = "read"
    PROVE  {c \in Scored(r) : Marked(r)[c] = "pass"} = Passed(r)
<1> SUFFICES ASSUME NEW c \in Scored(r)
             PROVE  Marked(r)[c] = "pass" <=>
                       /\ outcome[r][c] = "pass"
                       /\ \A d \in 1..c : outcome[r][d] # "compile_error"
  BY DEF Passed
<1>1. c \in Cases(r) /\ c \in Nat /\ \A d \in 1..c : d \in Cases(r)
  BY SizesAssumption DEF Scored, Cases
<1>2. compile[r] \in Nat /\ compile[r] <= NumCases[r]
  BY DEF IndInv, RowsTyped
<1>3. Marked(r)[c] = "pass" <=> outcome[r][c] = "pass" /\ ~(compile[r] # 0 /\ c > compile[r])
  BY <1>1 DEF Marked
<1>4. ASSUME compile[r] # 0, c > compile[r]
      PROVE  \E d \in 1..c : outcome[r][d] = "compile_error"
  <2>1. compile[r] \in 1..c /\ outcome[r][compile[r]] = "compile_error"
    BY <1>1, <1>2, <1>4 DEF CompileInv
  <2> QED
    BY <2>1
<1>5. ASSUME NEW d \in 1..c, outcome[r][d] = "compile_error", outcome[r][c] = "pass"
      PROVE  compile[r] # 0 /\ c > compile[r]
  <2>1. compile[r] # 0 /\ compile[r] <= d /\ outcome[r][compile[r]] = "compile_error"
    BY <1>1, <1>5 DEF CompileInv
  <2>2. compile[r] # c
    BY <2>1, <1>5
  <2> QED
    BY <1>1, <1>2, <2>1, <2>2
<1> QED
  BY <1>3, <1>4, <1>5

LEMMA ScoreByRow ==
    ASSUME IndInv, ScoreInv, NEW r \in Responses,
           StartRow(r) \/ NoCode(r) \/ TimeOut(r) \/ Score(r)
    PROVE  ScoreInv'
<1> USE DEF ScoreInv
<1>1. CASE StartRow(r)
  <2>1. \A q \in Responses : case'[q] = IF q = r THEN [c \in Cases(r) |-> "waiting"] ELSE case[q]
    BY <1>1 DEF StartRow, IndInv, CasesTyped, PerCase
  <2>2. \A q \in Responses : row'[q] = IF q = r THEN "running" ELSE row[q]
    BY <1>1 DEF StartRow, IndInv, RowsTyped
  <2>3. RowInv' /\ CompileInv'
    BY <1>1, <2>1, <2>2 DEF StartRow, RowInv, CompileInv, Cases
  <2>4. \A q \in Responses : ScoreOf(q)'
    BY <1>1, <2>2, ScoreKept DEF StartRow, ScoreOf
  <2> QED
    BY <2>3, <2>4
<1>2. CASE NoCode(r)
  <2>1. /\ \A q \in Responses : row'[q] = IF q = r THEN "scored" ELSE row[q]
        /\ \A q \in Responses : score'[q] = IF q = r THEN 0 ELSE score[q]
    BY <1>2 DEF NoCode, IndInv, RowsTyped
  <2>2. RowInv' /\ CompileInv'
    BY <1>2, <2>1 DEF NoCode, caseVars, RowInv, CompileInv, Cases
  <2>3. \A c \in Cases(r) : outcome'[r][c] = "none"
    BY <1>2 DEF NoCode, caseVars, RowInv
  <2>4. Passed(r)' = {}
    BY <2>3 DEF Passed, Scored, Cases
  <2>5. ScoreOf(r)'
    BY <2>1, <2>4, FS_EmptySet DEF ScoreOf
  <2>6. \A q \in Responses : ScoreOf(q)'
    BY <1>2, <2>1, <2>5, ScoreKept DEF NoCode, caseVars
  <2> QED
    BY <2>2, <2>6
<1>3. CASE TimeOut(r)
  <2>1. /\ \A q \in Responses : row'[q] = IF q = r THEN "timed_out" ELSE row[q]
        /\ \A q \in Responses : score'[q] = IF q = r THEN 0 ELSE score[q]
    BY <1>3 DEF TimeOut, IndInv, RowsTyped
  <2>2. RowInv' /\ CompileInv'
    BY <1>3, <2>1 DEF TimeOut, caseVars, RowInv, CompileInv, Cases
  <2>3. ScoreOf(r)'
    BY <2>1 DEF ScoreOf
  <2>4. \A q \in Responses : ScoreOf(q)'
    BY <1>3, <2>1, <2>3, ScoreKept DEF TimeOut, caseVars
  <2> QED
    BY <2>2, <2>4
<1>4. CASE Score(r)
  <2>1. \A q \in Responses : case'[q] = IF q = r THEN [c \in Cases(r) |-> "none"] ELSE case[q]
    BY <1>4 DEF Score, IndInv, CasesTyped, PerCase
  <2>2. \A q \in Responses : q # r => row'[q] = row[q] /\ score'[q] = score[q]
    BY <1>4 DEF Score, IndInv, RowsTyped
  <2>3. row'[r] = "queued" => row[r] = "queued"
    BY <1>4 DEF Score, IndInv, RowsTyped
  <2>3a. compile' = compile /\ outcome' = outcome
    BY <1>4 DEF Score
  <2>4. RowInv'
    <3>1. \A q \in Responses : row'[q] = "queued" => row[q] = "queued"
      BY <2>2, <2>3
    <3>2. \A q \in Responses : row'[q] = "queued" =>
              compile[q] = 0 /\ \A c \in Cases(q) : outcome[q][c] = "none"
      BY <3>1 DEF RowInv
    <3>3. \A q \in Responses : row'[q] \in {"queued", "scored"} =>
              \A c \in Cases(q) : case'[q][c] = "none"
      BY <2>1, <2>2 DEF RowInv
    <3> QED
      BY <2>3a, <3>2, <3>3 DEF RowInv, Cases
  <2>5. CompileInv'
    <3>1. \A q \in Responses : \A c \in Cases(q) : case'[q][c] \in {"none", case[q][c]}
      BY <2>1
    <3>2. \A q \in Responses : compile[q] # 0 => compile[q] \in Cases(q)
      BY SizesAssumption DEF IndInv, RowsTyped, Cases
    <3> QED
      BY <2>3a, <3>1, <3>2 DEF CompileInv, Cases
  <2>6. CASE row[r] = "running"
    <3>1. score'[r] = Cardinality({c \in Scored(r) : Marked(r)[c] = "pass"})
      BY <1>4, <2>6 DEF Score, IndInv, RowsTyped
    <3>2. score'[r] = Cardinality(Passed(r))
      BY <1>4, <3>1, MarkedPasses DEF Score
    <3>3. Passed(r)' = Passed(r)
      BY <1>4 DEF Score, Passed, Scored, Cases
    <3> QED
      BY <1>4, <2>2, <3>2, <3>3, <2>4, <2>5, ScoreKept DEF Score, ScoreOf
  <2>7. CASE row[r] # "running"
    BY <1>4, <2>4, <2>5, <2>7, ScoreKept DEF Score
  <2> QED
    BY <2>6, <2>7
<1> QED
  BY <1>1, <1>2, <1>3, <1>4

\* A step of a case that runs leaves a response with a score alone.
LEMMA RunningCase ==
    ASSUME IndInv, ScoreInv, NEW r \in Responses, NEW c \in Cases(r), NEW to,
           case[r][c] # "none", CaseNow(r, c, to), UNCHANGED <<row, score>>,
           \A q \in Responses : q # r => outcome'[q] = outcome[q] /\ compile'[q] = compile[q]
    PROVE  RowInv' /\ \A q \in Responses : ScoreOf(q)'
<1>1. row[r] \notin {"queued", "scored"}
  BY DEF ScoreInv, RowInv
<1>2. RowInv'
  BY <1>1 DEF ScoreInv, RowInv, CaseNow, Cases
<1>3. ScoreOf(r)'
  BY <1>1 DEF ScoreOf
<1>4. ASSUME NEW q \in Responses, q # r PROVE ScoreOf(q)'
  BY <1>4, ScoreKept DEF ScoreInv
<1> QED
  BY <1>2, <1>3, <1>4

\* A call goes on or ends.
LEMMA ScoreByCall ==
    ASSUME IndInv, ScoreInv, NEW r \in Responses, NEW c \in Cases(r), NEW to,
           case[r][c] \notin {"none", "read"}, to # "read",
           CaseNow(r, c, to), UNCHANGED <<row, score, compile>>,
           outcome' = outcome \/ \E x : outcome' = [outcome EXCEPT ![r][c] = x]
    PROVE  ScoreInv'
<1>1. \A q \in Responses : \A d \in Cases(q) :
          ~(q = r /\ d = c) => outcome'[q][d] = outcome[q][d]
  BY DEF IndInv, CasesTyped, PerCase
<1>2. \A q \in Responses : q # r => outcome'[q] = outcome[q]
  BY DEF IndInv, CasesTyped, PerCase
<1>3. RowInv' /\ \A q \in Responses : ScoreOf(q)'
  BY <1>2, RunningCase
<1>4. ASSUME NEW q \in Responses, compile[q] # 0
      PROVE  /\ outcome'[q][compile[q]] = "compile_error"
             /\ case'[q][compile[q]] \in {"read", "none"}
  <2>1. compile[q] \in Cases(q)
    BY <1>4, SizesAssumption DEF IndInv, RowsTyped, Cases
  <2>2. ~(q = r /\ compile[q] = c)
    BY <1>4 DEF ScoreInv, CompileInv
  <2> QED
    BY <1>1, <1>4, <2>1, <2>2 DEF ScoreInv, CompileInv, CaseNow
<1>5. ASSUME NEW q \in Responses, NEW d \in Cases(q),
             case'[q][d] = "read", outcome'[q][d] = "compile_error"
      PROVE  compile[q] # 0 /\ compile[q] <= d
  <2>1. ~(q = r /\ d = c)
    BY <1>5 DEF CaseNow
  <2> QED
    BY <1>1, <1>5, <2>1 DEF ScoreInv, CompileInv, CaseNow
<1>6. CompileInv'
  BY <1>4, <1>5 DEF CompileInv, Cases
<1> QED
  BY <1>3, <1>6 DEF ScoreInv

LEMMA ScoreByRead ==
    ASSUME IndInv, ScoreInv, NEW r \in Responses, NEW c \in Cases(r), Read(r, c)
    PROVE  ScoreInv'
<1>1. CaseNow(r, c, "read")
  BY CaseMoves, Members, Zenon DEF Read
<1>2. /\ \A q \in Responses : q # r => compile'[q] = compile[q]
      /\ compile'[r] = IF outcome[r][c] = "compile_error" THEN FirstCompile(r, c) ELSE compile[r]
  BY DEF Read, IndInv, RowsTyped
<1>3. outcome' = outcome /\ case[r][c] = "answered"
  BY DEF Read
<1>4. RowInv' /\ \A q \in Responses : ScoreOf(q)'
  BY <1>1, <1>2, <1>3, RunningCase DEF Read
<1>5. c \in Nat \ {0} /\ compile[r] \in Nat /\ \A d \in Cases(r) : d \in Nat
  BY SizesAssumption DEF IndInv, RowsTyped, Cases
<1>6. /\ compile[r] # 0 => compile'[r] # 0 /\ compile'[r] <= compile[r]
      /\ outcome[r][c] = "compile_error" => compile'[r] # 0 /\ compile'[r] <= c
  BY <1>2, <1>5 DEF FirstCompile
<1>7. ASSUME NEW q \in Responses, compile'[q] # 0
      PROVE  /\ outcome[q][compile'[q]] = "compile_error"
             /\ case'[q][compile'[q]] \in {"read", "none"}
  <2>1. CASE compile'[q] = compile[q]
    <3>1. compile[q] \in Cases(q)
      BY <1>7, <2>1, SizesAssumption DEF IndInv, RowsTyped, Cases
    <3> QED
      BY <1>1, <1>7, <2>1, <3>1 DEF ScoreInv, CompileInv, CaseNow
  <2>2. CASE compile'[q] # compile[q]
    <3>1. q = r /\ compile'[r] = c /\ outcome[r][c] = "compile_error"
      BY <1>2, <2>2 DEF FirstCompile
    <3> QED
      BY <1>1, <3>1 DEF CaseNow
  <2> QED
    BY <2>1, <2>2
<1>8. ASSUME NEW q \in Responses, NEW d \in Cases(q),
             case'[q][d] = "read", outcome[q][d] = "compile_error"
      PROVE  compile'[q] # 0 /\ compile'[q] <= d
  <2>1. CASE q = r /\ d = c
    BY <1>6, <1>8, <2>1
  <2>2. CASE q = r /\ d # c
    <3>1. compile[r] # 0 /\ compile[r] <= d
      BY <1>1, <1>8, <2>2 DEF ScoreInv, CompileInv, CaseNow
    <3>2. compile'[r] \in Nat /\ compile[r] \in Nat /\ d \in Nat
      BY <1>2, <1>5, <2>2 DEF FirstCompile
    <3>3. compile'[r] # 0 /\ compile'[r] <= compile[r]
      BY <1>6, <3>1
    <3>4. compile'[r] <= d
      BY <3>1, <3>2, <3>3
    <3> QED
      BY <2>2, <3>3, <3>4
  <2>3. CASE q # r
    <3>1. case[q][d] = "read" /\ compile'[q] = compile[q]
      BY <1>1, <1>2, <1>8, <2>3 DEF CaseNow
    <3>2. compile[q] # 0 /\ compile[q] <= d
      <4>1. CompileInv
        BY DEF ScoreInv
      <4> QED
        BY <1>8, <3>1, <4>1 DEF CompileInv
    <3> QED
      BY <3>1, <3>2
  <2> QED
    BY <2>1, <2>2, <2>3
<1>9. CompileInv'
  BY <1>3, <1>7, <1>8 DEF CompileInv, Cases
<1> QED
  BY <1>4, <1>9 DEF ScoreInv

LEMMA ScoreByCase ==
    ASSUME IndInv, ScoreInv, NEW r \in Responses, NEW c \in Cases(r), CaseStep(r, c)
    PROVE  ScoreInv'
<1>1. CASE Acquire(r, c)
  <2>1. CaseNow(r, c, "calling")
    BY <1>1, CaseMoves, Members, Zenon DEF Acquire
  <2> QED
    BY <1>1, <2>1, ScoreByCall DEF Acquire
<1>2. CASE Retry(r, c)
  <2>1. CaseNow(r, c, "calling")
    BY <1>2, CaseMoves, Members, Zenon DEF Retry
  <2> QED
    BY <1>2, <2>1, ScoreByCall DEF Retry
<1>3. ASSUME NEW result, case[r][c] = "calling", Return(r, c, result),
             UNCHANGED <<row, compile, score>>
      PROVE  ScoreInv'
  <2>1. CaseNow(r, c, "answered")
    BY <1>3, CaseMoves, Members, Zenon DEF Return
  <2>2. \E x : outcome' = [outcome EXCEPT ![r][c] = x]
    BY <1>3 DEF Return
  <2> QED
    BY <1>3, <2>1, <2>2, ScoreByCall
<1>4. CASE GatewayTimeout(r, c)
  <2>1. CASE attempts[r][c] < MaxRetries
    <3>1. CaseNow(r, c, "backoff")
      BY <1>4, <2>1, CaseMoves, Members, Zenon DEF GatewayTimeout
    <3> QED
      BY <1>4, <2>1, <3>1, ScoreByCall DEF GatewayTimeout
  <2>2. CASE ~(attempts[r][c] < MaxRetries)
    BY <1>3, <1>4, <2>2 DEF GatewayTimeout
  <2> QED
    BY <2>1, <2>2
<1>5. ASSUME NEW result \in Outcomes, Answer(r, c, result) PROVE ScoreInv'
  BY <1>3, <1>5 DEF Answer
<1> QED
  BY <1>1, <1>2, <1>4, <1>5, ScoreByRead DEF CaseStep

LEMMA ScoreStep == IndInv /\ ScoreInv /\ [Next]_vars => ScoreInv'
<1> SUFFICES ASSUME IndInv, ScoreInv, [Next]_vars PROVE ScoreInv'
  OBVIOUS
<1>1. CASE StartBatch
  BY <1>1 DEF StartBatch, Everywhere, ScoreInv, RowInv, CompileInv, ScoreOf, Cases
<1>2. CASE Finish
  <2>1. RowInv'
    BY <1>2 DEF Finish, Everywhere, ScoreInv, RowInv, Cases
  <2>2. CompileInv'
    BY <1>2, SizesAssumption
       DEF Finish, Everywhere, ScoreInv, CompileInv, IndInv, RowsTyped, Cases
  <2>3. \A q \in Responses : ScoreOf(q)'
    BY <1>2, ScoreKept DEF Finish, ScoreInv
  <2> QED
    BY <2>1, <2>2, <2>3 DEF ScoreInv
<1>3. CASE UNCHANGED vars
  <2>1. \A q \in Responses : ScoreOf(q)'
    BY <1>3, ScoreKept DEF vars, caseVars, ScoreInv
  <2> QED
    BY <1>3, <2>1 DEF vars, caseVars, ScoreInv, RowInv, CompileInv, Cases
<1> QED
  BY <1>1, <1>2, <1>3, ScoreByRow, ScoreByCase DEF Next

\* The score of a response is the number of its scored cases that passed before
\* the first compile error, in whatever order the threads return, whichever
\* calls fail or are sent again, and whoever runs out of time.
THEOREM AlwaysScoreOfCases == Spec => []ScoreOfCases
<1>1. ScoreInv => ScoreOfCases
  BY DEF ScoreInv, ScoreOf, Passed, ScoreOfCases
<1> QED
  BY <1>1, IndInit, IndStep, ScoreInit, ScoreStep, PTL DEF Spec

(***************************************************************************)
(* The token bucket: the inductive invariant.                              *)
(***************************************************************************)

\* How far a call is says how far its acquire is, and its release is sent when
\* it has returned; nothing is asked of a bucket that was not created.
CallInv ==
    /\ limit = 0 => \A c \in Calls : call[c] = "new"
    /\ opened # {} => limit > 0
    /\ \A c \in Calls :
          /\ call[c] = "new" => acquire[c] = "none"
          /\ call[c] \in {"running", "returned"} => acquire[c] = "over"
          /\ call[c] = "returned" <=> release[c] # "none"

TokenHolders == {c \in Calls : HoldsToken(c)}

\* TokensConserved alone is not inductive: a token is taken by a call that did
\* not hold one and given back by one that did because of CallInv.
BucketInv ==
    /\ BucketTypeOK /\ CallInv
    /\ IsFiniteSet(TokenHolders) /\ tokens + Cardinality(TokenHolders) = limit

LEMMA BucketInvInit == BucketInit => BucketInv
<1> SUFFICES ASSUME BucketInit PROVE BucketInv
  OBVIOUS
<1>1. BucketTypeOK /\ CallInv
  BY DEF BucketInit, BucketTypeOK, CallInv, CallStates, TaskStates
<1>2. TokenHolders = {}
  BY DEF BucketInit, TokenHolders, HoldsToken
<1> QED
  BY <1>1, <1>2, FS_EmptySet DEF BucketInit, BucketInv

\* A step that moves no token leaves the holders and the sum alone.
LEMMA SameHolders ==
    ASSUME BucketInv, UNCHANGED <<limit, tokens>>,
           \A c \in Calls : HoldsToken(c)' <=> HoldsToken(c)
    PROVE  IsFiniteSet(TokenHolders)' /\ (tokens + Cardinality(TokenHolders) = limit)'
<1>1. TokenHolders' = TokenHolders
  BY DEF TokenHolders
<1> QED
  BY <1>1 DEF BucketInv

LEMMA OpenPoolKeeps ==
    ASSUME BucketInv, NEW p \in Pools, OpenPool(p) PROVE BucketInv'
<1> USE PoolAssumption DEF BucketInv, OpenPool
<1>1. BucketTypeOK' /\ CallInv'
  BY DEF BucketTypeOK, CallInv
<1>2. CASE limit = 0
  <2>1. TokenHolders' = {}
    BY <1>2 DEF TokenHolders, HoldsToken, CallInv
  <2> QED
    BY <1>1, <1>2, <2>1, FS_EmptySet
<1>3. CASE limit # 0
  <2>1. \A c \in Calls : HoldsToken(c)' <=> HoldsToken(c)
    BY DEF HoldsToken
  <2> QED
    BY <1>1, <1>3, <2>1, SameHolders
<1> QED
  BY <1>2, <1>3

LEMMA CallKeeps ==
    ASSUME BucketInv, NEW c \in Calls, CallStep(c) PROVE BucketInv'
<1>1. CASE StartCall(c)
  <2>1. BucketTypeOK'
    BY <1>1 DEF BucketInv, BucketTypeOK, StartCall, CallStates, TaskStates
  <2>2. CallInv'
    BY <1>1 DEF BucketInv, BucketTypeOK, CallInv, StartCall
  <2>3. \A d \in Calls : HoldsToken(d)' <=> HoldsToken(d)
    BY <1>1 DEF BucketInv, BucketTypeOK, CallInv, StartCall, HoldsToken
  <2> QED
    BY <1>1, <2>1, <2>2, <2>3, SameHolders DEF BucketInv, StartCall
<1>2. CASE RunFunction(c)
  <2>1. BucketTypeOK'
    BY <1>2 DEF BucketInv, BucketTypeOK, RunFunction, CallStates
  <2>2. CallInv'
    BY <1>2 DEF BucketInv, BucketTypeOK, CallInv, RunFunction, MayRun
  <2>3. \A d \in Calls : HoldsToken(d)' <=> HoldsToken(d)
    BY <1>2 DEF BucketInv, BucketTypeOK, RunFunction, HoldsToken
  <2> QED
    BY <1>2, <2>1, <2>2, <2>3, SameHolders DEF BucketInv, RunFunction
<1>3. ASSUME NEW ok \in BOOLEAN, EndCall(c, ok) PROVE BucketInv'
  <2>1. BucketTypeOK'
    BY <1>3 DEF BucketInv, BucketTypeOK, EndCall, ReleaseState, CallStates, TaskStates
  <2>2. CallInv'
    BY <1>3 DEF BucketInv, BucketTypeOK, CallInv, EndCall, ReleaseState
  <2>3. \A d \in Calls : HoldsToken(d)' <=> HoldsToken(d)
    BY <1>3 DEF BucketInv, BucketTypeOK, CallInv, EndCall, ReleaseState, HoldsToken
  <2> QED
    BY <1>3, <2>1, <2>2, <2>3, SameHolders DEF BucketInv, EndCall
<1> QED
  BY <1>1, <1>2, <1>3 DEF CallStep

LEMMA TakeTokenKeeps ==
    ASSUME BucketInv, NEW c \in Calls, TakeToken(c) PROVE BucketInv'
<1>1. BucketTypeOK'
  BY DEF BucketInv, BucketTypeOK, TakeToken, TokenFree, TaskStates
<1>2. CallInv'
  BY DEF BucketInv, BucketTypeOK, CallInv, TakeToken
<1>3. c \notin TokenHolders /\ TokenHolders' = TokenHolders \cup {c}
  BY DEF BucketInv, BucketTypeOK, CallInv, TakeToken, TokenHolders, HoldsToken
<1>4. IsFiniteSet(TokenHolders) /\ tokens + Cardinality(TokenHolders) = limit
      /\ tokens' = tokens - 1
      /\ limit' = limit /\ tokens \in Nat /\ limit \in Nat
  BY DEF BucketInv, BucketTypeOK, TakeToken
<1>5. IsFiniteSet(TokenHolders') /\ Cardinality(TokenHolders') = Cardinality(TokenHolders) + 1
  BY <1>3, <1>4, FS_AddElement
<1>6. Cardinality(TokenHolders) \in Nat
  BY <1>4, FS_CardinalityType
<1> QED
  BY <1>1, <1>2, <1>4, <1>5, <1>6 DEF BucketInv

LEMMA ServeReleaseKeeps ==
    ASSUME BucketInv, NEW c \in Calls, ServeRelease(c) PROVE BucketInv'
<1>1. BucketTypeOK'
  BY DEF BucketInv, BucketTypeOK, ServeRelease, TaskStates
<1>2. CallInv'
  BY DEF BucketInv, BucketTypeOK, CallInv, ServeRelease
<1>3. c \in TokenHolders /\ TokenHolders' = TokenHolders \ {c}
  BY DEF BucketInv, BucketTypeOK, CallInv, ServeRelease, TokenHolders, HoldsToken
<1>4. IsFiniteSet(TokenHolders) /\ tokens + Cardinality(TokenHolders) = limit
      /\ tokens' = tokens + 1
      /\ limit' = limit /\ tokens \in Nat /\ limit \in Nat
  BY DEF BucketInv, BucketTypeOK, ServeRelease
<1>5. IsFiniteSet(TokenHolders') /\ Cardinality(TokenHolders') = Cardinality(TokenHolders) - 1
  BY <1>3, <1>4, FS_RemoveElement
<1>6. Cardinality(TokenHolders) \in Nat
  BY <1>4, FS_CardinalityType
<1> QED
  BY <1>1, <1>2, <1>4, <1>5, <1>6 DEF BucketInv

LEMMA BucketKeeps ==
    ASSUME BucketInv, NEW c \in Calls, BucketStep(c) PROVE BucketInv'
<1>1. CASE ServeAcquire(c)
  <2>1. BucketTypeOK'
    BY <1>1 DEF BucketInv, BucketTypeOK, ServeAcquire, TaskStates
  <2>2. CallInv'
    BY <1>1 DEF BucketInv, BucketTypeOK, CallInv, ServeAcquire
  <2>3. \A d \in Calls : HoldsToken(d)' <=> HoldsToken(d)
    BY <1>1 DEF BucketInv, BucketTypeOK, ServeAcquire, HoldsToken
  <2> QED
    BY <1>1, <2>1, <2>2, <2>3, SameHolders DEF BucketInv, ServeAcquire
<1>2. CASE CountTaken(c)
  <2>1. BucketTypeOK'
    BY <1>2 DEF BucketInv, BucketTypeOK, CountTaken, TaskStates
  <2>2. CallInv'
    BY <1>2 DEF BucketInv, BucketTypeOK, CallInv, CountTaken
  <2>3. \A d \in Calls : HoldsToken(d)' <=> HoldsToken(d)
    BY <1>2 DEF BucketInv, BucketTypeOK, CountTaken, HoldsToken
  <2> QED
    BY <1>2, <2>1, <2>2, <2>3, SameHolders DEF BucketInv, CountTaken
<1>3. CASE CountReleased(c)
  <2>1. BucketTypeOK'
    BY <1>3 DEF BucketInv, BucketTypeOK, CountReleased, CountAfterRelease, TaskStates
  <2>2. CallInv'
    BY <1>3 DEF BucketInv, BucketTypeOK, CallInv, CountReleased
  <2>3. \A d \in Calls : HoldsToken(d)' <=> HoldsToken(d)
    BY <1>3 DEF BucketInv, BucketTypeOK, CallInv, CountReleased, HoldsToken
  <2> QED
    BY <1>3, <2>1, <2>2, <2>3, SameHolders DEF BucketInv, CountReleased
<1> QED
  BY <1>1, <1>2, <1>3, TakeTokenKeeps, ServeReleaseKeeps DEF BucketStep

LEMMA BucketInvStep == BucketInv /\ [BucketNext]_bucketVars => BucketInv'
<1> SUFFICES ASSUME BucketInv, [BucketNext]_bucketVars PROVE BucketInv'
  OBVIOUS
<1>1. CASE UNCHANGED bucketVars
  <2>1. BucketTypeOK' /\ CallInv'
    BY <1>1 DEF bucketVars, BucketInv, BucketTypeOK, CallInv
  <2>2. \A d \in Calls : HoldsToken(d)' <=> HoldsToken(d)
    BY <1>1 DEF bucketVars, HoldsToken
  <2> QED
    BY <1>1, <2>1, <2>2, SameHolders DEF bucketVars, BucketInv
<1> QED
  BY <1>1, OpenPoolKeeps, CallKeeps, BucketKeeps DEF BucketNext

\* Every variable keeps its type; in particular the semaphore's value never
\* becomes negative.
THEOREM BucketTypeCorrect == BucketSpec => []BucketTypeOK
<1>1. BucketInv => BucketTypeOK
  BY DEF BucketInv
<1> QED
  BY <1>1, BucketInvInit, BucketInvStep, PTL DEF BucketSpec

\* Tokens are neither lost nor made, in whatever order acquires and releases
\* are served and whether or not the function raised.
THEOREM AlwaysTokensConserved == BucketSpec => []TokensConserved
<1>1. BucketInv => TokensConserved
  BY DEF BucketInv, TokensConserved, TokenHolders
<1> QED
  BY <1>1, BucketInvInit, BucketInvStep, PTL DEF BucketSpec

\* No more functions run at a time than the bucket was created with: each of
\* them holds a token.
THEOREM AlwaysWithinBucket == BucketSpec => []WithinBucket
<1>1. ASSUME BucketInv PROVE WithinBucket
  <2>1. AllRunning \subseteq TokenHolders
    BY <1>1 DEF BucketInv, CallInv, AllRunning, Running, TokenHolders, HoldsToken
  <2>2. IsFiniteSet(TokenHolders) /\ tokens + Cardinality(TokenHolders) = limit /\ tokens \in Nat
    BY <1>1 DEF BucketInv, BucketTypeOK
  <2>3. Cardinality(AllRunning) <= Cardinality(TokenHolders)
    BY <2>1, <2>2, FS_Subset
  <2>4. Cardinality(TokenHolders) \in Nat /\ Cardinality(AllRunning) \in Nat
    BY <2>1, <2>2, FS_Subset, FS_CardinalityType
  <2> QED
    BY <2>2, <2>3, <2>4 DEF WithinBucket
<1> QED
  BY <1>1, BucketInvInit, BucketInvStep, PTL DEF BucketSpec
=============================================================================
