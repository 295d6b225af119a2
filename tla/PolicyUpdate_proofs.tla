------------------------- MODULE PolicyUpdate_proofs -------------------------
(***************************************************************************)
(* Theorems about PolicyUpdate, for every shape of the batch, every        *)
(* method and every set of probabilities.                                  *)
(***************************************************************************)
EXTENDS PolicyUpdate, SequenceTheorems, FiniteSetTheorems, WellFoundedInduction, TLAPS

(***************************************************************************)
(* The inductive invariants.                                               *)
(***************************************************************************)

TypeInv ==
    /\ setting \in Settings
    /\ old \in [Tokens -> Probs]
    /\ stage \in {"advantage", "update", "done"}
    /\ kept \in [Tokens -> Int] /\ adv \in [Tokens -> Int]
    /\ epoch \in 1..setting.epochs /\ mini \in Nat \ {0}
    /\ turns \in [Tokens -> Nat]

\* A pass gives its advantage to the tokens of its mask, and no token is in two.
PassInv ==
    /\ stage = "advantage" => epoch = 1 /\ mini = 1
    /\ stage = "update" =>
          /\ masks \in Seq(SUBSET Tokens) /\ Len(masks) \in {1, 2}
          /\ Len(masks) = 2 =>
                masks[1] \cap masks[2] = {} /\ masks[1] \cup masks[2] = Tokens
          /\ adv = Masked(kept, masks[1])

\* The mini-batches with token t that this pass has done.
Before(t) == (epoch - 1) + (IF t[1] <= (mini - 1) * setting.mini THEN 1 ELSE 0)

\* How often a token has had its turn in the passes that are done and in this one.
Expected(t) ==
    IF t \in masks[1] THEN Before(t) ELSE IF Len(masks) = 2 THEN 0 ELSE setting.epochs

TurnInv ==
    \A t \in Tokens :
        turns[t] = IF stage = "advantage" \/ kept[t] = 0 THEN 0
                   ELSE IF stage = "update" THEN Expected(t) ELSE setting.epochs

OnceInv == TypeInv /\ PassInv /\ TurnInv

(***************************************************************************)
(* Lemmas.                                                                 *)
(***************************************************************************)

\* What the configurations are made of.
LEMMA SettingFacts ==
    ASSUME NEW s \in Settings
    PROVE  /\ s.rows \in Nat \ {0} /\ s.length \in Nat \ {0} /\ s.mini \in Nat \ {0}
           /\ s.micro \in Nat \ {0} /\ s.epochs \in Nat \ {0} /\ s.threshold \in Int
           /\ s.mini % s.micro = 0
BY SettingsAssumption

\* A token of the batch is a token of the rows its own row is among.
LEMMA TokenRow ==
    ASSUME NEW t \in Tokens, NEW rows
    PROVE  /\ t[1] \in Rows
           /\ t \in TokensOf(rows) <=> t[1] \in rows
BY DEF Tokens, TokensOf

\* Probabilities are numbers of parts.
LEMMA ProbsInt == \A p \in Probs : p \in Int /\ p > 0
<1>1. Probs \subseteq 1..Whole /\ Whole \in Nat
  BY UnitsAssumption
<1> QED
  BY <1>1

\* What is left of one pass, and of two.
LEMMA TailOfMasks ==
    ASSUME NEW S, NEW q \in Seq(S)
    PROVE  /\ Len(q) = 1 => Tail(q) = <<>>
           /\ Len(q) = 2 => Tail(q) = <<q[2]>>
<1>1. ASSUME Len(q) = 1
      PROVE  Tail(q) = <<>>
  <2>1. q # <<>>
    BY <1>1
  <2>2. Len(Tail(q)) = Len(q) - 1 /\ Tail(q) \in Seq(S)
    BY <2>1, HeadTailProperties
  <2>3. Len(Tail(q)) = 0
    BY <1>1, <2>2
  <2> QED
    BY <2>2, <2>3, EmptySeq
<1>2. ASSUME Len(q) = 2
      PROVE  Tail(q) = <<q[2]>>
  <2>1. q # <<>>
    BY <1>2
  <2>2. Len(Tail(q)) = 1 /\ Tail(q) \in Seq(S) /\ Tail(q)[1] = q[2]
    BY <1>2, <2>1, HeadTailProperties
  <2>3. q[2] \in S
    BY <1>2
  <2>4. <<q[2]>> \in Seq(S) /\ Len(<<q[2]>>) = 1 /\ <<q[2]>>[1] = q[2]
    BY <2>3
  <2>5. \A i \in 1..Len(Tail(q)) : Tail(q)[i] = <<q[2]>>[i]
    <3>1. 1..1 = {1}
      OBVIOUS
    <3> QED
      BY <2>2, <2>4, <3>1, Zenon
  <2> QED
    BY <2>2, <2>4, <2>5, SeqEqual, Zenon
<1> QED
  BY <1>1, <1>2

\* The advantages the driver makes are numbers.
LEMMA ReweightedInt ==
    ASSUME TypeInv, NEW t \in Tokens
    PROVE  Reweighted(t) \in Int
<1>1. adv[t] \in Int /\ old[t] \in Int
  BY ProbsInt DEF TypeInv
<1>2. ArUnit * Whole \in Nat \ {0} /\ ArAlpha \in Int /\ ArTau \in Int /\ Whole \in Int
  BY UnitsAssumption
<1>3. adv[t] * (ArAlpha * old[t] + ArTau * Whole) \in Int
  BY <1>1, <1>2
<1> QED
  BY <1>1, <1>2, <1>3 DEF Reweighted

\* Every token is in one of the masks of Lopti.
LEMMA PassesSplit ==
    ASSUME TypeInv
    PROVE  /\ Passes \in Seq(SUBSET Tokens) /\ Len(Passes) \in {1, 2}
           /\ Len(Passes) = 1 => Passes[1] = Tokens
           /\ Len(Passes) = 2 =>
                 Passes[1] \cap Passes[2] = {} /\ Passes[1] \cup Passes[2] = Tokens
<1>1. setting.threshold \in Int
  BY SettingFacts DEF TypeInv
<1>2. Threshold \in Int
  BY <1>1 DEF Threshold
<1>3. \A t \in Tokens : old[t] \in Int
  BY ProbsInt DEF TypeInv
<1>4. LowProb \cap HighProb = {} /\ LowProb \cup HighProb = Tokens
  BY <1>2, <1>3 DEF LowProb, HighProb
<1>5. CASE setting.threshold = 0
  BY <1>5 DEF Passes
<1>6. CASE setting.threshold > 0
  <2>1. Passes = <<LowProb, HighProb>>
    BY <1>6 DEF Passes
  <2> QED
    BY <2>1, <1>4
<1>7. CASE setting.threshold < 0
  <2>1. Passes = <<HighProb, LowProb>>
    BY <1>7, <1>1 DEF Passes
  <2> QED
    BY <2>1, <1>4
<1> QED
  BY <1>1, <1>5, <1>6, <1>7

(***************************************************************************)
(* Every token once.                                                       *)
(***************************************************************************)

LEMMA OnceInit == Init => OnceInv
<1> SUFFICES ASSUME Init
             PROVE  OnceInv
  OBVIOUS
<1>1. setting.epochs \in Nat \ {0}
  BY SettingFacts DEF Init
<1>2. PICK sign \in [Rows -> {-1, 0, 1}] : adv = [t \in Tokens |-> ArUnit * Whole * sign[t[1]]]
  BY DEF Init
<1>3. \A t \in Tokens : ArUnit * Whole * sign[t[1]] \in Int
  <2> SUFFICES ASSUME NEW t \in Tokens
               PROVE  ArUnit * Whole * sign[t[1]] \in Int
    OBVIOUS
  <2>1. sign[t[1]] \in Int
    BY <1>2, TokenRow
  <2> QED
    BY <2>1, UnitsAssumption
<1>4. TypeInv
  BY <1>1, <1>2, <1>3 DEF Init, TypeInv
<1>5. PassInv
  BY DEF Init, PassInv
<1>6. TurnInv
  BY DEF Init, TurnInv
<1> QED
  BY <1>4, <1>5, <1>6 DEF OnceInv

LEMMA OncePrepare ==
    ASSUME OnceInv, Prepare
    PROVE  OnceInv'
<1>1. setting' = setting /\ Tokens' = Tokens
  BY DEF Prepare, Tokens, TokensOf, Rows
<1>2. kept' \in [Tokens -> Int]
  BY ReweightedInt DEF OnceInv, Prepare
<1>3. masks' = Passes /\ masks' # <<>>
  BY PassesSplit DEF OnceInv, Prepare
<1>4. adv' = [t \in Tokens |-> IF t \in masks'[1] THEN kept'[t] ELSE 0]
  BY <1>3 DEF Prepare, Masked
<1>5. TypeInv'
  BY <1>1, <1>2, <1>4 DEF OnceInv, TypeInv, Prepare
<1>6. PassInv'
  <2>1. adv' = Masked(kept, masks[1])'
    BY <1>1, <1>4 DEF Masked
  <2> QED
    BY <1>1, <1>3, <2>1, PassesSplit DEF OnceInv, PassInv, Prepare
<1>7. TurnInv'
  <2> SUFFICES ASSUME NEW t \in Tokens, kept'[t] # 0
               PROVE  turns'[t] = Expected(t)'
    BY <1>1 DEF OnceInv, TurnInv, Prepare
  <2>1. turns'[t] = 0
    BY DEF OnceInv, TurnInv, Prepare
  <2>2. epoch' = 1 /\ mini' = 1
    BY DEF OnceInv, PassInv, Prepare
  <2>3. t[1] \in Nat \ {0} /\ setting'.mini \in Nat
    BY <1>1, TokenRow, SettingFacts DEF Rows, OnceInv, TypeInv
  <2>4. Before(t)' = 0
    BY <2>2, <2>3 DEF Before
  <2>5. Len(masks') = 1 => t \in masks'[1]
    BY <1>3, PassesSplit DEF OnceInv
  <2>6. Len(masks') \in {1, 2}
    BY <1>3, PassesSplit DEF OnceInv
  <2> QED
    BY <2>1, <2>4, <2>5, <2>6 DEF Expected
<1> QED
  BY <1>5, <1>6, <1>7 DEF OnceInv

LEMMA OnceStep ==
    ASSUME OnceInv, OptimizerStep
    PROVE  OnceInv'
<1> DEFINE m == setting.mini
           E == setting.epochs
<1>1. setting' = setting /\ Tokens' = Tokens /\ kept' = kept
  BY DEF OptimizerStep, Tokens, TokensOf, Rows
<1>2. m \in Nat \ {0} /\ E \in Nat \ {0} /\ mini \in Nat \ {0} /\ epoch \in 1..E
      /\ setting.rows \in Nat
  BY SettingFacts DEF OnceInv, TypeInv
<1>3. stage = "update" /\ masks \in Seq(SUBSET Tokens) /\ Len(masks) \in {1, 2}
      /\ (Len(masks) = 2 => masks[1] \cap masks[2] = {} /\ masks[1] \cup masks[2] = Tokens)
      /\ adv = Masked(kept, masks[1])
  BY DEF OnceInv, PassInv, OptimizerStep, StepDue
<1>4. LastMini <=> mini * m >= setting.rows
  BY DEF LastMini
<1>5. LastEpoch <=> epoch = E
  BY <1>2 DEF LastEpoch
<1>6. \A t \in Tokens : t[1] \in 1..setting.rows /\ turns[t] \in Nat
  BY TokenRow DEF Rows, OnceInv, TypeInv
<1>7. \A t \in Tokens :
         turns'[t] = IF t[1] \in MiniRows /\ t \in masks[1] /\ kept[t] # 0
                     THEN turns[t] + 1 ELSE turns[t]
  BY <1>3, TokenRow DEF OptimizerStep, Masked
<1>8. \A t \in Tokens : t[1] \in MiniRows <=> t[1] > (mini - 1) * m /\ t[1] <= mini * m
  BY <1>2, <1>6 DEF MiniRows
<1>9. (mini - 1) * m \in Int /\ mini * m \in Int /\ (mini - 1) * m <= mini * m
  BY <1>2
<1>10. turns' \in [Tokens -> Nat]
  BY <1>6 DEF OptimizerStep
<1>11. \A t \in Tokens :
          turns[t] = IF kept[t] = 0 THEN 0
                     ELSE IF t \in masks[1]
                          THEN (epoch - 1) + (IF t[1] <= (mini - 1) * m THEN 1 ELSE 0)
                          ELSE IF Len(masks) = 2 THEN 0 ELSE E
  BY <1>3 DEF OnceInv, TurnInv, Expected, Before
<1>12. \A t \in Tokens :
          turns'[t] = IF kept[t] = 0 THEN 0
                      ELSE IF t \in masks[1]
                           THEN (epoch - 1) + (IF t[1] <= mini * m THEN 1 ELSE 0)
                           ELSE IF Len(masks) = 2 THEN 0 ELSE E
  <2> SUFFICES ASSUME NEW t \in Tokens
               PROVE  turns'[t] = IF kept[t] = 0 THEN 0
                         ELSE IF t \in masks[1]
                              THEN (epoch - 1) + (IF t[1] <= mini * m THEN 1 ELSE 0)
                              ELSE IF Len(masks) = 2 THEN 0 ELSE E
    OBVIOUS
  <2> HIDE DEF m, E
  <2>1. t[1] \in Int /\ epoch \in Int
    BY <1>2, <1>6
  <2> QED
    BY <1>7, <1>8, <1>9, <1>11, <2>1
<1>13. CASE ~LastMini
  <2>1. masks' = masks /\ stage' = stage /\ adv' = adv /\ epoch' = epoch /\ mini' = mini + 1
    BY <1>13 DEF OptimizerStep
  <2>2. TypeInv'
    BY <1>1, <1>2, <1>10, <2>1 DEF OnceInv, TypeInv, OptimizerStep
  <2>3. PassInv'
    BY <1>1, <1>3, <2>1 DEF PassInv, Masked
  <2>4. (mini' - 1) * setting'.mini = mini * m
    BY <1>1, <1>2, <2>1
  <2>5. TurnInv'
    BY <1>1, <1>3, <1>12, <2>1, <2>4 DEF TurnInv, Expected, Before
  <2> QED
    BY <2>2, <2>3, <2>5 DEF OnceInv
<1>14. ASSUME LastMini
       PROVE  \A t \in Tokens : t[1] <= mini * m /\ ~(t[1] <= (1 - 1) * m)
  BY <1>2, <1>4, <1>6, <1>9, <1>14
<1>15. CASE LastMini /\ ~LastEpoch
  <2>1. masks' = masks /\ stage' = stage /\ adv' = adv /\ epoch' = epoch + 1 /\ mini' = 1
    BY <1>15 DEF OptimizerStep
  <2>2. TypeInv'
    BY <1>1, <1>2, <1>5, <1>10, <1>15, <2>1 DEF OnceInv, TypeInv, OptimizerStep
  <2>3. PassInv'
    BY <1>1, <1>3, <2>1 DEF PassInv, Masked
  <2>4. \A t \in Tokens : Before(t)' = (epoch - 1) + 1
    BY <1>1, <1>2, <1>14, <1>15, <2>1 DEF Before
  <2>5. TurnInv'
    BY <1>1, <1>3, <1>12, <1>14, <1>15, <2>1, <2>4 DEF TurnInv, Expected
  <2> QED
    BY <2>2, <2>3, <2>5 DEF OnceInv
<1>16. CASE LastMini /\ LastEpoch /\ Len(masks) = 2
  <2>1. masks' = <<masks[2]>> /\ masks' # <<>>
    <3>1. masks' = Tail(masks)
      BY <1>16 DEF OptimizerStep
    <3>2. Tail(masks) = <<masks[2]>>
      BY <1>3, <1>16, TailOfMasks
    <3> QED
      BY <3>1, <3>2
  <2>2. stage' = "update" /\ epoch' = 1 /\ mini' = 1 /\ adv' = Masked(kept, masks[2])
    BY <1>3, <1>16, <2>1 DEF OptimizerStep
  <2>3. TypeInv'
    BY <1>1, <1>2, <1>10, <2>2 DEF OnceInv, TypeInv, OptimizerStep, Masked
  <2>4. PassInv'
    BY <1>1, <1>3, <1>16, <2>1, <2>2 DEF PassInv, Masked
  <2>5. \A t \in Tokens : Before(t)' = 0
    BY <1>1, <1>2, <1>14, <1>16, <2>2 DEF Before
  <2>6. TurnInv'
    <3> SUFFICES ASSUME NEW t \in Tokens, kept[t] # 0
                 PROVE  turns'[t] = Expected(t)'
      BY <1>1, <1>12, <2>2 DEF TurnInv
    <3>1. Expected(t)' = IF t \in masks[2] THEN 0 ELSE E
      BY <1>1, <2>1, <2>5 DEF Expected
    <3>2. (epoch - 1) + 1 = E
      BY <1>2, <1>5, <1>16
    <3> QED
      BY <1>3, <1>12, <1>14, <1>16, <3>1, <3>2
  <2> QED
    BY <2>3, <2>4, <2>6 DEF OnceInv
<1>17. CASE LastMini /\ LastEpoch /\ Len(masks) = 1
  <2>1. masks' = <<>>
    BY <1>3, <1>17, TailOfMasks DEF OptimizerStep
  <2>2. stage' = "done" /\ epoch' = 1 /\ mini' = 1 /\ adv' = kept
    BY <1>17, <2>1 DEF OptimizerStep
  <2>3. TypeInv'
    BY <1>1, <1>2, <1>10, <2>2 DEF OnceInv, TypeInv, OptimizerStep
  <2>4. PassInv'
    BY <2>2 DEF PassInv
  <2>5. (epoch - 1) + 1 = E
    BY <1>2, <1>5, <1>17
  <2>6. TurnInv'
    BY <1>1, <1>12, <1>14, <1>17, <2>2, <2>5 DEF TurnInv
  <2> QED
    BY <2>3, <2>4, <2>6 DEF OnceInv
<1> QED
  BY <1>3, <1>13, <1>15, <1>16, <1>17

LEMMA OnceNext == OnceInv /\ [Next]_vars => OnceInv'
<1> SUFFICES ASSUME OnceInv, [Next]_vars
             PROVE  OnceInv'
  OBVIOUS
<1>1. CASE Prepare
  BY <1>1, OncePrepare
<1>2. CASE Backward
  BY <1>2 DEF Backward, OnceInv, TypeInv, PassInv, TurnInv, Expected, Before, Masked, Tokens,
     TokensOf, Rows
<1>3. CASE OptimizerStep
  BY <1>3, OnceStep
<1>4. CASE UNCHANGED vars
  BY <1>4 DEF vars, OnceInv, TypeInv, PassInv, TurnInv, Expected, Before, Masked, Tokens,
     TokensOf, Rows
<1> QED
  BY <1>1, <1>2, <1>3, <1>4 DEF Next

LEMMA OnceAlways == Spec => []OnceInv
BY OnceInit, OnceNext, PTL DEF Spec

\* Over a whole step of the trainer every token with an advantage is in one
\* mini-batch of each epoch, whatever the threshold of Lopti and however the
\* passes move the probabilities: ray_trainer.py computes the masks once.
THEOREM AlwaysEachTokenOnce == Spec => []EachTokenOnce
<1>1. OnceInv => EachTokenOnce
  BY DEF OnceInv, TurnInv, EachTokenOnce
<1> QED
  BY <1>1, OnceAlways, PTL

(***************************************************************************)
(* Micro-batches.                                                          *)
(***************************************************************************)

\* The rows of this mini-batch that have been through the backward pass.
FirstRow == (mini - 1) * setting.mini
DoneRows == (FirstRow + 1)..(FirstRow + (micro - 1) * setting.micro)

\* The gradient accumulated so far is that of the tokens chosen so far in the
\* whole mini-batch: nothing in it depends on where the micro-batches end.
MicroInv ==
    /\ prob \in [Tokens -> Probs]
    /\ micro \in 1..(NumMicros + 1)
    /\ stage # "update" => chosen = {}
    /\ chosen \subseteq TokensOf(DoneRows)
    /\ OfEachResponse /\ ~Adapts =>
          grad \in [Tokens -> Int] /\ grad = Gradient(MiniRows, chosen, 1)

LEMMA MaxOfTwo ==
    ASSUME NEW a \in Int, NEW b \in Int
    PROVE  Max({a, b}) \in Int /\ Min({a, b}) \in Int
<1>1. \E x \in {a, b} : \A y \in {a, b} : x >= y
  OBVIOUS
<1>2. \E x \in {a, b} : \A y \in {a, b} : x =< y
  OBVIOUS
<1>3. Max({a, b}) \in {a, b}
  BY <1>1 DEF Max
<1>4. Min({a, b}) \in {a, b}
  BY <1>2 DEF Min
<1> QED
  BY <1>3, <1>4

LEMMA NumMicrosExact ==
    ASSUME TypeInv
    PROVE  /\ NumMicros \in Nat \ {0}
           /\ setting.micro * NumMicros = setting.mini
<1>1. setting.mini \in Nat \ {0} /\ setting.micro \in Nat \ {0}
      /\ setting.mini % setting.micro = 0
  BY SettingFacts DEF TypeInv
<1>2. ASSUME NEW a \in Nat \ {0}, NEW b \in Nat \ {0}, a % b = 0
      PROVE  a \div b \in Nat \ {0} /\ b * (a \div b) = a
  BY <1>2
<1> QED
  BY <1>1, <1>2 DEF NumMicros

LEMMA RowCounts ==
    ASSUME TypeInv, micro \in Nat \ {0}
    PROVE  /\ IsFiniteSet(MicroRows) /\ Cardinality(MicroRows) = setting.micro
           /\ IsFiniteSet(MiniRows) /\ Cardinality(MiniRows) = setting.mini
<1>1. setting.mini \in Nat \ {0} /\ setting.micro \in Nat \ {0} /\ mini \in Nat \ {0}
  BY SettingFacts DEF TypeInv
<1> DEFINE first == (mini - 1) * setting.mini + (micro - 1) * setting.micro
<1>2. first \in Int /\ MicroRows = (first + 1)..(first + setting.micro)
  BY <1>1 DEF MicroRows
<1>3. FirstRow \in Int /\ MiniRows = (FirstRow + 1)..(FirstRow + setting.mini)
  <2>1. mini * setting.mini = (mini - 1) * setting.mini + setting.mini
    BY <1>1
  <2> QED
    BY <1>1, <2>1 DEF MiniRows, FirstRow
<1>4. ASSUME NEW a \in Int, NEW n \in Nat \ {0}
      PROVE  IsFiniteSet((a + 1)..(a + n)) /\ Cardinality((a + 1)..(a + n)) = n
  <2>1. a + 1 \in Int /\ a + n \in Int /\ ~(a + 1 > a + n) /\ (a + n) - (a + 1) + 1 = n
    BY <1>4
  <2> QED
    BY <2>1, FS_Interval
<1> QED
  BY <1>1, <1>2, <1>3, <1>4

\* A micro-batch adds its rows to those that are done.
LEMMA RowsOfMicro ==
    ASSUME TypeInv, micro \in Nat \ {0}, micro' = micro + 1, UNCHANGED <<setting, mini>>
    PROVE  /\ DoneRows' = DoneRows \cup MicroRows
           /\ DoneRows \cap MicroRows = {}
<1>1. setting.micro \in Nat \ {0} /\ FirstRow \in Int /\ FirstRow' = FirstRow
  BY SettingFacts DEF FirstRow, TypeInv
<1> DEFINE m == (micro - 1) * setting.micro
<1>2. m \in Nat /\ (micro' - 1) * setting'.micro = m + setting.micro
  BY <1>1
<1> HIDE DEF m
<1>3. /\ DoneRows = (FirstRow + 1)..(FirstRow + m)
      /\ DoneRows' = (FirstRow + 1)..(FirstRow + (m + setting.micro))
      /\ MicroRows = ((FirstRow + m) + 1)..((FirstRow + m) + setting.micro)
  BY <1>1, <1>2 DEF DoneRows, MicroRows, FirstRow, m
<1> QED
  BY <1>1, <1>2, <1>3

LEMMA PushSame ==
    ASSUME ~Adapts, NEW t, NEW rows1, NEW rows2
    PROVE  Push(t, rows1) = Push(t, rows2)
BY DEF Adapts, Push, PushOfPPO, Losses2Greater, LowClip, HighClip

LEMMA PushInt ==
    ASSUME TypeInv, prob \in [Tokens -> Probs], ~Adapts, NEW t \in Tokens, NEW rows
    PROVE  Push(t, rows) \in Int
<1>1. adv[t] \in Int /\ old[t] \in Int /\ old[t] > 0 /\ prob[t] \in Int /\ One \in Int
  <2>1. One \in Int
    BY UnitsAssumption DEF One
  <2> QED
    BY <2>1, ProbsInt DEF TypeInv
<1>2. Ratio(t) \in Int
  BY <1>1 DEF Ratio
<1>3. PushOfPPO(t, rows) \in Int
  BY <1>1, <1>2 DEF PushOfPPO
<1>4. IsLow \in Int /\ IsHigh \in Int
  BY UnitsAssumption
<1>5. Bounded(Ratio(t), One - IsLow, One + IsHigh) \in Int
  <2>1. One + IsHigh \in Int /\ One - IsLow \in Int
    BY <1>1, <1>4
  <2>2. Min({One + IsHigh, Ratio(t)}) \in Int
    BY <1>2, <2>1, MaxOfTwo
  <2>3. Max({One - IsLow, Min({One + IsHigh, Ratio(t)})}) \in Int
    BY <2>1, <2>2, MaxOfTwo
  <2> QED
    BY <2>3 DEF Bounded
<1>6. PushOfCISPO(t) \in Int
  BY <1>1, <1>5 DEF PushOfCISPO
<1> QED
  BY <1>3, <1>6 DEF Push

\* In the modes that average over responses the divisor of a micro-batch, times
\* the number of micro-batches, is that of the mini-batch.
LEMMA DivisorOfMicro ==
    ASSUME TypeInv, MicroInv, OfEachResponse,
           NEW sel \in SUBSET TokensOf(MicroRows), NEW t \in sel
    PROVE  /\ Divisor(t, MicroRows, sel) * Accumulation
                  = Divisor(t, MiniRows, chosen \cup sel) * 1
           /\ Divisor(t, MicroRows, sel) * Accumulation \in Nat \ {0}
<1>1. /\ Cardinality(MicroRows) = setting.micro /\ IsFiniteSet(MicroRows)
      /\ Cardinality(MiniRows) = setting.mini
      /\ setting.micro * Accumulation = setting.mini /\ Accumulation \in Nat \ {0}
      /\ setting.micro \in Nat \ {0} /\ setting.length \in Nat \ {0}
  BY RowCounts, NumMicrosExact, SettingFacts DEF MicroInv, TypeInv, Accumulation
<1> DEFINE own == sel \cap TokensOf({t[1]})
<1>2. (chosen \cup sel) \cap TokensOf({t[1]}) = own
  <2>1. t[1] \in MicroRows
    BY DEF TokensOf
  <2>2. t[1] \notin DoneRows
    <3>1. (micro - 1) * setting.micro \in Int /\ FirstRow \in Int
      BY <1>1, SettingFacts DEF FirstRow, MicroInv, TypeInv
    <3> QED
      BY <2>1, <3>1 DEF MicroRows, DoneRows, FirstRow
  <2>3. chosen \cap TokensOf({t[1]}) = {}
    BY <2>2 DEF MicroInv, TokensOf
  <2> QED
    BY <2>3
<1>3. Cardinality(own) \in Nat \ {0}
  <2>1. IsFiniteSet(1..setting.length)
    <3>1. setting.length \in Int /\ 1 \in Int
      BY <1>1
    <3> QED
      BY <3>1, FS_Interval
  <2>2. IsFiniteSet(MicroRows \X (1..setting.length))
    BY <1>1, <2>1, FS_Product
  <2>3. IsFiniteSet(own)
    BY <2>2, FS_Subset DEF TokensOf
  <2>4. t \in own
    BY DEF TokensOf
  <2> QED
    BY <2>3, <2>4, FS_EmptySet, FS_CardinalityType
<1>4. ASSUME NEW k \in Nat \ {0}
      PROVE  /\ (setting.micro * k) * Accumulation = (setting.mini * k) * 1
             /\ (setting.micro * k) * Accumulation \in Nat \ {0}
  <2>1. (setting.micro * k) * Accumulation = (setting.micro * Accumulation) * k
    BY <1>1, <1>4
  <2>2. setting.mini \in Nat \ {0}
    BY SettingFacts DEF TypeInv
  <2>3. setting.mini * k \in Nat \ {0}
    BY <2>2, <1>4
  <2> QED
    BY <1>1, <2>1, <2>3
<1>5. CASE setting.mode = "seq-mean-token-sum"
  BY <1>1, <1>5, SettingFacts DEF Divisor, TypeInv
<1>6. CASE setting.mode = "seq-mean-token-mean"
  <2>1. Divisor(t, MicroRows, sel) = setting.micro * Cardinality(own)
    BY <1>1, <1>6 DEF Divisor
  <2>2. Divisor(t, MiniRows, chosen \cup sel) = setting.mini * Cardinality(own)
    BY <1>1, <1>2, <1>6 DEF Divisor
  <2> QED
    BY <2>1, <2>2, <1>3, <1>4
<1>7. CASE setting.mode = "allavg"
  <2>1. Divisor(t, MicroRows, sel) = setting.micro * setting.length
    BY <1>1, <1>7 DEF Divisor
  <2>2. Divisor(t, MiniRows, chosen \cup sel) = setting.mini * setting.length
    BY <1>1, <1>7 DEF Divisor
  <2> QED
    BY <1>1, <2>1, <2>2, <1>4
<1> QED
  BY <1>5, <1>6, <1>7 DEF OfEachResponse

\* The tokens of other responses do not change the divisor.
LEMMA DivisorOfOthers ==
    ASSUME TypeInv, MicroInv, OfEachResponse,
           NEW sel \in SUBSET TokensOf(MicroRows), NEW t \in chosen
    PROVE  Divisor(t, MiniRows, chosen \cup sel) = Divisor(t, MiniRows, chosen)
<1>1. t[1] \in DoneRows
  BY DEF MicroInv, TokensOf
<1>2. t[1] \notin MicroRows
  <2>1. (micro - 1) * setting.micro \in Int /\ FirstRow \in Int
    BY SettingFacts DEF FirstRow, MicroInv, TypeInv
  <2> QED
    BY <1>1, <2>1 DEF MicroRows, DoneRows, FirstRow
<1>3. (chosen \cup sel) \cap TokensOf({t[1]}) = chosen \cap TokensOf({t[1]})
  BY <1>2 DEF TokensOf
<1> QED
  BY <1>3 DEF Divisor, OfEachResponse

\* Nothing is chosen at the start of a mini-batch, and nothing accumulated.
LEMMA NothingChosen ==
    ASSUME chosen = {}, grad = [t \in Tokens |-> 0]
    PROVE  grad \in [Tokens -> Int] /\ grad = Gradient(MiniRows, chosen, 1)
BY DEF Gradient

LEMMA MicroInit == Init => MicroInv
<1> SUFFICES ASSUME Init
             PROVE  MicroInv
  OBVIOUS
<1>1. TypeInv
  BY OnceInit DEF OnceInv
<1>2. micro \in 1..(NumMicros + 1)
  BY <1>1, NumMicrosExact DEF Init
<1> QED
  BY <1>2, NothingChosen DEF Init, MicroInv

LEMMA MicroBackward ==
    ASSUME TypeInv, MicroInv, Backward
    PROVE  MicroInv'
<1>1. PICK sel \in Selections(MicroRows) :
         /\ grad' = [t \in Tokens |->
                       grad[t] + Gradient(MicroRows, sel, Accumulation)[t]]
         /\ chosen' = chosen \cup sel
  BY DEF Backward
<1>2. /\ UNCHANGED <<setting, lens, old, prob, stage, adv, mini>>
      /\ stage = "update" /\ micro <= NumMicros /\ micro' = micro + 1
  BY DEF Backward
<1>3. /\ Tokens' = Tokens /\ MiniRows' = MiniRows /\ NumMicros' = NumMicros
      /\ FirstRow' = FirstRow /\ (OfEachResponse <=> OfEachResponse') /\ (Adapts <=> Adapts')
  BY <1>2 DEF Tokens, TokensOf, Rows, MiniRows, NumMicros, FirstRow, OfEachResponse, Adapts
<1>4. sel \in SUBSET TokensOf(MicroRows)
  BY <1>1 DEF Selections
<1>5. micro' \in 1..(NumMicros' + 1)
  BY <1>2, <1>3, NumMicrosExact DEF MicroInv
<1>6. /\ DoneRows' = DoneRows \cup MicroRows
      /\ DoneRows \cap MicroRows = {}
  <2>1. micro \in Nat \ {0}
    BY NumMicrosExact DEF MicroInv
  <2> QED
    BY <1>2, <2>1, RowsOfMicro
<1>7. chosen' \subseteq TokensOf(DoneRows)'
  BY <1>1, <1>2, <1>4, <1>6 DEF MicroInv, TokensOf
<1>8. sel \cap chosen = {}
  BY <1>4, <1>6 DEF MicroInv, TokensOf
<1>9. ASSUME OfEachResponse, ~Adapts
      PROVE  /\ grad' \in [Tokens -> Int]
             /\ grad' = Gradient(MiniRows, chosen \cup sel, 1)
  <2> DEFINE added == Gradient(MicroRows, sel, Accumulation)
             whole == Gradient(MiniRows, chosen \cup sel, 1)
  <2>1. grad \in [Tokens -> Int] /\ grad = Gradient(MiniRows, chosen, 1)
    BY <1>9 DEF MicroInv
  <2>2. ASSUME NEW t \in Tokens
        PROVE  grad[t] + added[t] \in Int /\ grad[t] + added[t] = whole[t]
    <3>1. CASE t \in sel
      <4>1. grad[t] = 0
        BY <1>8, <2>1, <3>1 DEF Gradient
      <4> DEFINE d == Divisor(t, MicroRows, sel) * Accumulation
      <4>2. d = Divisor(t, MiniRows, chosen \cup sel) * 1 /\ d \in Nat \ {0}
        BY <1>4, <1>9, <3>1, DivisorOfMicro
      <4>3. added[t] = Push(t, MicroRows) * (Unit \div d)
        BY <3>1 DEF Gradient
      <4>4. whole[t] = Push(t, MiniRows) * (Unit \div d)
        BY <3>1, <4>2 DEF Gradient
      <4>5. Push(t, MicroRows) = Push(t, MiniRows) /\ Push(t, MiniRows) \in Int
        BY <1>9, PushSame, PushInt DEF MicroInv
      <4>6. Unit \div d \in Int
        BY <4>2, UnitsAssumption
      <4> HIDE DEF added, whole, d
      <4>7. Push(t, MiniRows) * (Unit \div d) \in Int
        BY <4>5, <4>6
      <4> QED
        BY <4>1, <4>3, <4>4, <4>5, <4>7
    <3>2. CASE t \in chosen
      <4>1. added[t] = 0
        BY <1>8, <3>2 DEF Gradient
      <4>2. grad[t] = whole[t]
        BY <1>4, <1>9, <2>1, <3>2, DivisorOfOthers DEF Gradient
      <4> QED
        BY <2>1, <4>1, <4>2
    <3>3. CASE t \notin chosen /\ t \notin sel
      <4>1. grad[t] = 0 /\ added[t] = 0 /\ whole[t] = 0
        BY <2>1, <3>3 DEF Gradient
      <4> QED
        BY <4>1
    <3> QED
      BY <3>1, <3>2, <3>3
  <2>3. grad' = [t \in Tokens |-> grad[t] + added[t]]
    BY <1>1
  <2>4. whole = [t \in Tokens |-> whole[t]]
    BY DEF Gradient
  <2> HIDE DEF added, whole
  <2>5. grad' \in [Tokens -> Int] /\ grad' = whole
    BY <2>2, <2>3, <2>4
  <2> QED
    BY <2>5 DEF whole
<1>10. ASSUME OfEachResponse, ~Adapts
       PROVE  Gradient(MiniRows, chosen, 1)' = Gradient(MiniRows, chosen \cup sel, 1)
  <2>1. \A t \in Tokens : Push(t, MiniRows)' = Push(t, MiniRows)
    BY <1>2, <1>3, <1>10 DEF Adapts, Push, PushOfPPO, PushOfCISPO, Losses2Greater, Losses3Less,
       LowClip, HighClip, Ratio
  <2>2. \A t \in Tokens :
           Divisor(t, MiniRows, chosen)' = Divisor(t, MiniRows, chosen \cup sel)
    BY <1>1, <1>2, <1>3 DEF Divisor, TokensOf
  <2> QED
    BY <1>1, <1>3, <2>1, <2>2 DEF Gradient
<1> QED
  BY <1>2, <1>3, <1>5, <1>7, <1>9, <1>10 DEF MicroInv

LEMMA MicroNext == OnceInv /\ MicroInv /\ [Next]_vars => MicroInv'
<1> SUFFICES ASSUME OnceInv, MicroInv, [Next]_vars
             PROVE  MicroInv'
  OBVIOUS
<1>1. TypeInv /\ TypeInv'
  BY OnceNext DEF OnceInv
<1>2. CASE Backward
  BY <1>1, <1>2, MicroBackward
<1>3. CASE Prepare
  <2>1. /\ UNCHANGED <<setting, lens, old, prob, micro, mini, grad, chosen>>
        /\ chosen = {}
    BY <1>3 DEF Prepare, MicroInv
  <2>2. Tokens' = Tokens /\ NumMicros' = NumMicros
        /\ (OfEachResponse <=> OfEachResponse') /\ (Adapts <=> Adapts')
    BY <2>1 DEF Tokens, TokensOf, Rows, NumMicros, OfEachResponse, Adapts
  <2>3. Gradient(MiniRows, chosen, 1)' = Gradient(MiniRows, chosen, 1)
    BY <2>1, <2>2 DEF Gradient
  <2> QED
    BY <2>1, <2>2, <2>3 DEF MicroInv
<1>4. CASE OptimizerStep
  <2>1. /\ UNCHANGED <<setting, lens>>
        /\ micro' = 1 /\ chosen' = {} /\ grad' = [t \in Tokens |-> 0]
        /\ prob' \in [Tokens -> Probs]
    BY <1>4 DEF OptimizerStep
  <2>2. Tokens' = Tokens /\ NumMicros' = NumMicros
    BY <2>1 DEF Tokens, TokensOf, Rows, NumMicros
  <2>3. grad' \in [Tokens' -> Int] /\ grad' = Gradient(MiniRows, chosen, 1)'
    BY <2>1, <2>2 DEF Gradient
  <2>4. micro' \in 1..(NumMicros' + 1)
    BY <1>1, <2>1, <2>2, NumMicrosExact
  <2> QED
    BY <2>1, <2>2, <2>3, <2>4 DEF MicroInv
<1>5. CASE UNCHANGED vars
  <2>1. /\ UNCHANGED <<setting, lens, old, prob, stage, adv, mini, micro, grad, chosen>>
        /\ Tokens' = Tokens /\ MiniRows' = MiniRows /\ NumMicros' = NumMicros
        /\ (OfEachResponse <=> OfEachResponse') /\ (Adapts <=> Adapts')
    BY <1>5 DEF vars, Tokens, TokensOf, Rows, MiniRows, NumMicros, OfEachResponse, Adapts
  <2>2. ASSUME ~Adapts
        PROVE  Gradient(MiniRows, chosen, 1)' = Gradient(MiniRows, chosen, 1)
    <3>1. \A t \in Tokens : Push(t, MiniRows)' = Push(t, MiniRows)
      BY <2>1, <2>2 DEF Adapts, Push, PushOfPPO, PushOfCISPO, Losses2Greater, Losses3Less,
         LowClip, HighClip, Ratio
    <3>2. \A t \in Tokens : Divisor(t, MiniRows, chosen)' = Divisor(t, MiniRows, chosen)
      BY <2>1 DEF Divisor, TokensOf
    <3> QED
      BY <2>1, <3>1, <3>2 DEF Gradient
  <2>3. TokensOf(DoneRows)' = TokensOf(DoneRows)
    BY <2>1 DEF TokensOf, DoneRows, FirstRow
  <2> QED
    BY <2>1, <2>2, <2>3 DEF MicroInv
<1> QED
  BY <1>2, <1>3, <1>4, <1>5 DEF Next

\* In the modes that average over responses, and with clip ranges that do not
\* depend on the batch, the gradient of every optimizer step is that of its
\* mini-batch as a whole: dp_actor.py may cut it as the memory allows.
THEOREM AlwaysMicroSizeIrrelevantIfFixed == Spec => []MicroSizeIrrelevantIfFixed
<1>1. Init => OnceInv /\ MicroInv
  BY OnceInit, MicroInit
<1>2. OnceInv /\ MicroInv /\ [Next]_vars => OnceInv' /\ MicroInv'
  BY OnceNext, MicroNext
<1>3. MicroInv => MicroSizeIrrelevantIfFixed
  BY DEF MicroInv, MicroSizeIrrelevantIfFixed, MicroSizeIrrelevant
<1> QED
  BY <1>1, <1>2, <1>3, PTL DEF Spec

(***************************************************************************)
(* The trust region.                                                       *)
(***************************************************************************)

\* What the update does to a token that is in the loss.
Driven(t) ==
    /\ grad[t] * adv[t] >= 0
    /\ grad[t] # 0 => ~Left(t, GreatestClip(ClipLow), GreatestClip(ClipHigh))
    /\ adv[t] # 0 /\ ~Left(t, LeastClip(ClipLow), LeastClip(ClipHigh)) => grad[t] # 0

\* The mini-batch is within the batch, and the tokens that are not in its loss
\* are not driven at all.
RegionInv ==
    /\ prob \in [Tokens -> Probs]
    /\ micro \in 1..(NumMicros + 1)
    /\ stage \in {"advantage", "update"} => mini * setting.mini <= setting.rows
    /\ stage # "update" => chosen = {}
    /\ chosen \subseteq TokensOf(DoneRows)
    /\ grad \in [Tokens -> Int]
    /\ \A t \in Tokens : IF t \in chosen THEN Driven(t) ELSE grad[t] = 0

\* Every set of natural numbers has a least one.
LEMMA LeastNumber ==
    ASSUME NEW T \in SUBSET Nat, T # {}
    PROVE  \E m \in T : \A x \in T : m <= x
<1> DEFINE R == OpToRel(<, Nat)
<1>1. IsWellFoundedOn(R, Nat)
  BY NatLessThanWellFounded
<1>2. R = {p \in Nat \X Nat : p[1] < p[2]}
  BY DEF OpToRel
<1> HIDE DEF R
<1>3. \A x, m \in Nat : x < m => <<x, m>> \in R
  BY <1>2
<1>4. PICK m \in T : \A x \in T : ~(<<x, m>> \in R)
  BY <1>1, WFMin
<1>5. ASSUME NEW x \in T
      PROVE  m <= x
  <2>1. x \in Nat /\ m \in Nat
    OBVIOUS
  <2>2. ~(x < m)
    BY <2>1, <1>3, <1>4
  <2> QED
    BY <2>1, <2>2
<1> QED
  BY <1>5

\* A set of numbers up to a bound has a greatest one.
LEMMA MaxOfBounded ==
    ASSUME NEW N \in Nat, NEW S \in SUBSET (0..N), S # {}
    PROVE  Max(S) \in S /\ Max(S) \in Nat
<1> DEFINE T == {N - x : x \in S}
<1>1. T \in SUBSET Nat /\ T # {}
  <2>1. \A x \in S : x \in Int /\ N - x \in Nat
    OBVIOUS
  <2> QED
    BY <2>1, Zenon
<1>2. PICK m \in T : \A y \in T : m <= y
  <2> HIDE DEF T
  <2> QED
    BY <1>1, LeastNumber
<1>3. PICK a \in S : m = N - a
  OBVIOUS
<1>4. \A x \in S : N - a <= N - x
  BY <1>2, <1>3
<1>5. \A x \in S : a >= x
  <2> SUFFICES ASSUME NEW x \in S
               PROVE  a >= x
    OBVIOUS
  <2>1. x \in Int /\ a \in Int /\ N - a <= N - x
    BY <1>4
  <2> QED
    BY <2>1
<1>6. Max(S) \in S
  BY <1>5 DEF Max
<1>7. \A x \in S : x \in Nat
  OBVIOUS
<1> QED
  BY <1>6, <1>7, Zenon

\* clamp(x, low, high), and the lesser of two numbers.
LEMMA BoundedFacts ==
    ASSUME NEW x \in Int, NEW low \in Int, NEW high \in Int
    PROVE  Bounded(x, low, high)
               = LET m == IF high <= x THEN high ELSE x IN IF low >= m THEN low ELSE m
<1>1. ASSUME NEW a \in Int, NEW b \in Int
      PROVE  /\ Min({a, b}) = IF a <= b THEN a ELSE b
             /\ Max({a, b}) = IF a >= b THEN a ELSE b
  <2>1. \E y \in {a, b} : \A z \in {a, b} : y >= z
    BY <1>1
  <2>2. \E y \in {a, b} : \A z \in {a, b} : y =< z
    BY <1>1
  <2>3. Max({a, b}) \in {a, b} /\ \A z \in {a, b} : Max({a, b}) >= z
    BY <2>1 DEF Max
  <2>4. Min({a, b}) \in {a, b} /\ \A z \in {a, b} : Min({a, b}) =< z
    BY <2>2 DEF Min
  <2> QED
    BY <1>1, <2>3, <2>4
<1> DEFINE m == IF high <= x THEN high ELSE x
<1>2. m \in Int /\ Min({high, x}) = m
  BY <1>1
<1> HIDE DEF m
<1>3. Max({low, m}) = IF low >= m THEN low ELSE m
  BY <1>1, <1>2
<1> QED
  BY <1>2, <1>3 DEF Bounded, m

\* Ratios are positive.
LEMMA RatioPositive ==
    ASSUME TypeInv, prob \in [Tokens -> Probs], NEW t \in Tokens
    PROVE  Ratio(t) \in Nat \ {0}
<1>1. prob[t] \in Probs /\ old[t] \in Probs
  BY DEF TypeInv
<1>2. (One * prob[t]) % old[t] = 0
  BY <1>1, UnitsAssumption
<1>3. prob[t] \in Nat \ {0} /\ old[t] \in Nat \ {0} /\ One \in Nat \ {0}
  <2>1. One \in Nat \ {0}
    BY UnitsAssumption DEF One
  <2>2. prob[t] \in Int /\ prob[t] > 0 /\ old[t] \in Int /\ old[t] > 0
    BY <1>1, ProbsInt
  <2> QED
    BY <2>1, <2>2
<1>4. One * prob[t] \in Nat \ {0}
  BY <1>3
<1>5. ASSUME NEW a \in Nat \ {0}, NEW b \in Nat \ {0}, a % b = 0
      PROVE  a \div b \in Nat \ {0}
  BY <1>5
<1> QED
  BY <1>2, <1>3, <1>4, <1>5 DEF Ratio

LEMMA StdNat == ASSUME NEW set PROVE Std(set) \in Nat
<1>1. TopRatio \in Nat
  BY UnitsAssumption DEF TopRatio, One
<1> DEFINE n == Cardinality(set)
           sum == MapThenSumSet(LAMBDA u : Ratio(u), set)
           squares == MapThenSumSet(LAMBDA u : Ratio(u) * Ratio(u), set)
           S == {0} \cup {s \in 1..TopRatio : (s * n) * (s * n) <= n * squares - sum * sum}
<1>2. Std(set) = Max(S)
  BY DEF Std
<1>3. S \in SUBSET (0..TopRatio) /\ S # {}
  <2> HIDE DEF n, sum, squares
  <2> QED
    BY <1>1
<1> HIDE DEF S
<1>4. Max(S) \in Nat
  BY <1>1, <1>3, MaxOfBounded
<1> QED
  BY <1>2, <1>4, Zenon

\* The ranges that clip are between the least and the greatest; CISPO's are
\* those of the configuration.
LEMMA ClipFacts ==
    ASSUME TypeInv, ~setting.cispo, NEW t, NEW rows
    PROVE  /\ LowClip(t, rows) \in Nat /\ HighClip(t, rows) \in Nat
           /\ LeastClip(ClipLow) \in Int /\ LeastClip(ClipHigh) \in Int
           /\ GreatestClip(ClipLow) \in Int /\ GreatestClip(ClipHigh) \in Int
           /\ LeastClip(ClipLow) <= LowClip(t, rows) /\ LowClip(t, rows) <= GreatestClip(ClipLow)
           /\ LeastClip(ClipHigh) <= HighClip(t, rows)
           /\ HighClip(t, rows) <= GreatestClip(ClipHigh)
<1>1. /\ ClipLow \in Nat /\ ClipHigh \in Nat /\ BaseClip \in Nat /\ Alpha \in Nat
      /\ ClipMin \in Nat /\ ClipMax \in Nat /\ ClipMin <= ClipMax
  BY UnitsAssumption
<1>2. CASE ~setting.adaptive
  BY <1>1, <1>2 DEF LowClip, HighClip, LeastClip, GreatestClip, Adapts
<1>3. CASE setting.adaptive
  <2> DEFINE wide == BaseClip + Alpha * Std(Peers(t, rows))
  <2>1. wide \in Nat /\ BaseClip <= wide
    <3>1. ASSUME NEW s \in Nat
          PROVE  Alpha * s \in Nat
      BY <1>1
    <3>2. Alpha * Std(Peers(t, rows)) \in Nat
      BY <3>1, StdNat
    <3> QED
      BY <1>1, <3>2
  <2>2. AdaptiveClip(t, rows) = Bounded(wide, ClipMin, ClipMax)
    BY DEF AdaptiveClip
  <2> HIDE DEF wide
  <2>3. Bounded(wide, ClipMin, ClipMax)
           = LET m == IF ClipMax <= wide THEN ClipMax ELSE wide
             IN IF ClipMin >= m THEN ClipMin ELSE m
    BY <1>1, <2>1, BoundedFacts
  <2>4. Bounded(BaseClip, ClipMin, ClipMax)
           = LET m == IF ClipMax <= BaseClip THEN ClipMax ELSE BaseClip
             IN IF ClipMin >= m THEN ClipMin ELSE m
    BY <1>1, BoundedFacts
  <2>5. /\ AdaptiveClip(t, rows) \in Nat
        /\ Bounded(BaseClip, ClipMin, ClipMax) \in Int
        /\ Bounded(BaseClip, ClipMin, ClipMax) <= AdaptiveClip(t, rows)
        /\ AdaptiveClip(t, rows) <= ClipMax
    BY <1>1, <2>1, <2>2, <2>3, <2>4
  <2> QED
    BY <1>1, <1>3, <2>5 DEF LowClip, HighClip, LeastClip, GreatestClip, Adapts
<1>4. setting.adaptive \in BOOLEAN
  BY SettingsAssumption DEF TypeInv
<1> QED
  BY <1>2, <1>3

\* A negative factor turns an order around.
LEMMA NegatedOrder ==
    ASSUME NEW a \in Int, NEW x \in Int, NEW y \in Int
    PROVE  /\ a > 0 => (-a * x > -a * y <=> x < y)
           /\ a < 0 => (-a * x > -a * y <=> x > y)
           /\ a = 0 => ~(-a * x > -a * y)
<1>1. -a * x = -(a * x) /\ -a * y = -(a * y) /\ a * x \in Int /\ a * y \in Int
  OBVIOUS
<1>2. a > 0 => (x < y <=> a * x < a * y)
  OBVIOUS
<1>3. a < 0 => (x > y <=> a * x < a * y)
  OBVIOUS
<1> QED
  BY <1>1, <1>2, <1>3

\* What a token pushes in the loss of a micro-batch of these rows is nothing if
\* its ratio has left the clip range, and else goes the way of its advantage.
LEMMA PushOfPPOFacts ==
    ASSUME TypeInv, prob \in [Tokens -> Probs], ~setting.cispo, NEW t \in Tokens, NEW rows
    PROVE  PushOfPPO(t, rows)
               = IF adv[t] = 0 \/ Left(t, LowClip(t, rows), HighClip(t, rows))
                 THEN 0 ELSE adv[t] * Ratio(t)
<1> DEFINE r == Ratio(t)
           a == adv[t]
           low == LowClip(t, rows)
           high == HighClip(t, rows)
<1>1. /\ r \in Nat \ {0} /\ a \in Int /\ low \in Nat /\ high \in Nat /\ ClipC \in Int
      /\ One \in Nat \ {0}
  BY RatioPositive, ClipFacts, UnitsAssumption DEF TypeInv, One
<1> DEFINE b == Bounded(r, One - low, One + high)
<1>2. /\ b \in Int
      /\ b < r <=> r > One + high
      /\ b > r <=> r < One - low
  <2> HIDE DEF r, a, low, high
  <2>1. One - low \in Int /\ One + high \in Int
    BY <1>1
  <2>2. b = LET m == IF One + high <= r THEN One + high ELSE r
            IN IF One - low >= m THEN One - low ELSE m
    BY <1>1, <2>1, BoundedFacts
  <2> QED
    BY <1>1, <2>1, <2>2
<1>3. Losses2Greater(t, rows) <=> -a * b > -a * r
  BY DEF Losses2Greater
<1>4. Losses3Less(t) <=> a < 0 /\ -a * r > -a * ClipC
  <2>1. -a * ClipC \in Int /\ -a * r \in Int
    <3> HIDE DEF r, a
    <3> QED
      BY <1>1
  <2> QED
    BY <2>1 DEF Losses3Less
<1>5. Left(t, low, high) <=>
         \/ a > 0 /\ r > One + high
         \/ a < 0 /\ (r < One - low \/ r > ClipC)
  BY DEF Left
<1>6. PushOfPPO(t, rows)
         = IF Losses2Greater(t, rows) \/ Losses3Less(t) THEN 0 ELSE a * r
  BY DEF PushOfPPO
<1> HIDE DEF r, a, b, low, high
<1>7. Losses2Greater(t, rows) <=> (a > 0 /\ b < r) \/ (a < 0 /\ b > r)
  BY <1>1, <1>2, <1>3, NegatedOrder
<1>8. Losses3Less(t) <=> a < 0 /\ r > ClipC
  BY <1>1, <1>4, NegatedOrder
<1>9. (Losses2Greater(t, rows) \/ Losses3Less(t)) <=> Left(t, low, high)
  BY <1>2, <1>5, <1>7, <1>8
<1>10. a = 0 => a * r = 0
  BY <1>1
<1> QED
  BY <1>6, <1>9, <1>10 DEF a, r, low, high

LEMMA PushOfCISPOFacts ==
    ASSUME TypeInv, prob \in [Tokens -> Probs], setting.cispo, NEW t \in Tokens
    PROVE  \E w \in Nat \ {0} :
              PushOfCISPO(t) = IF Left(t, ClipLow, ClipHigh) THEN 0 ELSE adv[t] * w
<1> DEFINE w == Bounded(Ratio(t), One - IsLow, One + IsHigh)
<1>1. Ratio(t) \in Nat \ {0} /\ One \in Nat \ {0} /\ IsLow \in Int /\ IsHigh \in Nat
  BY RatioPositive, UnitsAssumption DEF One
<1>2. w \in Nat \ {0}
  <2>1. One - IsLow \in Int /\ One + IsHigh \in Nat \ {0}
    BY <1>1
  <2>2. w = LET m == IF One + IsHigh <= Ratio(t) THEN One + IsHigh ELSE Ratio(t)
            IN IF One - IsLow >= m THEN One - IsLow ELSE m
    BY <1>1, <2>1, BoundedFacts
  <2> HIDE DEF w
  <2> QED
    BY <1>1, <2>1, <2>2
<1>3. PushOfCISPO(t) = IF Left(t, ClipLow, ClipHigh) THEN 0 ELSE adv[t] * w
  BY DEF PushOfCISPO, Left
<1> HIDE DEF w
<1> QED
  BY <1>2, <1>3

\* A ratio that has left a range has left every narrower one.
LEMMA LeftOfWider ==
    ASSUME TypeInv, prob \in [Tokens -> Probs], NEW t \in Tokens,
           NEW low1 \in Int, NEW high1 \in Int, NEW low2 \in Int, NEW high2 \in Int,
           low1 <= low2, high1 <= high2, Left(t, low2, high2)
    PROVE  Left(t, low1, high1)
<1>1. Ratio(t) \in Int /\ One \in Int
  BY RatioPositive, UnitsAssumption DEF One
<1> QED
  BY <1>1 DEF Left

\* Whatever the loss is made of, a token is pushed the way of its advantage or
\* not at all; not at all if its ratio has left the widest range, and if it has
\* an advantage and has not left the narrowest one, it is pushed.
LEMMA PushFacts ==
    ASSUME TypeInv, prob \in [Tokens -> Probs], NEW t \in Tokens, NEW rows
    PROVE  /\ Push(t, rows) \in Int
           /\ Push(t, rows) * adv[t] >= 0
           /\ Push(t, rows) # 0 => ~Left(t, GreatestClip(ClipLow), GreatestClip(ClipHigh))
           /\ adv[t] # 0 /\ ~Left(t, LeastClip(ClipLow), LeastClip(ClipHigh))
                 => Push(t, rows) # 0
<1>1. adv[t] \in Int
  BY DEF TypeInv
<1>2. \A w \in Nat \ {0} :
         /\ adv[t] * w \in Int /\ (adv[t] * w) * adv[t] >= 0
         /\ adv[t] # 0 <=> adv[t] * w # 0
  <2> DEFINE a == adv[t]
  <2> HIDE DEF a
  <2>1. \A w \in Nat \ {0} : a * w \in Int /\ (a * w) * a = (a * a) * w /\ a * a \in Nat
    BY <1>1 DEF a
  <2>2. \A w, x \in Nat : x * w \in Nat
    OBVIOUS
  <2>3. \A w \in Nat \ {0} : a # 0 <=> a * w # 0
    BY <1>1 DEF a
  <2> QED
    BY <2>1, <2>2, <2>3 DEF a
<1>3. CASE setting.cispo
  <2>1. PICK w \in Nat \ {0} :
           PushOfCISPO(t) = IF Left(t, ClipLow, ClipHigh) THEN 0 ELSE adv[t] * w
    BY <1>3, PushOfCISPOFacts
  <2>2. /\ Push(t, rows) = PushOfCISPO(t)
        /\ GreatestClip(ClipLow) = ClipLow /\ GreatestClip(ClipHigh) = ClipHigh
        /\ LeastClip(ClipLow) = ClipLow /\ LeastClip(ClipHigh) = ClipHigh
    BY <1>3 DEF Push, GreatestClip, LeastClip, Adapts
  <2>3. CASE Left(t, ClipLow, ClipHigh)
    BY <1>1, <2>1, <2>2, <2>3
  <2>4. CASE ~Left(t, ClipLow, ClipHigh)
    <3>1. Push(t, rows) = adv[t] * w
      BY <2>1, <2>2, <2>4
    <3> QED
      BY <1>2, <2>2, <2>4, <3>1
  <2> QED
    BY <2>3, <2>4
<1>4. CASE ~setting.cispo
  <2> DEFINE here == Left(t, LowClip(t, rows), HighClip(t, rows))
  <2>1. Push(t, rows) = IF adv[t] = 0 \/ here THEN 0 ELSE adv[t] * Ratio(t)
    BY <1>4, PushOfPPOFacts DEF Push
  <2>2. Left(t, GreatestClip(ClipLow), GreatestClip(ClipHigh)) => here
    BY <1>4, ClipFacts, LeftOfWider
  <2>3. here => Left(t, LeastClip(ClipLow), LeastClip(ClipHigh))
    BY <1>4, ClipFacts, LeftOfWider
  <2>4. Ratio(t) \in Nat \ {0}
    BY RatioPositive
  <2> HIDE DEF here
  <2>5. CASE adv[t] = 0 \/ here
    BY <1>1, <2>1, <2>3, <2>5
  <2>6. CASE adv[t] # 0 /\ ~here
    <3>1. Push(t, rows) = adv[t] * Ratio(t)
      BY <2>1, <2>6
    <3> QED
      BY <1>2, <2>2, <2>4, <2>6, <3>1
  <2> QED
    BY <2>5, <2>6
<1> QED
  BY <1>3, <1>4

\* The pairs of one thing with each of some others are as many as those.
LEMMA PairsWithOne ==
    ASSUME NEW x, NEW T, IsFiniteSet(T)
    PROVE  IsFiniteSet({x} \X T) /\ Cardinality({x} \X T) = Cardinality(T)
<1> DEFINE S == {x}
<1>1. IsFiniteSet(S) /\ Cardinality(S) = 1
  BY FS_Singleton
<1> HIDE DEF S
<1>2. IsFiniteSet(S \X T) /\ Cardinality(S \X T) = Cardinality(S) * Cardinality(T)
  BY <1>1, FS_Product, Zenon
<1>3. Cardinality(T) \in Nat
  BY FS_CardinalityType
<1>4. Cardinality(S \X T) = Cardinality(T)
  BY <1>1, <1>2, <1>3
<1> QED
  BY <1>2, <1>4 DEF S

\* What a token's loss is divided by is at most the tokens of a mini-batch, so
\* that no part of the gradient is rounded away.
LEMMA DivisorFacts ==
    ASSUME TypeInv, micro \in 1..(NumMicros + 1),
           NEW sel \in SUBSET TokensOf(MicroRows), NEW t \in sel
    PROVE  Unit \div (Divisor(t, MicroRows, sel) * Accumulation) \in Nat \ {0}
<1> DEFINE m == setting.micro
           L == setting.length
           acc == Accumulation
           d == Divisor(t, MicroRows, sel)
<1>1. /\ m \in Nat \ {0} /\ L \in Nat \ {0} /\ acc \in Nat \ {0}
      /\ setting.mini \in Nat \ {0} /\ m * acc = setting.mini /\ micro \in Nat \ {0}
  BY SettingFacts, NumMicrosExact DEF TypeInv, Accumulation
<1>2. IsFiniteSet(MicroRows) /\ Cardinality(MicroRows) = m
  BY <1>1, RowCounts
<1>3. IsFiniteSet(1..L) /\ Cardinality(1..L) = L
  <2>1. L \in Int /\ 1 \in Int /\ ~(1 > L) /\ L - 1 + 1 = L
    BY <1>1
  <2> QED
    BY <2>1, FS_Interval
<1>4. /\ IsFiniteSet(MicroRows \X (1..L))
      /\ Cardinality(MicroRows \X (1..L)) = m * L
  <2>1. /\ IsFiniteSet(MicroRows \X (1..L))
        /\ Cardinality(MicroRows \X (1..L)) = Cardinality(MicroRows) * Cardinality(1..L)
    BY <1>2, <1>3, FS_Product, Zenon
  <2> QED
    BY <1>2, <1>3, <2>1, Zenon
<1>5. /\ IsFiniteSet({t[1]} \X (1..L))
      /\ Cardinality({t[1]} \X (1..L)) = L
  BY <1>3, PairsWithOne, Zenon
<1>6. Cardinality(sel) \in 1..(m * L)
  <2>1. sel \subseteq MicroRows \X (1..L)
    BY DEF TokensOf
  <2>2. IsFiniteSet(sel) /\ Cardinality(sel) <= m * L
    BY <1>4, <2>1, FS_Subset
  <2> QED
    BY <2>2, FS_EmptySet, FS_CardinalityType
<1>7. Cardinality(sel \cap TokensOf({t[1]})) \in 1..L
  <2>1. sel \cap TokensOf({t[1]}) \subseteq {t[1]} \X (1..L)
    BY DEF TokensOf
  <2>2. /\ IsFiniteSet(sel \cap TokensOf({t[1]}))
        /\ Cardinality(sel \cap TokensOf({t[1]})) <= L
    BY <1>5, <2>1, FS_Subset
  <2>3. t \in sel \cap TokensOf({t[1]})
    BY DEF TokensOf
  <2> DEFINE own == sel \cap TokensOf({t[1]})
  <2> HIDE DEF own
  <2>4. Cardinality(own) \in Nat /\ Cardinality(own) # 0
    BY <2>2, <2>3, FS_EmptySet, FS_CardinalityType DEF own
  <2> QED
    BY <1>1, <2>2, <2>4 DEF own
<1>8. ASSUME NEW k \in 1..L
      PROVE  m * k \in 1..(m * L)
  BY <1>1, <1>8
<1>9. d \in 1..(m * L)
  <2>1. d \in {Cardinality(sel), m, m * Cardinality(sel \cap TokensOf({t[1]})), m * L}
    BY <1>2, SettingsAssumption DEF Divisor, TypeInv
  <2>2. m \in 1..(m * L) /\ m * L \in 1..(m * L)
    BY <1>1, <1>8
  <2> QED
    BY <1>6, <1>7, <1>8, <2>1, <2>2
<1> HIDE DEF d, m, L, acc
<1>10. d * acc \in 1..(setting.mini * setting.length)
  <2>1. \A x, y \in Nat \ {0} : x <= y => x * acc <= y * acc /\ x * acc \in Nat \ {0}
    BY <1>1
  <2>2. m * L \in Nat \ {0} /\ (m * L) * acc = (m * acc) * L
    BY <1>1
  <2>3. d \in Nat \ {0} /\ d <= m * L
    BY <1>9, <2>2
  <2>4. d * acc <= setting.mini * L /\ d * acc \in Nat \ {0}
    BY <1>1, <2>1, <2>2, <2>3
  <2> QED
    BY <1>1, <2>4 DEF L
<1>11. Unit % (d * acc) = 0 /\ Unit \in Nat \ {0}
  BY <1>10, UnitsAssumption DEF TypeInv
<1>12. \A x, y \in Nat \ {0} : x % y = 0 => x \div y \in Nat \ {0}
  OBVIOUS
<1>13. d * acc \in Nat \ {0}
  <2>1. setting.mini * setting.length \in Int
    BY <1>1 DEF L
  <2> QED
    BY <1>10, <2>1
<1> QED
  BY <1>11, <1>12, <1>13 DEF d, acc

LEMMA RegionInit == Init => RegionInv
<1> SUFFICES ASSUME Init
             PROVE  RegionInv
  OBVIOUS
<1>1. TypeInv
  BY OnceInit DEF OnceInv
<1>2. micro \in 1..(NumMicros + 1) /\ prob \in [Tokens -> Probs]
  BY <1>1, NumMicrosExact DEF Init
<1>3. mini * setting.mini <= setting.rows
  <2>1. setting.rows \in Nat \ {0} /\ setting.mini \in Nat \ {0}
        /\ setting.rows % setting.mini = 0
    BY SettingsAssumption DEF Init
  <2>2. setting.mini <= setting.rows
    BY <2>1
  <2>3. mini = 1
    BY DEF Init
  <2> QED
    BY <2>1, <2>2, <2>3
<1> QED
  BY <1>2, <1>3 DEF Init, RegionInv

\* A state that gives a token the same gradient, advantage and ratio drives it
\* the same way.
LEMMA DrivenSame ==
    ASSUME UNCHANGED <<setting, old, prob, adv>>, NEW t, grad'[t] = grad[t]
    PROVE  Driven(t)' <=> Driven(t)
BY DEF Driven, Left, Ratio, GreatestClip, LeastClip, Adapts

LEMMA RegionBackward ==
    ASSUME TypeInv, RegionInv, Backward
    PROVE  RegionInv'
<1>1. PICK sel \in Selections(MicroRows) :
         /\ grad' = [t \in Tokens |->
                       grad[t] + Gradient(MicroRows, sel, Accumulation)[t]]
         /\ chosen' = chosen \cup sel
  BY DEF Backward
<1>2. /\ UNCHANGED <<setting, lens, old, prob, stage, adv, mini>>
      /\ stage = "update" /\ micro <= NumMicros /\ micro' = micro + 1
  BY DEF Backward
<1>3. /\ Tokens' = Tokens /\ NumMicros' = NumMicros /\ FirstRow' = FirstRow
  BY <1>2 DEF Tokens, TokensOf, Rows, NumMicros, FirstRow
<1>4. sel \in SUBSET TokensOf(MicroRows)
  BY <1>1 DEF Selections
<1>5. micro' \in 1..(NumMicros' + 1) /\ micro \in 1..(NumMicros + 1)
  BY <1>2, <1>3, NumMicrosExact DEF RegionInv
<1>6. /\ DoneRows' = DoneRows \cup MicroRows
      /\ DoneRows \cap MicroRows = {}
  BY <1>2, <1>5, RowsOfMicro
<1>7. chosen' \subseteq TokensOf(DoneRows)'
  BY <1>1, <1>2, <1>4, <1>6 DEF RegionInv, TokensOf
<1>8. sel \cap chosen = {}
  BY <1>4, <1>6 DEF RegionInv, TokensOf
<1>9. ASSUME NEW t \in Tokens
      PROVE  /\ grad'[t] \in Int
             /\ IF t \in chosen' THEN Driven(t)' ELSE grad'[t] = 0
  <2> DEFINE added == Gradient(MicroRows, sel, Accumulation)
  <2>1. grad'[t] = grad[t] + added[t] /\ grad[t] \in Int
    BY <1>1 DEF RegionInv
  <2>2. CASE t \in sel
    <3> DEFINE u == Unit \div (Divisor(t, MicroRows, sel) * Accumulation)
               p == Push(t, MicroRows)
    <3>1. added[t] = p * u
      BY <2>2 DEF Gradient
    <3>2. u \in Nat \ {0}
      BY <1>4, <1>5, <2>2, DivisorFacts
    <3>3. /\ p \in Int /\ p * adv[t] >= 0 /\ adv[t] \in Int
          /\ p # 0 => ~Left(t, GreatestClip(ClipLow), GreatestClip(ClipHigh))
          /\ adv[t] # 0 /\ ~Left(t, LeastClip(ClipLow), LeastClip(ClipHigh)) => p # 0
      BY PushFacts DEF TypeInv, RegionInv
    <3>4. grad[t] = 0
      BY <1>8, <2>2 DEF RegionInv
    <3> HIDE DEF added, u, p
    <3>5. /\ p * u \in Int /\ p # 0 <=> p * u # 0
          /\ (p * u) * adv[t] = (p * adv[t]) * u
      BY <3>2, <3>3
    <3>6. p * adv[t] \in Nat
      BY <3>3
    <3>7. (p * adv[t]) * u >= 0
      BY <3>2, <3>6
    <3>8. grad'[t] = p * u /\ grad'[t] \in Int
      BY <2>1, <3>1, <3>4, <3>5
    <3>9. /\ grad'[t] * adv[t] >= 0
          /\ grad'[t] # 0 => ~Left(t, GreatestClip(ClipLow), GreatestClip(ClipHigh))
          /\ adv[t] # 0 /\ ~Left(t, LeastClip(ClipLow), LeastClip(ClipHigh)) => grad'[t] # 0
      BY <3>3, <3>5, <3>7, <3>8
    <3>10. Driven(t)'
      BY <1>2, <3>9 DEF Driven, Left, Ratio, GreatestClip, LeastClip, Adapts
    <3> QED
      BY <1>1, <2>2, <3>8, <3>10
  <2>3. CASE t \notin sel
    <3>1. added[t] = 0
      BY <2>3 DEF Gradient
    <3>2. grad'[t] = grad[t]
      BY <2>1, <3>1
    <3>3. Driven(t)' <=> Driven(t)
      BY <1>2, <3>2, DrivenSame
    <3> QED
      BY <1>1, <2>1, <2>3, <3>2, <3>3 DEF RegionInv
  <2> QED
    BY <2>2, <2>3
<1>10. grad' \in [Tokens -> Int]
  BY <1>1, <1>9
<1> QED
  BY <1>2, <1>3, <1>5, <1>7, <1>9, <1>10 DEF RegionInv

LEMMA RegionNext == OnceInv /\ RegionInv /\ [Next]_vars => RegionInv'
<1> SUFFICES ASSUME OnceInv, RegionInv, [Next]_vars
             PROVE  RegionInv'
  OBVIOUS
<1>1. TypeInv /\ TypeInv'
  BY OnceNext DEF OnceInv
<1>2. CASE Backward
  BY <1>1, <1>2, RegionBackward
<1>3. CASE Prepare
  <2>1. /\ UNCHANGED <<setting, lens, old, prob, micro, mini, grad, chosen>>
        /\ chosen = {} /\ stage = "advantage"
    BY <1>3 DEF Prepare, RegionInv
  <2>2. Tokens' = Tokens /\ NumMicros' = NumMicros
    BY <2>1 DEF Tokens, TokensOf, Rows, NumMicros
  <2> QED
    BY <2>1, <2>2 DEF RegionInv
<1>4. CASE OptimizerStep
  <2>1. /\ UNCHANGED <<setting, lens>>
        /\ micro' = 1 /\ chosen' = {} /\ grad' = [t \in Tokens |-> 0]
        /\ prob' \in [Tokens -> Probs] /\ stage = "update"
        /\ mini' = IF LastMini THEN 1 ELSE mini + 1
    BY <1>4 DEF OptimizerStep, StepDue
  <2>2. Tokens' = Tokens /\ NumMicros' = NumMicros
    BY <2>1 DEF Tokens, TokensOf, Rows, NumMicros
  <2>3. micro' \in 1..(NumMicros' + 1)
    BY <1>1, <2>1, <2>2, NumMicrosExact
  <2>4. mini' * setting'.mini <= setting'.rows
    <3>1. /\ setting.rows \in Nat \ {0} /\ setting.mini \in Nat \ {0} /\ mini \in Nat \ {0}
          /\ setting.rows % setting.mini = 0
      BY <1>1, SettingsAssumption DEF TypeInv
    <3> DEFINE k == setting.rows \div setting.mini
    <3>2. k \in Nat \ {0} /\ setting.rows = k * setting.mini
      BY <3>1
    <3> HIDE DEF k
    <3>3. CASE LastMini
      <4>1. mini' = 1 /\ 1 * setting.mini <= k * setting.mini
        BY <2>1, <3>1, <3>2, <3>3
      <4> QED
        BY <2>1, <3>2, <4>1
    <3>4. CASE ~LastMini
      <4>1. mini * setting.mini < k * setting.mini
        BY <3>1, <3>2, <3>4 DEF LastMini
      <4>2. mini < k
        BY <3>1, <3>2, <4>1
      <4>3. mini + 1 <= k
        BY <3>1, <3>2, <4>2
      <4>4. (mini + 1) * setting.mini <= k * setting.mini
        BY <3>1, <3>2, <4>3
      <4> QED
        BY <2>1, <3>2, <3>4, <4>4
    <3> QED
      BY <3>3, <3>4
  <2> QED
    BY <2>1, <2>2, <2>3, <2>4 DEF RegionInv
<1>5. CASE UNCHANGED vars
  <2>1. /\ UNCHANGED <<setting, lens, old, prob, stage, adv, mini, micro, grad, chosen>>
        /\ Tokens' = Tokens /\ NumMicros' = NumMicros
    BY <1>5 DEF vars, Tokens, TokensOf, Rows, NumMicros
  <2>2. TokensOf(DoneRows)' = TokensOf(DoneRows)
    BY <2>1 DEF TokensOf, DoneRows, FirstRow
  <2>3. \A t \in Tokens : Driven(t)' <=> Driven(t)
    BY <2>1, DrivenSame
  <2> QED
    BY <2>1, <2>2, <2>3 DEF RegionInv
<1> QED
  BY <1>2, <1>3, <1>4, <1>5 DEF Next

\* At every optimizer step, with PPO, ACPO and CISPO alike, no token is driven
\* further out of the range compute_policy_loss clips with or back into it, and
\* every selected token within it is driven the way of its advantage.
THEOREM AlwaysTrustRegion == Spec => []TrustRegion
<1>1. Init => OnceInv /\ RegionInv
  BY OnceInit, RegionInit
<1>2. OnceInv /\ RegionInv /\ [Next]_vars => OnceInv' /\ RegionInv'
  BY OnceNext, RegionNext
<1>3. OnceInv /\ RegionInv => TrustRegion
  <2> SUFFICES ASSUME OnceInv, RegionInv, StepDue, NEW t \in TokensOf(MiniRows)
               PROVE  /\ grad[t] * adv[t] >= 0
                      /\ grad[t] # 0 =>
                           t \in chosen
                           /\ ~Left(t, GreatestClip(ClipLow), GreatestClip(ClipHigh))
                      /\ t \in chosen /\ adv[t] # 0
                         /\ ~Left(t, LeastClip(ClipLow), LeastClip(ClipHigh))
                           => grad[t] # 0
    BY DEF TrustRegion
  <2>1. t \in Tokens
    <3>1. /\ setting.rows \in Nat /\ setting.mini \in Nat \ {0} /\ mini \in Nat \ {0}
          /\ mini * setting.mini <= setting.rows
      BY SettingFacts DEF OnceInv, TypeInv, RegionInv, StepDue
    <3>2. (mini - 1) * setting.mini \in Nat /\ mini * setting.mini \in Nat
      BY <3>1
    <3>3. MiniRows \subseteq Rows
      BY <3>1, <3>2 DEF MiniRows, Rows
    <3> QED
      BY <3>3 DEF Tokens, TokensOf
  <2>2. adv[t] \in Int
    BY <2>1 DEF OnceInv, TypeInv
  <2>3. CASE t \in chosen
    BY <2>1, <2>3 DEF RegionInv, Driven
  <2>4. CASE t \notin chosen
    BY <2>1, <2>2, <2>4 DEF RegionInv
  <2> QED
    BY <2>3, <2>4
<1> QED
  BY <1>1, <1>2, <1>3, PTL DEF Spec

(***************************************************************************)
(* The sum of the numbers of a set.                                        *)
(***************************************************************************)

\* So a set that has 0, and with every number below n the next one, has all the
\* numbers up to n.
LEMMA UpToInduction ==
    ASSUME NEW n \in Nat, NEW good,
           0 \in good,
           \A i \in 0..(n - 1) : i \in good => i + 1 \in good
    PROVE  \A i \in 0..n : i \in good
<1> DEFINE bad == {i \in 0..n : i \notin good}
<1> SUFFICES ASSUME bad # {}
             PROVE  FALSE
  OBVIOUS
<1>1. bad \in SUBSET Nat
  OBVIOUS
<1>2. PICK m \in bad : \A x \in bad : m <= x
  <2> HIDE DEF bad
  <2> QED
    BY <1>1, LeastNumber
<1>3. m \in 1..n /\ m \notin good
  OBVIOUS
<1>4. m - 1 \in 0..(n - 1) /\ m - 1 \in 0..n /\ (m - 1) + 1 = m
  BY <1>3
<1>5. m - 1 \in good
  <2>1. m - 1 \notin bad
    <3>1. ~(m <= m - 1)
      BY <1>3
    <3> QED
      BY <1>2, <3>1
  <2> QED
    BY <1>4, <2>1
<1> QED
  BY <1>3, <1>4, <1>5

\* The sums of the sets in D, taken one element at a time.
IsSum(f, g, D) ==
    f = [s \in D |-> IF s = {} THEN 0
                     ELSE LET x == CHOOSE x \in s : TRUE IN g[x] + f[s \ {x}]]

SumOf(g, S) == (CHOOSE f : IsSum(f, g, SUBSET S))[S]

\* The subsets of S with at most k elements.
UpTo(S, k) == {s \in SUBSET S : Cardinality(s) <= k}

LEMMA WithoutOne ==
    ASSUME NEW s, IsFiniteSet(s), s # {}
    PROVE  LET x == CHOOSE x \in s : TRUE
           IN  /\ x \in s /\ IsFiniteSet(s \ {x})
               /\ Cardinality(s) \in Nat /\ Cardinality(s \ {x}) = Cardinality(s) - 1
<1> DEFINE x == CHOOSE x \in s : TRUE
<1>1. x \in s
  OBVIOUS
<1> HIDE DEF x
<1>2. /\ IsFiniteSet(s \ {x}) /\ Cardinality(s \ {x}) = Cardinality(s) - 1
  BY <1>1, FS_RemoveElement
<1>3. Cardinality(s) \in Nat
  BY FS_CardinalityType
<1> QED
  BY <1>1, <1>2, <1>3 DEF x

LEMMA SumExists ==
    ASSUME NEW g, NEW S, IsFiniteSet(S)
    PROVE  \E f : IsSum(f, g, SUBSET S)
<1> DEFINE n == Cardinality(S)
           good == {k \in 0..n : \E f : IsSum(f, g, UpTo(S, k))}
           x(s) == CHOOSE x \in s : TRUE
<1>1. n \in Nat
  BY FS_CardinalityType
<1>2. \A s \in SUBSET S : IsFiniteSet(s) /\ Cardinality(s) \in Nat /\ Cardinality(s) <= n
  BY FS_Subset, FS_CardinalityType
<1>3. 0 \in good
  <2> DEFINE f == [s \in UpTo(S, 0) |-> 0]
  <2>1. \A s \in UpTo(S, 0) : s = {}
    BY <1>2, FS_EmptySet DEF UpTo
  <2>2. IsSum(f, g, UpTo(S, 0))
    BY <2>1 DEF IsSum
  <2> QED
    BY <1>1, <2>2
<1>4. ASSUME NEW k \in 0..(n - 1), k \in good
      PROVE  k + 1 \in good
  <2>1. PICK f : IsSum(f, g, UpTo(S, k))
    BY <1>4
  <2> DEFINE h == [s \in UpTo(S, k + 1) |->
                     IF s = {} THEN 0 ELSE g[x(s)] + f[s \ {x(s)}]]
  <2>2. ASSUME NEW s \in UpTo(S, k + 1), s # {}
        PROVE  h[s \ {x(s)}] = f[s \ {x(s)}]
    <3> DEFINE r == s \ {x(s)}
    <3>1. s \in SUBSET S /\ IsFiniteSet(s) /\ Cardinality(s) <= k + 1
      BY <1>2 DEF UpTo
    <3>2. Cardinality(r) = Cardinality(s) - 1 /\ Cardinality(s) \in Nat
      BY <2>2, <3>1, WithoutOne
    <3>3. r \in UpTo(S, k) /\ r \in UpTo(S, k + 1)
      BY <3>1, <3>2 DEF UpTo
    <3> HIDE DEF r
    <3>4. f[r] = IF r = {} THEN 0 ELSE g[x(r)] + f[r \ {x(r)}]
      BY <2>1, <3>3 DEF IsSum
    <3> QED
      BY <3>3, <3>4 DEF r
  <2>3. IsSum(h, g, UpTo(S, k + 1))
    <3>1. \A s \in UpTo(S, k + 1) :
             h[s] = IF s = {} THEN 0 ELSE g[x(s)] + h[s \ {x(s)}]
      <4>1. \A s \in UpTo(S, k + 1) :
               h[s] = IF s = {} THEN 0 ELSE g[x(s)] + f[s \ {x(s)}]
        BY Zenon
      <4> HIDE DEF h, x
      <4> QED
        BY <2>2, <4>1
    <3>2. h = [s \in UpTo(S, k + 1) |-> h[s]]
      OBVIOUS
    <3> HIDE DEF h
    <3>3. h = [s \in UpTo(S, k + 1) |-> IF s = {} THEN 0 ELSE g[x(s)] + h[s \ {x(s)}]]
      BY <3>1, <3>2
    <3> QED
      BY <3>3, Zenon DEF IsSum
  <2>4. k + 1 \in 0..n
    BY <1>1
  <2> QED
    BY <2>3, <2>4
<1> HIDE DEF good
<1>5. n \in good
  <2>1. n \in 0..n
    BY <1>1
  <2> QED
    BY <1>1, <1>3, <1>4, <2>1, UpToInduction
<1>6. UpTo(S, n) = SUBSET S
  BY <1>2 DEF UpTo
<1> QED
  BY <1>5, <1>6 DEF good

\* Numbers that are v on the set C and nothing elsewhere sum to v for each of C.
LEMMA SumOfConstant ==
    ASSUME NEW g, NEW S, IsFiniteSet(S), NEW C \in SUBSET S, NEW v \in Int,
           \A t \in C : g[t] = v, \A t \in S \ C : g[t] = 0
    PROVE  SumOf(g, S) = v * Cardinality(C)
<1> DEFINE n == Cardinality(S)
           f == CHOOSE f : IsSum(f, g, SUBSET S)
           good == {k \in 0..n : \A s \in UpTo(S, k) : f[s] = v * Cardinality(s \cap C)}
<1>1. n \in Nat
  BY FS_CardinalityType
<1>2. \A s \in SUBSET S : IsFiniteSet(s) /\ Cardinality(s) \in Nat /\ Cardinality(s) <= n
  BY FS_Subset, FS_CardinalityType
<1>3. IsSum(f, g, SUBSET S)
  BY SumExists
<1> HIDE DEF f
<1>4. \A s \in SUBSET S :
         f[s] = IF s = {} THEN 0
                ELSE LET x == CHOOSE x \in s : TRUE IN g[x] + f[s \ {x}]
  BY <1>3 DEF IsSum
<1>5. 0 \in good
  <2>1. \A s \in UpTo(S, 0) : s = {}
    BY <1>2, FS_EmptySet DEF UpTo
  <2>2. f[{}] = 0 /\ {} \cap C = {} /\ Cardinality({}) = 0 /\ v * 0 = 0
    <3>1. {} \in SUBSET S
      OBVIOUS
    <3>2. f[{}] = 0
      BY <1>4, <3>1, Zenon
    <3> QED
      BY <3>2, FS_EmptySet
  <2>3. \A s \in UpTo(S, 0) : f[s] = v * Cardinality(s \cap C)
    BY <2>1, <2>2
  <2> QED
    BY <1>1, <2>3
<1>6. ASSUME NEW k \in 0..(n - 1), k \in good
      PROVE  k + 1 \in good
  <2>1. ASSUME NEW s \in UpTo(S, k + 1), s # {}
        PROVE  f[s] = v * Cardinality(s \cap C)
    <3> DEFINE x == CHOOSE x \in s : TRUE
               r == s \ {x}
    <3>1. s \in SUBSET S /\ IsFiniteSet(s) /\ Cardinality(s) <= k + 1
      BY <1>2 DEF UpTo
    <3>2. x \in s /\ Cardinality(r) = Cardinality(s) - 1 /\ Cardinality(s) \in Nat
      BY <2>1, <3>1, WithoutOne
    <3>3. f[s] = g[x] + f[r]
      BY <1>4, <2>1, <3>1
    <3> HIDE DEF x
    <3>4. r \in UpTo(S, k)
      BY <3>1, <3>2 DEF UpTo
    <3>5. f[r] = v * Cardinality(r \cap C)
      BY <1>6, <3>4
    <3>6. IsFiniteSet(s \cap C) /\ IsFiniteSet(r \cap C)
      BY <1>2, <3>1
    <3>7. Cardinality(r \cap C) \in Nat
      BY <3>6, FS_CardinalityType
    <3>8. CASE x \in C
      <4>1. r \cap C = (s \cap C) \ {x} /\ x \in s \cap C
        <5>1. \A e : e \in r \cap C <=> e \in (s \cap C) \ {x}
          BY Zenon
        <5>2. r \cap C = (s \cap C) \ {x}
          BY <5>1, Zenon
        <5> QED
          BY <3>2, <3>8, <5>2, Zenon
      <4>2. Cardinality(r \cap C) = Cardinality(s \cap C) - 1
        BY <3>6, <4>1, FS_RemoveElement
      <4>3. Cardinality(s \cap C) \in Nat
        BY <3>6, FS_CardinalityType
      <4> HIDE DEF r
      <4>4. f[s] = v + v * Cardinality(r \cap C)
        BY <3>3, <3>5, <3>8
      <4> DEFINE a == Cardinality(s \cap C)
                 b == Cardinality(r \cap C)
      <4> HIDE DEF a, b
      <4>5. v + v * b = v * (b + 1) /\ b + 1 = a
        BY <3>7, <4>2, <4>3 DEF a, b
      <4> QED
        BY <4>4, <4>5 DEF a, b
    <3>9. CASE x \notin C
      <4>1. r \cap C = s \cap C
        BY <3>9
      <4>2. g[x] = 0
        BY <3>1, <3>2, <3>9
      <4> HIDE DEF r
      <4>3. v * Cardinality(r \cap C) \in Int
        BY <3>7
      <4> QED
        BY <3>3, <3>5, <4>1, <4>2, <4>3
    <3> QED
      BY <3>8, <3>9
  <2>2. f[{}] = v * Cardinality({} \cap C)
    <3>1. {} \in SUBSET S
      OBVIOUS
    <3>2. f[{}] = 0
      BY <1>4, <3>1, Zenon
    <3>3. {} \cap C = {} /\ Cardinality({}) = 0 /\ v * 0 = 0
      BY FS_EmptySet
    <3> QED
      BY <3>2, <3>3
  <2>3. k + 1 \in 0..n
    BY <1>1
  <2> QED
    BY <2>1, <2>2, <2>3
<1> HIDE DEF good
<1>7. n \in good
  <2>1. n \in 0..n
    BY <1>1
  <2> QED
    BY <1>1, <1>5, <1>6, <2>1, UpToInduction
<1>8. S \in UpTo(S, n) /\ S \cap C = C
  BY <1>1 DEF UpTo
<1>9. f[S] = v * Cardinality(C)
  BY <1>7, <1>8 DEF good
<1> QED
  BY <1>9 DEF SumOf, f

LEMMA GradientSum ==
    ASSUME NEW S
    PROVE  MapThenSumSet(LAMBDA t : grad[t], S) = SumOf(grad, S)
BY DEF MapThenSumSet, MapThenFoldSet, SumOf, IsSum

(***************************************************************************)
(* The first step after sampling.                                          *)
(***************************************************************************)

\* The tokens of a response have one advantage, unless they are reweighted.
AlikeInv ==
    /\ lens \in [Rows -> 1..setting.length]
    /\ stage = "advantage" => kept = adv /\ micro = 1
    /\ ~setting.reweight => \A t \in Tokens : kept[t] = kept[<<t[1], 1>>]

\* Every response that has been through the backward pass has tokens in the
\* loss; while the policy is that of the samples, each of them is pushed by its
\* advantage over what the whole mini-batch divides it by.
PlainInv ==
    /\ stage = "update" => \A i \in DoneRows : chosen \cap TokensOf({i}) # {}
    /\ setting.mode = "seq-mean-token-mean" /\ prob = old =>
          \A t \in chosen :
              grad[t] = (adv[t] * One) * (Unit \div Divisor(t, MiniRows, chosen))

LEMMA FirstToken ==
    ASSUME TypeInv, AlikeInv, NEW i \in Rows
    PROVE  <<i, 1>> \in Tokens
<1>1. setting.length \in Nat \ {0} /\ lens[i] \in 1..setting.length
  BY SettingFacts DEF TypeInv, AlikeInv
<1>2. 1 \in 1..setting.length /\ 1 <= lens[i]
  BY <1>1
<1> QED
  BY <1>2 DEF Tokens, TokensOf

LEMMA AlikeNext == OnceInv /\ AlikeInv /\ [Next]_vars => AlikeInv'
<1> SUFFICES ASSUME OnceInv, AlikeInv, [Next]_vars
             PROVE  AlikeInv'
  OBVIOUS
<1>1. CASE Prepare
  <2>1. /\ UNCHANGED <<setting, lens>> /\ stage = "advantage" /\ stage' = "update"
        /\ kept' = [t \in Tokens |-> Reweighted(t)] /\ kept = adv
    BY <1>1 DEF Prepare, AlikeInv
  <2>2. Tokens' = Tokens
    BY <2>1 DEF Tokens, TokensOf, Rows
  <2>3. ASSUME ~setting.reweight, NEW t \in Tokens
        PROVE  kept'[t] = kept'[<<t[1], 1>>]
    <3>1. <<t[1], 1>> \in Tokens
      BY FirstToken, TokenRow DEF OnceInv
    <3>2. \A u \in Tokens : kept'[u] = kept[u]
      BY <2>1, <2>3 DEF Reweighted
    <3> QED
      BY <2>3, <3>1, <3>2 DEF AlikeInv
  <2> QED
    BY <2>1, <2>2, <2>3 DEF AlikeInv, Rows
<1>2. CASE Backward \/ OptimizerStep \/ UNCHANGED vars
  <2>1. UNCHANGED <<setting, lens, kept>>
    BY <1>2 DEF Backward, OptimizerStep, vars
  <2>2. stage' = "advantage" => stage = "advantage" /\ adv' = adv /\ micro' = micro
    BY <1>2 DEF Backward, OptimizerStep, StepDue, vars
  <2> QED
    BY <2>1, <2>2 DEF AlikeInv, Tokens, TokensOf, Rows
<1> QED
  BY <1>1, <1>2 DEF Next

LEMMA AlikeInit == Init => AlikeInv
<1> SUFFICES ASSUME Init
             PROVE  AlikeInv
  OBVIOUS
<1>1. lens \in [Rows -> 1..setting.length]
  BY DEF Init
<1>2. TypeInv
  BY OnceInit DEF OnceInv
<1>3. PICK sign : adv = [t \in Tokens |-> ArUnit * Whole * sign[t[1]]]
  BY DEF Init
<1>4. ASSUME NEW t \in Tokens
      PROVE  kept[t] = kept[<<t[1], 1>>]
  <2>1. <<t[1], 1>> \in Tokens
    <3>1. setting.length \in Nat \ {0} /\ t[1] \in Rows /\ lens[t[1]] \in 1..setting.length
      BY <1>1, <1>2, SettingFacts, TokenRow DEF TypeInv
    <3>2. 1 \in 1..setting.length /\ 1 <= lens[t[1]]
      BY <3>1
    <3> QED
      BY <3>1, <3>2 DEF Tokens, TokensOf
  <2>2. <<t[1], 1>>[1] = t[1]
    OBVIOUS
  <2>3. kept = adv
    BY DEF Init
  <2> QED
    BY <1>3, <2>1, <2>2, <2>3
<1> QED
  BY <1>1, <1>4 DEF AlikeInv, Init

\* At a ratio of 1 nothing is clipped.
LEMMA PushPlain ==
    ASSUME TypeInv, prob = old, IsLow >= 0, NEW t \in Tokens, NEW rows
    PROVE  Push(t, rows) = adv[t] * One
<1>1. One \in Nat \ {0} /\ adv[t] \in Int /\ prob \in [Tokens -> Probs]
  BY UnitsAssumption DEF One, TypeInv
<1>2. Ratio(t) = One
  <2>1. old[t] \in Nat \ {0}
    BY ProbsInt DEF TypeInv
  <2>2. \A a, b \in Nat \ {0} : (a * b) \div b = a
    OBVIOUS
  <2> QED
    BY <1>1, <2>1, <2>2 DEF Ratio
<1>3. CASE ~setting.cispo
  <2>1. PushOfPPO(t, rows)
            = IF adv[t] = 0 \/ Left(t, LowClip(t, rows), HighClip(t, rows))
              THEN 0 ELSE adv[t] * Ratio(t)
    BY <1>1, <1>3, PushOfPPOFacts
  <2>2. LowClip(t, rows) \in Nat /\ HighClip(t, rows) \in Nat
    BY <1>3, ClipFacts
  <2>3. ~Left(t, LowClip(t, rows), HighClip(t, rows))
    BY <1>1, <1>2, <2>2, UnitsAssumption DEF Left
  <2>4. adv[t] = 0 => adv[t] * One = 0
    BY <1>1
  <2> QED
    BY <1>2, <1>3, <2>1, <2>3, <2>4 DEF Push
<1>4. CASE setting.cispo
  <2>1. IsLow \in Nat /\ IsHigh \in Nat /\ ClipLow \in Nat /\ ClipHigh \in Nat
    BY UnitsAssumption
  <2>2. Bounded(One, One - IsLow, One + IsHigh) = One
    <3>1. One - IsLow \in Int /\ One + IsHigh \in Int
      BY <1>1, <2>1
    <3>2. Bounded(One, One - IsLow, One + IsHigh)
             = LET m == IF One + IsHigh <= One THEN One + IsHigh ELSE One
               IN IF One - IsLow >= m THEN One - IsLow ELSE m
      BY <1>1, <3>1, BoundedFacts
    <3> QED
      BY <1>1, <2>1, <3>1, <3>2
  <2>3. ~(Ratio(t) > One + ClipHigh) /\ ~(Ratio(t) < One - ClipLow)
    BY <1>1, <1>2, <2>1
  <2> QED
    BY <1>2, <1>4, <2>2, <2>3 DEF Push, PushOfCISPO
<1> QED
  BY <1>3, <1>4

\* Some token of every response is selected.
LEMMA SelectionsOfRows ==
    ASSUME NEW rows, NEW sel \in Selections(rows), NEW i \in rows, setting \in Settings,
           lens[i] \in Nat
    PROVE  sel \cap TokensOf({i}) # {}
<1>1. Cardinality(sel \cap TokensOf({i})) = NumSelect(lens[i])
  BY DEF Selections
<1>2. (lens[i] * setting.keep) \div 100 \in Int
  <2>1. setting.keep \in Nat
    BY SettingsAssumption
  <2> QED
    BY <2>1
<1> DEFINE q == (lens[i] * setting.keep) \div 100
<1> HIDE DEF q
<1>3. Max({1, q}) # 0
  <2>1. \E x \in {1, q} : \A y \in {1, q} : x >= y
    BY <1>2 DEF q
  <2>2. \A y \in {1, q} : Max({1, q}) >= y
    BY <2>1 DEF Max
  <2> QED
    BY <2>2
<1> QED
  BY <1>1, <1>3, FS_EmptySet DEF NumSelect, q

\* A response has at most setting.length tokens.
LEMMA TokensOfRow ==
    ASSUME TypeInv, NEW i
    PROVE  /\ IsFiniteSet(TokensOf({i}))
           /\ \A C : /\ IsFiniteSet(C \cap TokensOf({i}))
                     /\ Cardinality(C \cap TokensOf({i})) \in 0..setting.length
<1> DEFINE L == setting.length
<1>1. L \in Nat \ {0}
  BY SettingFacts DEF TypeInv
<1>2. IsFiniteSet(1..L) /\ Cardinality(1..L) = L
  <2>1. L \in Int /\ 1 \in Int /\ ~(1 > L) /\ L - 1 + 1 = L
    BY <1>1
  <2> QED
    BY <2>1, FS_Interval
<1>3. /\ IsFiniteSet({i} \X (1..L))
      /\ Cardinality({i} \X (1..L)) = L
  BY <1>2, PairsWithOne, Zenon
<1>4. TokensOf({i}) \subseteq {i} \X (1..L)
  BY DEF TokensOf
<1>5. IsFiniteSet(TokensOf({i}))
  BY <1>3, <1>4, FS_Subset
<1>6. ASSUME NEW C
      PROVE  /\ IsFiniteSet(C \cap TokensOf({i}))
             /\ Cardinality(C \cap TokensOf({i})) \in 0..L
  <2>1. C \cap TokensOf({i}) \subseteq {i} \X (1..L)
    BY <1>4
  <2>2. /\ IsFiniteSet(C \cap TokensOf({i}))
        /\ Cardinality(C \cap TokensOf({i})) <= L
    BY <1>3, <2>1, FS_Subset
  <2>3. Cardinality(C \cap TokensOf({i})) \in Nat
    BY <2>2, FS_CardinalityType
  <2> QED
    BY <1>1, <2>2, <2>3
<1> QED
  BY <1>5, <1>6

\* The mini-batch is within the batch, and its rows are done one micro-batch
\* after the other.
LEMMA RowsWithin ==
    ASSUME TypeInv, RegionInv, stage = "update"
    PROVE  /\ MiniRows \subseteq Rows /\ DoneRows \subseteq MiniRows
           /\ micro <= NumMicros => MicroRows \subseteq MiniRows
           /\ micro > NumMicros => DoneRows = MiniRows
<1> DEFINE m == setting.mini
           u == setting.micro
<1>1. /\ m \in Nat \ {0} /\ u \in Nat \ {0} /\ mini \in Nat \ {0} /\ setting.rows \in Nat
      /\ NumMicros \in Nat \ {0} /\ u * NumMicros = m /\ micro \in 1..(NumMicros + 1)
      /\ mini * m <= setting.rows
  BY NumMicrosExact, SettingFacts DEF TypeInv, RegionInv
<1> HIDE DEF m, u
<1>2. /\ (mini - 1) * m \in Nat /\ mini * m = (mini - 1) * m + m
  BY <1>1
<1>3. FirstRow = (mini - 1) * m /\ MiniRows = (FirstRow + 1)..(FirstRow + m)
  BY <1>2 DEF FirstRow, MiniRows, m
<1>4. FirstRow \in Nat /\ FirstRow + m <= setting.rows
  BY <1>1, <1>2, <1>3
<1>5. MiniRows \subseteq Rows
  BY <1>1, <1>3, <1>4 DEF Rows
<1> DEFINE d == (micro - 1) * u
<1>6. d \in Nat /\ d <= m
  <2>1. micro - 1 \in Nat /\ micro - 1 <= NumMicros
    BY <1>1
  <2>2. u * (micro - 1) <= u * NumMicros /\ (micro - 1) * u = u * (micro - 1)
        /\ (micro - 1) * u \in Nat
    BY <1>1, <2>1
  <2> QED
    BY <1>1, <2>2
<1>7. DoneRows = (FirstRow + 1)..(FirstRow + d)
  BY <1>3 DEF DoneRows, u
<1>8. DoneRows \subseteq MiniRows
  BY <1>1, <1>3, <1>4, <1>6, <1>7
<1>9. ASSUME micro <= NumMicros
      PROVE  MicroRows \subseteq MiniRows
  <2>1. d + u <= m
    <3>1. micro \in Nat /\ u * micro <= u * NumMicros /\ (micro - 1) * u + u = u * micro
      BY <1>1, <1>9
    <3> QED
      BY <1>1, <3>1
  <2>2. MicroRows = ((FirstRow + d) + 1)..((FirstRow + d) + u)
    BY <1>3 DEF MicroRows, m, u
  <2> HIDE DEF d
  <2> QED
    BY <1>1, <1>3, <1>4, <1>6, <2>1, <2>2
<1>10. ASSUME micro > NumMicros
       PROVE  DoneRows = MiniRows
  <2>1. micro - 1 = NumMicros /\ (micro - 1) * u = u * (micro - 1)
    BY <1>1, <1>10
  <2>2. d = m
    BY <1>1, <2>1
  <2> QED
    BY <1>3, <1>7, <2>2
<1> QED
  BY <1>5, <1>8, <1>9, <1>10

LEMMA PlainBackward ==
    ASSUME TypeInv, AlikeInv, MicroInv, RegionInv, PlainInv, IsLow >= 0, Backward
    PROVE  PlainInv'
<1>1. PICK sel \in Selections(MicroRows) :
         /\ grad' = [t \in Tokens |->
                       grad[t] + Gradient(MicroRows, sel, Accumulation)[t]]
         /\ chosen' = chosen \cup sel
  BY DEF Backward
<1>2. /\ UNCHANGED <<setting, lens, old, prob, stage, adv, mini>>
      /\ stage = "update" /\ micro <= NumMicros /\ micro' = micro + 1
  BY DEF Backward
<1>3. sel \in SUBSET TokensOf(MicroRows)
  BY <1>1 DEF Selections
<1>4. /\ DoneRows' = DoneRows \cup MicroRows
      /\ DoneRows \cap MicroRows = {}
  <2>1. micro \in Nat \ {0}
    BY NumMicrosExact DEF MicroInv
  <2> QED
    BY <1>2, <2>1, RowsOfMicro
<1>5. sel \cap chosen = {}
  BY <1>3, <1>4 DEF MicroInv, TokensOf
<1>6. \A i \in DoneRows' : chosen' \cap TokensOf({i})' # {}
  <2> SUFFICES ASSUME NEW i \in DoneRows'
               PROVE  chosen' \cap TokensOf({i}) # {}
    BY <1>2 DEF TokensOf
  <2>1. CASE i \in DoneRows
    BY <1>1, <1>2, <2>1 DEF PlainInv
  <2>2. CASE i \in MicroRows
    <3>1. MicroRows \subseteq Rows
      BY <1>2, RowsWithin
    <3>2. lens[i] \in Nat
      BY <2>2, <3>1, SettingFacts DEF AlikeInv, TypeInv
    <3>3. setting \in Settings
      BY DEF TypeInv
    <3>4. sel \cap TokensOf({i}) # {}
      BY <1>1, <2>2, <3>2, <3>3, SelectionsOfRows, Zenon
    <3>5. sel \subseteq chosen'
      BY <1>1
    <3> QED
      BY <3>4, <3>5
  <2> QED
    BY <1>4, <2>1, <2>2
<1>7. ASSUME setting.mode = "seq-mean-token-mean", prob = old, NEW t \in chosen'
      PROVE  grad'[t] = (adv[t] * One) * (Unit \div Divisor(t, MiniRows, chosen \cup sel))
  <2> DEFINE added == Gradient(MicroRows, sel, Accumulation)
  <2>1. OfEachResponse
    BY <1>7 DEF OfEachResponse
  <2>2. t \in Tokens
    <3>1. MicroRows \subseteq Rows /\ DoneRows \subseteq Rows
      BY <1>2, RowsWithin
    <3>2. t \in TokensOf(MicroRows) \cup TokensOf(DoneRows)
      BY <1>1, <1>3, <1>7 DEF RegionInv
    <3> QED
      BY <3>1, <3>2 DEF Tokens, TokensOf
  <2>3. grad'[t] = grad[t] + added[t] /\ grad[t] \in Int
    BY <1>1, <2>2 DEF RegionInv
  <2>4. CASE t \in sel
    <3>1. grad[t] = 0
      BY <1>5, <2>2, <2>4 DEF RegionInv
    <3> DEFINE d == Divisor(t, MicroRows, sel) * Accumulation
               e == Divisor(t, MiniRows, chosen \cup sel)
    <3>2. d = e * 1 /\ d \in Nat \ {0}
      BY <1>3, <2>1, <2>4, DivisorOfMicro
    <3>3. added[t] = Push(t, MicroRows) * (Unit \div d)
      BY <2>2, <2>4 DEF Gradient
    <3>4. Push(t, MicroRows) = adv[t] * One /\ adv[t] * One \in Int
      <4>1. adv[t] \in Int /\ One \in Int
        BY <2>2, UnitsAssumption DEF One, TypeInv
      <4> QED
        BY <1>7, <2>2, <4>1, PushPlain
    <3> DEFINE v == adv[t] * One
    <3>5. Unit \div d \in Int
      BY <3>2, UnitsAssumption
    <3>6. e = d
      <4>1. e \in Int
        <5> DEFINE c == Cardinality((chosen \cup sel) \cap TokensOf({t[1]}))
        <5>1. e = Cardinality(MiniRows) * c
          BY <1>7 DEF Divisor
        <5>2. Cardinality(MiniRows) \in Nat /\ c \in 0..setting.length
          <6>1. micro \in Nat \ {0}
            BY NumMicrosExact DEF MicroInv
          <6> QED
            BY <6>1, RowCounts, TokensOfRow, SettingFacts DEF TypeInv
        <5>3. setting.length \in Nat
          BY SettingFacts DEF TypeInv
        <5> HIDE DEF c, e
        <5> QED
          BY <5>1, <5>2, <5>3
      <4> HIDE DEF d, e
      <4> QED
        BY <3>2, <4>1
    <3> HIDE DEF added, d, v
    <3>7. grad'[t] = v * (Unit \div d)
      BY <2>3, <3>1, <3>3, <3>4, <3>5 DEF v
    <3> QED
      BY <3>6, <3>7 DEF v
  <2>5. CASE t \in chosen
    <3>1. added[t] = 0
      BY <1>5, <2>2, <2>5 DEF Gradient
    <3>2. grad[t] = (adv[t] * One) * (Unit \div Divisor(t, MiniRows, chosen))
      BY <1>7, <2>5 DEF PlainInv
    <3>3. Divisor(t, MiniRows, chosen \cup sel) = Divisor(t, MiniRows, chosen)
      BY <1>3, <2>1, <2>5, DivisorOfOthers
    <3> HIDE DEF added
    <3> QED
      BY <2>3, <3>1, <3>2, <3>3
  <2> QED
    BY <1>1, <1>7, <2>4, <2>5
<1>8. \A t : Divisor(t, MiniRows, chosen)' = Divisor(t, MiniRows, chosen \cup sel)
  BY <1>1, <1>2 DEF Divisor, TokensOf, MiniRows
<1> QED
  BY <1>2, <1>6, <1>7, <1>8 DEF PlainInv

LEMMA PlainInit == Init => PlainInv
BY DEF Init, PlainInv

LEMMA PlainNext ==
    IsLow >= 0 /\ OnceInv /\ AlikeInv /\ MicroInv /\ RegionInv /\ PlainInv /\ [Next]_vars
        => PlainInv'
<1> SUFFICES ASSUME IsLow >= 0, OnceInv, AlikeInv, MicroInv, RegionInv, PlainInv, [Next]_vars
             PROVE  PlainInv'
  OBVIOUS
<1>1. CASE Backward
  BY <1>1, PlainBackward DEF OnceInv
<1>2. CASE Prepare
  <2>1. chosen' = {} /\ micro' = micro /\ micro = 1 /\ UNCHANGED <<setting, mini>>
    BY <1>2 DEF Prepare, MicroInv, AlikeInv
  <2>2. DoneRows' = {}
    <3>1. setting.mini \in Nat /\ setting.micro \in Nat /\ mini \in Nat
      BY SettingFacts DEF OnceInv, TypeInv
    <3>2. (mini - 1) * setting.mini \in Int /\ (1 - 1) * setting.micro = 0
      BY <3>1
    <3>3. FirstRow' \in Int /\ DoneRows' = (FirstRow' + 1)..(FirstRow' + 0)
      BY <2>1, <3>2 DEF DoneRows, FirstRow
    <3>4. \A r \in Int : (r + 1)..(r + 0) = {}
      OBVIOUS
    <3> HIDE DEF FirstRow, DoneRows
    <3> QED
      BY <3>3, <3>4, Zenon
  <2> QED
    BY <2>1, <2>2 DEF PlainInv
<1>3. CASE OptimizerStep
  <2>1. chosen' = {} /\ micro' = 1 /\ setting' = setting /\ mini' \in Int
    BY <1>3 DEF OptimizerStep, OnceInv, TypeInv
  <2>2. DoneRows' = {}
    <3>1. setting.mini \in Nat /\ setting.micro \in Nat
      BY SettingFacts DEF OnceInv, TypeInv
    <3>2. (mini' - 1) * setting.mini \in Int /\ (1 - 1) * setting.micro = 0
      BY <2>1, <3>1
    <3>3. FirstRow' \in Int /\ DoneRows' = (FirstRow' + 1)..(FirstRow' + 0)
      BY <2>1, <3>2 DEF DoneRows, FirstRow
    <3>4. \A r \in Int : (r + 1)..(r + 0) = {}
      OBVIOUS
    <3> HIDE DEF FirstRow, DoneRows
    <3> QED
      BY <3>3, <3>4, Zenon
  <2> QED
    BY <2>1, <2>2 DEF PlainInv
<1>4. CASE UNCHANGED vars
  BY <1>4 DEF vars, PlainInv, TokensOf, DoneRows, FirstRow, Divisor, MiniRows
<1> QED
  BY <1>1, <1>2, <1>3, <1>4 DEF Next

\* In the first mini-batch the gradients of a response sum to its advantage.
LEMMA PlainStep ==
    ASSUME OnceInv, AlikeInv, MicroInv, RegionInv, PlainInv,
           StepDue, prob = old, kept = adv,
           setting.mode = "seq-mean-token-mean", ~setting.reweight, NEW i \in MiniRows
    PROVE  MapThenSumSet(LAMBDA t : grad[t], TokensOf({i})) * setting.mini
               = Unit * One * adv[<<i, 1>>]
<1> DEFINE S == TokensOf({i})
           C == chosen \cap S
           n == Cardinality(C)
           a == adv[<<i, 1>>]
           m == setting.mini
<1>1. /\ TypeInv /\ stage = "update" /\ micro > NumMicros /\ m \in Nat \ {0}
      /\ setting.length \in Nat \ {0} /\ Unit \in Nat \ {0} /\ One \in Nat
  BY SettingFacts, UnitsAssumption DEF OnceInv, TypeInv, StepDue, One
<1>2. i \in Rows /\ i \in DoneRows /\ S \subseteq Tokens
  <2>1. i \in Rows /\ i \in DoneRows
    BY <1>1, RowsWithin
  <2> QED
    BY <2>1 DEF Tokens, TokensOf
<1>3. a \in Int
  BY <1>1, <1>2, FirstToken DEF TypeInv
<1>4. IsFiniteSet(S) /\ IsFiniteSet(C) /\ n \in 1..setting.length
  <2>1. IsFiniteSet(S) /\ IsFiniteSet(C) /\ n \in 0..setting.length
    BY <1>1, TokensOfRow
  <2>2. C # {}
    BY <1>1, <1>2 DEF PlainInv
  <2>3. n # 0
    BY <2>1, <2>2, FS_EmptySet
  <2> QED
    BY <1>1, <2>1, <2>3
<1> DEFINE v == (a * One) * (Unit \div (m * n))
<1>5. Cardinality(MiniRows) = m
  <2>1. micro \in Nat \ {0}
    BY <1>1, NumMicrosExact DEF MicroInv
  <2> QED
    BY <1>1, <2>1, RowCounts
<1>6. ASSUME NEW t \in C
      PROVE  grad[t] = v
  <2>1. t[1] = i /\ t \in chosen /\ t \in Tokens
    BY <1>2 DEF TokensOf
  <2>2. adv[t] = a
    BY <2>1 DEF AlikeInv
  <2>3. Divisor(t, MiniRows, chosen) = m * n
    BY <1>5, <2>1 DEF Divisor
  <2> QED
    BY <2>1, <2>2, <2>3 DEF PlainInv
<1>7. \A t \in S \ C : grad[t] = 0
  BY <1>2 DEF RegionInv
<1> HIDE DEF S, n, a
<1>8. v \in Int /\ (n * v) * m = (a * One) * Unit
  <2>1. n \in Nat \ {0} /\ m * n \in 1..(m * setting.length)
    <3>1. n \in Nat \ {0} /\ n <= setting.length
      BY <1>1, <1>4
    <3>2. m * n <= m * setting.length /\ m * n \in Nat \ {0} /\ m * setting.length \in Nat
      BY <1>1, <3>1
    <3> QED
      BY <3>1, <3>2
  <2>2. Unit % (m * n) = 0
    BY <1>1, <2>1, UnitsAssumption DEF TypeInv
  <2>3. m * n \in Nat \ {0}
    BY <1>1, <2>1
  <2> DEFINE d == m * n
             q == Unit \div d
             b == a * One
  <2>4. q \in Nat /\ q * d = Unit
    <3>1. \A x, y \in Nat \ {0} : x % y = 0 => (x \div y) \in Nat /\ (x \div y) * y = x
      OBVIOUS
    <3> QED
      BY <1>1, <2>2, <2>3, <3>1
  <2>5. b \in Int
    BY <1>1, <1>3
  <2>6. v = b * q
    OBVIOUS
  <2> HIDE DEF q, b, m, v
  <2>7. v \in Int /\ (n * v) * m = b * (q * (m * n))
    BY <1>1, <2>1, <2>4, <2>5, <2>6
  <2> QED
    BY <2>4, <2>7 DEF b
<1> HIDE DEF v, m
<1>9. SumOf(grad, S) = v * n
  BY <1>4, <1>6, <1>7, <1>8, SumOfConstant DEF n
<1>10. MapThenSumSet(LAMBDA t : grad[t], S) = SumOf(grad, S)
  BY GradientSum
<1>11. n \in Nat /\ (v * n) * m = (n * v) * m /\ (a * One) * Unit = Unit * One * a
  BY <1>1, <1>3, <1>4, <1>8
<1> QED
  BY <1>8, <1>9, <1>10, <1>11 DEF S, a, m

\* Where CISPO does not bound the weights from below by more than 1: the first
\* optimizer step after sampling is the plain policy gradient in every method,
\* whatever the lengths of the responses and the selection.
THEOREM AlwaysFirstStepPlain == IsLow >= 0 => (Spec => []FirstStepPlain)
<1> SUFFICES ASSUME IsLow >= 0
             PROVE  Spec => []FirstStepPlain
  OBVIOUS
<1> DEFINE Inv == OnceInv /\ AlikeInv /\ MicroInv /\ RegionInv /\ PlainInv
<1>1. Init => Inv
  BY OnceInit, AlikeInit, MicroInit, RegionInit, PlainInit
<1>2. Inv /\ [Next]_vars => Inv'
  BY OnceNext, AlikeNext, MicroNext, RegionNext, PlainNext
<1>3. Inv => FirstStepPlain
  BY PlainStep DEF FirstStepPlain
<1> QED
  BY <1>1, <1>2, <1>3, PTL DEF Spec
=============================================================================
