-------------------------- MODULE AsyncRollout_proofs --------------------------
(***************************************************************************)
(* Theorems about AsyncRollout, for every number of requests and turns,    *)
(* every length of prompts, responses and tool answers, and every length   *)
(* of the model.                                                           *)
(***************************************************************************)
EXTENDS AsyncRollout, TLAPS

(***************************************************************************)
(* The inductive invariants.                                               *)
(***************************************************************************)

\* A request whose loop goes on has turns left; one whose loop has been left
\* has a finish reason that finalize accepts; the engine has room.
LoopAt(r) ==
    /\ state[r] \in {"pending", "running", "engine", "tool_calling"} => turns[r] < MaxTurns
    /\ state[r] = "closing" => finish[r] \in {"stop", "length"}
    /\ state[r] = "engine" =>
          given[r].new >= 1 /\ Len(input[r]) + given[r].new + 1 <= MaxModelLen

\* What may follow what in the tokens after the prompt.
Follow(a, b) ==
    /\ b = "G" => a = "T"
    /\ a = "T" => b \in {"T", "G"}
    /\ a = "G" => b = "A"

\* The mask m selects the model's tokens among those of q.
Selects(m, q) == Len(m) = Len(q) /\ \A i \in 1..Len(q) : m[i] = 1 <=> q[i] = "A"

\* q continues a prompt of n tokens, the last of which is the generation
\* prompt, like the chat template does.
Continues(q, n) ==
    /\ n >= 1 /\ Len(q) >= n /\ q[n] = "G"
    /\ \A i \in (n + 1)..Len(q) : Follow(q[i - 1], q[i])

Unfinished == States \ {"none", "completed"}

TokensAt(r) ==
    /\ state[r] \in Unfinished =>
          Selects(mask[r], input[r]) /\ Continues(input[r], prompt[r])
    /\ state[r] \in {"pending", "engine"} => Last(input[r]) = "G"
    /\ state[r] = "running" => Last(input[r]) \in {"G", "T"}
    /\ state[r] = "tool_calling" => Last(input[r]) = "A"

\* A response ids with loss mask m, of a request with a prompt of n tokens.
Answers(ids, m, n) ==
    /\ Selects(m, ids)
    /\ ids # <<>> => ids[1] = "A"
    /\ \A i \in 2..Len(ids) : Follow(ids[i - 1], ids[i])
    /\ ids # <<>> /\ Last(ids) = "G" =>
          Len(ids) = ResponseLength \/ n + Len(ids) = ModelLenOfRequest

OutputAt(r) == state[r] = "completed" => Answers(output[r].ids, output[r].mask, prompt[r])

RequestInv(r) == LoopAt(r) /\ TokensAt(r) /\ OutputAt(r)

IndInv == TypeOK /\ \A r \in Reqs : RequestInv(r)

(***************************************************************************)
(* Sequences of tokens.                                                    *)
(***************************************************************************)

LEMMA RepeatedIs ==
    ASSUME NEW S, NEW x \in S, NEW n \in Nat
    PROVE  /\ Repeated(x, n) \in Seq(S) /\ Len(Repeated(x, n)) = n
           /\ \A i \in 1..n : Repeated(x, n)[i] = x
  BY DEF Repeated

LEMMA PromptTokensAre ==
    ASSUME NEW n \in Nat \ {0}
    PROVE  /\ PromptTokens(n) \in Seq(Tokens) /\ Len(PromptTokens(n)) = n
           /\ PromptTokens(n)[n] = "G"
           /\ \A i \in 1..n : PromptTokens(n)[i] # "A"
<1>0. n - 1 \in Nat /\ "P" \in Tokens /\ "G" \in Tokens
  BY DEF Tokens
<1>1. /\ Repeated("P", n - 1) \in Seq(Tokens) /\ Len(Repeated("P", n - 1)) = n - 1
      /\ \A i \in 1..(n - 1) : Repeated("P", n - 1)[i] = "P"
  BY <1>0, RepeatedIs
<1> QED
  BY <1>0, <1>1 DEF PromptTokens

\* Tokens of one kind x are added, and v for each of them to the mask.
LEMMA Added ==
    ASSUME NEW q \in Seq(Tokens), NEW m \in Seq({0, 1}), NEW x \in Tokens, NEW v \in {0, 1},
           NEW n \in Nat \ {0}, Selects(m, q), v = 1 <=> x = "A"
    PROVE  /\ Selects(m \o Repeated(v, n), q \o Repeated(x, n))
           /\ q \o Repeated(x, n) \in Seq(Tokens) /\ m \o Repeated(v, n) \in Seq({0, 1})
<1> DEFINE q2 == q \o Repeated(x, n)
           m2 == m \o Repeated(v, n)
<1>1a. /\ Repeated(x, n) \in Seq(Tokens) /\ Len(Repeated(x, n)) = n
       /\ \A i \in 1..n : Repeated(x, n)[i] = x
  BY RepeatedIs
<1>1. /\ q2 \in Seq(Tokens) /\ Len(q2) = Len(q) + n
      /\ \A i \in 1..Len(q) : q2[i] = q[i]
      /\ \A i \in (Len(q) + 1)..(Len(q) + n) : q2[i] = x
  BY <1>1a
<1>2a. /\ Repeated(v, n) \in Seq({0, 1}) /\ Len(Repeated(v, n)) = n
       /\ \A i \in 1..n : Repeated(v, n)[i] = v
  BY RepeatedIs
<1>2. /\ m2 \in Seq({0, 1}) /\ Len(m2) = Len(m) + n
      /\ \A i \in 1..Len(m) : m2[i] = m[i]
      /\ \A i \in (Len(m) + 1)..(Len(m) + n) : m2[i] = v
  BY <1>2a
<1> HIDE DEF q2, m2
<1>3. Selects(m2, q2)
  BY <1>1, <1>2 DEF Selects
<1> QED
  BY <1>1, <1>2, <1>3 DEF q2, m2

LEMMA AddedContinues ==
    ASSUME NEW q \in Seq(Tokens), NEW x \in Tokens, NEW n \in Nat \ {0}, NEW p \in Nat,
           Continues(q, p), Follow(Last(q), x), x # "G"
    PROVE  Continues(q \o Repeated(x, n), p) /\ Last(q \o Repeated(x, n)) = x
<1> DEFINE q2 == q \o Repeated(x, n)
<1>1a. /\ Repeated(x, n) \in Seq(Tokens) /\ Len(Repeated(x, n)) = n
       /\ \A i \in 1..n : Repeated(x, n)[i] = x
  BY RepeatedIs
<1>1. /\ q2 \in Seq(Tokens) /\ Len(q2) = Len(q) + n
      /\ \A i \in 1..Len(q) : q2[i] = q[i]
      /\ \A i \in (Len(q) + 1)..(Len(q) + n) : q2[i] = x
  BY <1>1a
<1> HIDE DEF q2
<1>2. Follow(x, x) /\ Len(q) \in Nat /\ p <= Len(q) /\ p >= 1
  BY DEF Follow, Continues, Tokens
<1>3. ASSUME NEW i \in (p + 1)..Len(q2) PROVE Follow(q2[i - 1], q2[i])
  <2>1. CASE i <= Len(q)
    <3>1. i \in (p + 1)..Len(q) /\ i \in 1..Len(q) /\ i - 1 \in 1..Len(q)
      BY <1>1, <1>2, <1>3, <2>1
    <3>2. Follow(q[i - 1], q[i])
      BY <3>1 DEF Continues
    <3> QED
      BY <1>1, <3>1, <3>2
  <2>2. CASE i = Len(q) + 1
    BY <1>1, <1>2, <1>3, <2>2 DEF Last
  <2>3. CASE i > Len(q) + 1
    <3>1. i \in (Len(q) + 1)..(Len(q) + n) /\ i - 1 \in (Len(q) + 1)..(Len(q) + n)
      BY <1>1, <1>2, <1>3, <2>3
    <3>2. q2[i] = x /\ q2[i - 1] = x
      BY <1>1, <3>1, Zenon
    <3> QED
      BY <1>2, <3>2, Zenon
  <2>4. i \in Int /\ Len(q) \in Int
    BY <1>1, <1>2
  <2>5. i <= Len(q) \/ i = Len(q) + 1 \/ i > Len(q) + 1
    BY <2>4
  <2> QED
    BY <2>1, <2>2, <2>3, <2>5, Zenon
<1>4. Last(q2) = x
  BY <1>1, <1>2 DEF Last
<1> QED
  BY <1>1, <1>2, <1>3, <1>4 DEF Continues, q2

(***************************************************************************)
(* What truncation leaves.                                                 *)
(***************************************************************************)

\* The tokens Response keeps of a sequence of len tokens.
Kept(len, n) ==
    LET rest == Smaller(len, ModelLenOfRequest) - n
    IN  IF rest <= 0 THEN 0 ELSE Smaller(rest, ResponseLength)

LEMMA ModelLenNat == ModelLenOfRequest \in Nat \ {0}
  BY LengthAssumption DEF ModelLenOfRequest, Smaller

LEMMA ResponseIs ==
    ASSUME NEW S, NEW q \in Seq(S), NEW n \in Nat
    PROVE  /\ Response(q, n) \in Seq(S) /\ Len(Response(q, n)) = Kept(Len(q), n)
           /\ \A i \in 1..Kept(Len(q), n) : n + i \in 1..Len(q) /\ Response(q, n)[i] = q[n + i]
<1> DEFINE c == Smaller(Len(q), ModelLenOfRequest)
           cut == SubSeq(q, 1, c)
           rest == SubSeq(cut, n + 1, Len(cut))
           k == Smaller(Len(rest), ResponseLength)
<1>1. c \in Nat /\ c <= Len(q) /\ c <= ModelLenOfRequest
  BY ModelLenNat DEF Smaller
<1>2. cut \in Seq(S) /\ Len(cut) = c /\ \A i \in 1..c : cut[i] = q[i]
  BY <1>1
<1>3. CASE c <= n
  <2>1. rest = <<>>
    BY <1>1, <1>2, <1>3
  <2>2. k = 0 /\ Kept(Len(q), n) = 0
    BY <1>1, <1>3, <2>1, LengthAssumption DEF Smaller, Kept
  <2>3. Response(q, n) = SubSeq(rest, 1, k)
    BY DEF Response
  <2> HIDE DEF rest, k
  <2>4. Response(q, n) = SubSeq(<<>>, 1, 0)
    BY <2>1, <2>2, <2>3
  <2>5. SubSeq(<<>>, 1, 0) = <<>>
    OBVIOUS
  <2> QED
    BY <2>2, <2>4, <2>5
<1>4. CASE c > n
  <2>1. /\ rest \in Seq(S) /\ Len(rest) = c - n
        /\ \A i \in 1..(c - n) : rest[i] = q[n + i]
    BY <1>1, <1>2, <1>4
  <2>2. k = Kept(Len(q), n) /\ k \in Nat /\ k <= c - n
    BY <1>1, <1>4, <2>1, LengthAssumption DEF Smaller, Kept
  <2>3. Response(q, n) = SubSeq(rest, 1, k)
    BY DEF Response
  <2> HIDE DEF rest, k
  <2>4. /\ Response(q, n) \in Seq(S) /\ Len(Response(q, n)) = k
        /\ \A i \in 1..k : Response(q, n)[i] = rest[i]
    BY <2>1, <2>2, <2>3
  <2> QED
    BY <1>1, <2>1, <2>2, <2>4
<1> QED
  BY <1>1, <1>3, <1>4

\* Finalizing a request's tokens q and mask m gives an answer.
LEMMA Finalized ==
    ASSUME NEW q \in Seq(Tokens), NEW m \in Seq({0, 1}), NEW n \in Nat,
           Selects(m, q), Continues(q, n)
    PROVE  LET ids == Stripped(q, q)
               loss == Stripped(m, q)
           IN  /\ ids \in Seq(Tokens) /\ loss \in Seq({0, 1})
               /\ Response(ids, n) \in Seq(Tokens) /\ Response(loss, n) \in Seq({0, 1})
               /\ Answers(Response(ids, n), Response(loss, n), n)
<1> DEFINE ids == Stripped(q, q)
           loss == Stripped(m, q)
           out == Response(ids, n)
           oloss == Response(loss, n)
           k == Kept(Len(ids), n)
<1>1. n >= 1 /\ n <= Len(q) /\ Len(q) \in Nat \ {0} /\ Len(m) = Len(q) /\ q # <<>>
  BY DEF Continues, Selects
<1>2. /\ ids \in Seq(Tokens) /\ loss \in Seq({0, 1}) /\ Len(loss) = Len(ids)
      /\ \A i \in 1..Len(ids) : i \in 1..Len(q) /\ ids[i] = q[i] /\ loss[i] = m[i]
      /\ Len(ids) \in Nat
      /\ IF Last(q) = "G" THEN Len(ids) = Len(q) - 1 ELSE Len(ids) = Len(q)
  <2>1. CASE Last(q) = "G"
    <3>1. ids = SubSeq(q, 1, Len(q) - 1) /\ loss = SubSeq(m, 1, Len(m) - 1)
      BY <1>1, <2>1 DEF Stripped, EndsWithPrompt, Front
    <3> QED
      BY <1>1, <2>1, <3>1
  <2>2. CASE Last(q) # "G"
    <3>1. ids = q /\ loss = m
      BY <2>2 DEF Stripped, EndsWithPrompt
    <3> QED
      BY <1>1, <2>2, <3>1
  <2> QED
    BY <2>1, <2>2
<1> HIDE DEF ids, loss
<1>3. /\ out \in Seq(Tokens) /\ Len(out) = k
      /\ \A i \in 1..k : n + i \in 1..Len(ids) /\ out[i] = ids[n + i]
  <2>1. ids \in Seq(Tokens)
    BY <1>2
  <2> QED
    BY <2>1, ResponseIs, Zenon
<1>4. /\ oloss \in Seq({0, 1}) /\ Len(oloss) = k
      /\ \A i \in 1..k : oloss[i] = loss[n + i]
  <2>1. loss \in Seq({0, 1}) /\ Len(loss) = Len(ids)
    BY <1>2
  <2>2. /\ oloss \in Seq({0, 1}) /\ Len(oloss) = Kept(Len(loss), n)
        /\ \A i \in 1..Kept(Len(loss), n) :
              n + i \in 1..Len(loss) /\ oloss[i] = loss[n + i]
    BY <2>1, ResponseIs, Zenon
  <2> QED
    BY <2>1, <2>2
<1>5. k \in Nat
  BY <1>3
<1>6. k # 0 => n + k <= Len(ids)
  BY <1>2, <1>3, <1>5
<1>7. k = 0 \/ k = ResponseLength \/ n + k = ModelLenOfRequest \/ n + k >= Len(ids)
  BY <1>2, ModelLenNat, LengthAssumption DEF Kept, Smaller
<1> HIDE DEF out, oloss, k
<1>8. \A i \in 1..k : n + i \in 1..Len(q) /\ out[i] = q[n + i] /\ oloss[i] = m[n + i]
  BY <1>2, <1>3, <1>4
<1>9. Selects(oloss, out)
  BY <1>3, <1>4, <1>5, <1>8 DEF Selects
<1>10. out # <<>> => out[1] = "A"
  <2> SUFFICES ASSUME out # <<>> PROVE out[1] = "A"
    OBVIOUS
  <2>1. 1 \in 1..k
    BY <1>3, <1>5
  <2>2. out[1] = q[n + 1] /\ n + 1 \in (n + 1)..Len(q) /\ (n + 1) - 1 = n
    BY <1>1, <1>8, <2>1
  <2>3. Follow(q[(n + 1) - 1], q[n + 1]) /\ q[n] = "G"
    BY <2>2 DEF Continues
  <2> QED
    BY <2>2, <2>3 DEF Follow
<1>11. ASSUME NEW i \in 2..Len(out) PROVE Follow(out[i - 1], out[i])
  <2>1. i \in 1..k /\ i - 1 \in 1..k
    BY <1>3, <1>5, <1>11
  <2>2. out[i] = q[n + i] /\ out[i - 1] = q[n + i - 1] /\ n + i \in (n + 1)..Len(q)
    BY <1>1, <1>8, <2>1
  <2> QED
    BY <2>2 DEF Continues
<1>12. ASSUME out # <<>>, Last(out) = "G"
       PROVE  Len(out) = ResponseLength \/ n + Len(out) = ModelLenOfRequest
  <2>1. k \in 1..k /\ k # 0
    BY <1>3, <1>5, <1>12
  <2>2. q[n + k] = "G" /\ n + k \in 1..Len(q) /\ n + k <= Len(ids)
    BY <1>3, <1>6, <1>8, <1>12, <2>1 DEF Last
  <2>3. n + k # Len(ids)
    <3>1. CASE Last(q) = "G"
      <4> SUFFICES ASSUME n + k = Len(ids) PROVE FALSE
        OBVIOUS
      <4>1. n + k = Len(q) - 1 /\ Len(q) \in (n + 1)..Len(q)
        BY <1>1, <1>2, <2>1, <3>1
      <4>2. Follow(q[Len(q) - 1], q[Len(q)])
        BY <4>1 DEF Continues
      <4> QED
        BY <2>2, <3>1, <4>1, <4>2 DEF Follow, Last
    <3>2. CASE Last(q) # "G"
      BY <1>2, <2>2, <3>2 DEF Last
    <3> QED
      BY <3>1, <3>2
  <2> QED
    BY <1>1, <1>2, <1>3, <1>5, <1>7, <2>1, <2>2, <2>3
<1> QED
  BY <1>2, <1>3, <1>4, <1>9, <1>10, <1>11, <1>12 DEF Answers, ids, loss, out, oloss

\* A request starts as its prompt, with no loss on it.
LEMMA Prompted ==
    ASSUME NEW n \in Nat \ {0}
    PROVE  /\ PromptTokens(n) \in Seq(Tokens) /\ Repeated(0, n) \in Seq({0, 1})
           /\ Selects(Repeated(0, n), PromptTokens(n))
           /\ Continues(PromptTokens(n), n) /\ Last(PromptTokens(n)) = "G"
<1>1. /\ PromptTokens(n) \in Seq(Tokens) /\ Len(PromptTokens(n)) = n
      /\ PromptTokens(n)[n] = "G" /\ \A i \in 1..n : PromptTokens(n)[i] # "A"
  BY PromptTokensAre
<1>2. /\ Repeated(0, n) \in Seq({0, 1}) /\ Len(Repeated(0, n)) = n
      /\ \A i \in 1..n : Repeated(0, n)[i] = 0
  BY RepeatedIs
<1>3. Selects(Repeated(0, n), PromptTokens(n))
  BY <1>1, <1>2 DEF Selects
<1>4. Continues(PromptTokens(n), n)
  BY <1>1 DEF Continues
<1> QED
  BY <1>1, <1>2, <1>3, <1>4 DEF Last

\* The generation prompt is added where it is missing, with no loss on it.
LEMMA PromptAdded ==
    ASSUME NEW q \in Seq(Tokens), NEW m \in Seq({0, 1}), NEW n \in Nat,
           Selects(m, q), Continues(q, n), Last(q) \in {"G", "T"}
    PROVE  LET m2 == IF WithPrompt(q) = q THEN m ELSE Append(m, 0)
           IN  /\ WithPrompt(q) \in Seq(Tokens) /\ m2 \in Seq({0, 1})
               /\ Selects(m2, WithPrompt(q))
               /\ Continues(WithPrompt(q), n) /\ Last(WithPrompt(q)) = "G"
<1> DEFINE m2 == IF WithPrompt(q) = q THEN m ELSE Append(m, 0)
<1>1. n >= 1 /\ n <= Len(q) /\ Len(q) \in Nat \ {0} /\ Len(m) = Len(q) /\ q # <<>>
  BY DEF Continues, Selects
<1>2. CASE Last(q) = "G"
  <2>1. WithPrompt(q) = q
    BY <1>1, <1>2 DEF WithPrompt, EndsWithPrompt
  <2> QED
    BY <1>2, <2>1
<1>3. CASE Last(q) = "T"
  <2> DEFINE w == Append(q, "G")
             v == Append(m, 0)
  <2>1. /\ w \in Seq(Tokens) /\ Len(w) = Len(q) + 1 /\ w[Len(q) + 1] = "G"
        /\ \A i \in 1..Len(q) : w[i] = q[i]
    BY DEF Tokens
  <2>2. /\ v \in Seq({0, 1}) /\ Len(v) = Len(q) + 1 /\ v[Len(q) + 1] = 0
        /\ \A i \in 1..Len(q) : v[i] = m[i]
    BY <1>1
  <2>3. WithPrompt(q) = w /\ w # q
    BY <1>3, <2>1 DEF WithPrompt, EndsWithPrompt
  <2> HIDE DEF w, v
  <2>4. Selects(v, w)
    BY <1>1, <2>1, <2>2 DEF Selects
  <2>5. ASSUME NEW i \in (n + 1)..Len(w) PROVE Follow(w[i - 1], w[i])
    <3>1. CASE i <= Len(q)
      <4>1. i \in (n + 1)..Len(q) /\ i \in 1..Len(q) /\ i - 1 \in 1..Len(q)
        BY <1>1, <2>1, <2>5, <3>1
      <4>2. Follow(q[i - 1], q[i])
        BY <4>1 DEF Continues
      <4> QED
        BY <2>1, <4>1, <4>2
    <3>2. CASE i = Len(q) + 1
      <4>1. w[i] = "G" /\ w[i - 1] = "T"
        BY <1>1, <1>3, <2>1, <3>2 DEF Last
      <4> QED
        BY <4>1 DEF Follow
    <3> QED
      BY <1>1, <2>1, <3>1, <3>2
  <2>6. Continues(w, n) /\ Last(w) = "G"
    BY <1>1, <2>1, <2>5 DEF Continues, Last
  <2> QED
    BY <2>1, <2>2, <2>3, <2>4, <2>6 DEF w, v
<1> QED
  BY <1>2, <1>3

(***************************************************************************)
(* Every step preserves the invariant.                                     *)
(***************************************************************************)

\* A request none of whose variables changes.
Untouched(r) ==
    /\ state'[r] = state[r] /\ prompt'[r] = prompt[r] /\ input'[r] = input[r]
    /\ mask'[r] = mask[r] /\ turns'[r] = turns[r] /\ finish'[r] = finish[r]
    /\ output'[r] = output[r] /\ given'[r] = given[r]

LEMMA Elsewhere ==
    ASSUME NEW r \in Reqs, RequestInv(r), Untouched(r)
    PROVE  RequestInv(r)'
<1>1. LoopAt(r)'
  BY DEF RequestInv, LoopAt, Untouched
<1>2. TokensAt(r)'
  BY DEF RequestInv, TokensAt, Untouched
<1>3. OutputAt(r)'
  BY DEF RequestInv, OutputAt, Untouched
<1> QED
  BY <1>1, <1>2, <1>3 DEF RequestInv

\* A step of request r leaves the invariant of the others alone.
LEMMA Here ==
    ASSUME IndInv, NEW r \in Reqs, TypeOK', RequestInv(r)',
           \A q \in Reqs \ {r} : Untouched(q)
    PROVE  IndInv'
<1>1. ASSUME NEW q \in Reqs PROVE RequestInv(q)'
  <2>1. CASE q = r
    BY <2>1
  <2>2. CASE q # r
    BY <2>2, Elsewhere DEF IndInv
  <2> QED
    BY <2>1, <2>2
<1> QED
  BY <1>1 DEF IndInv

LEMMA OriginalTyped == Original \in Params /\ NoOutput \in [ids : Seq(Tokens), mask : Seq({0, 1})]
  BY LengthAssumption DEF Original, Params, NoOutput

LEMMA InitInv == Init => IndInv
<1> SUFFICES ASSUME Init PROVE IndInv
  OBVIOUS
<1>1. TypeOK
  BY OriginalTyped, BatchAssumption, TurnAssumption DEF Init, TypeOK, States
<1>2. ASSUME NEW r \in Reqs PROVE RequestInv(r)
  BY DEF Init, RequestInv, LoopAt, TokensAt, OutputAt, Unfinished
<1> QED
  BY <1>1, <1>2 DEF IndInv

LEMMA StartInv ==
    ASSUME IndInv, NEW m \in BatchModes, NEW len \in [Reqs -> PromptLens], StartBatch(m, len)
    PROVE  IndInv'
<1>1. \A r \in Reqs : len[r] \in Nat \ {0}
  BY LengthAssumption
<1>2. ASSUME NEW r \in Reqs
      PROVE  /\ PromptTokens(len[r]) \in Seq(Tokens) /\ Repeated(0, len[r]) \in Seq({0, 1})
             /\ Selects(Repeated(0, len[r]), PromptTokens(len[r]))
             /\ Continues(PromptTokens(len[r]), len[r]) /\ Last(PromptTokens(len[r])) = "G"
  BY <1>1, Prompted
<1>3. TypeOK'
  <2>1. batch' \in 0..MaxBatches
    BY BatchAssumption DEF IndInv, TypeOK, StartBatch
  <2>2. input' \in [Reqs -> Seq(Tokens)] /\ mask' \in [Reqs -> Seq({0, 1})]
    BY <1>2 DEF StartBatch
  <2>3. prompt' \in [Reqs -> Nat]
    BY <1>1 DEF StartBatch
  <2>4. output' \in [Reqs -> [ids : Seq(Tokens), mask : Seq({0, 1})]]
    BY OriginalTyped DEF StartBatch
  <2>5. /\ state' \in [Reqs -> States] /\ turns' \in [Reqs -> 0..MaxTurns]
        /\ finish' \in [Reqs -> {"none", "stop", "length", "tool_calls"}]
    BY TurnAssumption DEF StartBatch, States
  <2>6. /\ phase' = "generating" /\ mode' \in {"train", "validate", "greedy"}
        /\ params' = params /\ saved' = saved /\ given' = given
    BY BatchAssumption DEF StartBatch
  <2> QED
    BY <2>1, <2>2, <2>3, <2>4, <2>5, <2>6 DEF IndInv, TypeOK
<1>4. ASSUME NEW r \in Reqs PROVE RequestInv(r)'
  <2>1. /\ state'[r] = "pending" /\ turns'[r] = 0 /\ prompt'[r] = len[r]
        /\ input'[r] = PromptTokens(len[r]) /\ mask'[r] = Repeated(0, len[r])
    BY DEF StartBatch
  <2>2. LoopAt(r)'
    BY <2>1, TurnAssumption DEF LoopAt
  <2>3. TokensAt(r)'
    BY <1>2, <2>1 DEF TokensAt
  <2>4. OutputAt(r)'
    BY <2>1 DEF OutputAt
  <2> QED
    BY <2>2, <2>3, <2>4 DEF RequestInv
<1> QED
  BY <1>3, <1>4 DEF IndInv

\* FinishBatch and a request that raises leave every request where it is.
LEMMA QuietInv ==
    ASSUME IndInv, UNCHANGED <<batch, mode, saved, given, requestVars>>,
           phase' \in {"idle", "generating", "failed"}, params' \in Params
    PROVE  IndInv'
<1>1. TypeOK'
  BY DEF IndInv, TypeOK, requestVars
<1>2. ASSUME NEW r \in Reqs PROVE RequestInv(r)'
  BY Elsewhere DEF IndInv, Untouched, requestVars
<1> QED
  BY <1>1, <1>2 DEF IndInv

LEMMA RestoredTyped ==
    ASSUME NEW p \in Params, NEW old \in Params, NEW m
    PROVE  Restored(p, old, m) \in Params
  BY DEF Params, Restored

LEMMA FinishInv == IndInv /\ FinishBatch => IndInv'
  BY QuietInv DEF FinishBatch, IndInv, TypeOK

LEMMA RaisesInv ==
    ASSUME IndInv, NEW r \in Reqs, RequestRaises(r)
    PROVE  IndInv'
<1>1. params' \in Params
  BY RestoredTyped DEF RequestRaises, IndInv, TypeOK
<1> QED
  BY <1>1, QuietInv DEF RequestRaises

LEMMA CreateInv ==
    ASSUME IndInv, NEW r \in Reqs, CreateTools(r)
    PROVE  IndInv'
<1>1. TypeOK /\ RequestInv(r)
  BY DEF IndInv
<1>2. /\ state \in [Reqs -> States] /\ state[r] = "pending"
      /\ state' = [state EXCEPT ![r] = "running"]
      /\ UNCHANGED <<phase, batch, mode, params, saved, given, prompt, input, mask, turns,
                     finish, output>>
  BY <1>1 DEF CreateTools, Created, TypeOK
<1>3. TypeOK'
  BY <1>1, <1>2 DEF TypeOK, States
<1>4. RequestInv(r)'
  BY <1>1, <1>2 DEF RequestInv, LoopAt, TokensAt, OutputAt, Unfinished, States
<1>5. \A q \in Reqs \ {r} : Untouched(q)
  BY <1>2 DEF Untouched
<1> QED
  BY <1>3, <1>4, <1>5, Here

LEMMA EnterInv ==
    ASSUME IndInv, NEW r \in Reqs, EnterEngine(r)
    PROVE  IndInv'
<1> DEFINE w == WithPrompt(input[r])
           v == IF WithPrompt(input[r]) = input[r] THEN mask[r] ELSE Append(mask[r], 0)
<1>1. TypeOK /\ RequestInv(r)
  BY DEF IndInv
<1>2. /\ input \in [Reqs -> Seq(Tokens)] /\ mask \in [Reqs -> Seq({0, 1})]
      /\ input[r] \in Seq(Tokens) /\ mask[r] \in Seq({0, 1}) /\ prompt[r] \in Nat
      /\ state \in [Reqs -> States] /\ state[r] = "running" /\ turns[r] \in Nat
  BY <1>1, TurnAssumption DEF TypeOK, EnterEngine
<1>3. /\ Selects(mask[r], input[r]) /\ Continues(input[r], prompt[r])
      /\ Last(input[r]) \in {"G", "T"} /\ turns[r] < MaxTurns
  BY <1>1, <1>2 DEF RequestInv, TokensAt, LoopAt, Unfinished, States
<1>4. /\ w \in Seq(Tokens) /\ v \in Seq({0, 1}) /\ Selects(v, w)
      /\ Continues(w, prompt[r]) /\ Last(w) = "G"
  BY <1>2, <1>3, PromptAdded
<1>5. input' = [input EXCEPT ![r] = w] /\ mask' = [mask EXCEPT ![r] = v]
  BY <1>2 DEF EnterEngine
<1> HIDE DEF w, v
<1>6. /\ input' \in [Reqs -> Seq(Tokens)] /\ mask' \in [Reqs -> Seq({0, 1})]
      /\ input'[r] = w /\ mask'[r] = v
      /\ \A q \in Reqs \ {r} : input'[q] = input[q] /\ mask'[q] = mask[q]
  BY <1>2, <1>4, <1>5
<1>7. UNCHANGED <<phase, batch, mode, prompt, turns, output>>
  BY DEF EnterEngine
<1>8. CASE NoRoom(Len(input'[r]))
  <2>1. /\ state' = [state EXCEPT ![r] = "closing"]
        /\ finish' = [finish EXCEPT ![r] = "length"]
        /\ UNCHANGED <<params, saved, given>>
    BY <1>2, <1>3, <1>8, TurnAssumption DEF EnterEngine, Close, ClosingReason
  <2>2. TypeOK'
    BY <1>1, <1>6, <1>7, <2>1 DEF TypeOK, States
  <2>3. /\ state'[r] = "closing" /\ finish'[r] = "length"
        /\ \A q \in Reqs \ {r} : state'[q] = state[q] /\ finish'[q] = finish[q]
    BY <1>1, <2>1 DEF TypeOK
  <2>4. RequestInv(r)'
    BY <1>4, <1>6, <1>7, <2>3 DEF RequestInv, LoopAt, TokensAt, OutputAt
  <2>5. \A q \in Reqs \ {r} : Untouched(q)
    BY <1>6, <1>7, <2>1, <2>3 DEF Untouched
  <2> QED
    BY <2>2, <2>4, <2>5, Here
<1>9. CASE ~NoRoom(Len(input'[r]))
  <2> DEFINE new == Budget(Len(w))
  <2>1. new \in 0..ResponseLength /\ new >= 1 /\ Len(w) + new + 1 <= MaxModelLen
    <3>1. Len(w) \in Nat /\ Len(w) + 1 < MaxModelLen
      BY <1>4, <1>6, <1>9, LengthAssumption DEF NoRoom
    <3> QED
      BY <3>1, LengthAssumption DEF Budget, Smaller
  <2>2. /\ saved' = [saved EXCEPT ![r] = params]
        /\ params' = Updated(params, mode, new)
        /\ given' = [given EXCEPT ![r] = params']
        /\ state' = [state EXCEPT ![r] = "engine"]
        /\ finish' = finish
    BY <1>6, <1>9 DEF EnterEngine
  <2>3. params' \in Params /\ params'.new = new
    BY <1>1, <2>1, <2>2 DEF TypeOK, Params, Updated
  <2>4. TypeOK'
    BY <1>1, <1>6, <1>7, <2>2, <2>3 DEF TypeOK, States
  <2>5. /\ state'[r] = "engine" /\ given'[r].new = new
        /\ \A q \in Reqs \ {r} : state'[q] = state[q] /\ given'[q] = given[q]
    BY <1>1, <2>2, <2>3 DEF TypeOK
  <2> HIDE DEF new
  <2>6. RequestInv(r)'
    BY <1>3, <1>4, <1>6, <1>7, <2>1, <2>5 DEF RequestInv, LoopAt, TokensAt, OutputAt
  <2>7. \A q \in Reqs \ {r} : Untouched(q)
    BY <1>6, <1>7, <2>2, <2>5 DEF Untouched
  <2> QED
    BY <2>4, <2>6, <2>7, Here
<1> QED
  BY <1>8, <1>9

LEMMA EngineInv ==
    ASSUME IndInv, NEW r \in Reqs, NEW why \in {"stop", "length"},
           NEW n \in 1..(ResponseLength + 1), NEW calls \in BOOLEAN,
           EngineReturns(r, why, n, calls)
    PROVE  IndInv'
<1> DEFINE q2 == input[r] \o Repeated("A", n)
           m2 == mask[r] \o Repeated(1, n)
<1>1. TypeOK /\ RequestInv(r)
  BY DEF IndInv
<1>2. /\ input \in [Reqs -> Seq(Tokens)] /\ mask \in [Reqs -> Seq({0, 1})]
      /\ input[r] \in Seq(Tokens) /\ mask[r] \in Seq({0, 1}) /\ prompt[r] \in Nat
      /\ state \in [Reqs -> States] /\ state[r] = "engine"
      /\ turns \in [Reqs -> 0..MaxTurns] /\ turns[r] \in 0..MaxTurns
      /\ finish \in [Reqs -> {"none", "stop", "length", "tool_calls"}]
  BY <1>1 DEF TypeOK, EngineReturns
<1>3. /\ Selects(mask[r], input[r]) /\ Continues(input[r], prompt[r])
      /\ Last(input[r]) = "G" /\ turns[r] < MaxTurns
  BY <1>1, <1>2 DEF RequestInv, TokensAt, LoopAt, Unfinished, States
<1>4. n \in Nat \ {0} /\ "A" \in Tokens
  BY LengthAssumption DEF Tokens
<1>5. q2 \in Seq(Tokens) /\ m2 \in Seq({0, 1}) /\ Selects(m2, q2)
  BY <1>2, <1>3, <1>4, Added
<1>6. Continues(q2, prompt[r]) /\ Last(q2) = "A"
  BY <1>2, <1>3, <1>4, AddedContinues DEF Follow
<1>7. input' = [input EXCEPT ![r] = q2] /\ mask' = [mask EXCEPT ![r] = m2]
  BY <1>2 DEF EngineReturns, AddAssistant
<1> HIDE DEF q2, m2
<1>8. /\ input' \in [Reqs -> Seq(Tokens)] /\ mask' \in [Reqs -> Seq({0, 1})]
      /\ input'[r] = q2 /\ mask'[r] = m2
      /\ \A q \in Reqs \ {r} : input'[q] = input[q] /\ mask'[q] = mask[q]
  BY <1>2, <1>5, <1>7
<1>9. params' \in Params
  BY <1>1, RestoredTyped DEF EngineReturns, TypeOK
<1>10. /\ turns' = [turns EXCEPT ![r] = turns[r] + 1]
       /\ UNCHANGED <<phase, batch, mode, saved, given, prompt, output>>
  BY <1>2 DEF EngineReturns
<1>11. /\ turns' \in [Reqs -> 0..MaxTurns] /\ turns'[r] = turns[r] + 1
       /\ \A q \in Reqs \ {r} : turns'[q] = turns[q]
  BY <1>2, <1>3, <1>10, TurnAssumption
<1>12. CASE calls /\ turns[r] + 1 < MaxTurns
  <2>1. /\ state' = [state EXCEPT ![r] = "tool_calling"]
        /\ finish' = [finish EXCEPT ![r] = "tool_calls"]
    BY <1>12 DEF EngineReturns
  <2>2. TypeOK'
    BY <1>1, <1>8, <1>9, <1>10, <1>11, <2>1 DEF TypeOK, States
  <2>3. /\ state'[r] = "tool_calling"
        /\ \A q \in Reqs \ {r} : state'[q] = state[q] /\ finish'[q] = finish[q]
    BY <1>2, <2>1
  <2>4. RequestInv(r)'
    BY <1>5, <1>6, <1>8, <1>10, <1>11, <1>12, <2>3
       DEF RequestInv, LoopAt, TokensAt, OutputAt
  <2>5. \A q \in Reqs \ {r} : Untouched(q)
    BY <1>8, <1>10, <1>11, <2>3 DEF Untouched
  <2> QED
    BY <2>2, <2>4, <2>5, Here
<1>13. CASE ~(calls /\ turns[r] + 1 < MaxTurns)
  <2> DEFINE reason == ClosingReason(IF calls THEN "tool_calls" ELSE why, turns[r] + 1)
  <2>1. /\ state' = [state EXCEPT ![r] = "closing"]
        /\ finish' = [finish EXCEPT ![r] = reason]
    BY <1>13 DEF EngineReturns, Close
  <2>2. reason \in {"stop", "length"}
    BY <1>2, <1>13, TurnAssumption DEF ClosingReason
  <2> HIDE DEF reason
  <2>3. TypeOK'
    BY <1>1, <1>8, <1>9, <1>10, <1>11, <2>1, <2>2 DEF TypeOK, States
  <2>4. /\ state'[r] = "closing" /\ finish'[r] = reason
        /\ \A q \in Reqs \ {r} : state'[q] = state[q] /\ finish'[q] = finish[q]
    BY <1>2, <2>1
  <2>5. RequestInv(r)'
    BY <1>5, <1>6, <1>8, <1>10, <2>2, <2>4 DEF RequestInv, LoopAt, TokensAt, OutputAt
  <2>6. \A q \in Reqs \ {r} : Untouched(q)
    BY <1>8, <1>10, <1>11, <2>4 DEF Untouched
  <2> QED
    BY <2>3, <2>5, <2>6, Here
<1> QED
  BY <1>12, <1>13

LEMMA ToolsInv ==
    ASSUME IndInv, NEW r \in Reqs, NEW n \in 1..MaxToolText, ToolsReturn(r, n)
    PROVE  IndInv'
<1> DEFINE q2 == input[r] \o Repeated("T", n)
           m2 == mask[r] \o Repeated(0, n)
<1>1. TypeOK /\ RequestInv(r)
  BY DEF IndInv
<1>2. /\ input \in [Reqs -> Seq(Tokens)] /\ mask \in [Reqs -> Seq({0, 1})]
      /\ input[r] \in Seq(Tokens) /\ mask[r] \in Seq({0, 1}) /\ prompt[r] \in Nat
      /\ state \in [Reqs -> States] /\ state[r] = "tool_calling" /\ turns[r] \in 0..MaxTurns
      /\ finish \in [Reqs -> {"none", "stop", "length", "tool_calls"}]
  BY <1>1 DEF TypeOK, ToolsReturn
<1>3. /\ Selects(mask[r], input[r]) /\ Continues(input[r], prompt[r])
      /\ Last(input[r]) = "A" /\ turns[r] < MaxTurns
  BY <1>1, <1>2 DEF RequestInv, TokensAt, LoopAt, Unfinished, States
<1>4. n \in Nat \ {0} /\ "T" \in Tokens
  BY TurnAssumption DEF Tokens
<1>5. q2 \in Seq(Tokens) /\ m2 \in Seq({0, 1}) /\ Selects(m2, q2)
  BY <1>2, <1>3, <1>4, Added
<1>6. Continues(q2, prompt[r]) /\ Last(q2) = "T"
  BY <1>2, <1>3, <1>4, AddedContinues DEF Follow
<1>7. input' = [input EXCEPT ![r] = q2] /\ mask' = [mask EXCEPT ![r] = m2]
  BY <1>2 DEF ToolsReturn, AddTool, LossOfTool
<1> HIDE DEF q2, m2
<1>8. /\ input' \in [Reqs -> Seq(Tokens)] /\ mask' \in [Reqs -> Seq({0, 1})]
      /\ input'[r] = q2 /\ mask'[r] = m2
      /\ \A q \in Reqs \ {r} : input'[q] = input[q] /\ mask'[q] = mask[q]
  BY <1>2, <1>5, <1>7
<1>9. UNCHANGED <<phase, batch, mode, params, saved, given, prompt, turns, output>>
  BY DEF ToolsReturn
<1>10. CASE Len(input'[r]) >= MaxModelLen
  <2>1. /\ state' = [state EXCEPT ![r] = "closing"]
        /\ finish' = [finish EXCEPT ![r] = "stop"]
    BY <1>10 DEF ToolsReturn, Close, ClosingReason
  <2>2. TypeOK'
    BY <1>1, <1>8, <1>9, <2>1 DEF TypeOK, States
  <2>3. /\ state'[r] = "closing" /\ finish'[r] = "stop"
        /\ \A q \in Reqs \ {r} : state'[q] = state[q] /\ finish'[q] = finish[q]
    BY <1>2, <2>1
  <2>4. RequestInv(r)'
    BY <1>5, <1>6, <1>8, <1>9, <2>3 DEF RequestInv, LoopAt, TokensAt, OutputAt
  <2>5. \A q \in Reqs \ {r} : Untouched(q)
    BY <1>8, <1>9, <2>3 DEF Untouched
  <2> QED
    BY <2>2, <2>4, <2>5, Here
<1>11. CASE ~(Len(input'[r]) >= MaxModelLen)
  <2>1. state' = [state EXCEPT ![r] = "running"] /\ finish' = finish
    BY <1>11 DEF ToolsReturn
  <2>2. TypeOK'
    BY <1>1, <1>8, <1>9, <2>1 DEF TypeOK, States
  <2>3. state'[r] = "running" /\ \A q \in Reqs \ {r} : state'[q] = state[q]
    BY <1>2, <2>1
  <2>4. RequestInv(r)'
    BY <1>3, <1>5, <1>6, <1>8, <1>9, <2>3 DEF RequestInv, LoopAt, TokensAt, OutputAt
  <2>5. \A q \in Reqs \ {r} : Untouched(q)
    BY <1>8, <1>9, <2>1, <2>3 DEF Untouched
  <2> QED
    BY <2>2, <2>4, <2>5, Here
<1> QED
  BY <1>10, <1>11

LEMMA FinalizeInv ==
    ASSUME IndInv, NEW r \in Reqs, Finalize(r)
    PROVE  IndInv'
<1> DEFINE ids == Stripped(input[r], input[r])
           loss == Stripped(mask[r], input[r])
           out == Response(ids, prompt[r])
           oloss == Response(loss, prompt[r])
<1>1. TypeOK /\ RequestInv(r)
  BY DEF IndInv
<1>2. /\ input \in [Reqs -> Seq(Tokens)] /\ mask \in [Reqs -> Seq({0, 1})]
      /\ input[r] \in Seq(Tokens) /\ mask[r] \in Seq({0, 1}) /\ prompt[r] \in Nat
      /\ state \in [Reqs -> States] /\ state[r] = "closing"
      /\ output \in [Reqs -> [ids : Seq(Tokens), mask : Seq({0, 1})]]
  BY <1>1 DEF TypeOK, Finalize
<1>3. Selects(mask[r], input[r]) /\ Continues(input[r], prompt[r])
  BY <1>1, <1>2 DEF RequestInv, TokensAt, Unfinished, States
<1>4. /\ ids \in Seq(Tokens) /\ loss \in Seq({0, 1})
      /\ out \in Seq(Tokens) /\ oloss \in Seq({0, 1})
      /\ Answers(out, oloss, prompt[r])
  BY <1>2, <1>3, Finalized
<1>5. /\ state' = [state EXCEPT ![r] = "completed"]
      /\ input' = [input EXCEPT ![r] = ids] /\ mask' = [mask EXCEPT ![r] = loss]
      /\ output' = [output EXCEPT ![r] = [ids |-> out, mask |-> oloss]]
      /\ UNCHANGED <<phase, batch, mode, params, saved, given, prompt, turns, finish>>
  BY DEF Finalize
<1> HIDE DEF ids, loss, out, oloss
<1>6. [ids |-> out, mask |-> oloss] \in [ids : Seq(Tokens), mask : Seq({0, 1})]
  BY <1>4
<1>7. TypeOK'
  BY <1>1, <1>4, <1>5, <1>6 DEF TypeOK, States
<1>8. /\ state'[r] = "completed" /\ output'[r] = [ids |-> out, mask |-> oloss]
      /\ \A q \in Reqs \ {r} : /\ state'[q] = state[q] /\ input'[q] = input[q]
                               /\ mask'[q] = mask[q] /\ output'[q] = output[q]
  BY <1>2, <1>5
<1>9. output'[r].ids = out /\ output'[r].mask = oloss /\ prompt'[r] = prompt[r]
  BY <1>5, <1>8
<1>10. RequestInv(r)'
  BY <1>4, <1>8, <1>9 DEF RequestInv, LoopAt, TokensAt, OutputAt, Unfinished
<1>11. \A q \in Reqs \ {r} : Untouched(q)
  BY <1>5, <1>8 DEF Untouched
<1> QED
  BY <1>7, <1>10, <1>11, Here

LEMMA NextInv == IndInv /\ [Next]_vars => IndInv'
<1> SUFFICES ASSUME IndInv, [Next]_vars PROVE IndInv'
  OBVIOUS
<1>1. CASE \E m \in BatchModes : \E len \in [Reqs -> PromptLens] : StartBatch(m, len)
  BY <1>1, StartInv
<1>2. CASE FinishBatch
  BY <1>2, FinishInv
<1>3. ASSUME NEW r \in Reqs, RequestStep(r) PROVE IndInv'
  BY <1>3, CreateInv, EnterInv, EngineInv, ToolsInv, FinalizeInv DEF RequestStep
<1>4. ASSUME NEW r \in Reqs, RequestRaises(r) PROVE IndInv'
  BY <1>4, RaisesInv
<1>5. CASE UNCHANGED vars
  BY <1>5, QuietInv DEF vars, IndInv, TypeOK
<1> QED
  BY <1>1, <1>2, <1>3, <1>4, <1>5 DEF Next

\* The invariant holds in every run.
THEOREM AlwaysInv == Spec => []IndInv
  BY InitInv, NextInv, PTL DEF Spec

\* Every variable keeps its type: in particular the turns of a request never
\* pass max_turns, and max_new_tokens never leaves 0..response_length
\* (_async_rollout_a_request, update_sampling_params).
THEOREM TypeCorrect == Spec => []TypeOK
<1>1. IndInv => TypeOK
  BY DEF IndInv
<1> QED
  BY <1>1, AlwaysInv, PTL

\* The engine is never asked for nothing, nor for more than the model's length
\* leaves, in whatever turn (_handle_engine_call).
THEOREM AlwaysEngineHasRoom == Spec => []EngineHasRoom
<1>1. IndInv => EngineHasRoom
  BY DEF IndInv, RequestInv, LoopAt, EngineHasRoom
<1> QED
  BY <1>1, AlwaysInv, PTL

\* finalize never meets a finish reason it raises for.
THEOREM AlwaysFinalizeAccepts == Spec => []FinalizeAccepts
<1>1. IndInv => FinalizeAccepts
  BY DEF IndInv, RequestInv, LoopAt, FinalizeAccepts
<1> QED
  BY <1>1, AlwaysInv, PTL

\* However long the prompt, the turns and the tools' answers, the loss mask of
\* a response selects the tokens of the model and no others
\* (_update_input_ids, finalize, truncate_output_ids).
THEOREM AlwaysLossOnModelTokens == Spec => []LossOnModelTokens
<1>1. IndInv => LossOnModelTokens
  BY DEF IndInv, RequestInv, OutputAt, Answers, Selects, LossOnModelTokens
<1> QED
  BY <1>1, AlwaysInv, PTL

\* Responses read like the chat template writes them, up to where they are cut
\* off (get_generation_prompt_ids, finalize).
THEOREM AlwaysFollowsTemplate == Spec => []FollowsTemplate
<1>1. IndInv => FollowsTemplate
  BY DEF IndInv, RequestInv, OutputAt, Answers, Follow, FollowsTemplate
<1> QED
  BY <1>1, AlwaysInv, PTL

(***************************************************************************)
(* What keeps a batch from running on for ever.                            *)
(***************************************************************************)

\* A bound on the steps a request still takes: three for every turn it has
\* left, and those to the end of the one it is in.
Looping == {"pending", "running", "engine", "tool_calling"}
InTurn == [pending |-> 3, tool_calling |-> 3, running |-> 2, engine |-> 1]
StepsFrom(s, t) ==
    IF s \in Looping THEN 3 * (MaxTurns - t) + InTurn[s]
    ELSE IF s = "closing" THEN 1 ELSE 0
StepsLeft(r) == StepsFrom(state[r], turns[r])

RunsDown(r) ==
    /\ StepsLeft(r)' < StepsLeft(r)
    /\ \A q \in Reqs \ {r} : StepsLeft(q)' = StepsLeft(q)

LEMMA StepsFromAre ==
    ASSUME NEW t \in 0..MaxTurns
    PROVE  /\ StepsFrom("pending", t) = 3 * (MaxTurns - t) + 3
           /\ StepsFrom("tool_calling", t) = 3 * (MaxTurns - t) + 3
           /\ StepsFrom("running", t) = 3 * (MaxTurns - t) + 2
           /\ StepsFrom("engine", t) = 3 * (MaxTurns - t) + 1
           /\ StepsFrom("closing", t) = 1
           /\ StepsFrom("completed", t) = 0 /\ StepsFrom("none", t) = 0
  BY DEF StepsFrom, Looping, InTurn

LEMMA StepsLeftBounded ==
    ASSUME TypeOK, NEW r \in Reqs
    PROVE  StepsLeft(r) \in 0..(3 * MaxTurns + 3)
<1>1. state[r] \in States /\ turns[r] \in 0..MaxTurns
  BY DEF TypeOK
<1>2. ASSUME NEW s \in States, NEW t \in 0..MaxTurns
      PROVE  StepsFrom(s, t) \in 0..(3 * MaxTurns + 3)
  BY StepsFromAre, TurnAssumption DEF States
<1> QED
  BY <1>1, <1>2, Zenon DEF StepsLeft

\* A step of one request leaves the others where they are.
LEMMA OthersStay ==
    ASSUME TypeOK, NEW r \in Reqs, NEW s, NEW t, state' = [state EXCEPT ![r] = s],
           turns' = [turns EXCEPT ![r] = t]
    PROVE  /\ state'[r] = s /\ turns'[r] = t
           /\ \A q \in Reqs \ {r} : StepsLeft(q)' = StepsLeft(q)
<1>1. \A q \in Reqs \ {r} : state'[q] = state[q] /\ turns'[q] = turns[q]
  BY DEF TypeOK
<1>2. state'[r] = s /\ turns'[r] = t
  BY DEF TypeOK
<1> QED
  BY <1>1, <1>2 DEF StepsLeft

LEMMA StepRunsDown ==
    ASSUME IndInv, IndInv', NEW r \in Reqs, RequestStep(r)
    PROVE  RunsDown(r)
<1>1. TypeOK /\ TypeOK'
  BY DEF IndInv
<1>2. turns = [turns EXCEPT ![r] = turns[r]]
  BY <1>1 DEF TypeOK
<1> DEFINE t == turns[r]
           left == 3 * (MaxTurns - t)
<1>3. t \in 0..MaxTurns /\ turns'[r] \in 0..MaxTurns /\ MaxTurns \in Int
  BY <1>1, TurnAssumption DEF TypeOK
<1> HIDE DEF t
<1>4. CASE CreateTools(r)
  <2>1. state[r] = "pending" /\ state' = [state EXCEPT ![r] = "running"] /\ turns' = turns
    BY <1>4 DEF CreateTools, Created
  <2>2. state'[r] = "running" /\ turns'[r] = turns[r]
        /\ \A q \in Reqs \ {r} : StepsLeft(q)' = StepsLeft(q)
    BY <1>1, <1>2, <2>1, OthersStay
  <2>3. StepsLeft(r) = left + 3 /\ StepsLeft(r)' = left + 2
    BY <1>3, <2>1, <2>2, StepsFromAre DEF StepsLeft, t
  <2> QED
    BY <1>3, <2>2, <2>3 DEF RunsDown
<1>5. CASE EnterEngine(r)
  <2>1. state[r] = "running" /\ turns' = turns
        /\ \E s \in {"closing", "engine"} : state' = [state EXCEPT ![r] = s]
    BY <1>5 DEF EnterEngine, Close
  <2>2. PICK s \in {"closing", "engine"} : state' = [state EXCEPT ![r] = s]
    BY <2>1
  <2>3. state'[r] = s /\ turns'[r] = turns[r]
        /\ \A q \in Reqs \ {r} : StepsLeft(q)' = StepsLeft(q)
    BY <1>1, <1>2, <2>1, <2>2, OthersStay
  <2>4. StepsLeft(r) = left + 2 /\ StepsLeft(r)' \in {left + 1, 1}
    BY <1>3, <2>1, <2>3, StepsFromAre DEF StepsLeft, t
  <2> QED
    BY <1>3, <2>3, <2>4 DEF RunsDown
<1>6. ASSUME NEW why \in {"stop", "length"}, NEW n \in 1..(ResponseLength + 1),
             NEW calls \in BOOLEAN, EngineReturns(r, why, n, calls)
      PROVE  RunsDown(r)
  <2>1. state[r] = "engine" /\ turns' = [turns EXCEPT ![r] = turns[r] + 1]
        /\ \E s \in {"closing", "tool_calling"} : state' = [state EXCEPT ![r] = s]
    BY <1>6 DEF EngineReturns, Close
  <2>2. PICK s \in {"closing", "tool_calling"} : state' = [state EXCEPT ![r] = s]
    BY <2>1
  <2>3. state'[r] = s /\ turns'[r] = turns[r] + 1
        /\ \A q \in Reqs \ {r} : StepsLeft(q)' = StepsLeft(q)
    BY <1>1, <2>1, <2>2, OthersStay
  <2>4. StepsLeft(r) = left + 1
    BY <1>3, <2>1, StepsFromAre DEF StepsLeft, t
  <2>5. StepsLeft(r)' = 3 * (MaxTurns - (t + 1)) + 3 \/ StepsLeft(r)' = 1
    BY <1>3, <2>3, StepsFromAre DEF StepsLeft, t
  <2>6. t + 1 <= MaxTurns
    BY <1>3, <2>3 DEF t
  <2> QED
    BY <1>3, <2>3, <2>4, <2>5, <2>6 DEF RunsDown
<1>7. ASSUME NEW n \in 1..MaxToolText, ToolsReturn(r, n)
      PROVE  RunsDown(r)
  <2>1. state[r] = "tool_calling" /\ turns' = turns
        /\ \E s \in {"closing", "running"} : state' = [state EXCEPT ![r] = s]
    BY <1>7 DEF ToolsReturn, Close
  <2>2. PICK s \in {"closing", "running"} : state' = [state EXCEPT ![r] = s]
    BY <2>1
  <2>3. state'[r] = s /\ turns'[r] = turns[r]
        /\ \A q \in Reqs \ {r} : StepsLeft(q)' = StepsLeft(q)
    BY <1>1, <1>2, <2>1, <2>2, OthersStay
  <2>4. StepsLeft(r) = left + 3 /\ StepsLeft(r)' \in {left + 2, 1}
    BY <1>3, <2>1, <2>3, StepsFromAre DEF StepsLeft, t
  <2> QED
    BY <1>3, <2>3, <2>4 DEF RunsDown
<1>8. CASE Finalize(r)
  <2>1. state[r] = "closing" /\ state' = [state EXCEPT ![r] = "completed"] /\ turns' = turns
    BY <1>8 DEF Finalize
  <2>2. state'[r] = "completed" /\ turns'[r] = turns[r]
        /\ \A q \in Reqs \ {r} : StepsLeft(q)' = StepsLeft(q)
    BY <1>1, <1>2, <2>1, OthersStay
  <2>3. StepsLeft(r) = 1 /\ StepsLeft(r)' = 0
    BY <1>3, <2>1, <2>2, StepsFromAre DEF StepsLeft, t
  <2> QED
    BY <2>2, <2>3 DEF RunsDown
<1> QED
  BY <1>4, <1>5, <1>6, <1>7, <1>8 DEF RequestStep

\* No request loops for ever in _async_rollout_a_request, whatever the engine
\* and the tools answer: each of its steps uses up one of at most
\* 3 * max_turns + 3 and none of another request's.
THEOREM RequestsRunOut ==
    Spec => /\ [](\A r \in Reqs : StepsLeft(r) \in 0..(3 * MaxTurns + 3))
            /\ [][\A r \in Reqs : RequestStep(r) => RunsDown(r)]_vars
<1>1. IndInv => \A r \in Reqs : StepsLeft(r) \in 0..(3 * MaxTurns + 3)
  BY StepsLeftBounded DEF IndInv
<1>2. IndInv /\ [Next]_vars => [\A r \in Reqs : RequestStep(r) => RunsDown(r)]_vars
  BY NextInv, StepRunsDown
<1> QED
  BY <1>1, <1>2, AlwaysInv, PTL DEF Spec
=============================================================================
