---------------------------- MODULE AsyncRollout ----------------------------
(***************************************************************************)
(* Multi-turn rollout inside SGLangRollout: _req_level_generate_sequences  *)
(* runs one coroutine per request on one event loop.  A request alternates *)
(* engine calls and tool calls and is finalized into the token and         *)
(* loss-mask sequences the actor is trained on; every engine call is made  *)
(* with the one dictionary self.sampling_params, changed for the duration  *)
(* of the call.                                                            *)
(*                                                                         *)
(* A token is what put it there: "P" the prompt, "G" the generation prompt *)
(* of the chat template (one token), "A" the model, "T" a tool.            *)
(***************************************************************************)
EXTENDS Integers, Sequences, SequencesExt

CONSTANTS
    Reqs,            \* the requests of a batch
    PromptLens,      \* lengths a prompt can have, generation prompt included
    PromptLength,    \* config.prompt_length
    ResponseLength,  \* config.response_length
    MaxModelLen,     \* config.max_model_len
    MaxTurns,        \* config.multi_turn.max_turns
    MaxToolText,     \* bound: tokens of a tool turn
    BatchModes,      \* how a batch may sample: "train", "validate", "greedy"
    MaxBatches       \* bound: batches generated

ASSUME LengthAssumption ==
    /\ PromptLens \subseteq Nat \ {0} /\ PromptLength \in Nat \ {0}
    /\ ResponseLength \in Nat \ {0} /\ MaxModelLen \in Nat \ {0}
ASSUME TurnAssumption == MaxTurns \in Nat \ {0} /\ MaxToolText \in Nat \ {0}
ASSUME BatchAssumption ==
    /\ BatchModes \subseteq {"train", "validate", "greedy"}
    /\ MaxBatches \in Nat \ {0}

VARIABLES
    phase,    \* "idle", "generating" or "failed"
    batch,    \* batches started
    mode,     \* how the current batch samples
    params,   \* self.sampling_params
    saved,    \* old_sampling_params_args of each request's engine call
    given,    \* what the engine was called with
    state,    \* where each coroutine is
    prompt,   \* len(prompt_ids)
    input,    \* input_ids
    mask,     \* loss_mask
    turns,    \* current_turns
    finish,   \* finish_reason_type
    output    \* response_ids and response_loss_mask

requestVars == <<state, prompt, input, mask, turns, finish, output>>
vars == <<phase, batch, mode, params, saved, given, requestVars>>

Smaller(a, b) == IF a <= b THEN a ELSE b

\* The keys that matter: the ones that say how to sample, and max_new_tokens.
Original == [style |-> "train", new |-> ResponseLength]
Params == [style : {"train", "validate", "greedy"}, new : 0..ResponseLength]
NoOutput == [ids |-> <<>>, mask |-> <<>>]

States == {"none", "pending", "running", "engine", "tool_calling", "closing", "completed"}
Tokens == {"P", "G", "A", "T"}

TypeOK ==
    /\ phase \in {"idle", "generating", "failed"}
    /\ batch \in 0..MaxBatches
    /\ mode \in {"train", "validate", "greedy"}
    /\ params \in Params /\ saved \in [Reqs -> Params] /\ given \in [Reqs -> Params]
    /\ state \in [Reqs -> States]
    /\ prompt \in [Reqs -> Nat]
    /\ input \in [Reqs -> Seq(Tokens)] /\ mask \in [Reqs -> Seq({0, 1})]
    /\ turns \in [Reqs -> 0..MaxTurns]
    /\ finish \in [Reqs -> {"none", "stop", "length", "tool_calls"}]
    /\ output \in [Reqs -> [ids : Seq(Tokens), mask : Seq({0, 1})]]

Init ==
    /\ phase = "idle" /\ batch = 0 /\ mode = "train"
    /\ params = Original
    /\ saved = [r \in Reqs |-> Original] /\ given = [r \in Reqs |-> Original]
    /\ state = [r \in Reqs |-> "none"]
    /\ prompt = [r \in Reqs |-> 0]
    /\ input = [r \in Reqs |-> <<>>] /\ mask = [r \in Reqs |-> <<>>]
    /\ turns = [r \in Reqs |-> 0]
    /\ finish = [r \in Reqs |-> "none"]
    /\ output = [r \in Reqs |-> NoOutput]

Repeated(x, n) == [i \in 1..n |-> x]
PromptTokens(n) == Append(Repeated("P", n - 1), "G")

\* _req_level_generate_sequences builds the requests and starts their
\* coroutines; it returns when all are completed.
StartBatch(m, len) ==
    /\ phase = "idle" /\ batch < MaxBatches
    /\ phase' = "generating" /\ batch' = batch + 1 /\ mode' = m
    /\ state' = [r \in Reqs |-> "pending"]
    /\ prompt' = len
    /\ input' = [r \in Reqs |-> PromptTokens(len[r])]
    /\ mask' = [r \in Reqs |-> Repeated(0, len[r])]
    /\ turns' = [r \in Reqs |-> 0]
    /\ finish' = [r \in Reqs |-> "none"]
    /\ output' = [r \in Reqs |-> NoOutput]
    /\ UNCHANGED <<params, saved, given>>

FinishBatch ==
    /\ phase = "generating" /\ \A r \in Reqs : state[r] = "completed"
    /\ phase' = "idle"
    /\ UNCHANGED <<batch, mode, params, saved, given, requestVars>>

(***************************************************************************)
(* What a request's tokens are built from.                                 *)
(***************************************************************************)

EndsWithPrompt(q) == q # <<>> /\ Last(q) = "G"

\* get_generation_prompt_ids
WithPrompt(q) == IF EndsWithPrompt(q) THEN q ELSE Append(q, "G")

\* _update_input_ids, for the two kinds of message.
LossOfTool_Trained == 1    \* seeded fault
LossOfTool == 0
AddAssistant(r, n) ==
    /\ input' = [input EXCEPT ![r] = @ \o Repeated("A", n)]
    /\ mask' = [mask EXCEPT ![r] = @ \o Repeated(1, n)]
AddTool(r, n) ==
    /\ input' = [input EXCEPT ![r] = @ \o Repeated("T", n)]
    /\ mask' = [mask EXCEPT ![r] = @ \o Repeated(LossOfTool, n)]

(***************************************************************************)
(* _async_rollout_a_request.                                               *)
(***************************************************************************)

\* The while loop is left, by a break or because the turns are used up; a
\* used-up request counts as stopped.
ClosingReason_Kept(reason, n) == reason    \* seeded fault: not overridden
ClosingReason(reason, n) == IF n >= MaxTurns THEN "stop" ELSE reason

Close(r, reason, n) ==
    /\ state' = [state EXCEPT ![r] = "closing"]
    /\ finish' = [finish EXCEPT ![r] = ClosingReason(reason, n)]

\* _handle_pending_state creates the tools of the request.
Created_NoStateChange == "pending"    \* seeded fault
Created == "running"
CreateTools(r) ==
    /\ state[r] = "pending"
    /\ state' = [state EXCEPT ![r] = Created]
    /\ UNCHANGED <<phase, batch, mode, params, saved, given, prompt, input, mask, turns,
                   finish, output>>

NoRoom_OffByOne(n) == n >= MaxModelLen    \* seeded fault: the EOS token is forgotten
NoRoom(n) == n + 1 >= MaxModelLen

Budget(n) == Smaller(ResponseLength, MaxModelLen - n - 1)

\* update_sampling_params on entry: only a batch that does not sample like the
\* configuration says changes how to sample.
Updated(p, m, new) == [style |-> IF m = "train" THEN p.style ELSE m, new |-> new]

\* One step, up to the await of async_generate; the engine reads the
\* dictionary before its first await.
EnterEngine(r) ==
    /\ state[r] = "running"
    /\ input' = [input EXCEPT ![r] = WithPrompt(@)]
    /\ mask' = [mask EXCEPT ![r] =
                    IF WithPrompt(input[r]) = input[r] THEN @ ELSE Append(@, 0)]
    /\ IF NoRoom(Len(input'[r]))
       THEN /\ Close(r, "length", turns[r])
            /\ UNCHANGED <<params, saved, given>>
       ELSE /\ saved' = [saved EXCEPT ![r] = params]
            /\ params' = Updated(params, mode, Budget(Len(input'[r])))
            /\ given' = [given EXCEPT ![r] = params']
            /\ state' = [state EXCEPT ![r] = "engine"]
            /\ UNCHANGED finish
    /\ UNCHANGED <<phase, batch, mode, prompt, turns, output>>

\* The finally of update_sampling_params.
Restored(p, old, m) ==
    [style |-> IF m = "train" THEN p.style ELSE old.style, new |-> old.new]

\* The engine returns the model's text: n tokens once it is put back through
\* the chat template, which adds the end-of-turn token the model may have been
\* cut off before. It ends the request, or asks for tools with arguments that
\* parse; the tools are not run when this was the last turn.
EngineReturns(r, why, n, calls) ==
    /\ state[r] = "engine"
    /\ calls => why = "stop"
    /\ n <= given[r].new + 1
    /\ params' = Restored(params, saved[r], mode)
    /\ turns' = [turns EXCEPT ![r] = @ + 1]
    /\ AddAssistant(r, n)
    /\ IF calls /\ turns[r] + 1 < MaxTurns
       THEN /\ state' = [state EXCEPT ![r] = "tool_calling"]
            /\ finish' = [finish EXCEPT ![r] = "tool_calls"]
       ELSE Close(r, IF calls THEN "tool_calls" ELSE why, turns[r] + 1)
    /\ UNCHANGED <<phase, batch, mode, saved, given, prompt, output>>

\* The tools of the turn have run, and their answers are n tokens.
ToolsReturn(r, n) ==
    /\ state[r] = "tool_calling"
    /\ AddTool(r, n)
    /\ IF Len(input'[r]) >= MaxModelLen
       THEN Close(r, "stop", turns[r])
       ELSE /\ state' = [state EXCEPT ![r] = "running"]
            /\ UNCHANGED finish
    /\ UNCHANGED <<phase, batch, mode, params, saved, given, prompt, turns, output>>

\* The engine raises (an aborted generation), or a tool: when it is created,
\* called (one the request has no tools_kwargs for), asked for its reward or
\* released.  gather raises, and so does the whole batch.
RequestRaises(r) ==
    /\ phase = "generating"
    /\ state[r] \in {"pending", "engine", "tool_calling", "closing"}
    /\ phase' = "failed"
    /\ params' = IF state[r] = "engine" THEN Restored(params, saved[r], mode) ELSE params
    /\ UNCHANGED <<batch, mode, saved, given, requestVars>>

\* truncate_output_ids, of a sequence from which the first n belong to the prompt.
ModelLenOfRequest == Smaller(MaxModelLen, PromptLength + ResponseLength)
Response(q, n) ==
    LET cut == SubSeq(q, 1, Smaller(Len(q), ModelLenOfRequest))
        rest == SubSeq(cut, n + 1, Len(cut))
    IN  SubSeq(rest, 1, Smaller(Len(rest), ResponseLength))

\* finalize: a generation prompt nothing was generated for is taken off again,
\* from the tokens and from the masks.
Stripped_Kept(q, tokens) == q    \* seeded fault: it stays
Stripped(q, tokens) == IF EndsWithPrompt(tokens) THEN Front(q) ELSE q

\* Tools give their rewards and are released, and the request is finalized;
\* finalize raises for any other finish reason.
Finalize(r) ==
    /\ state[r] = "closing"
    /\ finish[r] \in {"stop", "length"}
    /\ state' = [state EXCEPT ![r] = "completed"]
    /\ LET ids == Stripped(input[r], input[r])
           loss == Stripped(mask[r], input[r])
       IN  /\ input' = [input EXCEPT ![r] = ids]
           /\ mask' = [mask EXCEPT ![r] = loss]
           /\ output' = [output EXCEPT ![r] = [ids |-> Response(ids, prompt[r]),
                                               mask |-> Response(loss, prompt[r])]]
    /\ UNCHANGED <<phase, batch, mode, params, saved, given, prompt, turns, finish>>

RequestStep(r) ==
    /\ phase = "generating"
    /\ \/ CreateTools(r) \/ EnterEngine(r)
       \/ \E why \in {"stop", "length"}, n \in 1..(ResponseLength + 1), calls \in BOOLEAN :
              EngineReturns(r, why, n, calls)
       \/ \E n \in 1..MaxToolText : ToolsReturn(r, n)
       \/ Finalize(r)

Next ==
    \/ \E m \in BatchModes : \E len \in [Reqs -> PromptLens] : StartBatch(m, len)
    \/ FinishBatch
    \/ \E r \in Reqs : RequestStep(r) \/ RequestRaises(r)

Spec == Init /\ [][Next]_vars

\* The event loop resumes every coroutine, and engine calls and tool calls
\* return (a call that hangs hangs the batch: there is no timeout here).
FairSpec ==
    /\ Spec
    /\ WF_vars(FinishBatch)
    /\ \A r \in Reqs : WF_vars(RequestStep(r))

(***************************************************************************)
(* Properties.                                                             *)
(***************************************************************************)

\* Whatever turns came before, the engine is asked for at least one token and
\* for no more than the model's length leaves, the EOS token included.
EngineHasRoom ==
    \A r \in Reqs : state[r] = "engine" =>
        /\ given[r].new >= 1
        /\ Len(input[r]) + given[r].new + 1 <= MaxModelLen

\* The actor is trained on exactly the tokens the model produced: after every
\* truncation and stripping the loss mask still lines up with the tokens.
LossOnModelTokens ==
    \A r \in Reqs : state[r] = "completed" =>
        /\ Len(output[r].mask) = Len(output[r].ids)
        /\ \A i \in 1..Len(output[r].ids) : output[r].mask[i] = 1 <=> output[r].ids[i] = "A"

\* A response reads like the chat template writes it: it starts with the
\* model, and between a tool's answer and the model's next turn there is one
\* generation prompt, which is never left at the end without a turn after it
\* unless the response was cut off there.
FollowsTemplate ==
    \A r \in Reqs : state[r] = "completed" =>
        LET ids == output[r].ids IN
        /\ ids # <<>> => ids[1] = "A"
        /\ \A i \in 2..Len(ids) :
              /\ ids[i] = "G" => ids[i - 1] = "T"
              /\ ids[i - 1] = "T" => ids[i] \in {"T", "G"}
              /\ ids[i - 1] = "G" => ids[i] = "A"
        /\ ids # <<>> /\ Last(ids) = "G" =>
              \/ Len(ids) = ResponseLength
              \/ prompt[r] + Len(ids) = ModelLenOfRequest

\* A request that is over, wherever it left the loop, has a finish reason that
\* finalize accepts.
FinalizeAccepts == \A r \in Reqs : state[r] = "closing" => finish[r] \in {"stop", "length"}

\* Every batch ends, completed or with an exception.
BatchEnds == phase = "generating" ~> phase # "generating"

=============================================================================
