---------------------------- MODULE ChatScheduler ----------------------------
(***************************************************************************)
(* Multi-turn rollout through OpenAI-style servers: AsyncLLMServerManager  *)
(* starts the servers and wakes them up and puts them to sleep around      *)
(* generate_sequences; ChatCompletionScheduler runs one conversation per   *)
(* prompt on its event loop and routes every request; and                  *)
(* ToolCompletionCallback calls the tools a reply asks for and submits the *)
(* conversation again.                                                     *)
(*                                                                         *)
(* The event loop is one thread: an action is what a coroutine does        *)
(* between two awaits.  A cache entry stands for the request id of the     *)
(* conversation it was made for: <<call of generate_sequences, prompt>>.   *)
(***************************************************************************)
EXTENDS Integers, Sequences, FiniteSets, SequencesExt

CONSTANTS
    Prompts,        \* the conversations of one generate_sequences call
    NumServers,     \* rollout_dp_size
    MaxCacheSize,   \* max_cache_size of request_id_to_address
    MaxTurns,       \* multi_turn.max_assistant_turns of the callback; 0 is null
    MaxCalls,       \* bound: generate_sequences calls
    MaxToolCalls,   \* bound: tool calls in one reply
    MaxLength,      \* bound: messages of a conversation whose model still calls tools
    MaxFaults       \* bound: requests that fail

ASSUME PromptsAssumption == IsFiniteSet(Prompts) /\ Prompts # {}
ASSUME ServersAssumption == NumServers \in Nat \ {0}
ASSUME CacheAssumption == MaxCacheSize \in Nat \ {0}
ASSUME TurnsAssumption == MaxTurns \in Nat
ASSUME BoundsAssumption ==
    /\ MaxCalls \in Nat \ {0} /\ MaxToolCalls \in Nat \ {0}
    /\ MaxLength \in Nat \ {0} /\ MaxFaults \in Nat

\* In the order of their addresses, which is how the heap breaks ties.
Servers == 1..NumServers

VARIABLES
    driver,   \* what the trainer's thread is doing
    ready,    \* the server instances that are up
    weights,  \* weighted_addresses: the conversations sent to each server
    cache,    \* request_id_to_address, least recently used first
    call,     \* which generate_sequences call this is
    stage,    \* where the task of each conversation is
    depth,    \* info["__depth__"]
    done,     \* info["__done__"]
    length,   \* len(messages); the prompt is one message
    calls,    \* tool calls of the last reply
    faults,   \* requests that have failed
    served    \* observation: the servers that got a request of the conversation

taskVars == <<stage, depth, done, length, calls, served>>
vars == <<driver, ready, weights, cache, call, taskVars, faults>>

\* "lost": the task died of the assertion in _submit_chat_completions_and_callback.
Stages == {"none", "queued", "inflight", "tools", "requeued", "ended", "lost"}

Entry == [conv : (1..MaxCalls) \X Prompts, address : Servers]

TypeOK ==
    /\ driver \in {"starting", "asleep", "awake", "generating", "generated", "failed"}
    /\ ready \subseteq Servers
    /\ weights \in [Servers -> Nat]
    /\ cache \in Seq(Entry) /\ Len(cache) <= MaxCacheSize
    /\ call \in 0..MaxCalls
    /\ stage \in [Prompts -> Stages]
    /\ depth \in [Prompts -> 0..1]
    /\ done \in [Prompts -> BOOLEAN]
    /\ length \in [Prompts -> 1..(MaxLength + MaxToolCalls + 1)]
    /\ calls \in [Prompts -> 0..MaxToolCalls]
    /\ faults \in 0..MaxFaults
    /\ served \in [Prompts -> SUBSET Servers]

Init ==
    /\ driver = "starting" /\ ready = {}
    /\ weights = [s \in Servers |-> 0]
    /\ cache = <<>>
    /\ call = 0
    /\ stage = [p \in Prompts |-> "none"]
    /\ depth = [p \in Prompts |-> 0]
    /\ done = [p \in Prompts |-> FALSE]
    /\ length = [p \in Prompts |-> 1]
    /\ calls = [p \in Prompts |-> 0]
    /\ faults = 0
    /\ served = [p \in Prompts |-> {}]

(***************************************************************************)
(* AsyncLLMServerManager, called by the trainer.                           *)
(***************************************************************************)

\* One pass of the start loop: a server whose port is taken is killed and
\* started again in the next pass; the engines start when all are up.
StartPass(up) ==
    /\ driver = "starting"
    /\ up \subseteq Servers \ ready
    /\ ready' = ready \cup up
    /\ driver' = IF ready' = Servers THEN "asleep" ELSE "starting"
    /\ UNCHANGED <<weights, cache, call, taskVars, faults>>

WakeUp ==
    /\ driver = "asleep" /\ call < MaxCalls
    /\ driver' = "awake"
    /\ UNCHANGED <<ready, weights, cache, call, taskVars, faults>>

\* generate_sequences creates one task per conversation, and each submits its
\* first request.
Generate ==
    /\ driver = "awake"
    /\ driver' = "generating"
    /\ call' = call + 1
    /\ stage' = [p \in Prompts |-> "queued"]
    /\ depth' = [p \in Prompts |-> 1]
    /\ done' = [p \in Prompts |-> FALSE]
    /\ length' = [p \in Prompts |-> 1]
    /\ calls' = [p \in Prompts |-> 0]
    /\ served' = [p \in Prompts |-> {}]
    /\ UNCHANGED <<ready, weights, cache, faults>>

\* asyncio.gather returns when every __done__ is set; postprocess asserts that
\* every conversation has a response.
Postprocess ==
    /\ driver = "generating"
    /\ \A p \in Prompts : done[p]
    /\ driver' = IF \A p \in Prompts : length[p] > 1 THEN "generated" ELSE "failed"
    /\ UNCHANGED <<ready, weights, cache, call, taskVars, faults>>

Sleep ==
    /\ driver = "generated"
    /\ driver' = "asleep"
    /\ UNCHANGED <<ready, weights, cache, call, taskVars, faults>>

(***************************************************************************)
(* Routing.                                                                *)
(***************************************************************************)

\* weighted_addresses[0]: the least [count, address] of the heap.
IsLeast(s) ==
    \A t \in Servers \ {s} :
        weights[s] < weights[t] \/ (weights[s] = weights[t] /\ s < t)

Places(p) == {i \in 1..Len(cache) : cache[i].conv = <<call, p>>}

\* LRUCache.__setitem__ makes room by dropping the least recently used entry.
Inserted(q, entry) ==
    Append(IF Len(q) >= MaxCacheSize THEN Tail(q) ELSE q, entry)

\* The request goes out under a fresh id to the address of this conversation.
Send(p, address, rest) ==
    /\ cache' = Inserted(rest, [conv |-> <<call, p>>, address |-> address])
    /\ stage' = [stage EXCEPT ![p] = "inflight"]
    /\ served' = [served EXCEPT ![p] = @ \cup {address}]
    /\ UNCHANGED <<driver, ready, call, depth, done, length, calls, faults>>

\* The first requests of a call are all sent before any reply is read: their
\* tasks are next in the event loop's queue when generate_sequences awaits.
AllSent == \A p \in Prompts : stage[p] # "queued"

SendFirst(p) ==
    /\ stage[p] = "queued"
    /\ \E s \in Servers :
          /\ IsLeast(s)
          /\ weights' = [weights EXCEPT ![s] = @ + 1]
          /\ Send(p, s, cache)

\* The server this conversation has been on, and the cache without its entry.
Home_Rebalanced(i) == CHOOSE s \in Servers : IsLeast(s)    \* seeded fault: balanced afresh
Home(i) == cache[i].address
Popped_Kept(i) == cache    \* seeded fault: get instead of pop
Popped(i) == RemoveAt(cache, i)

SendAgain(p) ==
    /\ stage[p] = "requeued"
    /\ \E i \in Places(p) : Send(p, Home(i), Popped(i))
    /\ UNCHANGED weights

\* assert request_id in self.request_id_to_address
SendFails(p) ==
    /\ stage[p] = "requeued"
    /\ Places(p) = {}
    /\ stage' = [stage EXCEPT ![p] = "lost"]
    /\ UNCHANGED <<driver, ready, weights, cache, call, depth, done, length, calls,
                   faults, served>>

(***************************************************************************)
(* Replies, tools and the end of a conversation.                           *)
(***************************************************************************)

\* The task returns: nobody is left to serve this conversation if no request
\* is ongoing.
Return_OnSuccess(p, d, ok) ==    \* seeded fault: the exception path returns early
    /\ stage' = [stage EXCEPT ![p] = "ended"]
    /\ done' = [done EXCEPT ![p] = @ \/ (d = 0 /\ ok)]
Return(p, d, ok) ==
    /\ stage' = [stage EXCEPT ![p] = "ended"]
    /\ done' = [done EXCEPT ![p] = @ \/ d = 0]

\* The HTTP request raised: the exception is logged and the conversation ends.
RequestFails(p) ==
    /\ stage[p] = "inflight" /\ AllSent /\ faults < MaxFaults
    /\ faults' = faults + 1
    /\ depth' = [depth EXCEPT ![p] = @ - 1]
    /\ Return(p, depth'[p], FALSE)
    /\ UNCHANGED <<driver, ready, weights, cache, call, length, calls, served>>

TurnsLeft(n) == MaxTurns = 0 \/ n < MaxTurns

\* A reply with n tool calls arrives and the callback runs up to its first
\* await: it stops at max_turns and when no tool is called.
Reply(p, n) ==
    /\ stage[p] = "inflight" /\ AllSent
    /\ n > 0 => length[p] < MaxLength
    /\ depth' = [depth EXCEPT ![p] = @ - 1]
    /\ length' = [length EXCEPT ![p] = @ + 1]
    /\ IF TurnsLeft(length[p] + 1) /\ n > 0
       THEN /\ stage' = [stage EXCEPT ![p] = "tools"]
            /\ calls' = [calls EXCEPT ![p] = n]
            /\ UNCHANGED done
       ELSE /\ Return(p, depth'[p], TRUE)
            /\ UNCHANGED calls
    /\ UNCHANGED <<driver, ready, weights, cache, call, faults, served>>

\* submit_chat_completions counts the request before its task has started.
Submitted_ByTask(d) == d    \* seeded fault: the task itself would count it
Submitted(d) == d + 1

\* Every tool has answered: the conversation is submitted again under the id
\* of its last completion, and the old task ends without being the last one.
ToolsAnswer(p) ==
    /\ stage[p] = "tools"
    /\ length' = [length EXCEPT ![p] = @ + calls[p]]
    /\ depth' = [depth EXCEPT ![p] = Submitted(@)]
    /\ stage' = [stage EXCEPT ![p] = "requeued"]
    /\ done' = [done EXCEPT ![p] = @ \/ depth'[p] = 0]
    /\ UNCHANGED <<driver, ready, weights, cache, call, calls, faults, served>>

\* A tool raised: _call_tool returns the exception (execute) or raises it
\* (create, unknown tool, bad arguments); either way the conversation ends.
ToolFails(p) ==
    /\ stage[p] = "tools"
    /\ Return(p, depth[p], FALSE)
    /\ UNCHANGED <<driver, ready, weights, cache, call, depth, length, calls, faults,
                   served>>

ConversationStep(p) ==
    \/ SendFirst(p) \/ SendAgain(p) \/ SendFails(p)
    \/ \E n \in 0..MaxToolCalls : Reply(p, n)
    \/ ToolsAnswer(p) \/ ToolFails(p)

Next ==
    \/ \E up \in SUBSET Servers : StartPass(up)
    \/ WakeUp \/ Generate \/ Postprocess \/ Sleep
    \/ \E p \in Prompts : ConversationStep(p) \/ RequestFails(p)

Spec == Init /\ [][Next]_vars

\* The event loop resumes every coroutine that can go on, and a request or a
\* tool that does not fail answers (neither has a timeout). Requests need not
\* fail, and the trainer need not ask for another batch.
FairSpec ==
    /\ Spec
    /\ WF_vars(Postprocess)
    /\ \A p \in Prompts : WF_vars(ConversationStep(p))

(***************************************************************************)
(* Properties.                                                             *)
(***************************************************************************)

\* Every turn of a conversation is served by the server of its first turn
\* (the one that has its prefix cached), whatever the other conversations did
\* to the cache of addresses in between.
StickyRouting == \A p \in Prompts : Cardinality(served[p]) <= 1

\* Of the conversations that go on, no more have lost their address to the
\* cache's eviction than the cache is too small for: the entries of finished
\* conversations and the ids of earlier turns take no room from them.
Active == {p \in Prompts : stage[p] \in {"inflight", "tools", "requeued"}}

KeepsItsAddress ==
    Cardinality({p \in Active : Places(p) = {}}) <= Max({0, Cardinality(Prompts) - MaxCacheSize})

\* generate_sequences goes on only when no task of any of its conversations is
\* left: the messages it post-processes do not change under it, and the
\* engines are not put to sleep under a request.
QuietWhenReturned ==
    driver \in {"asleep", "awake", "generated"} =>
        \A p \in Prompts : stage[p] \in {"none", "ended"}

\* generate_sequences ends, with a batch or with an exception, unless the
\* address of one of its conversations was evicted: that one is never done, and
\* nothing else, no failing request or tool, may leave one undone.
GenerateEnds ==
    driver = "generating" ~>
        driver \in {"generated", "failed"} \/ \E p \in Prompts : stage[p] = "lost"
=============================================================================
