------------------------ MODULE ChatScheduler_proofs ------------------------
(***************************************************************************)
(* Theorems about ChatScheduler, for every number of prompts, servers,     *)
(* turns and calls, and every size of the cache.                           *)
(***************************************************************************)
EXTENDS ChatScheduler, FiniteSetTheorems, TLAPS

\* Where a task is says whether a request of it is ongoing, whether it can
\* have been counted as done, and how long its conversation can be. Only a
\* task that has ended is done, and there are others only while the trainer
\* waits in generate_sequences.
TaskInv ==
    \A p \in Prompts :
        /\ stage[p] \in {"queued", "inflight", "requeued"} => depth[p] = 1
        /\ stage[p] = "tools" => depth[p] = 0 /\ length[p] <= MaxLength
        /\ stage[p] \in {"queued", "inflight", "requeued"} =>
               length[p] <= MaxLength + MaxToolCalls
        /\ done[p] => stage[p] = "ended"
        /\ driver # "generating" => stage[p] \in {"none", "ended"}

CallInv ==
    /\ driver = "awake" => call < MaxCalls
    /\ \A p \in Prompts : stage[p] # "none" => call >= 1

TypeInv == TypeOK /\ TaskInv /\ CallInv

LEMMA TypeInit == Init => TypeInv
BY ServersAssumption, CacheAssumption, BoundsAssumption
   DEF Init, TypeInv, TypeOK, TaskInv, CallInv, Stages, Entry

\* Making room in the cache and adding an entry keeps it within its size.
LEMMA InsertedType ==
    ASSUME NEW q \in Seq(Entry), Len(q) <= MaxCacheSize, NEW e \in Entry
    PROVE  Inserted(q, e) \in Seq(Entry) /\ Len(Inserted(q, e)) <= MaxCacheSize
<1> USE CacheAssumption
<1>1. CASE Len(q) >= MaxCacheSize
  <2>1. q # <<>> /\ Tail(q) \in Seq(Entry) /\ Len(Tail(q)) = Len(q) - 1
    BY <1>1
  <2> QED
    BY <1>1, <2>1 DEF Inserted
<1>2. CASE ~(Len(q) >= MaxCacheSize)
  BY <1>2 DEF Inserted
<1> QED
  BY <1>1, <1>2

\* What adding an entry leaves in the cache: the entry and some of the others.
LEMMA InsertedEntries ==
    ASSUME NEW q \in Seq(Entry), NEW e \in Entry, NEW i \in 1..Len(Inserted(q, e))
    PROVE  \/ Inserted(q, e)[i] = e
           \/ \E j \in 1..Len(q) : Inserted(q, e)[i] = q[j]
<1> USE CacheAssumption
<1>1. CASE Len(q) >= MaxCacheSize
  <2> DEFINE rest == Tail(q)
             entries == Append(rest, e)
  <2>1. /\ rest \in Seq(Entry) /\ Len(q) \in Nat /\ Len(rest) = Len(q) - 1
        /\ \A j \in 1..Len(rest) : rest[j] = q[j + 1]
    BY <1>1
  <2>2. Inserted(q, e) = entries
    BY <1>1 DEF Inserted
  <2> HIDE DEF rest
  <2>3. /\ Len(entries) = Len(rest) + 1
        /\ \A j \in 1..Len(rest) : entries[j] = rest[j]
        /\ entries[Len(rest) + 1] = e
    BY <2>1
  <2>4. i \in 1..Len(entries)
    BY <2>2
  <2> HIDE DEF entries
  <2>5. CASE i = Len(rest) + 1
    BY <2>2, <2>3, <2>5
  <2>6. CASE i # Len(rest) + 1
    <3>1. i \in 1..Len(rest) /\ i + 1 \in 1..Len(q)
      BY <2>1, <2>3, <2>4, <2>6
    <3> QED
      BY <2>1, <2>2, <2>3, <3>1
  <2> QED
    BY <2>5, <2>6
<1>2. CASE ~(Len(q) >= MaxCacheSize)
  BY <1>2 DEF Inserted
<1> QED
  BY <1>1, <1>2

\* The entries of one list followed by another.
IsJoined(c, f, b, S) ==
    /\ c \in Seq(S) /\ Len(c) = Len(f) + Len(b)
    /\ \A n \in 1..(Len(f) + Len(b)) :
          c[n] = IF n <= Len(f) THEN f[n] ELSE b[n - Len(f)]

LEMMA Joined ==
    ASSUME NEW S, NEW f \in Seq(S), NEW b \in Seq(S), NEW c, c = f \o b
    PROVE  IsJoined(c, f, b, S)
  BY DEF IsJoined

\* Popping an entry leaves the others, in their order.
LEMMA PoppedIs ==
    ASSUME TypeOK, NEW i \in 1..Len(cache)
    PROVE  /\ Popped(i) \in Seq(Entry) /\ Len(Popped(i)) = Len(cache) - 1
           /\ \A n \in 1..(Len(cache) - 1) :
                 Popped(i)[n] = cache[IF n < i THEN n ELSE n + 1]
<1> DEFINE front == SubSeq(cache, 1, i - 1)
           back == SubSeq(cache, i + 1, Len(cache))
<1>1. cache \in Seq(Entry) /\ Len(cache) \in Nat
  BY DEF TypeOK
<1>2. /\ front \in Seq(Entry) /\ Len(front) = i - 1
      /\ \A n \in 1..(i - 1) : front[n] = cache[n]
  BY <1>1
<1>3. /\ back \in Seq(Entry) /\ Len(back) = Len(cache) - i
      /\ \A n \in 1..(Len(cache) - i) : back[n] = cache[n + i]
  BY <1>1
<1>4. Popped(i) = front \o back
  BY DEF Popped, RemoveAt
<1> HIDE DEF front, back
<1>5. /\ Popped(i) \in Seq(Entry) /\ Len(Popped(i)) = Len(front) + Len(back)
      /\ \A n \in 1..(Len(front) + Len(back)) :
            Popped(i)[n] = IF n <= Len(front) THEN front[n] ELSE back[n - Len(front)]
  <2>1. front \in Seq(Entry) /\ back \in Seq(Entry)
    BY <1>2, <1>3
  <2> DEFINE c == Popped(i)
  <2>2. c = front \o back
    BY <1>4
  <2> HIDE DEF c
  <2>3. IsJoined(c, front, back, Entry)
    BY <2>1, <2>2, Joined, Zenon
  <2> QED
    BY <2>3, Zenon DEF c, IsJoined
<1>6. Len(Popped(i)) = Len(cache) - 1
  BY <1>1, <1>2, <1>3, <1>5
<1>7. ASSUME NEW n \in 1..(Len(cache) - 1)
      PROVE  Popped(i)[n] = cache[IF n < i THEN n ELSE n + 1]
  <2>1. CASE n < i
    <3>1. n \in 1..(i - 1) /\ n <= Len(front) /\ n \in 1..(Len(front) + Len(back))
      BY <1>1, <1>2, <1>3, <2>1
    <3>2. Popped(i)[n] = front[n] /\ front[n] = cache[n]
      BY <1>2, <1>5, <3>1
    <3> QED
      BY <2>1, <3>2
  <2>2. CASE ~(n < i)
    <3>1. n - (i - 1) \in 1..(Len(cache) - i)
      BY <1>1, <2>2
    <3>2. Popped(i)[n] = back[n - (i - 1)]
      <4>1. Len(front) = i - 1 /\ Len(back) = Len(cache) - i /\ i \in Int /\ Len(cache) \in Int
        BY <1>1, <1>2, <1>3
      <4>2. n \in 1..(Len(front) + Len(back)) /\ ~(n <= Len(front))
        BY <2>2, <4>1
      <4>3. Popped(i)[n] = back[n - Len(front)]
        BY <1>5, <4>2, Zenon
      <4> QED
        BY <4>1, <4>3, Zenon
    <3>3. back[n - (i - 1)] = cache[n + 1]
      <4>1. back[n - (i - 1)] = cache[n - (i - 1) + i]
        BY <1>3, <3>1
      <4>2. n - (i - 1) + i = n + 1
        OBVIOUS
      <4> QED
        BY <4>1, <4>2
    <3> QED
      BY <2>2, <3>2, <3>3
  <2> QED
    BY <2>1, <2>2
<1> QED
  BY <1>5, <1>6, <1>7

LEMMA PoppedEntries ==
    ASSUME TypeOK, NEW i \in 1..Len(cache)
    PROVE  /\ Popped(i) \in Seq(Entry) /\ Len(Popped(i)) <= MaxCacheSize
           /\ \A n \in 1..Len(Popped(i)) : \E j \in 1..Len(cache) : Popped(i)[n] = cache[j]
<1>1. Len(cache) \in Nat /\ Len(cache) <= MaxCacheSize
  BY DEF TypeOK
<1>2. \A n \in 1..(Len(cache) - 1) : (IF n < i THEN n ELSE n + 1) \in 1..Len(cache)
  BY <1>1
<1>3. /\ Popped(i) \in Seq(Entry) /\ Len(Popped(i)) = Len(cache) - 1
      /\ \A n \in 1..(Len(cache) - 1) : Popped(i)[n] = cache[IF n < i THEN n ELSE n + 1]
  BY PoppedIs
<1>4. ASSUME NEW n \in 1..Len(Popped(i))
      PROVE  \E j \in 1..Len(cache) : Popped(i)[n] = cache[j]
  BY <1>2, <1>3
<1> QED
  BY <1>1, <1>3, <1>4, CacheAssumption

\* Sending a request adds an entry for a server to a cache of the right size.
LEMMA SendType ==
    ASSUME TypeInv, NEW p \in Prompts, stage[p] # "none", NEW address \in Servers,
           NEW rest \in Seq(Entry), Len(rest) <= MaxCacheSize, Send(p, address, rest)
    PROVE  /\ cache' \in Seq(Entry) /\ Len(cache') <= MaxCacheSize
           /\ cache' = Inserted(rest, [conv |-> <<call, p>>, address |-> address])
           /\ [conv |-> <<call, p>>, address |-> address] \in Entry
           /\ served' \in [Prompts -> SUBSET Servers]
           /\ stage' = [stage EXCEPT ![p] = "inflight"]
           /\ UNCHANGED <<driver, ready, call, depth, done, length, calls, faults>>
<1>1. <<call, p>> \in (1..MaxCalls) \X Prompts
  BY BoundsAssumption DEF TypeInv, TypeOK, CallInv
<1>2. [conv |-> <<call, p>>, address |-> address] \in Entry
  BY <1>1 DEF Entry
<1>3. /\ cache' = Inserted(rest, [conv |-> <<call, p>>, address |-> address])
      /\ served' = [served EXCEPT ![p] = @ \cup {address}]
      /\ stage' = [stage EXCEPT ![p] = "inflight"]
      /\ UNCHANGED <<driver, ready, call, depth, done, length, calls, faults>>
  BY DEF Send
<1>4. served' \in [Prompts -> SUBSET Servers]
  BY <1>3 DEF TypeInv, TypeOK
<1> QED
  BY <1>2, <1>3, <1>4, InsertedType

LEMMA TypeStep == TypeInv /\ [Next]_vars => TypeInv'
<1> SUFFICES ASSUME TypeInv, [Next]_vars PROVE TypeInv'
  OBVIOUS
<1> USE BoundsAssumption, ServersAssumption, CacheAssumption
<1>1. ASSUME NEW up \in SUBSET Servers, StartPass(up) PROVE TypeInv'
  BY <1>1 DEF StartPass, TypeInv, TypeOK, TaskInv, CallInv, taskVars
<1>2. CASE WakeUp
  BY <1>2 DEF WakeUp, TypeInv, TypeOK, TaskInv, CallInv, taskVars
<1>3. CASE Generate
  <2>1. TypeOK'
    BY <1>3 DEF Generate, TypeInv, TypeOK, CallInv, Stages
  <2>2. TaskInv' /\ CallInv'
    BY <1>3 DEF Generate, TypeInv, TypeOK, TaskInv, CallInv
  <2> QED
    BY <2>1, <2>2 DEF TypeInv
<1>4. CASE Postprocess
  BY <1>4 DEF Postprocess, TypeInv, TypeOK, TaskInv, CallInv, taskVars
<1>5. CASE Sleep
  BY <1>5 DEF Sleep, TypeInv, TypeOK, TaskInv, CallInv, taskVars
<1>6. ASSUME NEW p \in Prompts, SendFirst(p) PROVE TypeInv'
  <2>1. PICK s \in Servers : weights' = [weights EXCEPT ![s] = @ + 1] /\ Send(p, s, cache)
    BY <1>6 DEF SendFirst
  <2>2. stage[p] = "queued"
    BY <1>6 DEF SendFirst
  <2>3. cache \in Seq(Entry) /\ Len(cache) <= MaxCacheSize
    BY DEF TypeInv, TypeOK
  <2>4. /\ cache' \in Seq(Entry) /\ Len(cache') <= MaxCacheSize
        /\ served' \in [Prompts -> SUBSET Servers]
        /\ stage' = [stage EXCEPT ![p] = "inflight"]
        /\ UNCHANGED <<driver, ready, call, depth, done, length, calls, faults>>
    BY <2>1, <2>2, <2>3, SendType
  <2>5. TypeOK'
    BY <2>1, <2>4 DEF TypeInv, TypeOK, Stages
  <2>6. TaskInv' /\ CallInv'
    BY <2>2, <2>4 DEF TypeInv, TypeOK, TaskInv, CallInv
  <2> QED
    BY <2>5, <2>6 DEF TypeInv
<1>7. ASSUME NEW p \in Prompts, SendAgain(p) PROVE TypeInv'
  <2>1. PICK i \in Places(p) : Send(p, Home(i), Popped(i))
    BY <1>7 DEF SendAgain
  <2>2. stage[p] = "requeued" /\ UNCHANGED weights
    BY <1>7 DEF SendAgain
  <2>3. i \in 1..Len(cache) /\ Home(i) \in Servers
    <3>1. i \in 1..Len(cache)
      BY DEF Places
    <3>2. cache[i] \in Entry
      BY <3>1 DEF TypeInv, TypeOK
    <3> QED
      BY <3>1, <3>2 DEF Home, Entry
  <2>4. Popped(i) \in Seq(Entry) /\ Len(Popped(i)) <= MaxCacheSize
    BY <2>3, PoppedEntries DEF TypeInv
  <2>5. /\ cache' \in Seq(Entry) /\ Len(cache') <= MaxCacheSize
        /\ served' \in [Prompts -> SUBSET Servers]
        /\ stage' = [stage EXCEPT ![p] = "inflight"]
        /\ UNCHANGED <<driver, ready, call, depth, done, length, calls, faults>>
    BY <2>1, <2>2, <2>3, <2>4, SendType
  <2>6. TypeOK'
    BY <2>2, <2>5 DEF TypeInv, TypeOK, Stages
  <2>7. TaskInv' /\ CallInv'
    BY <2>2, <2>5 DEF TypeInv, TypeOK, TaskInv, CallInv
  <2> QED
    BY <2>6, <2>7 DEF TypeInv
<1>8. ASSUME NEW p \in Prompts, SendFails(p) PROVE TypeInv'
  BY <1>8 DEF SendFails, TypeInv, TypeOK, TaskInv, CallInv, Stages
<1>9. ASSUME NEW p \in Prompts, RequestFails(p) PROVE TypeInv'
  BY <1>9 DEF RequestFails, Return, TypeInv, TypeOK, TaskInv, CallInv, Stages
<1>10. ASSUME NEW p \in Prompts, NEW n \in 0..MaxToolCalls, Reply(p, n) PROVE TypeInv'
  <2>1. /\ stage[p] = "inflight" /\ depth[p] = 1 /\ depth' = [depth EXCEPT ![p] = @ - 1]
        /\ length' = [length EXCEPT ![p] = @ + 1]
        /\ n > 0 => length[p] < MaxLength
        /\ length[p] \in 1..(MaxLength + MaxToolCalls)
        /\ UNCHANGED <<driver, ready, weights, cache, call, faults, served>>
    BY <1>10 DEF Reply, TypeInv, TypeOK, TaskInv
  <2>2. driver = "generating" /\ call >= 1
    BY <2>1 DEF TypeInv, TaskInv, CallInv
  <2>3. CASE n > 0 /\ stage' = [stage EXCEPT ![p] = "tools"]
                   /\ calls' = [calls EXCEPT ![p] = n] /\ UNCHANGED done
    <3>1. TypeOK'
      BY <2>1, <2>3 DEF TypeInv, TypeOK, Stages
    <3>2. TaskInv' /\ CallInv'
      BY <2>1, <2>2, <2>3 DEF TypeInv, TypeOK, TaskInv, CallInv
    <3> QED
      BY <3>1, <3>2 DEF TypeInv
  <2>4. CASE Return(p, depth'[p], TRUE) /\ UNCHANGED calls
    <3>1. TypeOK'
      BY <2>1, <2>4 DEF Return, TypeInv, TypeOK, Stages
    <3>2. TaskInv' /\ CallInv'
      BY <2>1, <2>2, <2>4 DEF Return, TypeInv, TypeOK, TaskInv, CallInv
    <3> QED
      BY <3>1, <3>2 DEF TypeInv
  <2> QED
    BY <1>10, <2>3, <2>4 DEF Reply
<1>11. ASSUME NEW p \in Prompts, ToolsAnswer(p) PROVE TypeInv'
  BY <1>11 DEF ToolsAnswer, Submitted, TypeInv, TypeOK, TaskInv, CallInv, Stages
<1>12. ASSUME NEW p \in Prompts, ToolFails(p) PROVE TypeInv'
  BY <1>12 DEF ToolFails, Return, TypeInv, TypeOK, TaskInv, CallInv, Stages
<1>13. CASE UNCHANGED vars
  BY <1>13 DEF vars, taskVars, TypeInv, TypeOK, TaskInv, CallInv
<1> QED
  BY <1>1, <1>2, <1>3, <1>4, <1>5, <1>6, <1>7, <1>8, <1>9, <1>10, <1>11, <1>12, <1>13
     DEF Next, ConversationStep

\* Type correctness: the cache stays within its size, no conversation has more
\* than one request ongoing, none grows past its bound.
THEOREM TypeCorrect == Spec => []TypeOK
<1>1. TypeInv => TypeOK
  BY DEF TypeInv
<1> QED
  BY <1>1, TypeInit, TypeStep, PTL DEF Spec

\* When generate_sequences goes on, no task of any of its conversations is
\* left, for every number of conversations, turns and failures and every size
\* of the cache: the depth counter cannot reach 0 between two requests of a
\* conversation.
THEOREM AlwaysQuietWhenReturned == Spec => []QuietWhenReturned
<1>1. TypeInv => QuietWhenReturned
  BY DEF TypeInv, TaskInv, QuietWhenReturned
<1> QED
  BY <1>1, TypeInit, TypeStep, PTL DEF Spec

(***************************************************************************)
(* Routing.                                                                *)
(***************************************************************************)

\* A conversation has been served by at most one server; the entries of this
\* call's conversations name that server, whichever of them were evicted; and
\* no entry is of a call to come.
ServedInv ==
    \A p \in Prompts :
        /\ served[p] = {} \/ \E s \in Servers : served[p] = {s}
        /\ stage[p] = "queued" => served[p] = {}

EntryRight(e) ==
    e.conv[1] <= call /\ (e.conv[1] = call => served[e.conv[2]] = {e.address})

RoutingInv == ServedInv /\ \A i \in 1..Len(cache) : EntryRight(cache[i])

LEMMA RoutingInit == Init => RoutingInv
BY DEF Init, RoutingInv, ServedInv

\* A request that goes where the conversation has been, if it has been
\* anywhere, keeps the entries right.
LEMMA SendRoutes ==
    ASSUME TypeInv, RoutingInv, NEW p \in Prompts, stage[p] # "none",
           NEW address \in Servers, served[p] \subseteq {address},
           NEW rest \in Seq(Entry), Len(rest) <= MaxCacheSize,
           \A n \in 1..Len(rest) : \E j \in 1..Len(cache) : rest[n] = cache[j],
           Send(p, address, rest)
    PROVE  RoutingInv'
<1> DEFINE e == [conv |-> <<call, p>>, address |-> address]
           RightNext(x) == x.conv[1] <= call' /\ (x.conv[1] = call' => served'[x.conv[2]] = {x.address})
<1>1. /\ e \in Entry /\ cache' = Inserted(rest, e)
      /\ stage' = [stage EXCEPT ![p] = "inflight"]
      /\ call' = call
  BY SendType
<1>2. served' = [served EXCEPT ![p] = {address}]
  BY DEF Send, TypeInv, TypeOK
<1>3. call \in Nat
  BY DEF TypeInv, TypeOK
<1>4. ServedInv'
  BY <1>1, <1>2 DEF RoutingInv, ServedInv, TypeInv, TypeOK
<1>5. RightNext(e)
  BY <1>1, <1>2, <1>3 DEF TypeInv, TypeOK
<1>6. ASSUME NEW j \in 1..Len(cache) PROVE RightNext(cache[j])
  <2>1. cache[j] \in Entry /\ EntryRight(cache[j])
    BY DEF RoutingInv, TypeInv, TypeOK
  <2>2. PICK x \in Entry : x = cache[j]
    BY <2>1
  <2>3. x.conv[2] \in Prompts /\ x.conv[1] \in Nat /\ x.address \in Servers
    BY DEF Entry
  <2>4. x.conv[1] <= call /\ (x.conv[1] = call => served[x.conv[2]] = {x.address})
    BY <2>1, <2>2 DEF EntryRight
  <2>5. CASE x.conv[1] = call /\ x.conv[2] = p
    <3>1. x.address = address
      BY <2>4, <2>5
    <3>2. served'[p] = {address}
      BY <1>2, <2>3, <2>5 DEF TypeInv, TypeOK
    <3>3. x.conv[1] <= call' /\ served'[x.conv[2]] = {x.address}
      BY <1>1, <2>4, <2>5, <3>1, <3>2
    <3>4. RightNext(x)
      BY <3>3, Zenon
    <3> QED
      BY <2>2, <3>4
  <2>6. CASE ~(x.conv[1] = call /\ x.conv[2] = p)
    BY <1>1, <1>2, <2>2, <2>3, <2>4, <2>6 DEF TypeInv, TypeOK
  <2> QED
    BY <2>5, <2>6
<1>7. ASSUME NEW i \in 1..Len(cache') PROVE RightNext(cache'[i])
  <2>1. cache'[i] = e \/ \E n \in 1..Len(rest) : cache'[i] = rest[n]
    <3> DEFINE new == Inserted(rest, e)
    <3>1. cache' = new /\ e \in Entry /\ i \in 1..Len(new)
      BY <1>1
    <3>2. new[i] = e \/ \E n \in 1..Len(rest) : new[i] = rest[n]
      BY <3>1, InsertedEntries, Zenon
    <3> HIDE DEF new
    <3> QED
      BY <3>1, <3>2, Zenon
  <2>2. cache'[i] = e \/ \E j \in 1..Len(cache) : cache'[i] = cache[j]
    BY <2>1
  <2> HIDE DEF RightNext
  <2> QED
    BY <1>5, <1>6, <2>2
<1> QED
  BY <1>4, <1>7 DEF RoutingInv, EntryRight

LEMMA RoutingStep == TypeInv /\ RoutingInv /\ [Next]_vars => RoutingInv'
<1> SUFFICES ASSUME TypeInv, RoutingInv, [Next]_vars PROVE RoutingInv'
  OBVIOUS
<1>1. CASE Generate
  <2>1. call \in Nat /\ call' = call + 1 /\ cache' = cache
        /\ served' = [p \in Prompts |-> {}]
    BY <1>1 DEF Generate, TypeInv, TypeOK
  <2>2. ServedInv'
    BY <2>1 DEF ServedInv
  <2>3. ASSUME NEW i \in 1..Len(cache)
        PROVE  cache[i].conv[1] <= call' /\ cache[i].conv[1] # call'
    <3>1. cache[i] \in Entry /\ cache[i].conv[1] <= call
      BY DEF RoutingInv, EntryRight, TypeInv, TypeOK
    <3>2. cache[i].conv[1] \in Nat
      BY <3>1 DEF Entry
    <3> QED
      BY <2>1, <3>1, <3>2
  <2> QED
    BY <2>1, <2>2, <2>3 DEF RoutingInv, EntryRight
<1>2. ASSUME NEW p \in Prompts, SendFirst(p) PROVE RoutingInv'
  <2>1. PICK s \in Servers : Send(p, s, cache)
    BY <1>2 DEF SendFirst
  <2>2. stage[p] = "queued" /\ served[p] = {}
    BY <1>2 DEF SendFirst, RoutingInv, ServedInv
  <2>3. cache \in Seq(Entry) /\ Len(cache) <= MaxCacheSize
    BY DEF TypeInv, TypeOK
  <2> QED
    BY <2>1, <2>2, <2>3, SendRoutes
<1>3. ASSUME NEW p \in Prompts, SendAgain(p) PROVE RoutingInv'
  <2>1. PICK i \in Places(p) : Send(p, Home(i), Popped(i))
    BY <1>3 DEF SendAgain
  <2>2. stage[p] = "requeued"
    BY <1>3 DEF SendAgain
  <2>3. i \in 1..Len(cache) /\ cache[i].conv = <<call, p>>
    BY DEF Places
  <2>4. cache[i] \in Entry /\ EntryRight(cache[i])
    BY <2>3 DEF RoutingInv, TypeInv, TypeOK
  <2>5. served[p] = {Home(i)} /\ Home(i) \in Servers
    BY <2>3, <2>4 DEF EntryRight, Home, Entry
  <2>6. /\ Popped(i) \in Seq(Entry) /\ Len(Popped(i)) <= MaxCacheSize
        /\ \A n \in 1..Len(Popped(i)) : \E j \in 1..Len(cache) : Popped(i)[n] = cache[j]
    BY <2>3, PoppedEntries DEF TypeInv
  <2> QED
    BY <2>1, <2>2, <2>5, <2>6, SendRoutes
<1>4. ASSUME UNCHANGED <<cache, call, served>>,
             \A p \in Prompts : stage'[p] = "queued" => stage[p] = "queued"
      PROVE  RoutingInv'
  BY <1>4 DEF RoutingInv, ServedInv, EntryRight
<1>5. CASE UNCHANGED <<cache, call, served, stage>>
  BY <1>4, <1>5
<1>6. ASSUME NEW up \in SUBSET Servers, StartPass(up) PROVE RoutingInv'
  BY <1>5, <1>6 DEF StartPass, taskVars
<1>7. CASE WakeUp \/ Postprocess \/ Sleep
  BY <1>5, <1>7 DEF WakeUp, Postprocess, Sleep, taskVars
<1>8. ASSUME NEW p \in Prompts,
             \/ SendFails(p) \/ RequestFails(p) \/ ToolsAnswer(p) \/ ToolFails(p)
             \/ \E n \in 0..MaxToolCalls : Reply(p, n)
      PROVE  RoutingInv'
  <2>1. UNCHANGED <<cache, call, served>>
    BY <1>8 DEF SendFails, RequestFails, ToolsAnswer, ToolFails, Reply
  <2>2. \E a \in {"lost", "ended", "requeued", "tools"} : stage' = [stage EXCEPT ![p] = a]
    BY <1>8 DEF SendFails, RequestFails, ToolsAnswer, ToolFails, Reply, Return
  <2>3. \A q \in Prompts : stage'[q] = "queued" => stage[q] = "queued"
    BY <2>2 DEF TypeInv, TypeOK
  <2> QED
    BY <1>4, <2>1, <2>3
<1>9. CASE UNCHANGED vars
  BY <1>5, <1>9 DEF vars, taskVars
<1> QED
  BY <1>1, <1>2, <1>3, <1>6, <1>7, <1>8, <1>9 DEF Next, ConversationStep

\* Every turn of a conversation goes to one server, for every number of
\* servers and conversations and every size of the cache: an entry that
\* survives eviction still names the right server, and one that does not is
\* never replaced by a guess.
THEOREM AlwaysStickyRouting == Spec => []StickyRouting
<1>1. RoutingInv => StickyRouting
  <2> SUFFICES ASSUME RoutingInv, NEW p \in Prompts PROVE Cardinality(served[p]) <= 1
    BY DEF StickyRouting
  <2>1. CASE served[p] = {}
    BY <2>1, FS_EmptySet
  <2>2. CASE \E s \in Servers : served[p] = {s}
    BY <2>2, FS_Singleton
  <2> QED
    BY <2>1, <2>2 DEF RoutingInv, ServedInv
<1>2. TypeInv /\ RoutingInv /\ [Next]_vars => TypeInv' /\ RoutingInv'
  BY TypeStep, RoutingStep
<1> QED
  BY <1>1, <1>2, TypeInit, RoutingInit, PTL DEF Spec

(***************************************************************************)
(* Eviction.                                                               *)
(***************************************************************************)

\* Every entry of the cache comes after those of earlier calls, and a
\* conversation of this call has at most one.
Ordered(q) ==
    \A i, j \in 1..Len(q) :
        i < j => /\ q[i].conv[1] <= q[j].conv[1]
                 /\ q[i].conv # q[j].conv \/ q[i].conv[1] # call

Has(q, p) == \E i \in 1..Len(q) : q[i].conv = <<call, p>>

\* Until the first entry of this call is evicted, all conversations that have
\* sent a request have one; from then on the whole cache is theirs.
Unevicted == \A p \in Prompts : stage[p] \notin {"none", "queued"} => Has(cache, p)
OfThisCall(q) == Len(q) = MaxCacheSize /\ \A i \in 1..Len(q) : q[i].conv[1] = call

CacheInv ==
    /\ Ordered(cache)
    /\ \A i \in 1..Len(cache) : cache[i].conv[1] <= call
    /\ \A p \in Prompts : stage[p] = "queued" => ~Has(cache, p)
    /\ Unevicted \/ OfThisCall(cache)

LEMMA CacheInit == Init => CacheInv
  BY DEF Init, CacheInv, Ordered, Has, Unevicted

LEMMA InsertedIs ==
    ASSUME NEW q \in Seq(Entry), Len(q) <= MaxCacheSize, NEW e \in Entry
    PROVE  LET n == Len(Inserted(q, e)) IN
           /\ n \in Nat /\ n >= 1 /\ n <= MaxCacheSize /\ Inserted(q, e)[n] = e
           /\ IF Len(q) = MaxCacheSize
              THEN n = Len(q) /\ \A i \in 1..(n - 1) : Inserted(q, e)[i] = q[i + 1]
              ELSE n = Len(q) + 1 /\ \A i \in 1..(n - 1) : Inserted(q, e)[i] = q[i]
<1> USE CacheAssumption
<1>0. Len(q) \in Nat
  OBVIOUS
<1>1. CASE Len(q) = MaxCacheSize
  <2> DEFINE rest == Tail(q)
  <2>1. /\ rest \in Seq(Entry) /\ Len(rest) = Len(q) - 1
        /\ \A j \in 1..Len(rest) : rest[j] = q[j + 1]
    BY <1>1
  <2>2. Inserted(q, e) = Append(rest, e)
    BY <1>1 DEF Inserted
  <2> HIDE DEF rest
  <2>3. /\ Len(Append(rest, e)) = Len(rest) + 1
        /\ \A j \in 1..Len(rest) : Append(rest, e)[j] = rest[j]
        /\ Append(rest, e)[Len(rest) + 1] = e
    BY <2>1
  <2> QED
    BY <1>0, <1>1, <2>1, <2>2, <2>3
<1>2. CASE Len(q) # MaxCacheSize
  <2>1. Inserted(q, e) = Append(q, e)
    BY <1>0, <1>2 DEF Inserted
  <2> QED
    BY <1>0, <1>2, <2>1
<1> QED
  BY <1>1, <1>2

\* The entry of conversation p, which has none, is added to a cache q.
LEMMA InsertedOrdered ==
    ASSUME NEW q \in Seq(Entry), Len(q) <= MaxCacheSize, call \in Nat,
           NEW p \in Prompts, NEW e \in Entry, e.conv = <<call, p>>,
           Ordered(q), ~Has(q, p), \A i \in 1..Len(q) : q[i].conv[1] <= call
    PROVE  LET new == Inserted(q, e) IN
           /\ Ordered(new) /\ Has(new, p)
           /\ \A i \in 1..Len(new) : new[i].conv[1] <= call
           /\ \A r \in Prompts \ {p} : Has(new, r) => Has(q, r)
           /\ \/ \A r \in Prompts : Has(q, r) => Has(new, r)
              \/ OfThisCall(new)
<1> DEFINE new == Inserted(q, e)
           n == Len(new)
           src(i) == IF Len(q) = MaxCacheSize THEN i + 1 ELSE i
<1>1. /\ n \in Nat /\ n >= 1 /\ n <= MaxCacheSize /\ new[n] = e
      /\ IF Len(q) = MaxCacheSize
         THEN n = Len(q) /\ \A i \in 1..(n - 1) : new[i] = q[i + 1]
         ELSE n = Len(q) + 1 /\ \A i \in 1..(n - 1) : new[i] = q[i]
  BY InsertedIs
<1> HIDE DEF new, n
<1>2. \A i \in 1..(n - 1) : src(i) \in 1..Len(q) /\ new[i] = q[src(i)]
  BY <1>1
<1>3. ASSUME NEW i \in 1..Len(q) PROVE q[i].conv[1] \in Nat
  <2>1. PICK x \in Entry : x = q[i]
    OBVIOUS
  <2>2. x.conv[1] \in Nat
    BY DEF Entry
  <2> QED
    BY <2>1, <2>2
<1>4. e.conv[1] = call /\ n = Len(new)
  BY DEF n
<1>5. \A i \in 1..n : i = n \/ i \in 1..(n - 1)
  BY <1>1
<1>6. \A i \in 1..n : new[i].conv[1] <= call /\ new[i].conv[1] \in Nat
  BY <1>1, <1>2, <1>3, <1>4, <1>5
<1>7. ASSUME NEW i \in 1..n, NEW j \in 1..n, i < j
      PROVE  /\ new[i].conv[1] <= new[j].conv[1]
             /\ new[i].conv # new[j].conv \/ new[i].conv[1] # call
  <2>1. i \in 1..(n - 1) /\ src(i) \in 1..Len(q) /\ new[i] = q[src(i)]
    BY <1>1, <1>2, <1>7
  <2>2. CASE j = n
    <3>1. new[i].conv # <<call, p>>
      BY <2>1 DEF Has
    <3> QED
      BY <1>1, <1>4, <1>6, <2>2, <3>1
  <2>3. CASE j # n
    <3>1. j \in 1..(n - 1) /\ src(j) \in 1..Len(q) /\ new[j] = q[src(j)] /\ src(i) < src(j)
      BY <1>1, <1>2, <1>7, <2>1, <2>3
    <3> HIDE DEF src
    <3> QED
      BY <2>1, <3>1 DEF Ordered
  <2> QED
    BY <2>2, <2>3
<1>8. Has(new, p)
  BY <1>1, <1>4 DEF Has
<1>9. ASSUME NEW r \in Prompts \ {p}, Has(new, r) PROVE Has(q, r)
  <2>1. PICK i \in 1..n : new[i].conv = <<call, r>>
    BY <1>4, <1>9 DEF Has
  <2>2. i # n
    BY <1>1, <2>1
  <2>3. src(i) \in 1..Len(q) /\ q[src(i)].conv = <<call, r>>
    BY <1>2, <1>5, <2>1, <2>2
  <2> HIDE DEF src
  <2> QED
    BY <2>3 DEF Has
<1>10. CASE Len(q) = MaxCacheSize /\ q[1].conv[1] = call
  <2>1. Len(q) \in Nat /\ 1 \in 1..Len(q)
    BY <1>10, CacheAssumption
  <2>2. ASSUME NEW i \in 1..Len(q) PROVE q[i].conv[1] = call
    BY <1>3, <1>10, <2>1 DEF Ordered
  <2>3. ASSUME NEW i \in 1..n PROVE new[i].conv[1] = call
    BY <1>1, <1>2, <1>4, <1>5, <2>2
  <2>4. OfThisCall(new)
    BY <1>1, <1>4, <1>10, <2>3 DEF OfThisCall
  <2> QED
    BY <1>4, <1>6, <1>7, <1>8, <1>9, <2>4 DEF Ordered, new
<1>11. CASE ~(Len(q) = MaxCacheSize /\ q[1].conv[1] = call)
  <2>1. ASSUME NEW r \in Prompts, Has(q, r) PROVE Has(new, r)
    <3>1. PICK j \in 1..Len(q) : q[j].conv = <<call, r>>
      BY <2>1 DEF Has
    <3>2. \E i \in 1..n : new[i] = q[j]
      <4>1. CASE Len(q) = MaxCacheSize
        <5>1. j # 1
          BY <1>11, <3>1, <4>1
        <5>2. j - 1 \in 1..(n - 1) /\ new[j - 1] = q[(j - 1) + 1]
          BY <1>1, <4>1, <5>1
        <5>3. (j - 1) + 1 = j /\ j - 1 \in 1..n
          BY <1>1, <5>2
        <5> QED
          BY <5>2, <5>3
      <4>2. CASE Len(q) # MaxCacheSize
        <5>1. j \in 1..(n - 1) /\ j \in 1..n
          BY <1>1, <4>2
        <5> QED
          BY <1>1, <4>2, <5>1
      <4> QED
        BY <4>1, <4>2
    <3> QED
      BY <1>4, <3>1, <3>2 DEF Has
  <2> QED
    BY <1>4, <1>6, <1>7, <1>8, <1>9, <2>1 DEF Ordered, new
<1> QED
  BY <1>10, <1>11

\* A request of conversation p is sent from the cache without its entry.
LEMMA SendCache ==
    ASSUME TypeInv, CacheInv, NEW p \in Prompts, stage[p] # "none", NEW address \in Servers,
           NEW rest \in Seq(Entry), Len(rest) <= MaxCacheSize,
           Ordered(rest), ~Has(rest, p), \A i \in 1..Len(rest) : rest[i].conv[1] <= call,
           \A r \in Prompts \ {p} : Has(rest, r) <=> Has(cache, r),
           OfThisCall(cache) => OfThisCall(Inserted(rest, [conv |-> <<call, p>>, address |-> address])),
           Send(p, address, rest)
    PROVE  CacheInv'
<1> DEFINE e == [conv |-> <<call, p>>, address |-> address]
<1>1. /\ e \in Entry /\ cache' = Inserted(rest, e) /\ call' = call
      /\ stage' = [stage EXCEPT ![p] = "inflight"]
  BY SendType
<1>2. call \in Nat /\ e.conv = <<call, p>> /\ stage \in [Prompts -> Stages]
  BY DEF TypeInv, TypeOK
<1> HIDE DEF e
<1>3. /\ Ordered(cache') /\ Has(cache', p)
      /\ \A i \in 1..Len(cache') : cache'[i].conv[1] <= call
      /\ \A r \in Prompts \ {p} : Has(cache', r) => Has(rest, r)
      /\ \/ \A r \in Prompts : Has(rest, r) => Has(cache', r)
         \/ OfThisCall(cache')
  BY <1>1, <1>2, InsertedOrdered
<1>4. OfThisCall(cache) => OfThisCall(cache')
  BY <1>1 DEF e
<1>5. Ordered(cache)' /\ \A i \in 1..Len(cache') : cache'[i].conv[1] <= call'
  BY <1>1, <1>3 DEF Ordered
<1>6. /\ \A r \in Prompts : Has(cache, r)' <=> Has(cache', r)
      /\ OfThisCall(cache)' <=> OfThisCall(cache')
  BY <1>1 DEF Has, OfThisCall
<1>7. \A r \in Prompts : stage'[r] = IF r = p THEN "inflight" ELSE stage[r]
  BY <1>1, <1>2
<1>8. ASSUME NEW r \in Prompts, stage'[r] = "queued" PROVE ~Has(cache, r)'
  <2>1. r # p /\ stage[r] = "queued"
    BY <1>7, <1>8
  <2>2. ~Has(cache, r)
    BY <2>1 DEF CacheInv
  <2> QED
    BY <1>3, <1>6, <2>1, <2>2
<1>9. Unevicted' \/ OfThisCall(cache)'
  <2>1. CASE OfThisCall(cache')
    BY <1>6, <2>1
  <2>2. CASE ~OfThisCall(cache')
    <3>1. Unevicted /\ \A r \in Prompts : Has(rest, r) => Has(cache', r)
      BY <1>3, <1>4, <2>2 DEF CacheInv
    <3>2. ASSUME NEW r \in Prompts, stage'[r] \notin {"none", "queued"}
          PROVE  Has(cache, r)'
      <4>1. CASE r = p
        BY <1>3, <1>6, <4>1
      <4>2. CASE r # p
        BY <1>6, <1>7, <3>1, <3>2, <4>2 DEF Unevicted
      <4> QED
        BY <4>1, <4>2
    <3> QED
      BY <3>2 DEF Unevicted
  <2> QED
    BY <2>1, <2>2
<1> QED
  BY <1>5, <1>8, <1>9 DEF CacheInv

LEMMA SendFirstCache ==
    ASSUME TypeInv, CacheInv, NEW p \in Prompts, SendFirst(p)
    PROVE  CacheInv'
<1>1. PICK s \in Servers : Send(p, s, cache)
  BY DEF SendFirst
<1>2. stage[p] = "queued" /\ cache \in Seq(Entry) /\ Len(cache) <= MaxCacheSize /\ call \in Nat
  BY DEF SendFirst, TypeInv, TypeOK
<1>3. ~Has(cache, p) /\ Ordered(cache) /\ \A i \in 1..Len(cache) : cache[i].conv[1] <= call
  BY <1>2 DEF CacheInv
<1> DEFINE e == [conv |-> <<call, p>>, address |-> s]
<1>4. ASSUME OfThisCall(cache) PROVE OfThisCall(Inserted(cache, e))
  <2>1. e \in Entry /\ e.conv[1] = call
    BY <1>1, <1>2, SendType
  <2> HIDE DEF e
  <2> DEFINE new == Inserted(cache, e)
  <2>2. /\ Len(new) \in Nat /\ new[Len(new)] = e
        /\ Len(new) = Len(cache) /\ Len(cache) = MaxCacheSize
        /\ \A i \in 1..(Len(new) - 1) : new[i] = cache[i + 1]
    BY <1>2, <1>4, <2>1, InsertedIs DEF OfThisCall
  <2> HIDE DEF new
  <2>3. ASSUME NEW i \in 1..Len(new) PROVE new[i].conv[1] = call
    <3>1. CASE i = Len(new)
      BY <2>1, <2>2, <3>1
    <3>2. CASE i # Len(new)
      <4>1. i \in 1..(Len(new) - 1) /\ i + 1 \in 1..Len(cache)
        BY <2>2, <3>2
      <4> QED
        BY <1>4, <2>2, <4>1 DEF OfThisCall
    <3> QED
      BY <3>1, <3>2
  <2>4. OfThisCall(new)
    BY <2>2, <2>3 DEF OfThisCall
  <2> QED
    BY <2>4 DEF new
<1> QED
  BY <1>1, <1>2, <1>3, <1>4, SendCache

LEMMA SendAgainCache ==
    ASSUME TypeInv, CacheInv, NEW p \in Prompts, SendAgain(p)
    PROVE  CacheInv'
<1>1. PICK i \in Places(p) : Send(p, Home(i), Popped(i))
  BY DEF SendAgain
<1>2. /\ stage[p] = "requeued" /\ cache \in Seq(Entry) /\ Len(cache) <= MaxCacheSize
      /\ Len(cache) \in Nat /\ i \in 1..Len(cache) /\ cache[i].conv = <<call, p>>
  BY DEF SendAgain, Places, TypeInv, TypeOK
<1>3. Home(i) \in Servers
  <2>1. PICK x \in Entry : x = cache[i]
    BY <1>2
  <2> QED
    BY <2>1 DEF Home, Entry
<1> DEFINE rest == Popped(i)
           src(n) == IF n < i THEN n ELSE n + 1
<1>4. /\ rest \in Seq(Entry) /\ Len(rest) = Len(cache) - 1
      /\ \A n \in 1..(Len(cache) - 1) : rest[n] = cache[IF n < i THEN n ELSE n + 1]
  BY <1>2, PoppedIs DEF TypeInv
<1> HIDE DEF rest
<1>5. \A n \in 1..Len(rest) :
          src(n) \in 1..Len(cache) /\ src(n) # i /\ rest[n] = cache[src(n)]
  BY <1>2, <1>4
<1>6. \A n, m \in 1..Len(rest) : n < m => src(n) < src(m)
  BY <1>2, <1>4
<1>7. \A j \in 1..Len(cache) : j # i => \E n \in 1..Len(rest) : src(n) = j
  <2> SUFFICES ASSUME NEW j \in 1..Len(cache), j # i PROVE \E n \in 1..Len(rest) : src(n) = j
    OBVIOUS
  <2>1. CASE j < i
    BY <1>2, <1>4, <2>1
  <2>2. CASE j > i
    <3>1. j - 1 \in 1..Len(rest) /\ src(j - 1) = j
      BY <1>2, <1>4, <2>2
    <3> QED
      BY <3>1
  <2> QED
    BY <1>2, <2>1, <2>2
<1> HIDE DEF src
<1>8. Ordered(rest)
  BY <1>5, <1>6 DEF CacheInv, Ordered
<1>9. \A n \in 1..Len(rest) : rest[n].conv[1] <= call
  BY <1>5 DEF CacheInv
<1>10. ~Has(rest, p)
  <2> SUFFICES ASSUME NEW n \in 1..Len(rest), rest[n].conv = <<call, p>> PROVE FALSE
    BY DEF Has
  <2>1. src(n) \in 1..Len(cache) /\ src(n) # i /\ cache[src(n)].conv = cache[i].conv
    BY <1>2, <1>5
  <2>2. cache[i].conv[1] = call /\ cache[src(n)].conv[1] = call
    BY <1>2, <2>1
  <2>3. src(n) < i \/ i < src(n)
    BY <1>2, <2>1
  <2> QED
    BY <1>2, <2>1, <2>2, <2>3 DEF CacheInv, Ordered
<1>11. ASSUME NEW r \in Prompts \ {p} PROVE Has(rest, r) <=> Has(cache, r)
  <2>1. ASSUME Has(rest, r) PROVE Has(cache, r)
    BY <1>5, <2>1 DEF Has
  <2>2. ASSUME Has(cache, r) PROVE Has(rest, r)
    <3>1. PICK j \in 1..Len(cache) : cache[j].conv = <<call, r>>
      BY <2>2 DEF Has
    <3>2. j # i
      BY <1>2, <3>1
    <3>3. PICK n \in 1..Len(rest) : src(n) = j
      BY <1>7, <3>2
    <3> QED
      BY <1>5, <3>1, <3>3 DEF Has
  <2> QED
    BY <2>1, <2>2
<1> DEFINE e == [conv |-> <<call, p>>, address |-> Home(i)]
<1>12. ASSUME OfThisCall(cache) PROVE OfThisCall(Inserted(rest, e))
  <2>1. e \in Entry /\ e.conv[1] = call
    <3>1. call \in 1..MaxCalls
      BY <1>2, BoundsAssumption DEF TypeInv, TypeOK, CallInv
    <3> QED
      BY <1>3, <3>1 DEF Entry
  <2> HIDE DEF e
  <2> DEFINE new == Inserted(rest, e)
  <2>a. /\ rest \in Seq(Entry) /\ Len(rest) \in Nat /\ MaxCacheSize \in Nat
        /\ Len(rest) = MaxCacheSize - 1
    BY <1>2, <1>4, <1>12, CacheAssumption DEF OfThisCall
  <2>b. /\ Len(new) = Len(rest) + 1 /\ new[Len(new)] = e
        /\ \A n \in 1..(Len(new) - 1) : new[n] = rest[n]
    BY <2>a, <2>1, InsertedIs
  <2> HIDE DEF new
  <2>2. /\ Len(new) \in Nat /\ new[Len(new)] = e /\ Len(new) = MaxCacheSize
        /\ \A n \in 1..(Len(new) - 1) : new[n] = rest[n]
        /\ Len(new) - 1 = Len(rest)
    BY <2>a, <2>b
  <2>3. ASSUME NEW n \in 1..Len(new) PROVE new[n].conv[1] = call
    <3>1. CASE n = Len(new)
      BY <2>1, <2>2, <3>1
    <3>2. CASE n # Len(new)
      <4>1. n \in 1..Len(rest) /\ new[n] = rest[n]
        BY <2>2, <3>2
      <4> QED
        BY <1>5, <1>12, <4>1 DEF OfThisCall
    <3> QED
      BY <3>1, <3>2
  <2>4. OfThisCall(new)
    BY <2>2, <2>3 DEF OfThisCall
  <2> QED
    BY <2>4 DEF new
<1>13. Len(rest) <= MaxCacheSize /\ Send(p, Home(i), rest)
  BY <1>1, <1>2, <1>4, CacheAssumption DEF rest
<1> QED
  BY <1>2, <1>3, <1>4, <1>8, <1>9, <1>10, <1>11, <1>12, <1>13, SendCache

LEMMA CacheStep == TypeInv /\ CacheInv /\ [Next]_vars => CacheInv'
<1> SUFFICES ASSUME TypeInv, CacheInv, [Next]_vars PROVE CacheInv'
  OBVIOUS
<1>1. CASE Generate
  <2>1. /\ call \in Nat /\ call' = call + 1 /\ cache' = cache
        /\ stage' = [p \in Prompts |-> "queued"]
    BY <1>1 DEF Generate, TypeInv, TypeOK
  <2>2. ASSUME NEW i \in 1..Len(cache)
        PROVE  cache[i].conv[1] <= call' /\ cache[i].conv[1] # call'
    <3>1. PICK x \in Entry : x = cache[i]
      BY DEF TypeInv, TypeOK
    <3>2. x.conv[1] \in Nat /\ x.conv[1] <= call
      BY <3>1 DEF Entry, CacheInv
    <3> QED
      BY <2>1, <3>1, <3>2
  <2>3. Ordered(cache)'
    BY <2>1, <2>2 DEF CacheInv, Ordered
  <2>4. ASSUME NEW p \in Prompts PROVE ~Has(cache, p)'
    BY <2>1, <2>2 DEF Has
  <2>5. Unevicted'
    BY <2>1 DEF Unevicted
  <2> QED
    BY <2>1, <2>2, <2>3, <2>4, <2>5 DEF CacheInv
<1>2. ASSUME NEW p \in Prompts, SendFirst(p) PROVE CacheInv'
  BY <1>2, SendFirstCache
<1>3. ASSUME NEW p \in Prompts, SendAgain(p) PROVE CacheInv'
  BY <1>3, SendAgainCache
<1>4. ASSUME UNCHANGED <<cache, call>>,
             \A p \in Prompts : /\ stage'[p] = "queued" <=> stage[p] = "queued"
                                /\ stage'[p] = "none" <=> stage[p] = "none"
      PROVE  CacheInv'
  BY <1>4 DEF CacheInv, Ordered, Has, Unevicted, OfThisCall
<1>5. CASE UNCHANGED <<cache, call, stage>>
  BY <1>4, <1>5
<1>6. ASSUME NEW up \in SUBSET Servers, StartPass(up) PROVE CacheInv'
  BY <1>5, <1>6 DEF StartPass, taskVars
<1>7. CASE WakeUp \/ Postprocess \/ Sleep
  BY <1>5, <1>7 DEF WakeUp, Postprocess, Sleep, taskVars
<1>8. ASSUME NEW p \in Prompts,
             \/ SendFails(p) \/ RequestFails(p) \/ ToolsAnswer(p) \/ ToolFails(p)
             \/ \E n \in 0..MaxToolCalls : Reply(p, n)
      PROVE  CacheInv'
  <2>1. UNCHANGED <<cache, call>> /\ stage[p] \in {"requeued", "inflight", "tools"}
    BY <1>8 DEF SendFails, RequestFails, ToolsAnswer, ToolFails, Reply
  <2>2. \E a \in {"lost", "ended", "requeued", "tools"} : stage' = [stage EXCEPT ![p] = a]
    BY <1>8 DEF SendFails, RequestFails, ToolsAnswer, ToolFails, Reply, Return
  <2>3. \A q \in Prompts : /\ stage'[q] = "queued" <=> stage[q] = "queued"
                           /\ stage'[q] = "none" <=> stage[q] = "none"
    BY <2>1, <2>2 DEF TypeInv, TypeOK
  <2> QED
    BY <1>4, <2>1, <2>3
<1>9. CASE UNCHANGED vars
  BY <1>5, <1>9 DEF vars, taskVars
<1> QED
  BY <1>1, <1>2, <1>3, <1>6, <1>7, <1>8, <1>9 DEF Next, ConversationStep

\* The larger of 0 and an integer, as Max gives it.
LEMMA AtLeastZero ==
    ASSUME NEW n \in Int
    PROVE  Max({0, n}) \in Nat /\ Max({0, n}) >= n
<1>1. \E x \in {0, n} : \A y \in {0, n} : x >= y
  <2>1. CASE n >= 0
    BY <2>1
  <2>2. CASE n < 0
    BY <2>2
  <2> QED
    BY <2>1, <2>2
<1>2. Max({0, n}) \in {0, n} /\ \A y \in {0, n} : Max({0, n}) >= y
  BY <1>1 DEF Max
<1> QED
  BY <1>2

\* A cache that is full of this call's entries leaves no more conversations
\* without one than there are too many.
LEMMA FewLost ==
    ASSUME TypeInv, CacheInv, OfThisCall(cache)
    PROVE  Cardinality({p \in Prompts : ~Has(cache, p)}) <= Cardinality(Prompts) - MaxCacheSize
<1> DEFINE N == 1..MaxCacheSize
           Known == {p \in Prompts : Has(cache, p)}
           f == [i \in N |-> cache[i].conv[2]]
<1>1. /\ Len(cache) = MaxCacheSize /\ MaxCacheSize \in Nat
      /\ \A i \in 1..Len(cache) : cache[i].conv[1] = call
  BY CacheAssumption DEF OfThisCall
<1>2. ASSUME NEW i \in N
      PROVE  cache[i].conv[2] \in Prompts /\ cache[i].conv = <<call, cache[i].conv[2]>>
  <2>1. PICK x \in Entry : x = cache[i]
    BY <1>1 DEF TypeInv, TypeOK
  <2>2. x.conv[1] = call
    BY <1>1, <2>1
  <2> QED
    BY <2>1, <2>2 DEF Entry
<1>3. ASSUME NEW i \in N PROVE f[i] \in Known
  BY <1>1, <1>2 DEF Has
<1>4. f \in [N -> Known]
  BY <1>3
<1>5. ASSUME NEW i \in N, NEW j \in N, f[i] = f[j] PROVE i = j
  <2>1. cache[i].conv = cache[j].conv
    BY <1>2, <1>5
  <2>2. cache[i].conv[1] = call /\ cache[j].conv[1] = call
    BY <1>1
  <2> QED
    BY <1>1, <2>1, <2>2 DEF CacheInv, Ordered
<1>6. f \in Injection(N, Known)
  BY <1>4, <1>5 DEF Injection, IsInjective
<1>7. IsFiniteSet(Known) /\ Known \subseteq Prompts /\ IsFiniteSet(Prompts)
  BY PromptsAssumption, FS_Subset
<1>8. IsFiniteSet(N) /\ Cardinality(N) = MaxCacheSize
  BY <1>1, FS_Interval
<1>9. MaxCacheSize <= Cardinality(Known) /\ Cardinality(Known) \in Nat
  BY <1>6, <1>7, <1>8, FS_Injection, FS_CardinalityType
<1>10. {p \in Prompts : ~Has(cache, p)} = Prompts \ Known
  OBVIOUS
<1>11. Cardinality(Prompts \ Known) = Cardinality(Prompts) - Cardinality(Prompts \cap Known)
  BY <1>7, FS_Difference
<1>12. Prompts \cap Known = Known
  BY <1>7
<1>13. Cardinality(Prompts) \in Nat
  BY <1>7, FS_CardinalityType
<1>14. Cardinality(Prompts \ Known) = Cardinality(Prompts) - Cardinality(Known)
  BY <1>11, <1>12
<1> HIDE DEF Known
<1>15. Cardinality(Prompts \ Known) <= Cardinality(Prompts) - MaxCacheSize
  BY <1>1, <1>9, <1>13, <1>14
<1> QED
  BY <1>10, <1>15

\* Whatever was evicted of earlier calls and of conversations that are over,
\* no more conversations of a call lose their server than the cache is too
\* small for; in particular none does in a cache that holds a whole batch.
THEOREM AlwaysKeepsItsAddress == Spec => []KeepsItsAddress
<1>1. TypeInv /\ CacheInv => KeepsItsAddress
  <2> SUFFICES ASSUME TypeInv, CacheInv PROVE KeepsItsAddress
    OBVIOUS
  <2> DEFINE Lost == {p \in Active : Places(p) = {}}
             Out == {p \in Prompts : ~Has(cache, p)}
  <2>1. \A p \in Prompts : Places(p) = {} <=> ~Has(cache, p)
    BY DEF Places, Has
  <2>2. IsFiniteSet(Prompts) /\ Cardinality(Prompts) - MaxCacheSize \in Int
    BY PromptsAssumption, CacheAssumption, FS_CardinalityType
  <2>3. /\ Max({0, Cardinality(Prompts) - MaxCacheSize}) \in Nat
        /\ Max({0, Cardinality(Prompts) - MaxCacheSize}) >= Cardinality(Prompts) - MaxCacheSize
    BY <2>2, AtLeastZero
  <2>4. CASE Unevicted
    <3>1. Lost = {}
      BY <2>1, <2>4 DEF Active, Unevicted
    <3> QED
      BY <2>3, <3>1, FS_EmptySet DEF KeepsItsAddress
  <2>5. CASE OfThisCall(cache)
    <3>1. Cardinality(Out) <= Cardinality(Prompts) - MaxCacheSize
      BY <2>5, FewLost
    <3>2. Lost \subseteq Out /\ IsFiniteSet(Out)
      BY <2>1, <2>2, FS_Subset DEF Active
    <3>3. Cardinality(Lost) <= Cardinality(Out) /\ Cardinality(Lost) \in Nat /\ Cardinality(Out) \in Nat
      BY <3>2, FS_Subset, FS_CardinalityType
    <3> QED
      BY <2>2, <2>3, <3>1, <3>3 DEF KeepsItsAddress
  <2> QED
    BY <2>4, <2>5 DEF CacheInv
<1>2. TypeInv /\ CacheInv /\ [Next]_vars => TypeInv' /\ CacheInv'
  BY TypeStep, CacheStep
<1> QED
  BY <1>1, <1>2, TypeInit, CacheInit, PTL DEF Spec

(***************************************************************************)
(* What keeps a conversation from running on for ever.                     *)
(***************************************************************************)

\* Messages a conversation of length n lacks of max_turns, and a bound on the
\* steps its task still takes: three for each of them, and those to the end of
\* the turn it is in.
TurnsAhead(n) == IF n < MaxTurns THEN MaxTurns - n ELSE 0
InTurn == [queued |-> 3, requeued |-> 3, inflight |-> 2, tools |-> 1]
StepsFrom(s, n) == IF s \in DOMAIN InTurn THEN 3 * TurnsAhead(n) + InTurn[s] ELSE 0
StepsLeft(p) == StepsFrom(stage[p], length[p])

RunsDown(p) ==
    /\ StepsLeft(p)' < StepsLeft(p)
    /\ \A q \in Prompts \ {p} : StepsLeft(q)' = StepsLeft(q)

LEMMA TurnsAheadIs ==
    ASSUME NEW n \in Nat
    PROVE  /\ TurnsAhead(n) \in 0..MaxTurns
           /\ n >= 1 /\ MaxTurns # 0 => TurnsAhead(n) <= MaxTurns - 1
  BY TurnsAssumption DEF TurnsAhead

LEMMA FewerTurnsAhead ==
    ASSUME NEW n \in Nat, NEW k \in Nat \ {0}, n < MaxTurns
    PROVE  TurnsAhead(n + k) \in Nat /\ TurnsAhead(n + k) <= TurnsAhead(n) - 1
  BY TurnsAssumption DEF TurnsAhead

LEMMA StepsFromAre ==
    ASSUME NEW n
    PROVE  /\ StepsFrom("queued", n) = 3 * TurnsAhead(n) + 3
           /\ StepsFrom("requeued", n) = 3 * TurnsAhead(n) + 3
           /\ StepsFrom("inflight", n) = 3 * TurnsAhead(n) + 2
           /\ StepsFrom("tools", n) = 3 * TurnsAhead(n) + 1
           /\ StepsFrom("ended", n) = 0 /\ StepsFrom("lost", n) = 0
           /\ StepsFrom("none", n) = 0
  BY DEF StepsFrom, InTurn

\* Tools are called only where a reply asked for some and max_turns, when it is
\* set, is still ahead.
ToolsInv ==
    \A p \in Prompts :
        stage[p] = "tools" => calls[p] >= 1 /\ (MaxTurns # 0 => length[p] < MaxTurns)

LEMMA ToolsStep == TypeInv /\ ToolsInv /\ [Next]_vars => ToolsInv'
<1> SUFFICES ASSUME TypeOK, ToolsInv, [Next]_vars, NEW p \in Prompts, stage'[p] = "tools"
             PROVE  calls'[p] >= 1 /\ (MaxTurns # 0 => length'[p] < MaxTurns)
  BY DEF TypeInv, ToolsInv
<1>1. stage \in [Prompts -> Stages] /\ length \in [Prompts -> Nat] /\ calls \in [Prompts -> Nat]
  BY BoundsAssumption DEF TypeOK
<1> DEFINE Stays == stage[p] = "tools" /\ length'[p] = length[p] /\ calls'[p] = calls[p]
<1>2. CASE Stays
  BY <1>2 DEF ToolsInv
<1>3. ASSUME stage' = stage, length' = length, calls' = calls
      PROVE  Stays
  BY <1>3
<1>4. CASE Generate
  BY <1>4 DEF Generate
<1>5. ASSUME NEW q \in Prompts, NEW s \in Stages \ {"tools"},
             stage' = [stage EXCEPT ![q] = s], calls' = calls,
             \A r \in Prompts \ {q} : length'[r] = length[r]
      PROVE  Stays
  BY <1>1, <1>5
<1>6. ASSUME NEW q \in Prompts, ConversationStep(q) \/ RequestFails(q)
      PROVE  \/ Stays
             \/ calls'[p] >= 1 /\ (MaxTurns # 0 => length'[p] < MaxTurns)
  <2>1. CASE SendFirst(q) \/ SendAgain(q)
    BY <1>5, <2>1 DEF SendFirst, SendAgain, Send, Stages
  <2>2. CASE SendFails(q) \/ ToolFails(q) \/ RequestFails(q)
    BY <1>5, <2>2 DEF SendFails, ToolFails, RequestFails, Return, Stages
  <2>3. ASSUME NEW n \in 0..MaxToolCalls, Reply(q, n)
        PROVE  \/ Stays
               \/ calls'[p] >= 1 /\ (MaxTurns # 0 => length'[p] < MaxTurns)
    <3>1. length' = [length EXCEPT ![q] = length[q] + 1]
      BY <2>3 DEF Reply
    <3>2. CASE ~(TurnsLeft(length[q] + 1) /\ n > 0)
      BY <1>1, <1>5, <2>3, <3>1, <3>2 DEF Reply, Return, Stages
    <3>3. CASE TurnsLeft(length[q] + 1) /\ n > 0
      <4>1. stage' = [stage EXCEPT ![q] = "tools"] /\ calls' = [calls EXCEPT ![q] = n]
        BY <2>3, <3>3 DEF Reply
      <4>2. CASE p = q
        BY <1>1, <3>1, <3>3, <4>1, <4>2 DEF TurnsLeft
      <4>3. CASE p # q
        BY <1>1, <3>1, <4>1, <4>3
      <4> QED
        BY <4>2, <4>3
    <3> QED
      BY <3>2, <3>3
  <2>4. CASE ToolsAnswer(q)
    <3>1. /\ stage' = [stage EXCEPT ![q] = "requeued"] /\ calls' = calls
          /\ length' = [length EXCEPT ![q] = @ + calls[q]]
      BY <2>4 DEF ToolsAnswer
    <3> QED
      BY <1>1, <1>5, <3>1 DEF Stages
  <2> QED
    BY <1>6, <2>1, <2>2, <2>3, <2>4 DEF ConversationStep
<1>7. CASE \E up \in SUBSET Servers : StartPass(up)
  BY <1>2, <1>3, <1>7 DEF StartPass, taskVars
<1>8. CASE WakeUp \/ Postprocess \/ Sleep \/ UNCHANGED vars
  BY <1>2, <1>3, <1>8 DEF WakeUp, Postprocess, Sleep, vars, taskVars
<1> QED
  BY <1>2, <1>4, <1>6, <1>7, <1>8 DEF Next

LEMMA StepsLeftBounded ==
    ASSUME TypeOK, MaxTurns # 0, NEW p \in Prompts
    PROVE  StepsLeft(p) \in 0..(3 * MaxTurns)
<1>1. stage[p] \in Stages /\ length[p] \in Nat /\ length[p] >= 1
  BY BoundsAssumption DEF TypeOK
<1>2. ASSUME NEW s \in Stages, NEW n \in Nat, n >= 1
      PROVE  StepsFrom(s, n) \in 0..(3 * MaxTurns)
  <2>1. TurnsAhead(n) \in 0..(MaxTurns - 1)
    BY <1>2, TurnsAheadIs, TurnsAssumption
  <2> QED
    BY <1>2, <2>1, StepsFromAre, TurnsAssumption DEF Stages
<1> QED
  BY <1>1, <1>2, Zenon DEF StepsLeft

\* A step of one conversation leaves the others where they are.
LEMMA OthersStay ==
    ASSUME TypeOK, NEW p \in Prompts, NEW s, NEW n, stage' = [stage EXCEPT ![p] = s],
           length' = [length EXCEPT ![p] = n]
    PROVE  /\ stage'[p] = s /\ length'[p] = n
           /\ \A q \in Prompts \ {p} : StepsLeft(q)' = StepsLeft(q)
<1>1. \A q \in Prompts \ {p} : stage'[q] = stage[q] /\ length'[q] = length[q]
  BY DEF TypeOK
<1>2. stage'[p] = s /\ length'[p] = n
  BY DEF TypeOK
<1> QED
  BY <1>1, <1>2 DEF StepsLeft

LEMMA StepRunsDown ==
    ASSUME TypeOK, ToolsInv, MaxTurns # 0, NEW p \in Prompts,
           ConversationStep(p) \/ RequestFails(p)
    PROVE  RunsDown(p)
<1> DEFINE n == length[p]
           left == 3 * TurnsAhead(n)
<1>1. n \in Nat /\ calls[p] \in Nat /\ length = [length EXCEPT ![p] = n]
  BY BoundsAssumption DEF TypeOK
<1>2. TurnsAhead(n) \in Nat
  BY <1>1, TurnsAheadIs, TurnsAssumption
<1> HIDE DEF n
\* Steps that leave the messages as they are.
<1>3. ASSUME NEW s \in {"inflight", "ended", "lost"}, length' = length,
             stage' = [stage EXCEPT ![p] = s],
             \/ stage[p] \in {"queued", "requeued"}
             \/ stage[p] \in {"inflight", "tools"} /\ s = "ended"
      PROVE  RunsDown(p)
  <2>1. stage'[p] = s /\ length'[p] = n /\ \A q \in Prompts \ {p} : StepsLeft(q)' = StepsLeft(q)
    BY <1>1, <1>3, OthersStay
  <2>2. StepsLeft(p)' = StepsFrom(s, n) /\ StepsLeft(p) = StepsFrom(stage[p], n)
    BY <2>1 DEF StepsLeft, n
  <2>3. CASE stage[p] \in {"queued", "requeued"}
    <3>1. StepsLeft(p) = left + 3 /\ StepsLeft(p)' \in {left + 2, 0}
      BY <1>3, <2>2, <2>3, StepsFromAre
    <3> QED
      BY <1>2, <2>1, <3>1 DEF RunsDown
  <2>4. CASE stage[p] \in {"inflight", "tools"} /\ s = "ended"
    <3>1. StepsLeft(p) \in {left + 2, left + 1} /\ StepsLeft(p)' = 0
      BY <2>2, <2>4, StepsFromAre
    <3> QED
      BY <1>2, <2>1, <3>1 DEF RunsDown
  <2> QED
    BY <1>3, <2>3, <2>4
<1>4. CASE SendFirst(p) \/ SendAgain(p)
  BY <1>3, <1>4 DEF SendFirst, SendAgain, Send
<1>5. CASE SendFails(p) \/ ToolFails(p) \/ RequestFails(p)
  BY <1>3, <1>5 DEF SendFails, ToolFails, RequestFails, Return
<1>6. ASSUME NEW k \in 0..MaxToolCalls, Reply(p, k)
      PROVE  RunsDown(p)
  <2>1. /\ stage[p] = "inflight" /\ length' = [length EXCEPT ![p] = n + 1]
        /\ \/ TurnsLeft(n + 1) /\ stage' = [stage EXCEPT ![p] = "tools"]
           \/ stage' = [stage EXCEPT ![p] = "ended"]
    BY <1>6 DEF Reply, Return, n
  <2>2. StepsLeft(p) = left + 2
    BY <2>1, StepsFromAre DEF StepsLeft, n
  <2>3. CASE stage' = [stage EXCEPT ![p] = "ended"]
    <3>1. stage'[p] = "ended" /\ \A q \in Prompts \ {p} : StepsLeft(q)' = StepsLeft(q)
      BY <2>1, <2>3, OthersStay
    <3>2. StepsLeft(p)' = 0
      BY <3>1, StepsFromAre DEF StepsLeft
    <3> QED
      BY <1>2, <2>2, <3>1, <3>2 DEF RunsDown
  <2>4. CASE TurnsLeft(n + 1) /\ stage' = [stage EXCEPT ![p] = "tools"]
    <3>1. /\ stage'[p] = "tools" /\ length'[p] = n + 1
          /\ \A q \in Prompts \ {p} : StepsLeft(q)' = StepsLeft(q)
      BY <2>1, <2>4, OthersStay
    <3>2. StepsLeft(p)' = 3 * TurnsAhead(n + 1) + 1
      BY <3>1, StepsFromAre DEF StepsLeft
    <3>3. n < MaxTurns
      BY <1>1, <2>4, TurnsAssumption DEF TurnsLeft
    <3>4. TurnsAhead(n + 1) \in Nat /\ TurnsAhead(n + 1) <= TurnsAhead(n) - 1
      BY <1>1, <3>3, FewerTurnsAhead
    <3> QED
      BY <1>2, <2>2, <3>1, <3>2, <3>4 DEF RunsDown
  <2> QED
    BY <2>1, <2>3, <2>4
<1>7. CASE ToolsAnswer(p)
  <2>1. /\ stage[p] = "tools" /\ stage' = [stage EXCEPT ![p] = "requeued"]
        /\ length' = [length EXCEPT ![p] = n + calls[p]]
    BY <1>7 DEF ToolsAnswer, n
  <2>2. /\ stage'[p] = "requeued" /\ length'[p] = n + calls[p]
        /\ \A q \in Prompts \ {p} : StepsLeft(q)' = StepsLeft(q)
    BY <2>1, OthersStay
  <2>3. StepsLeft(p) = left + 1 /\ StepsLeft(p)' = 3 * TurnsAhead(n + calls[p]) + 3
    BY <2>1, <2>2, StepsFromAre DEF StepsLeft, n
  <2>4. calls[p] \in Nat \ {0} /\ n < MaxTurns
    BY <1>1, <2>1 DEF ToolsInv, n
  <2>5. TurnsAhead(n + calls[p]) \in Nat /\ TurnsAhead(n + calls[p]) <= TurnsAhead(n) - 1
    BY <1>1, <2>4, FewerTurnsAhead
  <2> QED
    BY <1>2, <2>2, <2>3, <2>5 DEF RunsDown
<1> QED
  BY <1>4, <1>5, <1>6, <1>7 DEF ConversationStep

\* With max_turns set no conversation goes on for ever, however often the model
\* calls tools and however many it calls at once: each step of its task, or of
\* a task the callback submits for it, uses up one of at most 3 * max_turns, and
\* none of another conversation's.
THEOREM ConversationsRunOut ==
    ASSUME MaxTurns # 0
    PROVE  Spec => /\ [](\A p \in Prompts : StepsLeft(p) \in 0..(3 * MaxTurns))
                   /\ [][\A p \in Prompts :
                            ConversationStep(p) \/ RequestFails(p) => RunsDown(p)]_vars
<1>1. Init => ToolsInv
  BY DEF Init, ToolsInv
<1>2. TypeInv /\ ToolsInv => \A p \in Prompts : StepsLeft(p) \in 0..(3 * MaxTurns)
  BY StepsLeftBounded DEF TypeInv
<1>3. TypeInv /\ ToolsInv =>
          [\A p \in Prompts : ConversationStep(p) \/ RequestFails(p) => RunsDown(p)]_vars
  BY StepRunsDown DEF TypeInv
<1>4. TypeInv /\ ToolsInv /\ [Next]_vars => TypeInv' /\ ToolsInv'
  BY TypeStep, ToolsStep
<1> QED
  BY <1>1, <1>2, <1>3, <1>4, TypeInit, PTL DEF Spec

=============================================================================
