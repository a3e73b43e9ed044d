-------------------------- MODULE JobGatewayProofs --------------------------
(***************************************************************************)
(* Proofs about JobGateway, for every number of connections, streams and   *)
(* ids, every capacity of the channel and every time to live.  The kernel  *)
(* and the registry agree, so that what the kernel decides can be carried  *)
(* out; no job is ever in two hands, no connection offers itself twice or  *)
(* while it works, and no response is left open by the kernel.             *)
(*                                                                         *)
(* The registry is filled before the kernel hears of a worker, but emptied *)
(* by what the kernel has decided; a stream's sender goes with its Done.   *)
(* That the sender is still there while the stream is active rests on what *)
(* is still in the channel: a stream is requested at most once, after its  *)
(* registration and before it is active.  RequestInv says so.              *)
(*                                                                         *)
(* A connection is offered under the id it waits with and no other,        *)
(* because it registers only when it waits for nothing; its job came from  *)
(* a task that took the id out of the registry; and the task came from the *)
(* one request of the stream.  HandsInv says so of every stage.            *)
(***************************************************************************)
EXTENDS JobGateway, FiniteSetTheorems, TLAPS

ChatRequest(s) == StreamMsg("HttpChatRequested", s)

RequestsOf(s) == {i \in DOMAIN queue : queue[i] = ChatRequest(s)}

IsQueue(q) == \E S : q \in Seq(S)

RequestsTyped ==
  \A i \in DOMAIN queue :
    queue[i].type = "HttpChatRequested" => \E s \in Stream : queue[i] = ChatRequest(s)

RequestInv ==
  \A s \in Stream :
    /\ \A i, j \in RequestsOf(s) : i = j
    /\ RequestsOf(s) # {} =>
         s \in streams /\ s \notin DOMAIN active_streams /\ client[s] \in {"streaming", "gone"}
    /\ client[s] = "registered" => s \in streams
    /\ client[s] \in {"new", "registering", "registered"} => s \notin DOMAIN active_streams

JobInv ==
  /\ PoolHasHandles
  /\ ActiveHasHandle
  /\ IsQueue(queue) /\ RequestsTyped
  /\ client \in [Stream -> ClientPhase]
  /\ DOMAIN active_streams \subseteq Stream
  /\ RequestInv
-----------------------------------------------------------------------------
(* Queues *)

LEMMA AppendFacts ==
  ASSUME NEW q, IsQueue(q), NEW m
  PROVE  /\ IsQueue(Append(q, m))
         /\ DOMAIN Append(q, m) = DOMAIN q \union {Len(q) + 1}
         /\ Len(q) + 1 \notin DOMAIN q
         /\ \A i \in DOMAIN q : Append(q, m)[i] = q[i]
         /\ Append(q, m)[Len(q) + 1] = m
<1>1. PICK S : q \in Seq(S)
  BY DEF IsQueue
<1>2. q \in Seq(S \union {m})
  BY <1>1
<1>3. Append(q, m) \in Seq(S \union {m})
  BY <1>2
<1> QED
  BY <1>2, <1>3 DEF IsQueue

LEMMA TailFacts ==
  ASSUME NEW q, IsQueue(q), q # <<>>
  PROVE  /\ IsQueue(Tail(q))
         /\ 1 \in DOMAIN q
         /\ Head(q) = q[1]
         /\ \A i \in DOMAIN Tail(q) : i + 1 \in DOMAIN q /\ i + 1 # 1 /\ Tail(q)[i] = q[i + 1]
         /\ DOMAIN Tail(q) \subseteq Nat
<1>1. PICK S : q \in Seq(S)
  BY DEF IsQueue
<1>2. Tail(q) \in Seq(S)
  BY <1>1
<1> QED
  BY <1>1, <1>2 DEF IsQueue

\* A message that is no request leaves the requests of the channel as they are.
LEMMA EnqueueOther ==
  ASSUME IsQueue(queue), NEW m, Enqueue(m), m.type # "HttpChatRequested"
  PROVE  /\ IsQueue(queue') /\ (RequestsTyped => RequestsTyped')
         /\ \A s \in Stream : RequestsOf(s)' = RequestsOf(s)
<1>1. queue' = Append(queue, m)
  BY DEF Enqueue
<1>2. ASSUME NEW s \in Stream
      PROVE  RequestsOf(s)' = RequestsOf(s)
  <2>1. m # ChatRequest(s)
    BY DEF ChatRequest, StreamMsg
  <2> QED
    BY <1>1, <2>1, AppendFacts DEF RequestsOf
<1>3. ASSUME RequestsTyped, NEW i \in DOMAIN queue', queue'[i].type = "HttpChatRequested"
      PROVE  \E s \in Stream : queue'[i] = ChatRequest(s)
  <2>1. i \in DOMAIN queue /\ queue'[i] = queue[i]
    BY <1>1, <1>3, AppendFacts
  <2> QED
    BY <1>3, <2>1 DEF RequestsTyped
<1>4. RequestsTyped => RequestsTyped'
  BY <1>3 DEF RequestsTyped, ChatRequest, StreamMsg
<1> QED
  BY <1>1, <1>2, <1>4, AppendFacts

LEMMA DequeueTyped ==
  ASSUME IsQueue(queue), queue # <<>>, queue' = Tail(queue), RequestsTyped
  PROVE  /\ IsQueue(queue') /\ RequestsTyped'
         /\ Head(queue).type = "HttpChatRequested" =>
              \E s \in Stream : Head(queue) = ChatRequest(s)
<1>1. \A i \in DOMAIN queue' : i + 1 \in DOMAIN queue /\ queue'[i] = queue[i + 1]
  BY TailFacts
<1>2. RequestsTyped'
  BY <1>1 DEF RequestsTyped, ChatRequest, StreamMsg
<1> QED
  BY <1>2, TailFacts DEF RequestsTyped

\* Taking a message out leaves no request that was not there, and at most one
\* request of each stream if there was at most one.
LEMMA DequeueRequests ==
  ASSUME IsQueue(queue), queue # <<>>, queue' = Tail(queue), NEW s \in Stream,
         \A i, j \in RequestsOf(s) : i = j
  PROVE  /\ \A i, j \in RequestsOf(s)' : i = j
         /\ RequestsOf(s)' # {} => RequestsOf(s) # {} /\ Head(queue) # ChatRequest(s)
<1>1. ASSUME NEW i \in RequestsOf(s)'
      PROVE  i \in Nat /\ i + 1 # 1 /\ i + 1 \in RequestsOf(s)
  BY TailFacts DEF RequestsOf, ChatRequest, StreamMsg
<1>2. ASSUME NEW i \in RequestsOf(s)', NEW j \in RequestsOf(s)'
      PROVE  i = j
  <2>1. i + 1 = j + 1 /\ i \in Nat /\ j \in Nat
    BY <1>1
  <2> QED
    BY <2>1
<1>3. ASSUME NEW i \in RequestsOf(s)', Head(queue) = ChatRequest(s)
      PROVE  FALSE
  <2>1. 1 \in RequestsOf(s)
    BY <1>3, TailFacts DEF RequestsOf
  <2> QED
    BY <1>1, <2>1
<1> QED
  BY <1>1, <1>2, <1>3
-----------------------------------------------------------------------------
(* What a kernel transition may take out of the registry, the head of the   *)
(* channel being a request of the streams in H.                             *)

TakesOwnOnly(H) ==
  /\ DOMAIN available' \subseteq DOMAIN available \ TakenWorkers
  /\ DOMAIN active_streams' \intersect TakenStreams = {}
  /\ TakenStreams \subseteq DOMAIN active_streams \union H
  /\ DOMAIN active_streams' \subseteq DOMAIN active_streams \union H
  /\ \A i \in Dispatched :
       effects'[i].worker \in DOMAIN available /\ effects'[i].stream \in H

LEMMA SilentTakes ==
  ASSUME effects' = <<>> \/ effects' = <<ProtocolViolation>>
  PROVE  TakenWorkers = {} /\ TakenStreams = {} /\ Dispatched = {}
BY DEF TakenWorkers, TakenStreams, Dispatched, ProtocolViolation

LEMMA FailTakes ==
  ASSUME NEW S, effects' = FailStreams(S)
  PROVE  TakenWorkers = {} /\ TakenStreams = S /\ Dispatched = {}
<1>1. DOMAIN effects' = {1, 2} /\ effects'[1] = SendClientError(S) /\ effects'[2] = SendClientDone(S)
  BY DEF FailStreams
<1>2. Dispatched = {}
  BY <1>1 DEF Dispatched, SendClientError, SendClientDone
<1>3. {k \in DOMAIN effects' : effects'[k].type = "SendClientDone"} = {2}
  BY <1>1 DEF SendClientError, SendClientDone
<1>4. effects'[2].streams = S
  BY <1>1 DEF SendClientDone
<1> QED
  BY <1>2, <1>3, <1>4 DEF TakenWorkers, TakenStreams

LEMMA DoneTakes ==
  ASSUME NEW S, effects' = <<SendClientDone(S)>>
  PROVE  TakenWorkers = {} /\ TakenStreams = S /\ Dispatched = {}
<1>1. DOMAIN effects' = {1} /\ effects'[1].type = "SendClientDone" /\ effects'[1].streams = S
  BY DEF SendClientDone
<1>2. {k \in DOMAIN effects' : effects'[k].type = "SendClientDone"} = {1}
  BY <1>1
<1> QED
  BY <1>1, <1>2 DEF TakenWorkers, TakenStreams, Dispatched

LEMMA DispatchTakes ==
  ASSUME NEW w, NEW s, NEW c, effects' = <<DispatchJob(w, s, c)>>
  PROVE  /\ TakenWorkers = {w} /\ TakenStreams = {} /\ Dispatched = {1}
         /\ effects'[1].worker = w /\ effects'[1].stream = s
<1>1. /\ DOMAIN effects' = {1} /\ effects'[1].type = "DispatchJob"
      /\ effects'[1].worker = w /\ effects'[1].stream = s
  BY DEF DispatchJob
<1> QED
  BY <1>1 DEF TakenWorkers, TakenStreams, Dispatched

LEMMA ChatTakes ==
  ASSUME NEW s \in Stream, HttpChatRequested(s, TRUE, Wants[s]), s \notin DOMAIN active_streams
  PROVE  TakesOwnOnly({s})
<1>1. CASE RejectChat(s, TRUE, Wants[s])
  BY <1>1, FailTakes DEF RejectChat, TakesOwnOnly, state
<1>2. CASE AcceptChat(s, TRUE, Wants[s])
  <2>1. PICK w \in Capable(Wants[s]) :
          /\ available' = Without(available, {w})
          /\ effects' = <<DispatchJob(w, s, Wants[s])>>
    BY <1>2 DEF AcceptChat
  <2>2. w \in DOMAIN available
    BY <2>1 DEF Capable
  <2>3. DOMAIN available' = DOMAIN available \ {w}
    BY <2>1 DEF Without
  <2>4. DOMAIN active_streams' = DOMAIN active_streams \union {s}
    BY <1>2 DEF AcceptChat, Put
  <2> QED
    BY <2>1, <2>2, <2>3, <2>4, DispatchTakes DEF TakesOwnOnly
<1> QED
  BY <1>1, <1>2 DEF HttpChatRequested

LEMMA HeartbeatTakes ==
  ASSUME (\E w : WorkerHeartbeat(w)) \/ (\E s : StreamHeartbeat(s))
  PROVE  TakesOwnOnly({})
<1>1. /\ effects' = <<>> \/ effects' = <<ProtocolViolation>>
      /\ DOMAIN available' = DOMAIN available
      /\ DOMAIN active_streams' = DOMAIN active_streams
  BY DEF WorkerHeartbeat, StreamHeartbeat, Violation, state
<1> QED
  BY <1>1, SilentTakes DEF TakesOwnOnly

LEMMA EndTakes ==
  ASSUME NEW s, AssignmentCleared(s) \/ AssignmentFailed(s)
  PROVE  TakesOwnOnly({})
<1>1. CASE Violation
  BY <1>1, SilentTakes DEF Violation, TakesOwnOnly, state
<1>2. CASE ~Violation
  <2>1. /\ s \in DOMAIN active_streams
        /\ DOMAIN active_streams' = DOMAIN active_streams \ {s}
        /\ available' = available
        /\ effects' = <<SendClientDone({s})>> \/ effects' = FailStreams({s})
    BY <1>2 DEF AssignmentCleared, AssignmentFailed, EndAssignment, Without
  <2>2. TakenWorkers = {} /\ TakenStreams = {s} /\ Dispatched = {}
    BY <2>1, DoneTakes, FailTakes
  <2> QED
    BY <2>1, <2>2 DEF TakesOwnOnly
<1> QED
  BY <1>1, <1>2

LEMMA TickTakes ==
  ASSUME Tick
  PROVE  TakesOwnOnly({})
<1> DEFINE X == ExpiredStreams(tick + 1)
<1>1. /\ DOMAIN available' \subseteq DOMAIN available
      /\ DOMAIN active_streams' = DOMAIN active_streams \ X
  BY DEF Tick, Without
<1>2. X \subseteq DOMAIN active_streams
  BY DEF ExpiredStreams
<1>3. /\ DOMAIN effects' = 1 .. 4
      /\ effects'[1] = SendClientError(X) /\ effects'[2] = SendClientDone(X)
      /\ effects'[3].type = "SubscriberRemoved" /\ effects'[4].type = "SessionExpired"
  BY DEF Tick, SubscriberRemoved, SessionExpired
<1> HIDE DEF X
<1>4. effects'[1].type = "SendClientError" /\ effects'[2].type = "SendClientDone"
      /\ effects'[2].streams = X
  BY <1>3 DEF SendClientError, SendClientDone
<1>5. \A k \in DOMAIN effects' : k = 1 \/ k = 2 \/ k = 3 \/ k = 4
  BY <1>3
<1>6. Dispatched = {}
  BY <1>3, <1>4, <1>5 DEF Dispatched
<1>7. {k \in DOMAIN effects' : effects'[k].type = "SendClientDone"} = {2}
  BY <1>3, <1>4, <1>5
<1>8. TakenStreams = X /\ TakenWorkers = {}
  BY <1>4, <1>6, <1>7 DEF TakenStreams, TakenWorkers
<1> QED
  BY <1>1, <1>2, <1>6, <1>8 DEF TakesOwnOnly
-----------------------------------------------------------------------------
(* Preservation by the steps of the loop *)

\* Any message that drives the kernel: what it takes out of the registry is its
\* own, so the other streams and workers keep what they need.
LEMMA ForwardInv ==
  ASSUME JobInv, queue # <<>>, queue' = Tail(queue),
         NEW H, TakesOwnOnly(H), Forward,
         H = {} \/ \E s \in Stream : H = {s} /\ Head(queue) = ChatRequest(s)
  PROVE  JobInv' /\ \A i \in Dispatched : CanDispatch(effects'[i])
<1>1. /\ DOMAIN workers' = DOMAIN workers \ TakenWorkers
      /\ streams' = streams \ TakenStreams
      /\ client' = client
  BY DEF Forward, adapterVars, Without
<1>2. PoolHasHandles'
  BY <1>1 DEF JobInv, PoolHasHandles, TakesOwnOnly
<1>3. \A s \in H : s \in Stream /\ RequestsOf(s) # {} /\ Head(queue) = ChatRequest(s)
  BY TailFacts DEF RequestsOf, JobInv
<1>4. H \subseteq streams
  BY <1>3 DEF JobInv, RequestInv
<1>5. ActiveHasHandle'
  BY <1>1, <1>4 DEF JobInv, ActiveHasHandle, TakesOwnOnly
<1>6. IsQueue(queue') /\ RequestsTyped' /\ DOMAIN active_streams' \subseteq Stream
  BY <1>3, DequeueTyped DEF JobInv, TakesOwnOnly
<1>7. RequestInv'
  <2> SUFFICES ASSUME NEW s \in Stream
               PROVE  /\ \A i, j \in RequestsOf(s)' : i = j
                      /\ RequestsOf(s)' # {} =>
                           /\ s \in streams' /\ s \notin DOMAIN active_streams'
                           /\ client'[s] \in {"streaming", "gone"}
                      /\ client'[s] = "registered" => s \in streams'
                      /\ client'[s] \in {"new", "registering", "registered"} =>
                           s \notin DOMAIN active_streams'
    BY DEF RequestInv
  <2>1. /\ \A i, j \in RequestsOf(s)' : i = j
        /\ RequestsOf(s)' # {} => RequestsOf(s) # {} /\ Head(queue) # ChatRequest(s)
    BY DequeueRequests DEF JobInv, RequestInv
  <2>2. ASSUME s \notin DOMAIN active_streams, s \notin H
        PROVE  s \notin TakenStreams /\ s \notin DOMAIN active_streams'
    BY <2>2 DEF TakesOwnOnly
  <2>3. CASE RequestsOf(s)' # {}
    <3>1. s \in streams /\ s \notin DOMAIN active_streams /\ client[s] \in {"streaming", "gone"}
      BY <2>1, <2>3 DEF JobInv, RequestInv
    <3>2. s \notin H
      BY <1>3, <2>1, <2>3
    <3> QED
      BY <1>1, <2>1, <2>2, <3>1, <3>2
  <2>4. CASE client[s] \in {"new", "registering", "registered"}
    <3>1. RequestsOf(s) = {} /\ s \notin DOMAIN active_streams
      BY <2>4 DEF JobInv, RequestInv
    <3>2. s \notin H
      BY <1>3, <3>1
    <3>3. client[s] = "registered" => s \in streams
      BY DEF JobInv, RequestInv
    <3> QED
      BY <1>1, <2>1, <2>2, <3>1, <3>2, <3>3
  <2> QED
    BY <1>1, <2>1, <2>3, <2>4
<1>8. \A i \in Dispatched : CanDispatch(effects'[i])
  BY <1>4 DEF JobInv, PoolHasHandles, TakesOwnOnly, CanDispatch
<1> QED
  BY <1>1, <1>2, <1>5, <1>6, <1>7, <1>8 DEF JobInv

\* A handler that registers puts its oneshot in the registry in the step that
\* adds the id to the pool.
LEMMA RegisterWorkerInv ==
  ASSUME JobInv, ProcessRegisterWorker
  PROVE  JobInv' /\ \A i \in Dispatched : CanDispatch(effects'[i])
<1>1. queue # <<>> /\ queue' = Tail(queue)
  BY DEF ProcessRegisterWorker, Receive
<1>2. PICK w \in Worker :
        /\ WorkerRegistered(w, Offers[Head(queue).conn])
        /\ workers' = Put(workers, w, Head(queue).conn)
  BY DEF ProcessRegisterWorker
<1>3. /\ DOMAIN available' \subseteq DOMAIN available \union {w}
      /\ active_streams' = active_streams
      /\ effects' = <<>> \/ effects' = <<ProtocolViolation>>
  BY <1>2 DEF WorkerRegistered, Violation, state, Put
<1>4. DOMAIN workers' = DOMAIN workers \union {w}
  BY <1>2 DEF Put
<1>5. streams' = streams /\ client' = client
  BY DEF ProcessRegisterWorker
<1>6. \A s \in Stream :
        /\ \A i, j \in RequestsOf(s)' : i = j
        /\ RequestsOf(s)' # {} => RequestsOf(s) # {}
  BY <1>1, DequeueRequests DEF JobInv, RequestInv
<1>7. IsQueue(queue') /\ RequestsTyped'
  BY <1>1, DequeueTyped DEF JobInv
<1>8. RequestInv'
  BY <1>3, <1>5, <1>6 DEF JobInv, RequestInv
<1>9. Dispatched = {}
  BY <1>3, SilentTakes
<1> QED
  BY <1>3, <1>4, <1>5, <1>7, <1>8, <1>9 DEF JobInv, PoolHasHandles, ActiveHasHandle

LEMMA RegisterStreamInv ==
  ASSUME JobInv, ProcessRegisterStream
  PROVE  JobInv'
<1> DEFINE s0 == Head(queue).stream
<1>1. queue # <<>> /\ queue' = Tail(queue)
  BY DEF ProcessRegisterStream, Receive
<1>2. /\ streams' = streams \union {s0}
      /\ client' = [client EXCEPT ![s0] = IF @ = "registering" THEN "registered" ELSE @]
      /\ UNCHANGED <<available, active_streams, workers>>
  BY DEF ProcessRegisterStream, kernelVars, state
<1> HIDE DEF s0
<1>3. \A s \in Stream :
        /\ \A i, j \in RequestsOf(s)' : i = j
        /\ RequestsOf(s)' # {} => RequestsOf(s) # {}
  BY <1>1, DequeueRequests DEF JobInv, RequestInv
<1>4. IsQueue(queue') /\ RequestsTyped'
  BY <1>1, DequeueTyped DEF JobInv
<1>5. \A s \in Stream :
        \/ client'[s] = client[s]
        \/ s = s0 /\ client[s] = "registering" /\ client'[s] = "registered"
  BY <1>2 DEF JobInv
<1>6. client' \in [Stream -> ClientPhase]
  <2>1. \A s \in Stream : client'[s] \in ClientPhase
    BY <1>5 DEF JobInv, ClientPhase
  <2> QED
    BY <1>2, <2>1 DEF JobInv
<1>7. RequestInv'
  BY <1>2, <1>3, <1>5 DEF JobInv, RequestInv
<1> QED
  BY <1>2, <1>4, <1>6, <1>7 DEF JobInv, PoolHasHandles, ActiveHasHandle

LEMMA ProcessMessageInv ==
  ASSUME JobInv, ProcessMessage
  PROVE  JobInv' /\ (effects' # effects => \A i \in Dispatched : CanDispatch(effects'[i]))
<1>1. CASE ProcessRegisterWorker
  BY <1>1, RegisterWorkerInv
<1>2. CASE ProcessRegisterStream
  <2>1. effects' = effects
    BY <1>2 DEF ProcessRegisterStream, kernelVars
  <2> QED
    BY <1>2, <2>1, RegisterStreamInv
<1>3. CASE ProcessChat
  <2> DEFINE s0 == Head(queue).stream
  <2>1. /\ queue # <<>> /\ queue' = Tail(queue) /\ Forward
        /\ Head(queue).type = "HttpChatRequested"
        /\ HttpChatRequested(s0, TRUE, Wants[s0])
    BY <1>3 DEF ProcessChat, Receive
  <2>2. PICK s \in Stream : Head(queue) = ChatRequest(s)
    BY <2>1, DequeueTyped DEF JobInv
  <2>3. s0 = s
    BY <2>2 DEF ChatRequest, StreamMsg
  <2>4. RequestsOf(s) # {}
    BY <2>1, <2>2, TailFacts DEF RequestsOf, JobInv
  <2>5. s \notin DOMAIN active_streams
    BY <2>4 DEF JobInv, RequestInv
  <2>6. TakesOwnOnly({s})
    BY <2>1, <2>3, <2>5, ChatTakes
  <2> HIDE DEF s0
  <2> QED
    BY <2>1, <2>2, <2>6, ForwardInv
<1>4. CASE \/ ProcessWorkerHeartbeat \/ ProcessStreamHeartbeat
           \/ ProcessCleared \/ ProcessFailed \/ ProcessTick
  <2>1. queue # <<>> /\ queue' = Tail(queue) /\ Forward
    BY <1>4 DEF ProcessWorkerHeartbeat, ProcessStreamHeartbeat, ProcessCleared,
                ProcessFailed, ProcessTick, Receive
  <2>2. TakesOwnOnly({})
    BY <1>4, HeartbeatTakes, EndTakes, TickTakes
       DEF ProcessWorkerHeartbeat, ProcessStreamHeartbeat, ProcessCleared,
           ProcessFailed, ProcessTick
  <2> QED
    BY <2>1, <2>2, ForwardInv
<1> QED
  BY <1>1, <1>2, <1>3, <1>4 DEF ProcessMessage
-----------------------------------------------------------------------------
(* Preservation by everybody else *)

\* A step that leaves kernel, registry and clients alone and sends nothing but
\* a message that is no request.
LEMMA BystanderInv ==
  ASSUME JobInv,
         UNCHANGED <<available, active_streams, workers, streams, client>>,
         \/ queue' = queue
         \/ \E m : Enqueue(m) /\ m.type # "HttpChatRequested"
  PROVE  JobInv'
<1>1. /\ IsQueue(queue') /\ RequestsTyped'
      /\ \A s \in Stream : RequestsOf(s)' = RequestsOf(s)
  <2>1. CASE queue' = queue
    BY <2>1 DEF JobInv, RequestsOf, RequestsTyped
  <2>2. CASE \E m : Enqueue(m) /\ m.type # "HttpChatRequested"
    BY <2>2, EnqueueOther DEF JobInv
  <2> QED
    BY <2>1, <2>2
<1>2. RequestInv'
  BY <1>1 DEF JobInv, RequestInv
<1> QED
  BY <1>1, <1>2 DEF JobInv, PoolHasHandles, ActiveHasHandle

LEMMA TaskInv ==
  ASSUME JobInv, TickTask \/ ExecuteEffect
  PROVE  JobInv' /\ effects' = effects
<1>1. UNCHANGED <<available, active_streams, workers, streams, client, effects>>
  BY DEF TickTask, ExecuteEffect, kernelVars, state, adapterVars
<1>2. \/ queue' = queue
      \/ \E m : Enqueue(m) /\ m.type # "HttpChatRequested"
  <2>1. CASE TickTask
    BY <2>1 DEF TickTask, TickMsg
  <2>2. CASE ExecuteEffect
    BY <2>2 DEF ExecuteEffect, DeliverJob, SendFrames, StreamMsg
  <2> QED
    BY <2>1, <2>2
<1> QED
  BY <1>1, <1>2, BystanderInv

LEMMA WorkerHandlerInv ==
  ASSUME JobInv, NEW c \in Connection, WorkerHandler(c)
  PROVE  JobInv' /\ effects' = effects
<1>1. UNCHANGED <<available, active_streams, workers, streams, client, effects>>
  BY DEF WorkerHandler, Register, IdleHeartbeat, Disconnect, TakeJob, RelayHeartbeat,
         RelayOutcome, WorkerEnd, WorkerError, WorkerDisconnected, ClientGone, Outcome,
         Adapter, kernelVars, state, adapterVars
<1>2. \/ queue' = queue
      \/ \E m : Enqueue(m) /\ m.type # "HttpChatRequested"
  <2>1. CASE Register(c) \/ IdleHeartbeat(c)
    BY <2>1 DEF Register, IdleHeartbeat, RegisterWorkerMsg, WorkerHeartbeatMsg
  <2>2. CASE Disconnect(c) \/ TakeJob(c) \/ ClientGone(c)
    BY <2>2 DEF Disconnect, TakeJob, ClientGone
  <2>3. CASE RelayHeartbeat(c) \/ WorkerEnd(c) \/ WorkerError(c) \/ WorkerDisconnected(c)
    BY <2>3 DEF RelayHeartbeat, WorkerEnd, WorkerError, WorkerDisconnected, Outcome, StreamMsg
  <2> QED
    BY <2>1, <2>2, <2>3 DEF WorkerHandler, RelayOutcome
<1> QED
  BY <1>1, <1>2, BystanderInv

\* The one request of a stream is sent by a handler that has registered it.
LEMMA RequestChatInv ==
  ASSUME JobInv, NEW s \in Stream, RequestChat(s)
  PROVE  JobInv'
<1> DEFINE m == ChatRequest(s)
<1>1. /\ client[s] = "registered"
      /\ queue' = Append(queue, m)
      /\ client' = [client EXCEPT ![s] = "streaming"]
      /\ UNCHANGED <<available, active_streams, workers, streams>>
  BY DEF RequestChat, Enqueue, ChatRequest, Adapter, kernelVars, state
<1>2. s \in streams /\ s \notin DOMAIN active_streams /\ RequestsOf(s) = {}
  BY <1>1 DEF JobInv, RequestInv
<1>3. /\ IsQueue(queue')
      /\ DOMAIN queue' = DOMAIN queue \union {Len(queue) + 1}
      /\ \A i \in DOMAIN queue : queue'[i] = queue[i]
      /\ queue'[Len(queue) + 1] = m
  <2> HIDE DEF m
  <2> QED
    BY <1>1, AppendFacts DEF JobInv
<1>4. RequestsTyped'
  BY <1>3 DEF JobInv, RequestsTyped
<1>5. \A t \in Stream \ {s} : ChatRequest(t) # m
  BY DEF ChatRequest, StreamMsg
<1>6. /\ \A t \in Stream \ {s} : RequestsOf(t)' = RequestsOf(t)
      /\ RequestsOf(s)' = {Len(queue) + 1}
  <2> HIDE DEF m
  <2>1. \A t \in Stream \ {s} : RequestsOf(t)' = RequestsOf(t)
    BY <1>3, <1>5, AppendFacts DEF RequestsOf, JobInv
  <2>2. RequestsOf(s)' = {Len(queue) + 1}
    BY <1>2, <1>3 DEF RequestsOf, m
  <2> QED
    BY <2>1, <2>2
<1>7. client' \in [Stream -> ClientPhase]
  BY <1>1 DEF JobInv, ClientPhase
<1>8. /\ client'[s] = "streaming"
      /\ \A t \in Stream \ {s} : client'[t] = client[t]
  BY <1>1 DEF JobInv
<1>9. RequestInv'
  <2> HIDE DEF m
  <2>1. ASSUME NEW t \in Stream \ {s}
        PROVE  /\ \A i, j \in RequestsOf(t)' : i = j
               /\ RequestsOf(t)' # {} =>
                    t \in streams' /\ t \notin DOMAIN active_streams'
                    /\ client'[t] \in {"streaming", "gone"}
               /\ client'[t] = "registered" => t \in streams'
               /\ client'[t] \in {"new", "registering", "registered"} =>
                    t \notin DOMAIN active_streams'
    BY <1>1, <1>6, <1>8 DEF JobInv, RequestInv
  <2>2. /\ \A i, j \in RequestsOf(s)' : i = j
        /\ s \in streams' /\ s \notin DOMAIN active_streams'
        /\ client'[s] = "streaming"
    BY <1>1, <1>2, <1>6, <1>8
  <2> QED
    BY <2>1, <2>2 DEF RequestInv
<1> QED
  BY <1>1, <1>3, <1>4, <1>7, <1>9 DEF JobInv, PoolHasHandles, ActiveHasHandle

LEMMA ClientHandlerInv ==
  ASSUME JobInv, NEW s \in Stream, ClientHandler(s)
  PROVE  JobInv' /\ effects' = effects
<1>1. UNCHANGED <<available, active_streams, workers, streams, effects>>
  BY DEF ClientHandler, OpenStream, RequestChat, LeaveStream, EndStream, Adapter,
         kernelVars, state
<1>2. CASE RequestChat(s)
  BY <1>1, <1>2, RequestChatInv
<1>3. CASE OpenStream(s) \/ LeaveStream(s) \/ EndStream(s)
  <2>1. /\ IsQueue(queue') /\ RequestsTyped'
        /\ \A t \in Stream : RequestsOf(t)' = RequestsOf(t)
    <3>1. CASE OpenStream(s)
      <4>1. Enqueue(StreamMsg("RegisterStream", s))
        BY <3>1 DEF OpenStream
      <4> QED
        BY <4>1, EnqueueOther DEF JobInv, StreamMsg
    <3>2. CASE LeaveStream(s) \/ EndStream(s)
      <4>1. queue' = queue
        BY <3>2 DEF LeaveStream, EndStream
      <4> QED
        BY <4>1 DEF JobInv, RequestsOf, RequestsTyped
    <3> QED
      BY <1>3, <3>1, <3>2
  <2>2. /\ client' \in [Stream -> ClientPhase]
        /\ \A t \in Stream \ {s} : client'[t] = client[t]
        /\ \/ client[s] = "new" /\ client'[s] = "registering"
           \/ client'[s] = "gone"
           \/ client[s] = "streaming" /\ ~Open(s) /\ client'[s] = "ended"
    BY <1>3 DEF OpenStream, LeaveStream, EndStream, JobInv, ClientPhase
  <2>3. ~Open(s) => RequestsOf(s) = {}
    BY DEF JobInv, RequestInv, Open
  <2>4. RequestInv'
    BY <1>1, <2>1, <2>2, <2>3 DEF JobInv, RequestInv
  <2> QED
    BY <1>1, <2>1, <2>2, <2>4 DEF JobInv, PoolHasHandles, ActiveHasHandle
<1> QED
  BY <1>2, <1>3, <1>1 DEF ClientHandler
-----------------------------------------------------------------------------
(* The theorems *)

LEMMA JobInitInv == JobInit => JobInv
<1> SUFFICES ASSUME JobInit PROVE JobInv
  OBVIOUS
<1>1. DOMAIN available = {} /\ DOMAIN active_streams = {}
  BY DEF JobInit, Init, EmptyMap
<1>2. queue = <<>> /\ DOMAIN queue = {}
  BY DEF JobInit
<1>3. IsQueue(queue)
  <2>1. queue \in Seq({})
    BY <1>2
  <2> QED
    BY <2>1 DEF IsQueue
<1>4. client = [s \in Stream |-> "new"]
  BY DEF JobInit
<1>5. client \in [Stream -> ClientPhase]
  BY <1>4 DEF ClientPhase
<1> QED
  BY <1>1, <1>2, <1>3, <1>4, <1>5
     DEF JobInv, PoolHasHandles, ActiveHasHandle, RequestsTyped, RequestInv, RequestsOf

LEMMA JobNextInv ==
  ASSUME JobInv, [JobNext]_vars
  PROVE  JobInv' /\ (effects' # effects => \A i \in Dispatched : CanDispatch(effects'[i]))
<1>1. CASE ProcessMessage
  BY <1>1, ProcessMessageInv
<1>2. CASE TickTask \/ ExecuteEffect
  BY <1>2, TaskInv
<1>3. CASE \E c \in Connection : WorkerHandler(c)
  BY <1>3, WorkerHandlerInv
<1>4. CASE \E s \in Stream : ClientHandler(s)
  BY <1>4, ClientHandlerInv
<1>5. CASE UNCHANGED vars
  <2>1. UNCHANGED <<available, active_streams, workers, streams, client, queue, effects>>
    BY <1>5 DEF vars, kernelVars, state, runtimeVars, adapterVars
  <2> QED
    BY <2>1, BystanderInv
<1> QED
  BY <1>1, <1>2, <1>3, <1>4, <1>5 DEF JobNext

\* Registry and kernel agree in every reachable state.
THEOREM JobInvariance == JobSpec => []JobInv
<1>1. JobInit => JobInv
  BY JobInitInv
<1>2. JobInv /\ [JobNext]_vars => JobInv'
  BY JobNextInv
<1> QED
  BY <1>1, <1>2, PTL DEF JobSpec

\* A worker the kernel may choose has its oneshot in the registry, and a stream
\* it may end has its sender there.
THEOREM HandlesAlwaysAgree == JobSpec => []HandlesAgree
<1>1. JobInv => HandlesAgree
  BY DEF JobInv, HandlesAgree
<1> QED
  BY <1>1, JobInvariance, PTL

\* Every dispatch the kernel decides finds both handles: the fallback branches
\* of resolve_effects are dead code.
THEOREM FallbackNeverTaken == JobSpec => NoFallback
<1>1. JobInv /\ [JobNext]_vars => [\A i \in Dispatched : CanDispatch(effects'[i])]_effects
  BY JobNextInv
<1> QED
  BY <1>1, JobInvariance, PTL DEF JobSpec, NoFallback
-----------------------------------------------------------------------------
(* In whose hands a job, an offer and a response are *)
StreamRegistration(s) == StreamMsg("RegisterStream", s)

Positions(m) == {i \in DOMAIN queue : queue[i] = m}
Once(m) == \A i, j \in Positions(m) : i = j

QueueTyped ==
  \A i \in DOMAIN queue :
    /\ queue[i].type = "RegisterWorker" => \E c \in Connection : queue[i] = RegisterWorkerMsg(c)
    /\ queue[i].type = "RegisterStream" => \E s \in Stream : queue[i] = StreamRegistration(s)

Handler ==
  [phase : {"off", "registering", "waiting", "relaying", "ended", "gone"},
   worker : Worker \union {NoWorker}, job : Stream \union {NoStream}]
ConnTyped == conn \in [Connection -> Handler]

\* Where an id of the registry is, and what a handler's id says of it.
OfferInv ==
  /\ issued \subseteq Worker /\ DOMAIN workers \subseteq issued
  /\ \A w \in DOMAIN workers :
       /\ workers[w] \in Connection
       /\ \/ conn[workers[w]].phase = "gone"
          \/ /\ conn[workers[w]].phase = "waiting"
             /\ conn[workers[w]].worker = w /\ conn[workers[w]].job = NoStream
  /\ \A c \in Connection :
       /\ conn[c].worker # NoWorker => conn[c].worker \in issued
       /\ conn[c].worker \in DOMAIN workers => workers[conn[c].worker] = c
       /\ conn[c].phase = "gone" => conn[c].worker = NoWorker

\* A handler that registers has sent one message, and waits for nothing else.
RegisterInv ==
  \A c \in Connection :
    /\ Once(RegisterWorkerMsg(c))
    /\ Positions(RegisterWorkerMsg(c)) # {} => conn[c].phase = "registering"

IsDispatch(t, i) ==
  /\ DOMAIN t = {1}
  /\ t[i].conn \in Connection /\ t[i].stream \in Stream
  /\ t[i].worker \in issued \ DOMAIN workers
TasksShape ==
  \A t \in tasks :
    /\ IsQueue(t) /\ t # <<>>
    /\ \A i \in DOMAIN t : t[i].type = "DispatchJob" => IsDispatch(t, i)

\* A job comes from the one request of its stream, and changes hands.
Carried(s) ==
  \/ \E c \in Connection : conn[c].job = s
  \/ \E t \in tasks : Dispatching(t, s)
CarrierInv ==
  \A s \in Stream :
    /\ \A c, d \in Connection : conn[c].job = s /\ conn[d].job = s => c = d
    /\ \A t, u \in tasks : Dispatching(t, s) /\ Dispatching(u, s) => t = u
    /\ \A c \in Connection, t \in tasks : ~(conn[c].job = s /\ Dispatching(t, s))
    /\ Carried(s) =>
         /\ client[s] \in {"streaming", "ended", "gone"}
         /\ Positions(ChatRequest(s)) = {}

StreamInv ==
  /\ streams \subseteq Stream
  /\ \A s \in Stream :
       /\ Once(StreamRegistration(s))
       /\ Positions(StreamRegistration(s)) # {} => client[s] \in {"registering", "gone"}
       /\ s \in streams /\ client[s] = "streaming" =>
            Positions(ChatRequest(s)) # {} \/ s \in DOMAIN active_streams

HandInv ==
  /\ QueueTyped /\ ConnTyped /\ OfferInv /\ RegisterInv
  /\ TasksShape /\ CarrierInv /\ StreamInv
HandsInv == JobInv /\ HandInv
-----------------------------------------------------------------------------
(* Messages of the channel *)

LEMMA DequeuePositions ==
  ASSUME IsQueue(queue), queue # <<>>, queue' = Tail(queue), NEW n, Once(n)
  PROVE  /\ Once(n)'
         /\ Positions(n)' # {} => Positions(n) # {} /\ Head(queue) # n
         /\ Positions(n) # {} /\ Head(queue) # n => Positions(n)' # {}
<1>1. ASSUME NEW i \in Positions(n)'
      PROVE  i \in Nat /\ i + 1 # 1 /\ i + 1 \in Positions(n)
  BY TailFacts DEF Positions
<1>2. ASSUME NEW i \in Positions(n)', NEW j \in Positions(n)'
      PROVE  i = j
  <2>1. i + 1 = j + 1 /\ i \in Nat /\ j \in Nat
    BY <1>1 DEF Once
  <2> QED
    BY <2>1
<1>3. ASSUME NEW i \in Positions(n)', Head(queue) = n
      PROVE  FALSE
  <2>1. 1 \in Positions(n)
    BY <1>3, TailFacts DEF Positions
  <2> QED
    BY <1>1, <2>1 DEF Once
<1>4. ASSUME NEW i \in Positions(n), Head(queue) # n
      PROVE  Positions(n)' # {}
  <2>1. PICK S : queue \in Seq(S)
    BY DEF IsQueue
  <2>2. i \in 1 .. Len(queue) /\ i # 1 /\ queue[i] = n
    BY <1>4, <2>1, TailFacts DEF Positions
  <2>3. i - 1 \in DOMAIN Tail(queue) /\ Tail(queue)[i - 1] = queue[i]
    BY <2>1, <2>2
  <2> QED
    BY <2>2, <2>3 DEF Positions
<1> QED
  BY <1>1, <1>2, <1>3, <1>4 DEF Once

LEMMA EnqueuePositions ==
  ASSUME IsQueue(queue), NEW m, Enqueue(m), NEW n
  PROVE  /\ n # m => Positions(n)' = Positions(n)
         /\ Positions(m)' # {}
         /\ Positions(m) = {} => Once(m)'
<1>1. queue' = Append(queue, m)
  BY DEF Enqueue
<1>2. /\ DOMAIN queue' = DOMAIN queue \union {Len(queue) + 1}
      /\ Len(queue) + 1 \notin DOMAIN queue
      /\ \A i \in DOMAIN queue : queue'[i] = queue[i]
      /\ queue'[Len(queue) + 1] = m
  BY <1>1, AppendFacts
<1> HIDE DEF Enqueue
<1>3. n # m => Positions(n)' = Positions(n)
  BY <1>2 DEF Positions
<1>4. Positions(m)' # {}
  BY <1>2 DEF Positions
<1>5. ASSUME Positions(m) = {}
      PROVE  Once(m)'
  <2>1. Positions(m)' \subseteq {Len(queue) + 1}
    BY <1>2, <1>5 DEF Positions
  <2> QED
    BY <2>1 DEF Once
<1> QED
  BY <1>3, <1>4, <1>5

\* What the steps of the loop leave of the messages the invariant counts.
Left(m) ==
  /\ Once(m)'
  /\ Positions(m)' # {} => Positions(m) # {} /\ Head(queue) # m
  /\ Positions(m) # {} /\ Head(queue) # m => Positions(m)' # {}

LEMMA LoopQueue ==
  ASSUME JobInv, HandInv, queue # <<>>, queue' = Tail(queue)
  PROVE  /\ QueueTyped'
         /\ Head(queue).type = "RegisterWorker" =>
              \E c \in Connection : Head(queue) = RegisterWorkerMsg(c)
         /\ Head(queue).type = "RegisterStream" =>
              \E s \in Stream : Head(queue) = StreamRegistration(s)
         /\ \A c \in Connection : Left(RegisterWorkerMsg(c))
         /\ \A s \in Stream : Left(StreamRegistration(s)) /\ Left(ChatRequest(s))
<1>1. IsQueue(queue)
  BY DEF JobInv
<1>2. \A i \in DOMAIN queue' : i + 1 \in DOMAIN queue /\ queue'[i] = queue[i + 1]
  BY <1>1, TailFacts
<1>3. QueueTyped'
  BY <1>2 DEF HandInv, QueueTyped, RegisterWorkerMsg, StreamRegistration, StreamMsg
<1>4. \A c \in Connection : Left(RegisterWorkerMsg(c))
  <2> SUFFICES ASSUME NEW c \in Connection PROVE Left(RegisterWorkerMsg(c))
    OBVIOUS
  <2> DEFINE m == RegisterWorkerMsg(c)
  <2>1. Once(m)
    BY DEF HandInv, RegisterInv
  <2> HIDE DEF m
  <2>2. Left(m)
    BY <1>1, <2>1, DequeuePositions DEF Left
  <2> QED
    BY <2>2 DEF m
<1>5. ASSUME NEW s \in Stream
      PROVE  Left(StreamRegistration(s)) /\ Left(ChatRequest(s))
  <2> DEFINE m == StreamRegistration(s)
             n == ChatRequest(s)
  <2>1. Once(m) /\ Once(n)
    BY DEF HandInv, StreamInv, JobInv, RequestInv, RequestsOf, Once, Positions
  <2> HIDE DEF m, n
  <2>2. Left(m) /\ Left(n)
    BY <1>1, <2>1, DequeuePositions DEF Left
  <2> QED
    BY <2>2 DEF m, n
<1> QED
  BY <1>1, <1>3, <1>4, <1>5, TailFacts DEF HandInv, QueueTyped
-----------------------------------------------------------------------------
(* What a kernel transition says of the streams it takes, and the task that *)
(* carries its effects out                                                  *)

Accounts(H) ==
  /\ IsQueue(effects')
  /\ \A i \in DOMAIN effects' : "type" \in DOMAIN effects'[i]
  /\ Dispatched # {} => Dispatched = {1} /\ DOMAIN effects' = {1}
  /\ DOMAIN active_streams \union H \subseteq DOMAIN active_streams' \union TakenStreams

LEMMA SilentAccounts ==
  ASSUME effects' = <<>> \/ effects' = <<ProtocolViolation>>,
         DOMAIN active_streams' = DOMAIN active_streams
  PROVE  Accounts({})
<1>1. IsQueue(effects')
  <2>1. CASE effects' = <<>>
    <3>1. effects' \in Seq({})
      BY <2>1
    <3> QED
      BY <3>1 DEF IsQueue
  <2>2. CASE effects' = <<ProtocolViolation>>
    <3>1. effects' \in Seq({ProtocolViolation})
      BY <2>2
    <3> QED
      BY <3>1 DEF IsQueue
  <2> QED
    BY <2>1, <2>2
<1>2. \A i \in DOMAIN effects' : "type" \in DOMAIN effects'[i]
  BY DEF ProtocolViolation
<1> QED
  BY <1>1, <1>2, SilentTakes DEF Accounts

LEMMA FailAccounts ==
  ASSUME NEW S, effects' = FailStreams(S), NEW H,
         DOMAIN active_streams \union H \subseteq DOMAIN active_streams' \union S
  PROVE  Accounts(H)
<1>1. IsQueue(effects')
  <2>1. effects' \in Seq({SendClientError(S), SendClientDone(S)})
    BY DEF FailStreams
  <2> QED
    BY <2>1 DEF IsQueue
<1>2. \A i \in DOMAIN effects' : "type" \in DOMAIN effects'[i]
  BY DEF FailStreams, SendClientError, SendClientDone
<1> QED
  BY <1>1, <1>2, FailTakes DEF Accounts

LEMMA DoneAccounts ==
  ASSUME NEW S, effects' = <<SendClientDone(S)>>,
         DOMAIN active_streams \subseteq DOMAIN active_streams' \union S
  PROVE  Accounts({})
<1>1. IsQueue(effects')
  <2>1. effects' \in Seq({SendClientDone(S)})
    OBVIOUS
  <2> QED
    BY <2>1 DEF IsQueue
<1>2. \A i \in DOMAIN effects' : "type" \in DOMAIN effects'[i]
  BY DEF SendClientDone
<1> QED
  BY <1>1, <1>2, DoneTakes DEF Accounts

LEMMA ChatAccounts ==
  ASSUME NEW s \in Stream, HttpChatRequested(s, TRUE, Wants[s]), s \notin DOMAIN active_streams
  PROVE  Accounts({s})
<1>1. CASE RejectChat(s, TRUE, Wants[s])
  BY <1>1, FailAccounts DEF RejectChat, state
<1>2. CASE AcceptChat(s, TRUE, Wants[s])
  <2>1. PICK w : effects' = <<DispatchJob(w, s, Wants[s])>>
    BY <1>2 DEF AcceptChat
  <2>2. DOMAIN active_streams' = DOMAIN active_streams \union {s}
    BY <1>2 DEF AcceptChat, Put
  <2>3. IsQueue(effects')
    <3>1. effects' \in Seq({DispatchJob(w, s, Wants[s])})
      BY <2>1
    <3> QED
      BY <3>1 DEF IsQueue
  <2>4. DOMAIN effects' = {1} /\ "type" \in DOMAIN effects'[1]
    BY <2>1 DEF DispatchJob
  <2> QED
    BY <2>1, <2>2, <2>3, <2>4, DispatchTakes DEF Accounts
<1> QED
  BY <1>1, <1>2 DEF HttpChatRequested

LEMMA HeartbeatAccounts ==
  ASSUME (\E w : WorkerHeartbeat(w)) \/ (\E s : StreamHeartbeat(s))
  PROVE  Accounts({})
<1>1. /\ effects' = <<>> \/ effects' = <<ProtocolViolation>>
      /\ DOMAIN active_streams' = DOMAIN active_streams
  BY DEF WorkerHeartbeat, StreamHeartbeat, Violation, state
<1> QED
  BY <1>1, SilentAccounts

LEMMA EndAccounts ==
  ASSUME NEW s, AssignmentCleared(s) \/ AssignmentFailed(s)
  PROVE  Accounts({})
<1>1. CASE Violation
  BY <1>1, SilentAccounts DEF Violation, state
<1>2. CASE ~Violation
  <2>1. /\ DOMAIN active_streams' = DOMAIN active_streams \ {s}
        /\ effects' = <<SendClientDone({s})>> \/ effects' = FailStreams({s})
    BY <1>2 DEF AssignmentCleared, AssignmentFailed, EndAssignment, Without
  <2> QED
    BY <2>1, DoneAccounts, FailAccounts
<1> QED
  BY <1>1, <1>2

LEMMA TickAccounts ==
  ASSUME Tick
  PROVE  Accounts({})
<1> DEFINE X == ExpiredStreams(tick + 1)
<1>1. DOMAIN active_streams' = DOMAIN active_streams \ X
  BY DEF Tick, Without
<1>2. PICK U, L : effects' = <<SendClientError(X), SendClientDone(X),
                               SubscriberRemoved(U), SessionExpired(L)>>
  BY DEF Tick
<1> HIDE DEF X
<1>3. IsQueue(effects')
  <2>1. effects' \in Seq({SendClientError(X), SendClientDone(X),
                          SubscriberRemoved(U), SessionExpired(L)})
    BY <1>2
  <2> QED
    BY <2>1 DEF IsQueue
<1>4. \A i \in DOMAIN effects' : i = 1 \/ i = 2 \/ i = 3 \/ i = 4
  BY <1>2
<1>5. /\ effects'[1] = SendClientError(X) /\ effects'[2] = SendClientDone(X)
      /\ effects'[3] = SubscriberRemoved(U) /\ effects'[4] = SessionExpired(L)
      /\ 2 \in DOMAIN effects'
  BY <1>2
<1>6. /\ effects'[2].type = "SendClientDone" /\ effects'[2].streams = X
      /\ \A i \in DOMAIN effects' : "type" \in DOMAIN effects'[i] /\ effects'[i].type # "DispatchJob"
  BY <1>4, <1>5 DEF SendClientError, SendClientDone, SubscriberRemoved, SessionExpired
<1>7. Dispatched = {}
  BY <1>6 DEF Dispatched
<1>8. X \subseteq TakenStreams
  BY <1>5, <1>6 DEF TakenStreams
<1> QED
  BY <1>1, <1>3, <1>6, <1>7, <1>8 DEF Accounts

LEMMA ResolvedKinds ==
  ASSUME NEW i \in DOMAIN effects', "type" \in DOMAIN effects'[i]
  PROVE  (ResolvedEffect(i).type = "DispatchJob") <=> i \in Dispatched
BY DEF ResolvedEffect, Dispatched, IsClientEffect

\* The task of a transition that dispatches nothing.
LEMMA OtherTask ==
  ASSUME NEW H, Accounts(H), ResolveEffects, Dispatched = {}
  PROVE  /\ tasks \subseteq tasks'
         /\ \A t \in tasks' \ tasks :
              /\ IsQueue(t) /\ t # <<>>
              /\ \A i \in DOMAIN t : t[i].type # "DispatchJob"
<1> DEFINE sending == {i \in DOMAIN effects' : Sends(ResolvedEffect(i))}
<1>1. PICK order \in [1 .. Cardinality(sending) -> sending] :
        tasks' = IF sending = {} THEN tasks
                 ELSE tasks \union {[k \in DOMAIN order |-> ResolvedEffect(order[k])]}
  BY DEF ResolveEffects
<1>2. CASE sending = {}
  BY <1>1, <1>2
<1>3. CASE sending # {}
  <2> DEFINE t == [k \in DOMAIN order |-> ResolvedEffect(order[k])]
  <2>1. Cardinality(sending) \in Nat \ {0}
    <3>1. PICK S : effects' \in Seq(S)
      BY DEF Accounts, IsQueue
    <3>2. IsFiniteSet(1 .. Len(effects')) /\ sending \subseteq 1 .. Len(effects')
      BY <3>1, FS_Interval
    <3>3. IsFiniteSet(sending)
      BY <3>2, FS_Subset
    <3> HIDE DEF sending
    <3> QED
      BY <1>3, <3>3, FS_EmptySet, FS_CardinalityType
  <2>2. \A k \in DOMAIN order : order[k] \in DOMAIN effects'
    BY <1>1
  <2> HIDE DEF sending
  <2>3. /\ DOMAIN t = 1 .. Cardinality(sending)
        /\ \A k \in DOMAIN t : t[k].type # "DispatchJob"
    BY <1>1, <2>2, ResolvedKinds DEF Accounts
  <2>4. t \in Seq({ResolvedEffect(order[k]) : k \in DOMAIN order})
    BY <1>1, <2>1
  <2>5. IsQueue(t) /\ t # <<>>
    BY <2>1, <2>3, <2>4 DEF IsQueue
  <2>6. tasks' = tasks \union {t}
    BY <1>1, <1>3
  <2> HIDE DEF t
  <2> QED
    BY <2>3, <2>5, <2>6
<1> QED
  BY <1>2, <1>3

\* The task of a dispatch that finds both handles.
LEMMA DispatchTask ==
  ASSUME ResolveEffects, DOMAIN effects' = {1}, Dispatched = {1}, CanDispatch(effects'[1])
  PROVE  \E t : /\ tasks' = tasks \union {t}
               /\ IsQueue(t) /\ t # <<>> /\ DOMAIN t = {1}
               /\ t[1].type = "DispatchJob"
               /\ t[1].worker = effects'[1].worker
               /\ t[1].conn = workers[effects'[1].worker]
               /\ t[1].stream = effects'[1].stream
<1> DEFINE e == [type |-> "DispatchJob", worker |-> effects'[1].worker,
                 conn |-> workers[effects'[1].worker], stream |-> effects'[1].stream]
           sending == {i \in DOMAIN effects' : Sends(ResolvedEffect(i))}
<1>1. effects'[1].type = "DispatchJob"
  BY DEF Dispatched
<1>2. ResolvedEffect(1) = e
  BY <1>1 DEF ResolvedEffect, IsClientEffect
<1>3. Sends(ResolvedEffect(1))
  BY <1>2 DEF Sends
<1>4. sending = {1}
  BY <1>3
<1>5. PICK order \in [1 .. Cardinality(sending) -> sending] :
        tasks' = IF sending = {} THEN tasks
                 ELSE tasks \union {[k \in DOMAIN order |-> ResolvedEffect(order[k])]}
  BY DEF ResolveEffects
<1>6. Cardinality(sending) = 1
  BY <1>4, FS_Singleton
<1> HIDE DEF sending
<1>7. DOMAIN order = {1} /\ order[1] = 1
  BY <1>4, <1>5, <1>6
<1> DEFINE t == [k \in {1} |-> e]
<1>8. [k \in DOMAIN order |-> ResolvedEffect(order[k])] = t
  BY <1>2, <1>7
<1>9. tasks' = tasks \union {t}
  BY <1>4, <1>5, <1>8
<1>10. t \in Seq({e}) /\ t # <<>>
  <2> HIDE DEF e
  <2>1. {1} = 1 .. 1
    OBVIOUS
  <2>2. t \in [1 .. 1 -> {e}]
    BY <2>1
  <2> HIDE DEF t
  <2>3. t \in Seq({e}) /\ DOMAIN t # {}
    BY <2>2
  <2> QED
    BY <2>3
<1>11. t[1] = e /\ DOMAIN t = {1}
  OBVIOUS
<1>12. IsQueue(t)
  BY <1>10 DEF IsQueue
<1> HIDE DEF t
<1> QED
  BY <1>9, <1>10, <1>11, <1>12
-----------------------------------------------------------------------------
(* Preservation by the steps of the loop *)

\* The head of the channel drives the kernel: a request with H = {s}, or a
\* message that requests nothing with H = {}.
HeadRequests(H) ==
  \/ H = {} /\ Head(queue).type \notin {"HttpChatRequested", "RegisterWorker", "RegisterStream"}
  \/ \E s \in Stream : H = {s} /\ Head(queue) = ChatRequest(s)

LEMMA HeadIsOther ==
  ASSUME NEW H, HeadRequests(H)
  PROVE  /\ \A c \in Connection : Head(queue) # RegisterWorkerMsg(c)
         /\ \A s \in Stream : Head(queue) # StreamRegistration(s)
         /\ \A s \in Stream : Head(queue) = ChatRequest(s) => H = {s}
BY DEF HeadRequests, RegisterWorkerMsg, StreamRegistration, ChatRequest, StreamMsg

LEMMA ForwardTasks ==
  ASSUME HandsInv, NEW H, HeadRequests(H), TakesOwnOnly(H), Accounts(H), Forward,
         \A i \in Dispatched : CanDispatch(effects'[i])
  PROVE  /\ TasksShape'
         /\ tasks \subseteq tasks'
         /\ \A s \in Stream, t, u \in tasks' \ tasks :
              Dispatching(t, s) => s \in H /\ (Dispatching(u, s) => t = u)
<1>1. /\ ResolveEffects
      /\ DOMAIN workers' = DOMAIN workers \ TakenWorkers /\ issued' = issued
  BY DEF Forward, Without
<1>2. /\ DOMAIN workers \subseteq issued
      /\ \A w \in DOMAIN workers : workers[w] \in Connection
      /\ \A t \in tasks :
           /\ IsQueue(t) /\ t # <<>>
           /\ \A i \in DOMAIN t : t[i].type = "DispatchJob" => IsDispatch(t, i)
      /\ DOMAIN available \subseteq DOMAIN workers
  BY DEF HandsInv, HandInv, OfferInv, TasksShape, JobInv, PoolHasHandles
<1>3. CASE Dispatched = {}
  <2>1. /\ tasks \subseteq tasks'
        /\ \A t \in tasks' \ tasks :
             /\ IsQueue(t) /\ t # <<>>
             /\ \A i \in DOMAIN t : t[i].type # "DispatchJob"
    BY <1>1, <1>3, OtherTask
  <2>2. TasksShape'
    BY <1>1, <1>2, <2>1 DEF TasksShape, IsDispatch
  <2> QED
    BY <2>1, <2>2 DEF Dispatching
<1>4. CASE Dispatched # {}
  <2>1. Dispatched = {1} /\ DOMAIN effects' = {1}
    BY <1>4 DEF Accounts
  <2>2. PICK t :
          /\ tasks' = tasks \union {t}
          /\ IsQueue(t) /\ t # <<>> /\ DOMAIN t = {1}
          /\ t[1].type = "DispatchJob"
          /\ t[1].worker = effects'[1].worker
          /\ t[1].conn = workers[effects'[1].worker]
          /\ t[1].stream = effects'[1].stream
    BY <1>1, <2>1, DispatchTask
  <2>3. /\ effects'[1].worker \in DOMAIN available
        /\ effects'[1].worker \in TakenWorkers
        /\ effects'[1].stream \in H
    BY <2>1 DEF TakesOwnOnly, TakenWorkers
  <2>4. IsDispatch(t, 1)'
    BY <1>1, <1>2, <2>2, <2>3 DEF IsDispatch, HeadRequests
  <2>5. TasksShape'
    BY <1>1, <1>2, <2>2, <2>4 DEF TasksShape, IsDispatch
  <2>6. \A s \in Stream : Dispatching(t, s) => s \in H
    BY <2>2, <2>3 DEF Dispatching
  <2> QED
    BY <2>2, <2>5, <2>6
<1> QED
  BY <1>3, <1>4

LEMMA ForwardHands ==
  ASSUME HandsInv, queue # <<>>, queue' = Tail(queue),
         NEW H, HeadRequests(H), TakesOwnOnly(H), Accounts(H), Forward,
         \A i \in Dispatched : CanDispatch(effects'[i])
  PROVE  HandInv'
<1>1. /\ DOMAIN workers' = DOMAIN workers \ TakenWorkers
      /\ \A w \in DOMAIN workers' : workers'[w] = workers[w]
      /\ streams' = streams \ TakenStreams
      /\ UNCHANGED <<issued, conn, client>>
  BY DEF Forward, adapterVars, Without
<1>2. /\ QueueTyped'
      /\ \A c \in Connection : Left(RegisterWorkerMsg(c))
      /\ \A s \in Stream : Left(StreamRegistration(s)) /\ Left(ChatRequest(s))
  BY LoopQueue DEF HandsInv
<1>3. ConnTyped'
  BY <1>1 DEF HandsInv, HandInv, ConnTyped
<1>4. OfferInv'
  BY <1>1 DEF HandsInv, HandInv, OfferInv
<1>5. RegisterInv'
  BY <1>1, <1>2 DEF HandsInv, HandInv, RegisterInv, Left
<1>6. /\ TasksShape'
      /\ tasks \subseteq tasks'
      /\ \A s \in Stream, t, u \in tasks' \ tasks :
           Dispatching(t, s) => s \in H /\ (Dispatching(u, s) => t = u)
  BY ForwardTasks
<1>7. ASSUME NEW s \in Stream, s \in H
      PROVE  /\ Positions(ChatRequest(s)) # {} /\ Positions(ChatRequest(s))' = {}
             /\ client[s] \in {"streaming", "gone"}
  <2>1. Head(queue) = ChatRequest(s)
    BY <1>7 DEF HeadRequests
  <2>2. 1 \in Positions(ChatRequest(s))
    BY <2>1, TailFacts DEF HandsInv, JobInv, Positions
  <2>3. client[s] \in {"streaming", "gone"}
    BY <2>2 DEF HandsInv, JobInv, RequestInv, RequestsOf, Positions
  <2> QED
    BY <1>2, <2>1, <2>2, <2>3 DEF Left
<1>8. CarrierInv'
  <2> SUFFICES ASSUME NEW s \in Stream
               PROVE  /\ \A c, d \in Connection : conn'[c].job = s /\ conn'[d].job = s => c = d
                      /\ \A t, u \in tasks' : Dispatching(t, s) /\ Dispatching(u, s) => t = u
                      /\ \A c \in Connection, t \in tasks' :
                           ~(conn'[c].job = s /\ Dispatching(t, s))
                      /\ Carried(s)' =>
                           /\ client'[s] \in {"streaming", "ended", "gone"}
                           /\ Positions(ChatRequest(s))' = {}
    BY DEF CarrierInv, Dispatching
  <2>1. /\ \A c, d \in Connection : conn[c].job = s /\ conn[d].job = s => c = d
        /\ \A t, u \in tasks : Dispatching(t, s) /\ Dispatching(u, s) => t = u
        /\ \A c \in Connection, t \in tasks : ~(conn[c].job = s /\ Dispatching(t, s))
        /\ Carried(s) =>
             /\ client[s] \in {"streaming", "ended", "gone"}
             /\ Positions(ChatRequest(s)) = {}
    BY DEF HandsInv, HandInv, CarrierInv
  <2>2. CASE s \in H
    <3>1. ~Carried(s)
      BY <1>7, <2>1, <2>2
    <3> QED
      BY <1>1, <1>6, <1>7, <2>2, <3>1 DEF Carried
  <2>3. CASE s \notin H
    <3>1. \A t \in tasks' : Dispatching(t, s) => t \in tasks
      BY <1>6, <2>3
    <3>2. Carried(s)' => Carried(s)
      BY <1>1, <3>1 DEF Carried, Dispatching
    <3>3. Positions(ChatRequest(s))' # {} => Positions(ChatRequest(s)) # {}
      BY <1>2 DEF Left
    <3> QED
      BY <1>1, <2>1, <3>1, <3>2, <3>3
  <2> QED
    BY <2>2, <2>3
<1>9. StreamInv'
  <2> SUFFICES ASSUME NEW s \in Stream
               PROVE  /\ Once(StreamRegistration(s))'
                      /\ Positions(StreamRegistration(s))' # {} =>
                           client'[s] \in {"registering", "gone"}
                      /\ s \in streams' /\ client'[s] = "streaming" =>
                           Positions(ChatRequest(s))' # {} \/ s \in DOMAIN active_streams'
    BY <1>1 DEF HandsInv, HandInv, StreamInv
  <2>1. /\ Positions(StreamRegistration(s)) # {} => client[s] \in {"registering", "gone"}
        /\ s \in streams /\ client[s] = "streaming" =>
             Positions(ChatRequest(s)) # {} \/ s \in DOMAIN active_streams
    BY DEF HandsInv, HandInv, StreamInv
  <2>2. ASSUME s \in streams', client'[s] = "streaming"
        PROVE  Positions(ChatRequest(s))' # {} \/ s \in DOMAIN active_streams'
    <3>1. s \notin TakenStreams
      BY <1>1, <2>2
    <3>2. CASE s \in DOMAIN active_streams \union H
      BY <3>1, <3>2 DEF Accounts
    <3>3. CASE s \notin DOMAIN active_streams \union H
      <4>1. Positions(ChatRequest(s)) # {}
        BY <1>1, <2>1, <2>2, <3>3
      <4>2. Head(queue) # ChatRequest(s)
        BY <3>3, HeadIsOther
      <4> QED
        BY <1>2, <4>1, <4>2 DEF Left
    <3> QED
      BY <3>2, <3>3
  <2> QED
    BY <1>1, <1>2, <2>1, <2>2 DEF Left
<1> QED
  BY <1>2, <1>3, <1>4, <1>5, <1>6, <1>8, <1>9 DEF HandInv

LEMMA ConnStep ==
  ASSUME ConnTyped, NEW c \in Connection,
         \E next \in Handler : conn' = [conn EXCEPT ![c] = next]
  PROVE  ConnTyped' /\ \A d \in Connection \ {c} : conn'[d] = conn[d]
BY DEF ConnTyped

LEMMA RegisterWorkerHands ==
  ASSUME HandsInv, ProcessRegisterWorker
  PROVE  HandInv'
<1>1. queue # <<>> /\ queue' = Tail(queue) /\ Head(queue).type = "RegisterWorker"
  BY DEF ProcessRegisterWorker, Receive
<1>2. /\ QueueTyped'
      /\ \A c \in Connection : Left(RegisterWorkerMsg(c))
      /\ \A s \in Stream : Left(StreamRegistration(s)) /\ Left(ChatRequest(s))
  BY <1>1, LoopQueue DEF HandsInv
<1>3. PICK c \in Connection : Head(queue) = RegisterWorkerMsg(c)
  BY <1>1, LoopQueue DEF HandsInv
<1>4. Head(queue).conn = c
  BY <1>3 DEF RegisterWorkerMsg
<1>5. PICK w \in Worker \ issued :
        /\ WorkerRegistered(w, Offers[c])
        /\ workers' = Put(workers, w, c)
        /\ issued' = issued \union {w}
        /\ conn' = [conn EXCEPT ![c] = [phase |-> "waiting", worker |-> w, job |-> NoStream]]
        /\ UNCHANGED <<streams, tasks, client>>
  BY <1>4 DEF ProcessRegisterWorker
<1>6. /\ DOMAIN workers' = DOMAIN workers \union {w} /\ workers'[w] = c
      /\ \A v \in DOMAIN workers : v # w => workers'[v] = workers[v]
      /\ active_streams' = active_streams
  BY <1>5 DEF Put, WorkerRegistered, Violation, state
<1>7. /\ conn'[c] = [phase |-> "waiting", worker |-> w, job |-> NoStream]
      /\ \A d \in Connection \ {c} : conn'[d] = conn[d]
  BY <1>5 DEF HandsInv, HandInv, ConnTyped
<1>8. ConnTyped'
  <2>1. [phase |-> "waiting", worker |-> w, job |-> NoStream] \in Handler
    BY DEF Handler
  <2> QED
    BY <1>5, <2>1, ConnStep DEF HandsInv, HandInv
<1>9. conn[c].phase = "registering" /\ Positions(RegisterWorkerMsg(c))' = {}
  <2>1. 1 \in Positions(RegisterWorkerMsg(c))
    BY <1>1, <1>3, TailFacts DEF HandsInv, JobInv, Positions
  <2> QED
    BY <1>2, <1>3, <2>1 DEF HandsInv, HandInv, RegisterInv, Left
<1>10. \A v \in DOMAIN workers : v # w /\ workers[v] # c /\ v \in issued
  BY <1>5, <1>9 DEF HandsInv, HandInv, OfferInv
<1>11. OfferInv'
  <2>1. issued' \subseteq Worker /\ DOMAIN workers' \subseteq issued'
    BY <1>5, <1>6 DEF HandsInv, HandInv, OfferInv
  <2>2. ASSUME NEW v \in DOMAIN workers'
        PROVE  /\ workers'[v] \in Connection
               /\ \/ conn'[workers'[v]].phase = "gone"
                  \/ /\ conn'[workers'[v]].phase = "waiting"
                     /\ conn'[workers'[v]].worker = v /\ conn'[workers'[v]].job = NoStream
    BY <1>6, <1>7, <1>10 DEF HandsInv, HandInv, OfferInv
  <2>3. ASSUME NEW d \in Connection
        PROVE  /\ conn'[d].worker # NoWorker => conn'[d].worker \in issued'
               /\ conn'[d].worker \in DOMAIN workers' => workers'[conn'[d].worker] = d
               /\ conn'[d].phase = "gone" => conn'[d].worker = NoWorker
    <3>1. CASE d = c
      BY <1>5, <1>6, <1>7, <3>1
    <3>2. CASE d # c
      <4>1. conn[d].worker # w
        BY <1>5, NoWorkerAssumption DEF HandsInv, HandInv, OfferInv
      <4> QED
        BY <1>5, <1>6, <1>7, <1>10, <3>2, <4>1 DEF HandsInv, HandInv, OfferInv
    <3> QED
      BY <3>1, <3>2
  <2> QED
    BY <2>1, <2>2, <2>3 DEF OfferInv
<1>12. RegisterInv'
  BY <1>2, <1>7, <1>9 DEF HandsInv, HandInv, RegisterInv, Left
<1>13. TasksShape'
  BY <1>5, <1>6 DEF HandsInv, HandInv, TasksShape, IsDispatch
<1>14. CarrierInv'
  <2>1. \A s \in Stream, d \in Connection : conn'[d].job = s => conn[d].job = s
    BY <1>7, NoStreamAssumption
  <2>2. \A s \in Stream : Positions(ChatRequest(s))' # {} => Positions(ChatRequest(s)) # {}
    BY <1>2 DEF Left
  <2> QED
    BY <1>5, <2>1, <2>2 DEF HandsInv, HandInv, CarrierInv, Carried, Dispatching
<1>15. StreamInv'
  <2>1. \A s \in Stream : Head(queue) # ChatRequest(s) /\ Head(queue) # StreamRegistration(s)
    BY <1>1 DEF ChatRequest, StreamRegistration, StreamMsg
  <2> QED
    BY <1>2, <1>5, <1>6, <2>1 DEF HandsInv, HandInv, StreamInv, Left
<1> QED
  BY <1>2, <1>8, <1>11, <1>12, <1>13, <1>14, <1>15 DEF HandInv

LEMMA RegisterStreamHands ==
  ASSUME HandsInv, ProcessRegisterStream
  PROVE  HandInv'
<1>1. queue # <<>> /\ queue' = Tail(queue) /\ Head(queue).type = "RegisterStream"
  BY DEF ProcessRegisterStream, Receive
<1>2. /\ QueueTyped'
      /\ \A c \in Connection : Left(RegisterWorkerMsg(c))
      /\ \A s \in Stream : Left(StreamRegistration(s)) /\ Left(ChatRequest(s))
  BY <1>1, LoopQueue DEF HandsInv
<1>3. PICK s \in Stream : Head(queue) = StreamRegistration(s)
  BY <1>1, LoopQueue DEF HandsInv
<1>4. Head(queue).stream = s
  BY <1>3 DEF StreamRegistration, StreamMsg
<1>5. /\ streams' = streams \union {s}
      /\ client' = [client EXCEPT ![s] = IF @ = "registering" THEN "registered" ELSE @]
      /\ UNCHANGED <<available, active_streams, workers, issued, tasks, conn>>
  BY <1>4 DEF ProcessRegisterStream, kernelVars, state
<1>6. client[s] \in {"registering", "gone"} /\ Positions(StreamRegistration(s))' = {}
  <2>1. 1 \in Positions(StreamRegistration(s))
    BY <1>1, <1>3, TailFacts DEF HandsInv, JobInv, Positions
  <2> QED
    BY <1>2, <1>3, <2>1 DEF HandsInv, HandInv, StreamInv, Left
<1>7. /\ client'[s] \in {"registered", "gone"}
      /\ \A r \in Stream \ {s} : client'[r] = client[r]
      /\ client'[s] = client[s] \/ client[s] = "registering"
  BY <1>5, <1>6 DEF HandsInv, JobInv
<1>8. ConnTyped' /\ OfferInv' /\ TasksShape'
  BY <1>5 DEF HandsInv, HandInv, ConnTyped, OfferInv, TasksShape, IsDispatch
<1>9. RegisterInv'
  BY <1>2, <1>5 DEF HandsInv, HandInv, RegisterInv, Left
<1>10. CarrierInv'
  <2>1. \A r \in Stream : Positions(ChatRequest(r))' # {} => Positions(ChatRequest(r)) # {}
    BY <1>2 DEF Left
  <2> QED
    BY <1>5, <1>7, <2>1 DEF HandsInv, HandInv, CarrierInv, Carried, Dispatching
<1>11. StreamInv'
  <2>1. \A r \in Stream : Head(queue) # ChatRequest(r)
    BY <1>1 DEF ChatRequest, StreamMsg
  <2> QED
    BY <1>2, <1>5, <1>6, <1>7, <2>1 DEF HandsInv, HandInv, StreamInv, Left
<1> QED
  BY <1>2, <1>8, <1>9, <1>10, <1>11 DEF HandInv

LEMMA ProcessMessageHands ==
  ASSUME HandsInv, ProcessMessage
  PROVE  HandInv'
<1>1. CASE ProcessRegisterWorker
  BY <1>1, RegisterWorkerHands
<1>2. CASE ProcessRegisterStream
  BY <1>2, RegisterStreamHands
<1>3. CASE ProcessChat
  <2> DEFINE s0 == Head(queue).stream
  <2>1. /\ queue # <<>> /\ queue' = Tail(queue) /\ Forward
        /\ Head(queue).type = "HttpChatRequested"
        /\ HttpChatRequested(s0, TRUE, Wants[s0])
    BY <1>3 DEF ProcessChat, Receive
  <2>2. PICK s \in Stream : Head(queue) = ChatRequest(s)
    BY <2>1, DequeueTyped DEF HandsInv, JobInv
  <2>3. s0 = s
    BY <2>2 DEF ChatRequest, StreamMsg
  <2>4. RequestsOf(s) # {}
    BY <2>1, <2>2, TailFacts DEF RequestsOf, HandsInv, JobInv
  <2>5. s \notin DOMAIN active_streams
    BY <2>4 DEF HandsInv, JobInv, RequestInv
  <2>6. TakesOwnOnly({s}) /\ Accounts({s})
    BY <2>1, <2>3, <2>5, ChatTakes, ChatAccounts
  <2> HIDE DEF s0
  <2>7. HeadRequests({s})
    BY <2>2 DEF HeadRequests
  <2>8. \A i \in Dispatched : CanDispatch(effects'[i])
    BY <2>1, <2>2, <2>6, ForwardInv DEF HandsInv
  <2> QED
    BY <2>1, <2>6, <2>7, <2>8, ForwardHands
<1>4. CASE \/ ProcessWorkerHeartbeat \/ ProcessStreamHeartbeat
           \/ ProcessCleared \/ ProcessFailed \/ ProcessTick
  <2>1. /\ queue # <<>> /\ queue' = Tail(queue) /\ Forward
        /\ Head(queue).type \notin {"HttpChatRequested", "RegisterWorker", "RegisterStream"}
    BY <1>4 DEF ProcessWorkerHeartbeat, ProcessStreamHeartbeat, ProcessCleared,
                ProcessFailed, ProcessTick, Receive
  <2>2. TakesOwnOnly({}) /\ Accounts({})
    BY <1>4, HeartbeatTakes, EndTakes, TickTakes, HeartbeatAccounts, EndAccounts, TickAccounts
       DEF ProcessWorkerHeartbeat, ProcessStreamHeartbeat, ProcessCleared,
           ProcessFailed, ProcessTick
  <2>3. HeadRequests({})
    BY <2>1 DEF HeadRequests
  <2>4. \A i \in Dispatched : CanDispatch(effects'[i])
    BY <2>1, <2>2, ForwardInv DEF HandsInv
  <2> QED
    BY <2>1, <2>2, <2>3, <2>4, ForwardHands
<1> QED
  BY <1>1, <1>2, <1>3, <1>4 DEF ProcessMessage
-----------------------------------------------------------------------------
(* Preservation by everybody else *)

Quiet(m) == m.type \notin {"HttpChatRequested", "RegisterWorker", "RegisterStream"}

SameMessages ==
  /\ \A c \in Connection : Positions(RegisterWorkerMsg(c))' = Positions(RegisterWorkerMsg(c))
  /\ \A s \in Stream :
       /\ Positions(StreamRegistration(s))' = Positions(StreamRegistration(s))
       /\ Positions(ChatRequest(s))' = Positions(ChatRequest(s))

LEMMA EnqueueTyped ==
  ASSUME IsQueue(queue), QueueTyped, NEW m, Enqueue(m),
         m.type = "RegisterWorker" => \E c \in Connection : m = RegisterWorkerMsg(c),
         m.type = "RegisterStream" => \E s \in Stream : m = StreamRegistration(s)
  PROVE  QueueTyped'
<1>1. /\ DOMAIN queue' = DOMAIN queue \union {Len(queue) + 1}
      /\ \A i \in DOMAIN queue : queue'[i] = queue[i]
      /\ queue'[Len(queue) + 1] = m
  BY AppendFacts DEF Enqueue
<1> QED
  BY <1>1 DEF QueueTyped, RegisterWorkerMsg, StreamRegistration, StreamMsg

LEMMA QuietQueue ==
  ASSUME IsQueue(queue), QueueTyped,
         queue' = queue \/ \E m : Enqueue(m) /\ Quiet(m)
  PROVE  QueueTyped' /\ SameMessages
<1>1. CASE queue' = queue
  BY <1>1 DEF QueueTyped, SameMessages, Positions
<1>2. CASE \E m : Enqueue(m) /\ Quiet(m)
  <2>1. PICK m : Enqueue(m) /\ Quiet(m)
    BY <1>2
  <2>2. QueueTyped'
    BY <2>1, EnqueueTyped DEF Quiet
  <2>3. /\ \A c \in Connection : m # RegisterWorkerMsg(c)
        /\ \A s \in Stream : m # StreamRegistration(s) /\ m # ChatRequest(s)
    BY <2>1 DEF Quiet, RegisterWorkerMsg, StreamRegistration, ChatRequest, StreamMsg
  <2>4. ASSUME NEW n, n # m
        PROVE  Positions(n)' = Positions(n)
    BY <2>1, <2>4, EnqueuePositions
  <2>5. ASSUME NEW c \in Connection
        PROVE  Positions(RegisterWorkerMsg(c))' = Positions(RegisterWorkerMsg(c))
    BY <2>3, <2>4
  <2>6. ASSUME NEW s \in Stream
        PROVE  /\ Positions(StreamRegistration(s))' = Positions(StreamRegistration(s))
               /\ Positions(ChatRequest(s))' = Positions(ChatRequest(s))
    BY <2>3, <2>4
  <2> QED
    BY <2>2, <2>5, <2>6 DEF SameMessages
<1> QED
  BY <1>1, <1>2

\* A step that only sends a message the invariant does not count.
LEMMA BystanderHands ==
  ASSUME HandsInv,
         UNCHANGED <<active_streams, workers, streams, issued, tasks, conn, client>>,
         queue' = queue \/ \E m : Enqueue(m) /\ Quiet(m)
  PROVE  HandInv'
<1>1. QueueTyped' /\ SameMessages
  BY QuietQueue DEF HandsInv, HandInv, JobInv
<1>2. ConnTyped' /\ OfferInv' /\ TasksShape'
  BY DEF HandsInv, HandInv, ConnTyped, OfferInv, TasksShape, IsDispatch
<1>3. RegisterInv'
  BY <1>1 DEF HandsInv, HandInv, RegisterInv, SameMessages, Once
<1>4. CarrierInv'
  BY <1>1 DEF HandsInv, HandInv, CarrierInv, Carried, Dispatching, SameMessages
<1>5. StreamInv'
  BY <1>1 DEF HandsInv, HandInv, StreamInv, SameMessages, Once
<1> QED
  BY <1>1, <1>2, <1>3, <1>4, <1>5 DEF HandInv

\* What is left of a task that has executed its first effect.
LEMMA ExecutedFacts ==
  ASSUME TasksShape, NEW t \in tasks, tasks' = Executed(t),
         UNCHANGED <<issued, workers>>
  PROVE  /\ TasksShape'
         /\ \A s, u : u \in tasks' /\ Dispatching(u, s) => u \in tasks
         /\ Head(t).type = "DispatchJob" => tasks' = tasks \ {t} /\ Head(t) = t[1]
<1>1. /\ IsQueue(t) /\ t # <<>>
      /\ \A i \in DOMAIN t : t[i].type = "DispatchJob" => IsDispatch(t, i)
  BY DEF TasksShape
<1>2. PICK S : t \in Seq(S)
  BY <1>1 DEF IsQueue
<1>3. CASE Len(t) = 1
  <2>1. tasks' = tasks \ {t}
    BY <1>3 DEF Executed
  <2> QED
    BY <1>1, <1>2, <2>1 DEF TasksShape, IsDispatch
<1>4. CASE Len(t) # 1
  <2>1. tasks' = (tasks \ {t}) \union {Tail(t)}
    BY <1>4 DEF Executed
  <2>2. \A i \in DOMAIN t : t[i].type # "DispatchJob"
    BY <1>1, <1>2, <1>4 DEF IsDispatch
  <2>3. /\ IsQueue(Tail(t)) /\ Tail(t) # <<>>
        /\ \A i \in DOMAIN Tail(t) : Tail(t)[i].type # "DispatchJob"
    <3>1. Tail(t) \in Seq(S) /\ Tail(t) # <<>>
      <4>1. t \in [1 .. Len(t) -> S] /\ Len(t) \in Nat
        BY <1>2
      <4>2. Len(t) # 0
        BY <1>1, <1>2
      <4>3. \A n \in Nat : n # 0 /\ n # 1 => 1 \in 1 .. n - 1
        OBVIOUS
      <4>4. 1 \in 1 .. Len(t) - 1
        BY <1>4, <4>1, <4>2, <4>3
      <4>5. Tail(t) \in Seq(S) /\ DOMAIN Tail(t) = 1 .. Len(t) - 1
        BY <1>1, <1>2
      <4>6. \A q : 1 \in DOMAIN q => q # <<>>
        OBVIOUS
      <4>7. Tail(t) # <<>>
        BY <4>4, <4>5, <4>6
      <4> QED
        BY <4>5, <4>7
    <3>2. \A i \in DOMAIN Tail(t) : i + 1 \in DOMAIN t /\ Tail(t)[i] = t[i + 1]
      BY <1>2, <3>1
    <3>3. IsQueue(Tail(t))
      BY <3>1 DEF IsQueue
    <3> QED
      BY <2>2, <3>1, <3>2, <3>3
  <2>4. TasksShape'
    BY <2>1, <2>3 DEF TasksShape, IsDispatch
  <2>5. Head(t).type # "DispatchJob"
    BY <1>1, <1>2, <2>2
  <2> QED
    BY <2>1, <2>3, <2>4, <2>5 DEF Dispatching
<1> QED
  BY <1>3, <1>4

\* The oneshot of a handler that listens has left the registry, so no other id
\* offers it; and the job it is given is in nobody's hands but the task's.
LEMMA DeliverHands ==
  ASSUME HandsInv, NEW t \in tasks, Head(t).type = "DispatchJob",
         Listening(Head(t).conn, Head(t).worker),
         conn' = [conn EXCEPT ![Head(t).conn].job = Head(t).stream],
         tasks' = Executed(t),
         UNCHANGED <<active_streams, workers, streams, issued, client, queue>>
  PROVE  HandInv'
<1>1. /\ TasksShape'
      /\ \A s, u : u \in tasks' /\ Dispatching(u, s) => u \in tasks
      /\ tasks' = tasks \ {t} /\ Head(t) = t[1]
  BY ExecutedFacts DEF HandsInv, HandInv
<1>2. /\ 1 \in DOMAIN t /\ t[1].type = "DispatchJob" /\ IsDispatch(t, 1)
  <2>1. IsQueue(t) /\ t # <<>>
    BY DEF HandsInv, HandInv, TasksShape
  <2>2. 1 \in DOMAIN t
    BY <2>1, TailFacts
  <2> QED
    BY <1>1, <2>2 DEF HandsInv, HandInv, TasksShape
<1> DEFINE c == t[1].conn
           s == t[1].stream
<1>3. /\ c \in Connection /\ s \in Stream /\ Dispatching(t, s)
      /\ conn[c].phase = "waiting" /\ conn[c].worker \notin DOMAIN workers
      /\ conn' = [conn EXCEPT ![c].job = s]
  BY <1>1, <1>2 DEF IsDispatch, Listening, Dispatching
<1> HIDE DEF c, s
<1>4. ConnTyped /\ conn[c] \in Handler
  BY <1>3 DEF HandsInv, HandInv, ConnTyped
<1>5. /\ conn'[c] = [conn[c] EXCEPT !.job = s]
      /\ \A d \in Connection \ {c} : conn'[d] = conn[d]
  BY <1>3, <1>4 DEF ConnTyped
<1>6. /\ conn'[c].phase = conn[c].phase /\ conn'[c].worker = conn[c].worker
      /\ conn'[c].job = s /\ conn'[c] \in Handler
  BY <1>3, <1>4, <1>5 DEF Handler
<1>7. ConnTyped'
  BY <1>3, <1>4, <1>6 DEF ConnTyped
<1>8. QueueTyped' /\ SameMessages
  BY QuietQueue DEF HandsInv, HandInv, JobInv
<1>9. OfferInv'
  <2>1. \A w \in DOMAIN workers : workers[w] # c
    BY <1>3 DEF HandsInv, HandInv, OfferInv
  <2>2. ASSUME NEW w \in DOMAIN workers
        PROVE  /\ workers[w] \in Connection
               /\ \/ conn'[workers[w]].phase = "gone"
                  \/ /\ conn'[workers[w]].phase = "waiting"
                     /\ conn'[workers[w]].worker = w /\ conn'[workers[w]].job = NoStream
    <3>1. /\ workers[w] \in Connection \ {c}
          /\ \/ conn[workers[w]].phase = "gone"
             \/ /\ conn[workers[w]].phase = "waiting"
                /\ conn[workers[w]].worker = w /\ conn[workers[w]].job = NoStream
      BY <2>1 DEF HandsInv, HandInv, OfferInv
    <3>2. conn'[workers[w]] = conn[workers[w]]
      BY <1>5, <3>1
    <3> QED
      BY <3>1, <3>2
  <2>3. ASSUME NEW d \in Connection
        PROVE  conn'[d].worker = conn[d].worker /\ conn'[d].phase = conn[d].phase
    BY <1>5, <1>6
  <2> QED
    BY <2>2, <2>3, SMTT(30) DEF HandsInv, HandInv, OfferInv
<1>10. RegisterInv'
  BY <1>5, <1>6, <1>8 DEF HandsInv, HandInv, RegisterInv, SameMessages, Once
<1>11. CarrierInv'
  <2> SUFFICES ASSUME NEW r \in Stream
               PROVE  /\ \A d, e \in Connection : conn'[d].job = r /\ conn'[e].job = r => d = e
                      /\ \A u, v \in tasks' : Dispatching(u, r) /\ Dispatching(v, r) => u = v
                      /\ \A d \in Connection, u \in tasks' :
                           ~(conn'[d].job = r /\ Dispatching(u, r))
                      /\ Carried(r)' =>
                           /\ client[r] \in {"streaming", "ended", "gone"}
                           /\ Positions(ChatRequest(r))' = {}
    BY DEF CarrierInv, Dispatching
  <2>1. /\ \A d, e \in Connection : conn[d].job = r /\ conn[e].job = r => d = e
        /\ \A u, v \in tasks : Dispatching(u, r) /\ Dispatching(v, r) => u = v
        /\ \A d \in Connection, u \in tasks : ~(conn[d].job = r /\ Dispatching(u, r))
        /\ Carried(r) =>
             /\ client[r] \in {"streaming", "ended", "gone"}
             /\ Positions(ChatRequest(r)) = {}
    BY DEF HandsInv, HandInv, CarrierInv
  <2>2. Positions(ChatRequest(r))' = Positions(ChatRequest(r))
    BY <1>8 DEF SameMessages
  <2>3. CASE r = s
    <3>1. Carried(r)
      BY <1>3, <2>3 DEF Carried
    <3>2. \A d \in Connection : conn[d].job # r
      BY <1>3, <2>1, <2>3
    <3>3. \A u \in tasks' : ~Dispatching(u, r)
      BY <1>1, <1>3, <2>1, <2>3
    <3> QED
      BY <1>5, <2>1, <2>2, <3>1, <3>2, <3>3
  <2>4. CASE r # s
    <3>1. \A d \in Connection : conn'[d].job = r => conn[d].job = r
      BY <1>5, <1>6, <2>4
    <3>2. Carried(r)' => Carried(r)
      BY <1>1, <3>1 DEF Carried, Dispatching
    <3> QED
      BY <1>1, <2>1, <2>2, <3>1, <3>2
  <2> QED
    BY <2>3, <2>4
<1>12. StreamInv'
  BY <1>8 DEF HandsInv, HandInv, StreamInv, SameMessages, Once
<1> QED
  BY <1>1, <1>7, <1>8, <1>9, <1>10, <1>11, <1>12 DEF HandInv

LEMMA ExecuteEffectHands ==
  ASSUME HandsInv, ExecuteEffect
  PROVE  HandInv'
<1>1. PICK t \in tasks :
        /\ DeliverJob(t) \/ SendFrames(t)
        /\ tasks' = Executed(t)
        /\ UNCHANGED <<active_streams, workers, streams, issued, client>>
  BY DEF ExecuteEffect, kernelVars, state
<1>2. CASE /\ Head(t).type = "DispatchJob" /\ Listening(Head(t).conn, Head(t).worker)
           /\ conn' = [conn EXCEPT ![Head(t).conn].job = Head(t).stream]
           /\ UNCHANGED queue
  BY <1>1, <1>2, DeliverHands
<1>3. CASE UNCHANGED conn /\ (queue' = queue \/ \E m : Enqueue(m) /\ Quiet(m))
  <2>1. TasksShape' /\ \A s, u : u \in tasks' /\ Dispatching(u, s) => u \in tasks
    BY <1>1, ExecutedFacts DEF HandsInv, HandInv
  <2>2. QueueTyped' /\ SameMessages
    BY <1>3, QuietQueue DEF HandsInv, HandInv, JobInv
  <2>3. ConnTyped' /\ OfferInv'
    BY <1>1, <1>3 DEF HandsInv, HandInv, ConnTyped, OfferInv
  <2>4. RegisterInv'
    BY <1>3, <2>2 DEF HandsInv, HandInv, RegisterInv, SameMessages, Once
  <2>5. CarrierInv'
    <3>1. \A s \in Stream : Carried(s)' => Carried(s)
      BY <1>3, <2>1 DEF Carried, Dispatching
    <3> QED
      BY <1>1, <1>3, <2>1, <2>2, <3>1
         DEF HandsInv, HandInv, CarrierInv, Dispatching, SameMessages
  <2>6. StreamInv'
    BY <1>1, <2>2 DEF HandsInv, HandInv, StreamInv, SameMessages, Once
  <2> QED
    BY <2>1, <2>2, <2>3, <2>4, <2>5, <2>6 DEF HandInv
<1>4. CASE DeliverJob(t)
  BY <1>2, <1>3, <1>4 DEF DeliverJob, Quiet, StreamMsg
<1>5. CASE SendFrames(t)
  BY <1>3, <1>5 DEF SendFrames
<1> QED
  BY <1>1, <1>4, <1>5

\* The steps of a handler that change its phase: what it holds stays with it or
\* is let go, and nothing offers it unless it waits.
LEMMA PhaseHands ==
  ASSUME HandsInv, NEW c \in Connection, NEW next \in Handler,
         conn' = [conn EXCEPT ![c] = next],
         next.job \in {conn[c].job, NoStream},
         next.worker \in {conn[c].worker, NoWorker},
         next.phase = "gone" => next.worker = NoWorker,
         conn[c].phase # "registering",
         next.phase = "gone" \/ \A w \in DOMAIN workers : workers[w] # c,
         UNCHANGED <<active_streams, workers, streams, issued, tasks, client>>,
         \/ queue' = queue
         \/ \E m : Enqueue(m) /\ Quiet(m)
         \/ next.phase = "registering" /\ Enqueue(RegisterWorkerMsg(c))
  PROVE  HandInv'
<1>1. /\ ConnTyped' /\ conn'[c] = next
      /\ \A d \in Connection \ {c} : conn'[d] = conn[d]
  BY ConnStep DEF HandsInv, HandInv, ConnTyped
<1>2. Positions(RegisterWorkerMsg(c)) = {}
  BY DEF HandsInv, HandInv, RegisterInv
<1>3. /\ QueueTyped'
      /\ \A d \in Connection \ {c} :
           Positions(RegisterWorkerMsg(d))' = Positions(RegisterWorkerMsg(d))
      /\ Once(RegisterWorkerMsg(c))'
      /\ Positions(RegisterWorkerMsg(c))' # {} => next.phase = "registering"
      /\ \A s \in Stream :
           /\ Positions(StreamRegistration(s))' = Positions(StreamRegistration(s))
           /\ Positions(ChatRequest(s))' = Positions(ChatRequest(s))
  <2>1. CASE queue' = queue \/ \E m : Enqueue(m) /\ Quiet(m)
    <3>1. QueueTyped' /\ SameMessages
      BY <2>1, QuietQueue DEF HandsInv, HandInv, JobInv
    <3> QED
      BY <1>2, <3>1 DEF SameMessages, Once
  <2>2. CASE next.phase = "registering" /\ Enqueue(RegisterWorkerMsg(c))
    <3> DEFINE m == RegisterWorkerMsg(c)
    <3>1. IsQueue(queue) /\ QueueTyped
      BY DEF HandsInv, HandInv, JobInv
    <3>2. /\ \A d \in Connection \ {c} : RegisterWorkerMsg(d) # m
          /\ \A s \in Stream : StreamRegistration(s) # m /\ ChatRequest(s) # m
          /\ m.type = "RegisterWorker"
      BY DEF RegisterWorkerMsg, StreamRegistration, ChatRequest, StreamMsg
    <3>3. m.type = "RegisterWorker" => \E d \in Connection : m = RegisterWorkerMsg(d)
      OBVIOUS
    <3>4. Positions(m) = {} /\ Enqueue(m)
      BY <1>2, <2>2
    <3> HIDE DEF m
    <3>5. QueueTyped'
      BY <3>1, <3>2, <3>3, <3>4, EnqueueTyped
    <3>6. Once(m)'
      BY <3>1, <3>4, EnqueuePositions
    <3>7. ASSUME NEW n, n # m
          PROVE  Positions(n)' = Positions(n)
      BY <3>1, <3>4, <3>7, EnqueuePositions
    <3>8. ASSUME NEW d \in Connection \ {c}
          PROVE  Positions(RegisterWorkerMsg(d))' = Positions(RegisterWorkerMsg(d))
      BY <3>2, <3>7
    <3>9. ASSUME NEW s \in Stream
          PROVE  /\ Positions(StreamRegistration(s))' = Positions(StreamRegistration(s))
                 /\ Positions(ChatRequest(s))' = Positions(ChatRequest(s))
      BY <3>2, <3>7
    <3> QED
      BY <2>2, <3>5, <3>6, <3>8, <3>9 DEF m
  <2> QED
    BY <2>1, <2>2
<1>4. OfferInv'
  <2>1. ASSUME NEW w \in DOMAIN workers
        PROVE  /\ workers[w] \in Connection
               /\ \/ conn'[workers[w]].phase = "gone"
                  \/ /\ conn'[workers[w]].phase = "waiting"
                     /\ conn'[workers[w]].worker = w /\ conn'[workers[w]].job = NoStream
    BY <1>1 DEF HandsInv, HandInv, OfferInv
  <2>2. ASSUME NEW d \in Connection
        PROVE  /\ conn'[d].worker # NoWorker => conn'[d].worker \in issued
               /\ conn'[d].worker \in DOMAIN workers => workers[conn'[d].worker] = d
               /\ conn'[d].phase = "gone" => conn'[d].worker = NoWorker
    <3>1. NoWorker \notin DOMAIN workers
      BY NoWorkerAssumption DEF HandsInv, HandInv, OfferInv
    <3> QED
      BY <1>1, <3>1 DEF HandsInv, HandInv, OfferInv
  <2> QED
    BY <2>1, <2>2 DEF HandsInv, HandInv, OfferInv
<1>5. RegisterInv'
  BY <1>1, <1>3 DEF HandsInv, HandInv, RegisterInv, Once
<1>6. TasksShape'
  BY DEF HandsInv, HandInv, TasksShape, IsDispatch
<1>7. CarrierInv'
  <2>1. \A s \in Stream, d \in Connection : conn'[d].job = s => conn[d].job = s
    BY <1>1, NoStreamAssumption
  <2> QED
    BY <1>3, <2>1 DEF HandsInv, HandInv, CarrierInv, Carried, Dispatching
<1>8. StreamInv'
  BY <1>3 DEF HandsInv, HandInv, StreamInv, Once
<1> QED
  BY <1>1, <1>3, <1>4, <1>5, <1>6, <1>7, <1>8 DEF HandInv

LEMMA WorkerHandlerHands ==
  ASSUME HandsInv, NEW c \in Connection, WorkerHandler(c)
  PROVE  HandInv'
<1>1. UNCHANGED <<active_streams, workers, streams, issued, tasks, client>>
  BY DEF WorkerHandler, Register, IdleHeartbeat, Disconnect, TakeJob, RelayHeartbeat,
         RelayOutcome, WorkerEnd, WorkerError, WorkerDisconnected, ClientGone, Outcome,
         Adapter, kernelVars, state, adapterVars
<1>2. conn[c] \in Handler
  BY DEF HandsInv, HandInv, ConnTyped
<1>3. \A w \in DOMAIN workers :
        workers[w] = c =>
          \/ conn[c].phase = "gone"
          \/ conn[c].phase = "waiting" /\ conn[c].job = NoStream
  BY DEF HandsInv, HandInv, OfferInv
<1>4. CASE Register(c)
  <2> DEFINE next == [conn[c] EXCEPT !.phase = "registering"]
  <2>1. /\ conn[c].phase \in {"off", "ended"} /\ Enqueue(RegisterWorkerMsg(c))
        /\ conn' = [conn EXCEPT ![c] = next]
    BY <1>4 DEF Register, Step
  <2>2. /\ next \in Handler /\ next.phase = "registering"
        /\ next.job = conn[c].job /\ next.worker = conn[c].worker
    BY <1>2 DEF Handler
  <2> HIDE DEF next
  <2> QED
    BY <1>1, <1>3, <2>1, <2>2, PhaseHands
<1>5. CASE TakeJob(c)
  <2> DEFINE next == [conn[c] EXCEPT !.phase = "relaying"]
  <2>1. /\ conn[c].phase = "waiting" /\ conn[c].job # NoStream /\ queue' = queue
        /\ conn' = [conn EXCEPT ![c] = next]
    BY <1>5 DEF TakeJob, Step
  <2>2. /\ next \in Handler /\ next.phase = "relaying"
        /\ next.job = conn[c].job /\ next.worker = conn[c].worker
    BY <1>2 DEF Handler
  <2> HIDE DEF next
  <2> QED
    BY <1>1, <1>3, <2>1, <2>2, PhaseHands
<1>6. CASE ClientGone(c) \/ WorkerEnd(c) \/ WorkerError(c)
  <2> DEFINE next == [conn[c] EXCEPT !.phase = "ended"]
  <2>1. /\ conn[c].phase = "relaying"
        /\ conn' = [conn EXCEPT ![c] = next]
        /\ queue' = queue \/ \E m : Enqueue(m) /\ Quiet(m)
    BY <1>6 DEF ClientGone, WorkerEnd, WorkerError, Outcome, Step, Quiet, StreamMsg
  <2>2. /\ next \in Handler /\ next.phase = "ended"
        /\ next.job = conn[c].job /\ next.worker = conn[c].worker
    BY <1>2 DEF Handler
  <2> HIDE DEF next
  <2> QED
    BY <1>1, <1>3, <2>1, <2>2, PhaseHands
<1>7. CASE Disconnect(c) \/ WorkerDisconnected(c)
  <2>1. /\ conn[c].phase \in {"waiting", "relaying"}
        /\ conn' = [conn EXCEPT ![c] = Gone]
        /\ queue' = queue \/ \E m : Enqueue(m) /\ Quiet(m)
    BY <1>7 DEF Disconnect, WorkerDisconnected, Outcome, Quiet, StreamMsg
  <2>2. /\ Gone \in Handler /\ Gone.phase = "gone"
        /\ Gone.job = NoStream /\ Gone.worker = NoWorker
    BY DEF Handler, Gone
  <2> HIDE DEF Gone
  <2> QED
    BY <1>1, <2>1, <2>2, PhaseHands
<1>8. CASE IdleHeartbeat(c) \/ RelayHeartbeat(c)
  <2>1. conn' = conn /\ \E m : Enqueue(m) /\ Quiet(m)
    BY <1>8 DEF IdleHeartbeat, RelayHeartbeat, adapterVars, Quiet, WorkerHeartbeatMsg, StreamMsg
  <2> QED
    BY <1>1, <2>1, BystanderHands
<1> QED
  BY <1>4, <1>5, <1>6, <1>7, <1>8 DEF WorkerHandler, RelayOutcome

LEMMA ClientHandlerHands ==
  ASSUME HandsInv, NEW s \in Stream, ClientHandler(s)
  PROVE  HandInv'
<1>1. /\ UNCHANGED <<active_streams, workers, streams, issued, tasks, conn>>
      /\ \A r \in Stream \ {s} : client'[r] = client[r]
  BY DEF ClientHandler, OpenStream, RequestChat, LeaveStream, EndStream, Adapter,
         kernelVars, state, HandsInv, JobInv
<1>2. ConnTyped' /\ OfferInv' /\ TasksShape'
  BY <1>1 DEF HandsInv, HandInv, ConnTyped, OfferInv, TasksShape, IsDispatch
<1>3. IsQueue(queue) /\ QueueTyped
  BY DEF HandsInv, HandInv, JobInv
<1>4. /\ Positions(StreamRegistration(s)) # {} => client[s] \in {"registering", "gone"}
      /\ Carried(s) => client[s] \in {"streaming", "ended", "gone"}
      /\ client \in [Stream -> ClientPhase]
  BY DEF HandsInv, HandInv, StreamInv, CarrierInv, JobInv
<1>5. \A r \in Stream : Carried(r)' <=> Carried(r)
  BY <1>1 DEF Carried, Dispatching
<1>6. CASE OpenStream(s)
  <2> DEFINE m == StreamRegistration(s)
  <2>1. client[s] = "new" /\ Enqueue(m) /\ client'[s] = "registering"
    BY <1>4, <1>6 DEF OpenStream, StreamRegistration
  <2>2. /\ \A c \in Connection : RegisterWorkerMsg(c) # m
        /\ \A r \in Stream \ {s} : StreamRegistration(r) # m
        /\ \A r \in Stream : ChatRequest(r) # m
        /\ m.type = "RegisterStream"
    BY DEF RegisterWorkerMsg, StreamRegistration, ChatRequest, StreamMsg
  <2>3. /\ Positions(m) = {}
        /\ m.type = "RegisterStream" => \E r \in Stream : m = StreamRegistration(r)
    BY <1>4, <2>1
  <2> HIDE DEF m
  <2>4. QueueTyped' /\ Once(m)'
    BY <1>3, <2>1, <2>2, <2>3, EnqueueTyped, EnqueuePositions
  <2>5. ASSUME NEW n, n # m
        PROVE  Positions(n)' = Positions(n)
    BY <1>3, <2>1, <2>5, EnqueuePositions
  <2>6. RegisterInv'
    <3>1. ASSUME NEW c \in Connection
          PROVE  Positions(RegisterWorkerMsg(c))' = Positions(RegisterWorkerMsg(c))
      BY <2>2, <2>5
    <3> QED
      BY <1>1, <3>1 DEF HandsInv, HandInv, RegisterInv, Once
  <2>7. ASSUME NEW r \in Stream
        PROVE  Positions(ChatRequest(r))' = Positions(ChatRequest(r))
    BY <2>2, <2>5
  <2>8. CarrierInv'
    BY <1>1, <1>4, <1>5, <2>1, <2>7 DEF HandsInv, HandInv, CarrierInv, Dispatching
  <2>9. StreamInv'
    <3>1. ASSUME NEW r \in Stream \ {s}
          PROVE  Positions(StreamRegistration(r))' = Positions(StreamRegistration(r))
      BY <2>2, <2>5
    <3>2. Once(StreamRegistration(s))'
      BY <2>4 DEF m
    <3> QED
      BY <1>1, <2>1, <2>7, <3>1, <3>2 DEF HandsInv, HandInv, StreamInv, Once
  <2> QED
    BY <1>2, <2>4, <2>6, <2>8, <2>9 DEF HandInv
<1>7. CASE RequestChat(s)
  <2> DEFINE m == ChatRequest(s)
  <2>1. client[s] = "registered" /\ Enqueue(m) /\ client'[s] = "streaming"
    BY <1>4, <1>7 DEF RequestChat, ChatRequest
  <2>2. /\ \A c \in Connection : RegisterWorkerMsg(c) # m
        /\ \A r \in Stream : StreamRegistration(r) # m
        /\ \A r \in Stream \ {s} : ChatRequest(r) # m
        /\ m.type = "HttpChatRequested"
    BY DEF RegisterWorkerMsg, StreamRegistration, ChatRequest, StreamMsg
  <2> HIDE DEF m
  <2>3. QueueTyped' /\ Positions(m)' # {}
    BY <1>3, <2>1, <2>2, EnqueueTyped, EnqueuePositions
  <2>4. ASSUME NEW n, n # m
        PROVE  Positions(n)' = Positions(n)
    BY <1>3, <2>1, <2>4, EnqueuePositions
  <2>5. RegisterInv'
    <3>1. ASSUME NEW c \in Connection
          PROVE  Positions(RegisterWorkerMsg(c))' = Positions(RegisterWorkerMsg(c))
      BY <2>2, <2>4
    <3> QED
      BY <1>1, <3>1 DEF HandsInv, HandInv, RegisterInv, Once
  <2>6. ASSUME NEW r \in Stream \ {s}
        PROVE  Positions(ChatRequest(r))' = Positions(ChatRequest(r))
    BY <2>2, <2>4
  <2>7. CarrierInv'
    BY <1>1, <1>4, <1>5, <2>1, <2>6 DEF HandsInv, HandInv, CarrierInv, Dispatching
  <2>8. StreamInv'
    <3>1. ASSUME NEW r \in Stream
          PROVE  Positions(StreamRegistration(r))' = Positions(StreamRegistration(r))
      BY <2>2, <2>4
    <3>2. Positions(ChatRequest(s))' # {}
      BY <2>3 DEF m
    <3>3. Positions(StreamRegistration(s)) = {}
      BY <1>4, <2>1
    <3> QED
      BY <1>1, <2>1, <2>6, <3>1, <3>2, <3>3 DEF HandsInv, HandInv, StreamInv, Once
  <2> QED
    BY <1>2, <2>3, <2>5, <2>7, <2>8 DEF HandInv
<1>8. CASE LeaveStream(s) \/ EndStream(s)
  <2>1. /\ queue' = queue
        /\ \/ client'[s] = "gone"
           \/ client[s] = "streaming" /\ client'[s] = "ended"
    BY <1>4, <1>8 DEF LeaveStream, EndStream
  <2>2. QueueTyped' /\ SameMessages
    BY <1>3, <2>1, QuietQueue
  <2>3. RegisterInv'
    BY <1>1, <2>2 DEF HandsInv, HandInv, RegisterInv, SameMessages, Once
  <2>4. CarrierInv'
    BY <1>1, <1>5, <2>1, <2>2 DEF HandsInv, HandInv, CarrierInv, Dispatching, SameMessages
  <2>5. StreamInv'
    BY <1>1, <1>4, <2>1, <2>2 DEF HandsInv, HandInv, StreamInv, SameMessages, Once
  <2> QED
    BY <1>2, <2>2, <2>3, <2>4, <2>5 DEF HandInv
<1> QED
  BY <1>6, <1>7, <1>8 DEF ClientHandler
-----------------------------------------------------------------------------
(* The theorems *)

LEMMA JobInitHands == JobInit => HandsInv
<1> SUFFICES ASSUME JobInit PROVE HandsInv
  OBVIOUS
<1>1. /\ DOMAIN workers = {} /\ issued = {} /\ tasks = {} /\ DOMAIN queue = {}
      /\ streams = {}
      /\ conn = [c \in Connection |-> [phase |-> "off", worker |-> NoWorker, job |-> NoStream]]
  BY DEF JobInit, EmptyMap
<1>2. [phase |-> "off", worker |-> NoWorker, job |-> NoStream] \in Handler
  BY DEF Handler
<1>3. ConnTyped
  BY <1>1, <1>2 DEF ConnTyped
<1>4. \A c \in Connection :
        conn[c].phase = "off" /\ conn[c].worker = NoWorker /\ conn[c].job = NoStream
  BY <1>1
<1>5. \A m : Positions(m) = {}
  BY <1>1 DEF Positions
<1>6. QueueTyped /\ TasksShape
  BY <1>1 DEF QueueTyped, TasksShape
<1>7. OfferInv
  BY <1>1, <1>4 DEF OfferInv
<1>8. RegisterInv
  BY <1>5 DEF RegisterInv, Once
<1>9. CarrierInv
  BY <1>1, <1>4, NoStreamAssumption DEF CarrierInv, Carried
<1>10. StreamInv
  BY <1>1, <1>5 DEF StreamInv, Once
<1>11. JobInv
  BY JobInitInv
<1> QED
  BY <1>3, <1>6, <1>7, <1>8, <1>9, <1>10, <1>11 DEF HandsInv, HandInv

LEMMA JobNextHands ==
  ASSUME HandsInv, [JobNext]_vars
  PROVE  HandsInv'
<1>1. JobInv'
  BY JobNextInv DEF HandsInv
<1>2. HandInv'
  <2>1. CASE ProcessMessage
    BY <2>1, ProcessMessageHands
  <2>2. CASE TickTask
    <3>1. /\ UNCHANGED <<active_streams, workers, streams, issued, tasks, conn, client>>
          /\ \E m : Enqueue(m) /\ Quiet(m)
      BY <2>2 DEF TickTask, kernelVars, state, adapterVars, Quiet, TickMsg
    <3> QED
      BY <3>1, BystanderHands
  <2>3. CASE ExecuteEffect
    BY <2>3, ExecuteEffectHands
  <2>4. CASE \E c \in Connection : WorkerHandler(c)
    BY <2>4, WorkerHandlerHands
  <2>5. CASE \E s \in Stream : ClientHandler(s)
    BY <2>5, ClientHandlerHands
  <2>6. CASE UNCHANGED vars
    <3>1. UNCHANGED <<active_streams, workers, streams, issued, tasks, conn, client, queue>>
      BY <2>6 DEF vars, kernelVars, state, runtimeVars, adapterVars
    <3> QED
      BY <3>1, BystanderHands
  <2> QED
    BY <2>1, <2>2, <2>3, <2>4, <2>5, <2>6 DEF JobNext
<1> QED
  BY <1>1, <1>2 DEF HandsInv

\* Every id, job, message and task is where the invariant says, in every
\* reachable state.
THEOREM HandsInvariance == JobSpec => []HandsInv
<1>1. JobInit => HandsInv
  BY JobInitHands
<1>2. HandsInv /\ [JobNext]_vars => HandsInv'
  BY JobNextHands
<1> QED
  BY <1>1, <1>2, PTL DEF JobSpec

\* A job is in one pair of hands: no stream is ever given to two workers.
THEOREM NoJobInTwoHands == JobSpec => []OneCarrierPerStream
<1>1. HandsInv => OneCarrierPerStream
  <2> SUFFICES ASSUME HandsInv, NEW s \in Stream
               PROVE  Cardinality(Carriers(s)) <= 1
    BY DEF OneCarrierPerStream
  <2> DEFINE holders == {c \in Connection : conn[c].job = s}
             carrying == {t \in tasks : Dispatching(t, s)}
  <2>1. /\ \A c, d \in holders : c = d
        /\ \A t, u \in carrying : t = u
        /\ holders = {} \/ carrying = {}
    BY DEF HandsInv, HandInv, CarrierInv
  <2>2. Carriers(s) = holders \union carrying
    BY DEF Carriers
  <2> HIDE DEF holders, carrying
  <2>3. CASE Carriers(s) = {}
    BY <2>3, FS_EmptySet
  <2>4. CASE Carriers(s) # {}
    <3>1. PICK x : Carriers(s) = {x}
      BY <2>1, <2>2, <2>4
    <3> QED
      BY <3>1, FS_Singleton
  <2> QED
    BY <2>3, <2>4
<1> QED
  BY <1>1, HandsInvariance, PTL

\* A handler with a job, or about to be handed one, is not offered another.
THEOREM BusyNeverOffered == JobSpec => []BusyWorkerNotOffered
<1>1. HandsInv => BusyWorkerNotOffered
  <2> SUFFICES ASSUME HandsInv PROVE BusyWorkerNotOffered
    OBVIOUS
  <2>1. ASSUME NEW c \in Connection, conn[c].job # NoStream, conn[c].worker \in DOMAIN workers
        PROVE  FALSE
    <3>1. workers[conn[c].worker] = c /\ conn[c].worker # NoWorker
      BY <2>1, NoWorkerAssumption DEF HandsInv, HandInv, OfferInv
    <3>2. conn[c].phase # "gone"
      BY <3>1 DEF HandsInv, HandInv, OfferInv
    <3> QED
      BY <2>1, <3>1, <3>2 DEF HandsInv, HandInv, OfferInv
  <2>2. \A t \in tasks : \A i \in DOMAIN t :
          t[i].type = "DispatchJob" => t[i].worker \notin DOMAIN workers
    BY DEF HandsInv, HandInv, TasksShape, IsDispatch
  <2> QED
    BY <2>1, <2>2 DEF BusyWorkerNotOffered
<1> QED
  BY <1>1, HandsInvariance, PTL

\* A connection is on offer under one id at most.
THEOREM OfferedOnce == JobSpec => []OneOfferPerConnection
<1>1. HandsInv => OneOfferPerConnection
  <2> SUFFICES ASSUME HandsInv, NEW v \in DOMAIN available, NEW w \in DOMAIN available,
                      workers[v] = workers[w], conn[workers[w]].phase # "gone"
               PROVE  v = w
    BY DEF OneOfferPerConnection
  <2>1. v \in DOMAIN workers /\ w \in DOMAIN workers
    BY DEF HandsInv, JobInv, PoolHasHandles
  <2>2. conn[workers[v]].worker = v /\ conn[workers[w]].worker = w
    BY <2>1 DEF HandsInv, HandInv, OfferInv
  <2> QED
    BY <2>2
<1> QED
  BY <1>1, HandsInvariance, PTL

\* The kernel never forgets a stream whose client still waits.
THEOREM ResponsesAccounted == JobSpec => []ResponseAccounted
<1>1. HandsInv => ResponseAccounted
  <2> SUFFICES ASSUME HandsInv, NEW s \in streams, client[s] = "streaming"
               PROVE  Requested(s) \/ s \in DOMAIN active_streams
    BY DEF ResponseAccounted
  <2>1. s \in Stream
    BY DEF HandsInv, HandInv, StreamInv
  <2>2. Positions(ChatRequest(s)) # {} \/ s \in DOMAIN active_streams
    BY <2>1 DEF HandsInv, HandInv, StreamInv
  <2> QED
    BY <2>2 DEF Requested, Positions, ChatRequest
<1> QED
  BY <1>1, HandsInvariance, PTL
=============================================================================
