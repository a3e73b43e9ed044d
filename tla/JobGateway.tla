----------------------------- MODULE JobGateway -----------------------------
(***************************************************************************)
(* The job side of the gateway around its kernel: the runtime's message    *)
(* loop (gateway/runtime.rs), the channel registry, the tasks that execute *)
(* effects, and the two adapters that drive it, the worker websocket       *)
(* handler (router/worker_ws_upgrade.rs with gateway/relay.rs) and the     *)
(* HTTP handlers that own a client stream (router/chat_completions.rs,     *)
(* router/audio_transcriptions.rs).                                        *)
(*                                                                         *)
(* Every adapter talks to the loop through one bounded FIFO.  The loop     *)
(* takes one message at a time: kernel transition, then resolution of its  *)
(* effects against the registry, in one step.  What the effects send is    *)
(* executed later, one task per message, in any order between tasks.       *)
(* The frames of a stream are the subject of JobRelay; here a stream is    *)
(* only a channel with senders and a receiver.                             *)
(***************************************************************************)
EXTENDS GatewayKernel, FiniteSets

CONSTANTS
  Connection,   \* worker websocket connections
  Offers,       \* Connection -> the capabilities it declares
  Wants,        \* Stream -> the capability its endpoint asks for
  NoStream,     \* "no job"
  NoWorker,     \* "no id yet"
  NoConnection, \* "no handle found"
  QueueCap      \* capacity of the runtime's message channel (256 in the code)

ASSUME OffersAssumption == Offers \in [Connection -> SUBSET Capability]
ASSUME WantsAssumption == Wants \in [Stream -> Capability]
ASSUME NoStreamAssumption == NoStream \notin Stream
ASSUME NoWorkerAssumption == NoWorker \notin Worker
ASSUME NoConnectionAssumption == NoConnection \notin Connection
ASSUME QueueAssumption == QueueCap \in Nat \ {0}

VARIABLES
  queue,      \* messages on their way to the loop
  workers,    \* registry: worker id -> connection that owns the other end
  streams,    \* registry: stream ids with a sender in it
  issued,     \* worker ids handed out so far (they are fresh UUIDs)
  tasks,      \* resolved effects of a message, still to be executed in order
  conn,       \* Connection -> [phase, worker, job]; phases "off", "registering",
              \* "waiting", "relaying", "ended" (outcome known) and "gone"
  client      \* Stream -> phase of its HTTP handler

runtimeVars == <<queue, workers, streams, issued, tasks>>
adapterVars == <<conn, client>>
vars == <<kernelVars, runtimeVars, adapterVars>>
-----------------------------------------------------------------------------
(* Messages *)

RegisterWorkerMsg(c) == [type |-> "RegisterWorker", conn |-> c]
WorkerHeartbeatMsg(w) == [type |-> "WorkerHeartbeat", worker |-> w]
StreamMsg(type, s) == [type |-> type, stream |-> s]
TickMsg == [type |-> "Tick"]

\* An awaiting send: it waits while the channel is full.
Enqueue(m) == Len(queue) < QueueCap /\ queue' = Append(queue, m)

\* The tick at which a message enqueued now will be processed.
TickAtArrival ==
  tick + Cardinality({i \in DOMAIN queue : queue[i].type = "Tick"})
-----------------------------------------------------------------------------
(* Resolution of the effects of the kernel transition of this step *)

\* Registry handles still there when effect i is resolved: a Done resolved
\* before it has taken its handle out.
HandlesAt(i) ==
  streams \ UNION {effects'[j].streams :
                     j \in {k \in DOMAIN effects' : k < i /\ effects'[k].type = "SendClientDone"}}

IsClientEffect(e) == e.type \in {"SendClientError", "SendClientDone"}

\* Mutant of TakenStreams: the end of a stream keeps its sender.
KeptStreams == {}

TakenStreams ==
  UNION {effects'[i].streams :
           i \in {k \in DOMAIN effects' : effects'[k].type = "SendClientDone"}}

Dispatched == {i \in DOMAIN effects' : effects'[i].type = "DispatchJob"}

\* Mutant of TakenWorkers: a dispatch clones the worker's handle.
ClonedWorkers == {}

TakenWorkers == {effects'[i].worker : i \in Dispatched}

\* A dispatch needs the worker's handle and the stream's; the worker's is
\* consumed either way.  If one is missing the task that is spawned only sends
\* AssignmentFailed, like a dispatch that nobody listens to.
CanDispatch(e) == e.worker \in DOMAIN workers /\ e.stream \in streams

ResolvedEffect(i) ==
  IF IsClientEffect(effects'[i])
    THEN [effects'[i] EXCEPT !.streams = @ \intersect HandlesAt(i)]
  ELSE IF effects'[i].type = "DispatchJob"
    THEN [type |-> "DispatchJob", worker |-> effects'[i].worker,
          conn |-> IF CanDispatch(effects'[i])
                     THEN workers[effects'[i].worker] ELSE NoConnection,
          stream |-> effects'[i].stream]
  ELSE [type |-> "None"]

Sends(e) == e.type = "DispatchJob" \/ (IsClientEffect(e) /\ e.streams # {})

\* What is left to send goes into one task, in the order of the effects.
ResolveEffects ==
  LET sending == {i \in DOMAIN effects' : Sends(ResolvedEffect(i))} IN
  \E order \in [1 .. Cardinality(sending) -> sending] :
    /\ \A j, k \in DOMAIN order : j < k => order[j] < order[k]
    /\ tasks' = IF sending = {} THEN tasks
                ELSE tasks \union {[k \in DOMAIN order |-> ResolvedEffect(order[k])]}
-----------------------------------------------------------------------------
(* The runtime's loop: one action per message, after the common part. *)

Receive(type) == queue # <<>> /\ Head(queue).type = type /\ queue' = Tail(queue)

\* A message that only drives the kernel.
Forward ==
  /\ ResolveEffects
  /\ workers' = Without(workers, TakenWorkers)
  /\ streams' = streams \ TakenStreams
  /\ UNCHANGED <<issued, adapterVars>>

\* The reply with the new id reaches a handler that waits for nothing else; the
\* job of the iteration that re-registers is dropped with that iteration.
ProcessRegisterWorker ==
  /\ Receive("RegisterWorker")
  /\ LET c == Head(queue).conn IN
     \E w \in Worker \ issued :
       /\ WorkerRegistered(w, Offers[c])
       /\ workers' = Put(workers, w, c)
       /\ issued' = issued \union {w}
       /\ conn' = [conn EXCEPT ![c] = [phase |-> "waiting", worker |-> w, job |-> NoStream]]
  /\ UNCHANGED <<streams, tasks, client>>

\* The kernel is not told of a stream until it is requested.
ProcessRegisterStream ==
  /\ Receive("RegisterStream")
  /\ LET s == Head(queue).stream IN
       /\ streams' = streams \union {s}
       /\ client' = [client EXCEPT ![s] = IF @ = "registering" THEN "registered" ELSE @]
  /\ UNCHANGED <<kernelVars, workers, issued, tasks, conn>>

ProcessChat ==
  /\ Receive("HttpChatRequested")
  /\ LET s == Head(queue).stream IN HttpChatRequested(s, TRUE, Wants[s])
  /\ Forward

ProcessWorkerHeartbeat ==
  Receive("WorkerHeartbeat") /\ WorkerHeartbeat(Head(queue).worker) /\ Forward
ProcessStreamHeartbeat ==
  Receive("StreamHeartbeat") /\ StreamHeartbeat(Head(queue).stream) /\ Forward
ProcessCleared ==
  Receive("AssignmentCleared") /\ AssignmentCleared(Head(queue).stream) /\ Forward
ProcessFailed ==
  Receive("AssignmentFailed") /\ AssignmentFailed(Head(queue).stream) /\ Forward
ProcessTick == Receive("Tick") /\ Tick /\ Forward

ProcessMessage ==
  \/ ProcessRegisterWorker \/ ProcessRegisterStream \/ ProcessChat
  \/ ProcessWorkerHeartbeat \/ ProcessStreamHeartbeat
  \/ ProcessCleared \/ ProcessFailed \/ ProcessTick

\* The tick task uses try_send: a tick that finds the channel full is skipped,
\* which is a step that changes nothing.
TickTask ==
  /\ TickAtArrival < MaxTick
  /\ Enqueue(TickMsg)
  /\ UNCHANGED <<kernelVars, workers, streams, issued, tasks, adapterVars>>

-----------------------------------------------------------------------------
(* Execution of effects *)

\* The receiving half of a worker's oneshot lives while its handler waits.
Listening(c, w) ==
  c \in Connection /\ conn[c].phase = "waiting" /\ conn[c].worker = w

\* Mutant of Executed: an effect whose task is retried.
Retried(t) == tasks

Executed(t) == IF Len(t) = 1 THEN tasks \ {t} ELSE (tasks \ {t}) \union {Tail(t)}

DeliverJob(t) ==
  LET e == Head(t) IN
  /\ e.type = "DispatchJob"
  /\ \/ /\ Listening(e.conn, e.worker)
        /\ conn' = [conn EXCEPT ![e.conn].job = e.stream]
        /\ UNCHANGED queue
     \/ /\ ~Listening(e.conn, e.worker)
        /\ Enqueue(StreamMsg("AssignmentFailed", e.stream))
        /\ UNCHANGED conn

\* Frames of the kernel: the error, then the end of the stream.
SendFrames(t) == IsClientEffect(Head(t)) /\ UNCHANGED <<queue, conn>>

ExecuteEffect ==
  \E t \in tasks :
    /\ DeliverJob(t) \/ SendFrames(t)
    /\ tasks' = Executed(t)
    /\ UNCHANGED <<kernelVars, workers, streams, issued, client>>
-----------------------------------------------------------------------------
(* The worker websocket handler *)

Adapter == UNCHANGED <<kernelVars, workers, streams, issued, tasks>>

Step(c, phase) == conn' = [conn EXCEPT ![c].phase = phase]

Gone == [phase |-> "gone", worker |-> NoWorker, job |-> NoStream]

\* Mutant of Register: a handler re-registers while its id is still on offer.
RegisterAgain(c) ==
  /\ conn[c].phase \in {"off", "ended", "waiting"}
  /\ Enqueue(RegisterWorkerMsg(c))
  /\ Step(c, "registering")
  /\ Adapter /\ UNCHANGED client

\* Connecting, and coming back after a job, register a fresh oneshot.
Register(c) ==
  /\ conn[c].phase \in {"off", "ended"}
  /\ Enqueue(RegisterWorkerMsg(c))
  /\ Step(c, "registering")
  /\ Adapter /\ UNCHANGED client

IdleHeartbeat(c) ==
  /\ conn[c].phase = "waiting" /\ conn[c].job = NoStream
  /\ TickAtArrival + WorkerTTL <= MaxTick
  /\ Enqueue(WorkerHeartbeatMsg(conn[c].worker))
  /\ Adapter /\ UNCHANGED adapterVars

\* The websocket closes while the handler waits: if a job was already in the
\* oneshot it is lost with it, and the gateway is not told.  The same happens
\* when the job frame cannot be sent.
Disconnect(c) ==
  /\ conn[c].phase = "waiting"
  /\ conn' = [conn EXCEPT ![c] = Gone]
  /\ Adapter /\ UNCHANGED <<queue, client>>

TakeJob(c) ==
  /\ conn[c].phase = "waiting" /\ conn[c].job # NoStream
  /\ Step(c, "relaying")
  /\ Adapter /\ UNCHANGED <<queue, client>>

RelayHeartbeat(c) ==
  /\ conn[c].phase = "relaying"
  /\ TickAtArrival + StreamTTL <= MaxTick
  /\ Enqueue(StreamMsg("StreamHeartbeat", conn[c].job))
  /\ Adapter /\ UNCHANGED adapterVars

\* RelayOutcome::WorkerEnd, WorkerError, WorkerDisconnected.
Outcome(c, type, phase) ==
  /\ conn[c].phase = "relaying"
  /\ Enqueue(StreamMsg(type, conn[c].job))
  /\ conn' = [conn EXCEPT ![c] = IF phase = "gone" THEN Gone ELSE [@ EXCEPT !.phase = phase]]
  /\ Adapter /\ UNCHANGED client

WorkerEnd(c) == Outcome(c, "AssignmentCleared", "ended")
WorkerError(c) == Outcome(c, "AssignmentFailed", "ended")
WorkerDisconnected(c) == Outcome(c, "AssignmentFailed", "gone")

\* RelayOutcome::ClientGone: the kernel is not told, the timeout ends the stream.
ClientGone(c) ==
  /\ conn[c].phase = "relaying" /\ client[conn[c].job] = "gone"
  /\ Step(c, "ended")
  /\ Adapter /\ UNCHANGED <<queue, client>>

RelayOutcome(c) == WorkerEnd(c) \/ WorkerError(c) \/ WorkerDisconnected(c) \/ ClientGone(c)
-----------------------------------------------------------------------------
(* The HTTP handlers *)

OpenStream(s) ==
  /\ client[s] = "new"
  /\ Enqueue(StreamMsg("RegisterStream", s))
  /\ client' = [client EXCEPT ![s] = "registering"]
  /\ Adapter /\ UNCHANGED conn

\* Mutant of RequestChat: a request that is sent again on the same stream.
RequestChatAgain(s) ==
  /\ client[s] \in {"registered", "streaming"}
  /\ TickAtArrival + StreamTTL <= MaxTick
  /\ Enqueue(StreamMsg("HttpChatRequested", s))
  /\ client' = [client EXCEPT ![s] = "streaming"]
  /\ Adapter /\ UNCHANGED conn

RequestChat(s) ==
  /\ client[s] = "registered"
  /\ TickAtArrival + StreamTTL <= MaxTick
  /\ Enqueue(StreamMsg("HttpChatRequested", s))
  /\ client' = [client EXCEPT ![s] = "streaming"]
  /\ Adapter /\ UNCHANGED conn

\* The HTTP client goes away, at any point: the handler is dropped with the
\* receiving half of the stream.
LeaveStream(s) ==
  /\ client[s] \in {"registering", "registered", "streaming"}
  /\ client' = [client EXCEPT ![s] = "gone"]
  /\ Adapter /\ UNCHANGED <<queue, conn>>

TaskHolds(t, s) ==
  \E i \in DOMAIN t :
    \/ IsClientEffect(t[i]) /\ s \in t[i].streams
    \/ t[i].type = "DispatchJob" /\ t[i].conn # NoConnection /\ s = t[i].stream

\* Some sender of the stream's channel is still alive.
Open(s) ==
  \/ s \in streams
  \/ \E t \in tasks : TaskHolds(t, s)
  \/ \E c \in Connection : conn[c].job = s

\* The response ends when the last sender is gone.
EndStream(s) ==
  /\ client[s] = "streaming" /\ ~Open(s)
  /\ client' = [client EXCEPT ![s] = "ended"]
  /\ Adapter /\ UNCHANGED <<queue, conn>>
-----------------------------------------------------------------------------
JobInit ==
  /\ Init
  /\ queue = <<>>
  /\ workers = EmptyMap
  /\ streams = {}
  /\ issued = {}
  /\ tasks = {}
  /\ conn = [c \in Connection |-> [phase |-> "off", worker |-> NoWorker, job |-> NoStream]]
  /\ client = [s \in Stream |-> "new"]

WorkerHandler(c) ==
  \/ Register(c) \/ IdleHeartbeat(c) \/ Disconnect(c) \/ TakeJob(c)
  \/ RelayHeartbeat(c) \/ RelayOutcome(c)

ClientHandler(s) == OpenStream(s) \/ RequestChat(s) \/ LeaveStream(s) \/ EndStream(s)

JobNext ==
  \/ ProcessMessage \/ TickTask \/ ExecuteEffect
  \/ \E c \in Connection : WorkerHandler(c)
  \/ \E s \in Stream : ClientHandler(s)

JobSpec == JobInit /\ [][JobNext]_vars

\* The loop and the handlers are always scheduled.  A sender that waits for
\* room in the channel gets it in the end, waiting senders are served in order,
\* so what enqueues is strongly fair; the tick task does not wait, for it this
\* says that not every tick finds the channel full.  A worker may stay
\* connected and idle, but a job it was given comes to some outcome (JobRelay
\* is about the worker that hangs).  Nothing makes a client act.
JobFairness ==
  /\ WF_vars(ProcessMessage)
  /\ SF_vars(TickTask)
  /\ SF_vars(ExecuteEffect)
  /\ \A c \in Connection : WF_vars(TakeJob(c)) /\ SF_vars(RelayOutcome(c))
  /\ \A c \in Connection : SF_vars(conn[c].phase = "ended" /\ Register(c))
  /\ \A s \in Stream : WF_vars(EndStream(s))

FairJobSpec == JobSpec /\ JobFairness
-----------------------------------------------------------------------------
(* Properties *)

ClientPhase == {"new", "registering", "registered", "streaming", "ended", "gone"}

\* An id in the kernel's pool has its oneshot in the registry: the kernel never
\* chooses a worker that the runtime cannot resolve.
PoolHasHandles == DOMAIN available \subseteq DOMAIN workers

\* An active stream has its sender in the registry, so whatever ends it can
\* still be told to the client.
ActiveHasHandle == DOMAIN active_streams \subseteq streams

\* Both together: what the kernel decides, the registry can carry out.
HandlesAgree == PoolHasHandles /\ ActiveHasHandle

\* The two branches of resolve_effects that find no handle and make up an
\* AssignmentFailed are never taken.
NoFallback == [][\A i \in Dispatched : CanDispatch(effects'[i])]_effects

Requested(s) == \E i \in DOMAIN queue : queue[i] = StreamMsg("HttpChatRequested", s)

\* A sender the registry still holds for a client that waits for its answer
\* belongs to a request the kernel has yet to see or to an active stream: the
\* kernel never forgets a stream whose response is then left open.
ResponseAccounted ==
  \A s \in streams :
    client[s] = "streaming" => Requested(s) \/ s \in DOMAIN active_streams

\* Who has the job of stream s: handlers, and tasks on their way to one.
Dispatching(t, s) == \E i \in DOMAIN t : t[i].type = "DispatchJob" /\ t[i].stream = s

Carriers(s) ==
  {c \in Connection : conn[c].job = s} \union {t \in tasks : Dispatching(t, s)}

\* A job is in one pair of hands, across delivery, timeout, disconnection and
\* re-registration: no stream is ever given to two workers.
OneCarrierPerStream == \A s \in Stream : Cardinality(Carriers(s)) <= 1

\* A handler that holds a job, or is about to be handed one, is not offered
\* another: the id it waits with has left the pool and the registry.
BusyWorkerNotOffered ==
  /\ \A c \in Connection :
       conn[c].job # NoStream => conn[c].worker \notin DOMAIN workers
  /\ \A t \in tasks : \A i \in DOMAIN t :
       t[i].type = "DispatchJob" => t[i].worker \notin DOMAIN workers

\* A connection answers for at most one id of the pool at a time, the one it
\* waits with or has let go: two ids of one connection would promise the work
\* of one worker twice.
OneOfferPerConnection ==
  \A v, w \in DOMAIN available :
    workers[v] = workers[w] /\ conn[workers[w]].phase # "gone" => v = w

\* The response to a request ends, whatever the worker, its connection, the
\* kernel's timeout and the tasks do, unless the client leaves first.
ResponsesEnd ==
  \A s \in Stream : client[s] = "streaming" ~> client[s] \in {"ended", "gone"}

=============================================================================
