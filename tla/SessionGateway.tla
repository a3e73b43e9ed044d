---------------------------- MODULE SessionGateway ----------------------------
(***************************************************************************)
(* The session side of the gateway around its kernel: the session commands *)
(* of the runtime's loop (gateway/runtime.rs), the subscriber registry,    *)
(* the tasks that send notifications, and the websocket handler that owns  *)
(* a subscriber's channel (router/session_ws.rs), up to the socket.        *)
(*                                                                         *)
(* A websocket connection and the subscriber id it is given are one value  *)
(* of Subscriber.  Entries are what the client's socket is followed for.   *)
(***************************************************************************)
EXTENDS GatewayKernel, SequencesExt

CONSTANTS
  Creators,   \* the connections whose first message is create
  NoSession,  \* "none yet"
  QueueCap,   \* capacity of the runtime's message channel (256 in the code)
  ChanCap     \* capacity of a subscriber's channel (32 in the code)

ASSUME ChannelAssumption == QueueCap \in Nat \ {0} /\ ChanCap \in Nat \ {0}
ASSUME CreatorsAssumption == Creators \subseteq Subscriber /\ NoSession \notin SessionId

VARIABLES
  queue,       \* messages on their way to the loop
  registered,  \* registry: subscribers with a sender in it
  tasks,       \* sends of the spawned tasks, in order: [to, frame]
  chan,        \* Subscriber -> frames in its channel
  handler,     \* Subscriber -> [phase, session, next, hand] of its handler; phases
               \* "off", "asking", "created", "greeting", "loop", "sending",
               \* "leaving" and "gone"
  wire         \* Subscriber -> positions of the entries its socket was given

adapterVars == <<chan, handler, wire>>
vars == <<kernelVars, queue, registered, tasks, adapterVars>>
-----------------------------------------------------------------------------
CreateMsg(u) == [type |-> "SessionCreate", subscriber |-> u]
SubscribeMsg(u, id) == [type |-> "SessionSubscribe", subscriber |-> u, session |-> id]
AppendMsg(id, p) == [type |-> "SessionAppendEntry", session |-> id, payload |-> p]
HeartbeatMsg(u, id) == [type |-> "SessionSubscriberHeartbeat", subscriber |-> u, session |-> id]
UnsubscribeMsg(u, id) == [type |-> "SessionUnsubscribe", subscriber |-> u, session |-> id]
TickMsg == [type |-> "Tick"]

\* Frames of a subscriber's channel; entries by their index, from 0.
Entry(i) == [type |-> "Entry", index |-> i]
Greeting(id) == [type |-> "Subscribed", session |-> id]
Removed == [type |-> "SubscriberRemoved"]

\* An awaiting send: it waits while the channel is full.
Enqueue(m) == Len(queue) < QueueCap /\ queue' = Append(queue, m)

\* A deadline set by a message enqueued now stays within the behaviour.
InHorizon ==
  tick + Cardinality({i \in DOMAIN queue : queue[i].type = "Tick"}) + SubscriberTTL <= MaxTick
-----------------------------------------------------------------------------
(* Resolution of the effects of the kernel transition of this step *)

Of(e) ==
  CASE e.type = "SessionCreated" -> {e.subscriber}
    [] e.type \in {"NotifySubscribers", "SubscriberRemoved"} -> e.subscribers
    [] OTHER -> {}

FrameOf(e) ==
  CASE e.type = "SessionCreated" -> Greeting(e.session)
    [] e.type = "NotifySubscribers" -> Entry(e.index)
    [] OTHER -> Removed

\* Senders that SubscriberRemoved takes out of the registry.
TakenSubscribers ==
  UNION {effects'[i].subscribers :
           i \in {j \in DOMAIN effects' : effects'[j].type = "SubscriberRemoved"}}

\* Resolved in hash order, against the registry with handles added.  No
\* transition has two effects that name subscribers.
ResolveEffects(handles) ==
  /\ registered' = handles \ TakenSubscribers
  /\ LET named == {i \in DOMAIN effects' : Of(effects'[i]) \intersect handles # {}} IN
     IF named = {} THEN tasks' = tasks
     ELSE \E i \in named : \E order \in SetToSeqs(Of(effects'[i]) \intersect handles) :
            tasks' = tasks \union
              {[k \in DOMAIN order |-> [to |-> order[k], frame |-> FrameOf(effects'[i])]]}
-----------------------------------------------------------------------------
(* The runtime's loop *)

Receive(type) == queue # << >> /\ Head(queue).type = type /\ queue' = Tail(queue)

\* The reply with the id; the session's comes through the channel.
ProcessCreate ==
  /\ Receive("SessionCreate")
  /\ LET u == Head(queue).subscriber IN
     /\ SessionRequested(u)
     /\ ResolveEffects(registered \union {u})
     /\ handler' = [handler EXCEPT ![u].phase = "created"]
  /\ UNCHANGED <<chan, wire>>

\* The position after latest_entry_index, which is read before the event.
FirstUntold(id) == IF id \in DOMAIN sessions THEN Len(sessions[id].entries) ELSE 0

ProcessSubscribe ==
  /\ Receive("SessionSubscribe")
  /\ LET u == Head(queue).subscriber
         id == Head(queue).session
     IN /\ Subscribed(id, u)
        /\ ResolveEffects(registered \union {u})
        /\ handler' = [handler EXCEPT ![u].phase = "greeting", ![u].next = FirstUntold(id)]
  /\ UNCHANGED <<chan, wire>>

Forward == ResolveEffects(registered) /\ UNCHANGED adapterVars

ProcessAppend ==
  Receive("SessionAppendEntry") /\ EntryAppended(Head(queue).session, Head(queue).payload) /\ Forward
ProcessHeartbeat ==
  /\ Receive("SessionSubscriberHeartbeat")
  /\ SubscriberHeartbeat(Head(queue).session, Head(queue).subscriber) /\ Forward
ProcessUnsubscribe ==
  /\ Receive("SessionUnsubscribe")
  /\ Unsubscribed(Head(queue).session, Head(queue).subscriber) /\ Forward
ProcessTick == Receive("Tick") /\ Tick /\ Forward

ProcessMessage ==
  \/ ProcessCreate \/ ProcessSubscribe \/ ProcessAppend
  \/ ProcessHeartbeat \/ ProcessUnsubscribe \/ ProcessTick

TickTask ==
  /\ tick + Cardinality({i \in DOMAIN queue : queue[i].type = "Tick"}) < MaxTick
  /\ Enqueue(TickMsg)
  /\ UNCHANGED <<kernelVars, registered, tasks, adapterVars>>
-----------------------------------------------------------------------------
(* The tasks that send *)

\* The receiving half lives as long as the handler.
Receiving(u) == handler[u].phase # "gone"

\* Mutant of Executed: the first send that fails ends the task.
ExecutedWhileHeard(t) ==
  IF Len(t) = 1 \/ ~Receiving(Head(t).to) THEN tasks \ {t} ELSE (tasks \ {t}) \union {Tail(t)}

Executed(t) == IF Len(t) = 1 THEN tasks \ {t} ELSE (tasks \ {t}) \union {Tail(t)}

\* A full channel holds up the task, and the subscribers after this one; a
\* send that nobody receives is dropped.
ExecuteSend(t) ==
  LET u == Head(t).to IN
  /\ \/ /\ Receiving(u) /\ Len(chan[u]) < ChanCap
        /\ chan' = [chan EXCEPT ![u] = Append(@, Head(t).frame)]
     \/ ~Receiving(u) /\ UNCHANGED chan
  /\ tasks' = Executed(t)
  /\ UNCHANGED <<kernelVars, queue, registered, handler, wire>>

\* Some sender of the channel is still alive.
Open(u) == u \in registered \/ \E t \in tasks : \E i \in DOMAIN t : t[i].to = u
-----------------------------------------------------------------------------
(* The websocket handler *)

Runtime == UNCHANGED <<kernelVars, registered, tasks>>
To(u, phase) == handler' = [handler EXCEPT ![u].phase = phase]

\* The function returns, and drops the receiver.
Return(u) ==
  /\ handler' = [handler EXCEPT ![u].phase = "gone", ![u].hand = << >>]
  /\ chan' = [chan EXCEPT ![u] = << >>]

Create(u) ==
  /\ u \in Creators /\ handler[u].phase = "off" /\ InHorizon
  /\ Cardinality({i \in DOMAIN queue : queue[i].type = "SessionCreate"}) + session_counter < MaxSessions
  /\ Enqueue(CreateMsg(u)) /\ To(u, "asking")
  /\ Runtime /\ UNCHANGED <<chan, wire>>

\* A client may ask for a session that is gone or never was.
Subscribe(u, id) ==
  /\ u \notin Creators /\ handler[u].phase = "off" /\ InHorizon
  /\ Enqueue(SubscribeMsg(u, id))
  /\ handler' = [handler EXCEPT ![u].phase = "asking", ![u].session = id]
  /\ Runtime /\ UNCHANGED <<chan, wire>>

\* The creator is greeted by its channel; anything else there, a removal by
\* time, or its end, returns without unsubscribing.
AwaitCreated(u) ==
  /\ handler[u].phase = "created"
  /\ \/ /\ chan[u] # << >> /\ Head(chan[u]).type = "Subscribed"
        /\ handler' = [handler EXCEPT ![u].phase = "greeting", ![u].session = Head(chan[u]).session]
        /\ chan' = [chan EXCEPT ![u] = Tail(@)]
     \/ /\ IF chan[u] = << >> THEN ~Open(u) ELSE Head(chan[u]).type # "Subscribed"
        /\ Return(u)
  /\ Runtime /\ UNCHANGED <<queue, wire>>

\* Subscribed goes to the socket; if that fails, nothing is unsubscribed.
Greet(u) ==
  /\ handler[u].phase = "greeting"
  /\ \/ To(u, "loop") /\ UNCHANGED chan
     \/ Return(u)
  /\ Runtime /\ UNCHANGED <<queue, wire>>

\* The select loop takes a frame and writes it, which may take as long as the
\* client does not read; no other branch runs meanwhile.
Take(u) ==
  /\ handler[u].phase = "loop"
  /\ \/ /\ chan[u] # << >>
        /\ handler' = [handler EXCEPT ![u].phase = "sending", ![u].hand = <<Head(chan[u])>>]
        /\ chan' = [chan EXCEPT ![u] = Tail(@)]
     \/ chan[u] = << >> /\ ~Open(u) /\ To(u, "leaving") /\ UNCHANGED chan
  /\ Runtime /\ UNCHANGED <<queue, wire>>

Write(u) ==
  /\ handler[u].phase = "sending"
  /\ LET frame == handler[u].hand[1] IN
     \/ /\ handler' = [handler EXCEPT ![u].phase = IF frame = Removed THEN "leaving" ELSE "loop",
                                      ![u].hand = << >>]
        /\ wire' = IF frame.type = "Entry" THEN [wire EXCEPT ![u] = Append(@, frame.index)] ELSE wire
     \/ /\ handler' = [handler EXCEPT ![u].phase = "leaving", ![u].hand = << >>]
        /\ UNCHANGED wire
  /\ Runtime /\ UNCHANGED <<queue, chan>>

ClientAppends(u, p) ==
  /\ handler[u].phase = "loop"
  /\ LET id == handler[u].session IN
     Cardinality({i \in DOMAIN queue : queue[i].type = "SessionAppendEntry"}) + FirstUntold(id)
       < MaxEntries
  /\ Enqueue(AppendMsg(handler[u].session, p))
  /\ Runtime /\ UNCHANGED adapterVars

\* On the timer, or when the client says so.
Heartbeat(u) ==
  /\ handler[u].phase = "loop" /\ InHorizon
  /\ Enqueue(HeartbeatMsg(u, handler[u].session))
  /\ Runtime /\ UNCHANGED adapterVars

ClientCloses(u) ==
  /\ handler[u].phase = "loop" /\ To(u, "leaving")
  /\ Runtime /\ UNCHANGED <<queue, chan, wire>>

Leave(u) ==
  /\ handler[u].phase = "leaving"
  /\ Enqueue(UnsubscribeMsg(u, handler[u].session)) /\ Return(u)
  /\ Runtime /\ UNCHANGED wire
-----------------------------------------------------------------------------
SessionInit ==
  /\ Init
  /\ queue = << >> /\ registered = {} /\ tasks = {}
  /\ chan = [u \in Subscriber |-> << >>]
  /\ handler = [u \in Subscriber |-> [phase |-> "off", session |-> NoSession, next |-> 0, hand |-> << >>]]
  /\ wire = [u \in Subscriber |-> << >>]

HandlerStep(u) == AwaitCreated(u) \/ Greet(u) \/ Take(u) \/ Write(u) \/ Leave(u)

SessionNext ==
  \/ ProcessMessage \/ TickTask
  \/ \E t \in tasks : ExecuteSend(t)
  \/ \E u \in Subscriber :
       \/ HandlerStep(u) \/ Create(u) \/ Heartbeat(u) \/ ClientCloses(u)
       \/ \E id \in SessionId : Subscribe(u, id)
       \/ \E p \in Payload : ClientAppends(u, p)

SessionSpec == SessionInit /\ [][SessionNext]_vars

\* As for the job side: loop, tasks and handlers are scheduled, waiting senders
\* are served in order, not every tick meets a full channel.  A client reads
\* its socket, or the write to it fails.  Nothing makes a client act.
SessionFairness ==
  /\ WF_vars(ProcessMessage)
  /\ SF_vars(TickTask)
  /\ WF_vars(\E t \in tasks : ExecuteSend(t))
  /\ \A u \in Subscriber :
       WF_vars(AwaitCreated(u) \/ Greet(u) \/ Take(u) \/ Write(u)) /\ SF_vars(Leave(u))

FairSessionSpec == SessionSpec /\ SessionFairness
-----------------------------------------------------------------------------
(* Properties *)

\* The registry has the senders of exactly the subscribers the kernel's
\* sessions have, although each is updated by code of its own: nobody the
\* kernel notifies is without a channel, and no channel outlives its place in
\* a session, a session that is not found included.
SubscribersHaveHandles == registered = UNION {SubscribersOf(id) : id \in SessionId}

\* Every entry appended after what a subscriber was told when it subscribed is
\* once on its way to it or at its socket: in a task, in its channel, in the
\* handler's hand or written.  No other entry is.
OnTheWay(u, i) ==
  LET in(frames) == Cardinality({k \in DOMAIN frames : frames[k] = Entry(i)})
      sends == {t \in tasks : \E k \in DOMAIN t : t[k] = [to |-> u, frame |-> Entry(i)]}
  IN in(chan[u]) + in(handler[u].hand) + Cardinality(sends)
     + Cardinality({k \in DOMAIN wire[u] : wire[u][k] = i})
Live == {"created", "greeting", "loop", "sending"}
NotifiedOnce ==
  \A id \in SessionId : \A u \in SubscribersOf(id) :
    handler[u].phase \in Live =>
      \A i \in 0 .. Len(sessions[id].entries) - 1 :
        OnTheWay(u, i) = IF i >= handler[u].next THEN 1 ELSE 0

\* Handler and subscription end together.  A handler whose subscriber is in no
\* session any more, because time removed it or because there was no such
\* session, comes to its end: no client keeps a socket on which nothing will
\* ever arrive.  And however a handler ends, with or without unsubscribing, its
\* sender and its place in the session are given back.
EndTogether ==
  \A u \in Subscriber :
    \/ handler[u].phase \in Live /\ u \notin registered
    \/ handler[u].phase = "gone"
      ~> handler[u].phase = "gone" /\ u \notin registered
=============================================================================
