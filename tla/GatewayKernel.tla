---------------------------- MODULE GatewayKernel ----------------------------
(***************************************************************************)
(* The pure core of the gateway: gateway/kernel.rs and the session kernel  *)
(* it delegates to, gateway/session/kernel.rs.  reduce(state, event) is    *)
(* one action per Event; the variables are the fields of GatewayState and  *)
(* "effects" is what the last Transition asked the runtime to do.          *)
(*                                                                         *)
(* An effect that the code emits once per key of a hash map, in hash       *)
(* order, is one record here that carries the set of keys; a record with   *)
(* an empty set is no effect.  Messages and payload contents are           *)
(* abstracted to the member of a small set.                                *)
(***************************************************************************)
EXTENDS Naturals, Sequences, Maps

CONSTANTS
  Worker,          \* worker ids: numbers, the order of the OrdMap
  Stream,          \* client stream ids
  Subscriber,      \* session subscriber ids
  Capability,      \* what a worker may offer and a request may need
  Payload,         \* session entry payloads
  SessionId,
  HashOf,          \* generate_session_id as a function of the counter
  WorkerTTL, StreamTTL, SubscriberTTL,
  MaxTick,         \* bound: ticks of a behaviour
  MaxSessions,     \* bound: sessions created in a behaviour
  MaxEntries       \* bound: entries of one session

ASSUME WorkerAssumption == Worker \subseteq Nat
\* A time to live of zero is accepted by the code but drops every worker and
\* every stream at the next tick; the defaults are 60, 30 and 30.
ASSUME TTLAssumption ==
  /\ WorkerTTL \in Nat \ {0}
  /\ StreamTTL \in Nat \ {0}
  /\ SubscriberTTL \in Nat \ {0}
ASSUME BoundAssumption == MaxTick \in Nat /\ MaxSessions \in Nat /\ MaxEntries \in Nat
\* SipHash of (runtime_id, counter): ids of distinct counters are taken to be
\* distinct, which 64 bits make overwhelmingly likely but do not guarantee.
ASSUME HashAssumption ==
  /\ HashOf \in [0 .. MaxSessions - 1 -> SessionId]
  /\ \A c, d \in 0 .. MaxSessions - 1 : HashOf[c] = HashOf[d] => c = d

VARIABLES
  tick,
  session_counter,
  available,       \* worker id -> [deadline, capabilities]
  active_streams,  \* stream id -> deadline
  sessions,        \* session id -> [entries, subscribers], subscribers: id -> deadline
  effects          \* effects of the last transition, in order

state == <<tick, session_counter, available, active_streams, sessions>>
kernelVars == <<state, effects>>
-----------------------------------------------------------------------------
(* Effects *)

DispatchJob(w, s, c) ==
  [type |-> "DispatchJob", worker |-> w, stream |-> s, capability |-> c]
SendClientError(S) == [type |-> "SendClientError", streams |-> S]
SendClientDone(S) == [type |-> "SendClientDone", streams |-> S]
ProtocolViolation == [type |-> "ProtocolViolation"]
SessionCreated(id, u) == [type |-> "SessionCreated", session |-> id, subscriber |-> u]
SessionExpired(logs) == [type |-> "SessionExpired", logs |-> logs]
NotifySubscribers(i, p, U) ==
  [type |-> "NotifySubscribers", index |-> i, payload |-> p, subscribers |-> U]
SubscriberRemoved(U) == [type |-> "SubscriberRemoved", subscribers |-> U]

EffectType ==
  {"DispatchJob", "SendClientError", "SendClientDone", "ProtocolViolation",
   "SessionCreated", "SessionExpired", "NotifySubscribers", "SubscriberRemoved"}

\* Mutant of FailStreams: the stream is ended before the error is sent.
DoneBeforeError(S) == <<SendClientDone(S), SendClientError(S)>>

\* How a stream that failed is told: the error frame, then the end of the
\* stream.  The order matters, the runtime drops the handle at SendClientDone.
FailStreams(S) == <<SendClientError(S), SendClientDone(S)>>
-----------------------------------------------------------------------------
(* Deadlines *)

\* Mutant of Deadline: the oldest tick still alive in the place of the last.
Cutoff(ttl) == tick - ttl

Deadline(ttl) == tick + ttl

\* Mutant of Expired: an entry survives the tick of its deadline.
ExpiredLate(deadline, now) == deadline < now

\* Tick keeps an entry iff deadline > tick, with the new value of tick.
Expired(deadline, now) == deadline <= now
-----------------------------------------------------------------------------
(* The session kernel: each operator is the state after one session event. *)

IsSession(session) ==
  /\ session = [entries |-> session.entries, subscribers |-> session.subscribers]
  /\ session.entries \in Seq(Payload)
  /\ IsMap(session.subscribers, Subscriber, Nat)

EmptySession == [entries |-> <<>>, subscribers |-> EmptyMap]

\* Mutant of WithEntry: the newest entry first.
NewestFirst(session, p) == [session EXCEPT !.entries = <<p>> \o @]

WithEntry(session, p) == [session EXCEPT !.entries = Append(@, p)]

WithSubscriber(session, u, now) ==
  [session EXCEPT !.subscribers = Put(@, u, now + SubscriberTTL)]

WithoutSubscribers(session, U) == [session EXCEPT !.subscribers = Without(@, U)]

\* Mutant of ExpiredSubscribers: subscribers are not swept.
NoSubscriberSwept(session, now) == {}

ExpiredSubscribers(session, now) ==
  {u \in DOMAIN session.subscribers : Expired(session.subscribers[u], now)}

SessionTicked(session, now) ==
  WithoutSubscribers(session, ExpiredSubscribers(session, now))
-----------------------------------------------------------------------------
(* Events of the job side *)

\* Mutant of Capable: capabilities are not looked at.
AnyWorker(c) == DOMAIN available

\* Workers that could take the job, the candidates of first_capable_worker_id.
Capable(c) == {w \in DOMAIN available : c \in available[w].capabilities}

WorkerEntry(caps) == [deadline |-> Deadline(WorkerTTL), capabilities |-> caps]

Violation == effects' = <<ProtocolViolation>> /\ UNCHANGED state

\* A request that asks for stream=false, reuses a stream that already has an
\* assignment, or finds no capable idle worker, is answered and forgotten.
RejectChat(s, stream, c) ==
  /\ ~stream \/ s \in DOMAIN active_streams \/ Capable(c) = {}
  /\ effects' = FailStreams({s})
  /\ UNCHANGED state

\* The first capable worker, in id order, leaves the pool in the step that
\* makes the stream active.
AcceptChat(s, stream, c) ==
  /\ stream
  /\ s \notin DOMAIN active_streams
  /\ \E w \in Capable(c) :
       /\ \A v \in Capable(c) : w <= v
       /\ available' = Without(available, {w})
       /\ effects' = <<DispatchJob(w, s, c)>>
  /\ active_streams' = Put(active_streams, s, Deadline(StreamTTL))
  /\ UNCHANGED <<tick, session_counter, sessions>>

HttpChatRequested(s, stream, c) == RejectChat(s, stream, c) \/ AcceptChat(s, stream, c)

WorkerRegistered(w, caps) ==
  \/ w \in DOMAIN available /\ Violation
  \/ /\ w \notin DOMAIN available
     /\ available' = Put(available, w, WorkerEntry(caps))
     /\ effects' = <<>>
     /\ UNCHANGED <<tick, session_counter, active_streams, sessions>>

WorkerHeartbeat(w) ==
  \/ w \notin DOMAIN available /\ Violation
  \/ /\ w \in DOMAIN available
     /\ available' = [available EXCEPT ![w].deadline = Deadline(WorkerTTL)]
     /\ effects' = <<>>
     /\ UNCHANGED <<tick, session_counter, active_streams, sessions>>

StreamHeartbeat(s) ==
  \/ s \notin DOMAIN active_streams /\ Violation
  \/ /\ s \in DOMAIN active_streams
     /\ active_streams' = [active_streams EXCEPT ![s] = Deadline(StreamTTL)]
     /\ effects' = <<>>
     /\ UNCHANGED <<tick, session_counter, available, sessions>>

\* AssignmentCleared and AssignmentFailed end an active stream; they differ in
\* what the client is told.
EndAssignment(s, told) ==
  \/ s \notin DOMAIN active_streams /\ Violation
  \/ /\ s \in DOMAIN active_streams
     /\ active_streams' = Without(active_streams, {s})
     /\ effects' = told
     /\ UNCHANGED <<tick, session_counter, available, sessions>>

AssignmentCleared(s) == EndAssignment(s, <<SendClientDone({s})>>)
AssignmentFailed(s) == EndAssignment(s, FailStreams({s}))
-----------------------------------------------------------------------------
(* Events of the session side *)

NewSessionId == HashOf[session_counter]

SessionRequested(u) ==
  /\ session_counter' = session_counter + 1
  /\ sessions' = Put(sessions, NewSessionId, WithSubscriber(EmptySession, u, tick))
  /\ effects' = <<SessionCreated(NewSessionId, u)>>
  /\ UNCHANGED <<tick, available, active_streams>>

\* An event for a session that is gone: the subscriber it names, if any, is
\* reported removed so that the runtime lets go of its handle.
UnknownSession(id, U) ==
  /\ id \notin DOMAIN sessions
  /\ effects' = <<ProtocolViolation, SubscriberRemoved(U)>>
  /\ UNCHANGED state

SessionStep(id, next, told) ==
  /\ id \in DOMAIN sessions
  /\ sessions' = [sessions EXCEPT ![id] = next]
  /\ effects' = told
  /\ UNCHANGED <<tick, session_counter, available, active_streams>>

EntryAppended(id, p) ==
  \/ UnknownSession(id, {})
  \/ SessionStep(id,
       WithEntry(sessions[id], p),
       <<NotifySubscribers(Len(sessions[id].entries), p,
                           DOMAIN sessions[id].subscribers)>>)

\* Mutant of Subscribed: a session that is not found is not answered.
SubscribedUnanswered(id, u) ==
  \/ UnknownSession(id, {})
  \/ SessionStep(id, WithSubscriber(sessions[id], u, tick), <<>>)

Subscribed(id, u) ==
  \/ UnknownSession(id, {u})
  \/ SessionStep(id, WithSubscriber(sessions[id], u, tick), <<>>)

\* Mutant of Unsubscribed: the removal is not reported.
UnsubscribedInSilence(id, u) ==
  \/ UnknownSession(id, {u})
  \/ SessionStep(id, WithoutSubscribers(sessions[id], {u}), <<>>)

Unsubscribed(id, u) ==
  \/ UnknownSession(id, {u})
  \/ SessionStep(id, WithoutSubscribers(sessions[id], {u}),
       <<SubscriberRemoved({u} \intersect DOMAIN sessions[id].subscribers)>>)

SubscriberHeartbeat(id, u) ==
  \/ UnknownSession(id, {u})
  \/ SessionStep(id,
       IF u \in DOMAIN sessions[id].subscribers
         THEN WithSubscriber(sessions[id], u, tick) ELSE sessions[id],
       <<>>)
-----------------------------------------------------------------------------
(* Time *)

ExpiredWorkers(now) == {w \in DOMAIN available : Expired(available[w].deadline, now)}
ExpiredStreams(now) == {s \in DOMAIN active_streams : Expired(active_streams[s], now)}

\* Idle workers past their deadline are dropped in silence; streams past
\* theirs are failed; sessions lose their expired subscribers and then, if
\* nobody is left, are themselves dropped.
Tick ==
  LET now     == tick + 1
      ticked  == [id \in DOMAIN sessions |-> SessionTicked(sessions[id], now)]
      removed == UNION {ExpiredSubscribers(sessions[id], now) : id \in DOMAIN sessions}
      empty   == {id \in DOMAIN sessions : DOMAIN ticked[id].subscribers = {}}
  IN /\ tick' = now
     /\ available' = Without(available, ExpiredWorkers(now))
     /\ active_streams' = Without(active_streams, ExpiredStreams(now))
     /\ sessions' = Without(ticked, empty)
     /\ effects' = <<SendClientError(ExpiredStreams(now)),
                     SendClientDone(ExpiredStreams(now)),
                     SubscriberRemoved(removed),
                     SessionExpired([id \in empty |-> ticked[id].entries])>>
     /\ UNCHANGED session_counter
-----------------------------------------------------------------------------
Init ==
  /\ tick = 0
  /\ session_counter = 0
  /\ available = EmptyMap
  /\ active_streams = EmptyMap
  /\ sessions = EmptyMap
  /\ effects = <<>>

\* An event that sets a deadline happens only while that deadline still falls
\* inside the behaviour: past the horizon nobody sends heartbeats any more.
WithinHorizon(ttl) == tick + ttl <= MaxTick

BoundedTick == tick < MaxTick /\ Tick

JobEvent ==
  \/ \E s \in Stream, stream \in BOOLEAN, c \in Capability :
       WithinHorizon(StreamTTL) /\ HttpChatRequested(s, stream, c)
  \/ \E w \in Worker, caps \in SUBSET Capability :
       WithinHorizon(WorkerTTL) /\ WorkerRegistered(w, caps)
  \/ \E w \in Worker : WithinHorizon(WorkerTTL) /\ WorkerHeartbeat(w)
  \/ \E s \in Stream : WithinHorizon(StreamTTL) /\ StreamHeartbeat(s)
  \/ \E s \in Stream : AssignmentCleared(s)
  \/ \E s \in Stream : AssignmentFailed(s)

SessionEvent ==
  \/ \E u \in Subscriber :
       /\ WithinHorizon(SubscriberTTL) /\ session_counter < MaxSessions
       /\ SessionRequested(u)
  \/ \E id \in SessionId, p \in Payload :
       /\ id \in DOMAIN sessions => Len(sessions[id].entries) < MaxEntries
       /\ EntryAppended(id, p)
  \/ \E id \in SessionId, u \in Subscriber :
       \/ WithinHorizon(SubscriberTTL) /\ Subscribed(id, u)
       \/ Unsubscribed(id, u)
       \/ WithinHorizon(SubscriberTTL) /\ SubscriberHeartbeat(id, u)

Next == BoundedTick \/ JobEvent \/ SessionEvent

Spec == Init /\ [][Next]_kernelVars

\* The tick task runs for as long as the gateway does.
FairSpec == Spec /\ WF_kernelVars(BoundedTick)
-----------------------------------------------------------------------------
(* Properties *)

\* Every field of GatewayState is of its Rust type.
TypeOK ==
  /\ tick \in Nat
  /\ session_counter \in 0 .. MaxSessions
  /\ IsMap(available, Worker, [deadline : Nat, capabilities : SUBSET Capability])
  /\ IsMap(active_streams, Stream, Nat)
  /\ DOMAIN sessions \subseteq SessionId
  /\ sessions = [id \in DOMAIN sessions |-> sessions[id]]
  /\ \A id \in DOMAIN sessions : IsSession(sessions[id])
  /\ \A i \in DOMAIN effects : effects[i].type \in EffectType

SessionWindow(session, now) ==
  \A u \in DOMAIN session.subscribers :
    session.subscribers[u] \in now + 1 .. now + SubscriberTTL

\* Between two events nothing expired is left behind and nothing outlives one
\* time to live: every deadline the state holds lies in (tick, tick + ttl].
\* A heartbeat, a re-registration or a tick that computed its deadline from
\* another tick, or a filter off by one, leaves an entry outside the window.
DeadlineWindow ==
  /\ \A w \in DOMAIN available :
       available[w].deadline \in tick + 1 .. tick + WorkerTTL
  /\ \A s \in DOMAIN active_streams :
       active_streams[s] \in tick + 1 .. tick + StreamTTL
  /\ \A id \in DOMAIN sessions : SessionWindow(sessions[id], tick)

\* A live session has an id that the counter has already passed, so the id of
\* the next session is never that of a session somebody still uses.
IssuedSessionIds ==
  DOMAIN sessions \subseteq {HashOf[c] : c \in 0 .. session_counter - 1}

\* The effect at position i of the last transition is e.
Emitted(i, type, key, x) ==
  /\ i \in DOMAIN effects'
  /\ effects'[i].type = type
  /\ x \in effects'[i][key]

\* However a stream stops being active (cleared, failed, timed out), the same
\* step ends it for the client: one SendClientDone, and an error only before it.
EndsTold ==
  \A s \in DOMAIN active_streams \ DOMAIN active_streams' :
    \E i \in DOMAIN effects' :
      /\ Emitted(i, "SendClientDone", "streams", s)
      /\ \A j \in DOMAIN effects' \ {i} :
           /\ ~Emitted(j, "SendClientDone", "streams", s)
           /\ Emitted(j, "SendClientError", "streams", s) => j < i
StreamEndsTold == [][EndsTold]_kernelVars

\* A worker leaves the pool only to take a job it is capable of, whose stream
\* becomes active in that step, or because its deadline passed.
LeavesPool(w) ==
  \/ available[w].deadline <= tick'
  \/ \E s \in DOMAIN active_streams' \ DOMAIN active_streams,
       c \in available[w].capabilities : effects' = <<DispatchJob(w, s, c)>>
PoolConserved ==
  [][\A w \in DOMAIN available \ DOMAIN available' : LeavesPool(w)]_kernelVars

\* Everybody subscribed to session id, nobody if there is none.
SubscribersOf(id) == IF id \in DOMAIN sessions THEN DOMAIN sessions[id].subscribers ELSE {}

\* A subscriber that a session drops, by itself, by time or with the whole
\* session, is reported removed in that step: a handle is never forgotten.
ForgetsNobody ==
  \A id \in DOMAIN sessions : \A u \in SubscribersOf(id) \ SubscribersOf(id)' :
    \E i \in DOMAIN effects' : Emitted(i, "SubscriberRemoved", "subscribers", u)
SubscriberNeverForgotten == [][ForgetsNobody]_kernelVars

\* A session's log only grows, one entry per step; a session that goes away
\* hands its whole log out with SessionExpired and had no subscriber left
\* that was not removed in that step.
LogKept ==
  \A id \in DOMAIN sessions :
    LET log == sessions[id].entries IN
    IF id \in DOMAIN sessions'
      THEN LET log2 == sessions[id].entries' IN
             /\ Len(log2) \in Len(log) .. Len(log) + 1
             /\ SubSeq(log2, 1, Len(log)) = log
      ELSE \E i \in DOMAIN effects' :
             /\ effects'[i].type = "SessionExpired"
             /\ id \in DOMAIN effects'[i].logs
             /\ effects'[i].logs[id] = log
LogPermanence == [][LogKept]_kernelVars

\* A session that was dropped stays dropped: no event brings its id back, with
\* an empty log, for clients that still hold it.
SessionNeverRevived ==
  [][\A c \in 0 .. session_counter - 1 :
       HashOf[c] \in DOMAIN sessions' => HashOf[c] \in DOMAIN sessions]_kernelVars

\* Once heartbeats stop, time ends every session.
SessionsExpire ==
  \A id \in SessionId : id \in DOMAIN sessions ~> id \notin DOMAIN sessions
=============================================================================
