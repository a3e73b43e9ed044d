------------------------- MODULE GatewayKernelProofs -------------------------
(***************************************************************************)
(* Theorems about the gateway kernel, for every set of ids, every time to  *)
(* live and every bound.  KernelInv is the conjunction of the type         *)
(* invariant, the deadline window and the fact that live sessions have     *)
(* ids the counter has passed; it is inductive, and the action properties  *)
(* follow from it one step at a time.                                      *)
(***************************************************************************)
EXTENDS GatewayKernel, TLAPS

\* Inserting into a map keeps it a map.
LEMMA PutIsMap ==
  ASSUME NEW f, NEW K, NEW V, IsMap(f, K, V), NEW k \in K, NEW v \in V
  PROVE  IsMap(Put(f, k, v), K, V)
BY DEF IsMap, Put

\* Removing keys keeps a map a map.
LEMMA WithoutIsMap ==
  ASSUME NEW f, NEW K, NEW V, IsMap(f, K, V), NEW R
  PROVE  IsMap(Without(f, R), K, V)
BY DEF IsMap, Without

\* Overwriting the value of a key keeps a map a map.
LEMMA ExceptIsMap ==
  ASSUME NEW f, NEW K, NEW V, IsMap(f, K, V), NEW k \in DOMAIN f, NEW v \in V
  PROVE  IsMap([f EXCEPT ![k] = v], K, V)
<1>1. /\ DOMAIN f \subseteq K
      /\ f \in [DOMAIN f -> V]
  BY DEF IsMap
<1>2. [f EXCEPT ![k] = v] \in [DOMAIN f -> V]
  BY <1>1
<1>3. DOMAIN [f EXCEPT ![k] = v] = DOMAIN f
  BY <1>1
<1> QED
  BY <1>1, <1>2, <1>3 DEF IsMap

WorkerRecord == [deadline : Nat, capabilities : SUBSET Capability]

KernelInv == TypeOK /\ DeadlineWindow /\ IssuedSessionIds

\* The empty gateway satisfies the invariant.
LEMMA InitKernelInv == Init => KernelInv
<1> SUFFICES ASSUME Init PROVE KernelInv
  OBVIOUS
<1>1. TypeOK
  BY BoundAssumption DEF Init, TypeOK, EmptyMap, IsMap
<1>2. DeadlineWindow
  BY DEF Init, DeadlineWindow, EmptyMap
<1>3. IssuedSessionIds
  BY DEF Init, IssuedSessionIds, EmptyMap
<1> QED
  BY <1>1, <1>2, <1>3 DEF KernelInv

-----------------------------------------------------------------------------
(* The job side *)

\* An event that the kernel refuses changes nothing.
LEMMA RefusalInv ==
  ASSUME KernelInv, UNCHANGED state,
         \A i \in DOMAIN effects' : effects'[i].type \in EffectType
  PROVE  KernelInv'
BY DEF KernelInv, TypeOK, DeadlineWindow, IssuedSessionIds, state, IsMap, IsSession

LEMMA ViolationInv ==
  ASSUME KernelInv, Violation
  PROVE  KernelInv'
<1>1. \A i \in DOMAIN effects' : effects'[i].type \in EffectType
  BY DEF Violation, ProtocolViolation, EffectType
<1> QED
  BY <1>1, RefusalInv DEF Violation

\* A step that leaves the sessions and the clock alone keeps the invariant when
\* it keeps the pool and the streams typed and inside their windows.
LEMMA JobStepInv ==
  ASSUME KernelInv, UNCHANGED <<tick, session_counter, sessions>>,
         IsMap(available', Worker, WorkerRecord),
         IsMap(active_streams', Stream, Nat),
         \A w \in DOMAIN available' :
           available'[w].deadline \in tick + 1 .. tick + WorkerTTL,
         \A s \in DOMAIN active_streams' :
           active_streams'[s] \in tick + 1 .. tick + StreamTTL,
         \A i \in DOMAIN effects' : effects'[i].type \in EffectType
  PROVE  KernelInv'
<1>1. TypeOK'
  BY DEF KernelInv, TypeOK, IsSession, IsMap, WorkerRecord
<1>2. DeadlineWindow'
  BY DEF KernelInv, DeadlineWindow
<1>3. IssuedSessionIds'
  BY DEF KernelInv, IssuedSessionIds
<1> QED
  BY <1>1, <1>2, <1>3 DEF KernelInv

LEMMA HttpChatRequestedInv ==
  ASSUME KernelInv, NEW s \in Stream, NEW stream \in BOOLEAN, NEW c \in Capability,
         HttpChatRequested(s, stream, c)
  PROVE  KernelInv'
<1> USE DEF KernelInv
<1>1. CASE RejectChat(s, stream, c)
  <2>1. \A i \in DOMAIN effects' : effects'[i].type \in EffectType
    BY <1>1 DEF RejectChat, FailStreams, SendClientError, SendClientDone, EffectType
  <2> QED
    BY <1>1, <2>1, RefusalInv DEF RejectChat
<1>2. CASE AcceptChat(s, stream, c)
  <2>1. PICK w \in Capable(c) :
          /\ available' = Without(available, {w})
          /\ effects' = <<DispatchJob(w, s, c)>>
    BY <1>2 DEF AcceptChat
  <2>2. active_streams' = Put(active_streams, s, tick + StreamTTL)
    BY <1>2 DEF AcceptChat, Deadline
  <2>3. IsMap(available', Worker, WorkerRecord)
    BY <2>1, WithoutIsMap DEF TypeOK, WorkerRecord
  <2>4. IsMap(active_streams', Stream, Nat)
    BY <2>2, PutIsMap, TTLAssumption DEF TypeOK
  <2>5. \A v \in DOMAIN available' :
          available'[v].deadline \in tick + 1 .. tick + WorkerTTL
    BY <2>1 DEF DeadlineWindow, Without
  <2>6. \A t \in DOMAIN active_streams' :
          active_streams'[t] \in tick + 1 .. tick + StreamTTL
    BY <2>2, TTLAssumption DEF DeadlineWindow, Put, TypeOK
  <2>7. \A i \in DOMAIN effects' : effects'[i].type \in EffectType
    BY <2>1 DEF DispatchJob, EffectType
  <2>8. UNCHANGED <<tick, session_counter, sessions>>
    BY <1>2 DEF AcceptChat
  <2> QED
    BY <2>3, <2>4, <2>5, <2>6, <2>7, <2>8, JobStepInv
<1> QED
  BY <1>1, <1>2 DEF HttpChatRequested

LEMMA WorkerRegisteredInv ==
  ASSUME KernelInv, NEW w \in Worker, NEW caps \in SUBSET Capability,
         WorkerRegistered(w, caps)
  PROVE  KernelInv'
<1> USE DEF KernelInv
<1>1. CASE w \notin DOMAIN available
  <2>1. /\ available' = Put(available, w, WorkerEntry(caps))
        /\ effects' = <<>>
        /\ UNCHANGED <<tick, session_counter, active_streams, sessions>>
    BY <1>1 DEF WorkerRegistered
  <2>2. WorkerEntry(caps) \in WorkerRecord
    BY TTLAssumption DEF WorkerEntry, Deadline, WorkerRecord, TypeOK
  <2>3. IsMap(available', Worker, WorkerRecord)
    BY <2>1, <2>2, PutIsMap DEF TypeOK, WorkerRecord
  <2>4. \A v \in DOMAIN available' :
          available'[v].deadline \in tick + 1 .. tick + WorkerTTL
    BY <2>1, TTLAssumption DEF DeadlineWindow, Put, WorkerEntry, Deadline, TypeOK
  <2>5. /\ IsMap(active_streams', Stream, Nat)
        /\ \A s \in DOMAIN active_streams' :
             active_streams'[s] \in tick + 1 .. tick + StreamTTL
    BY <2>1 DEF TypeOK, DeadlineWindow
  <2>6. \A i \in DOMAIN effects' : effects'[i].type \in EffectType
    BY <2>1
  <2> QED
    BY <2>1, <2>3, <2>4, <2>5, <2>6, JobStepInv
<1>2. CASE w \in DOMAIN available
  BY <1>2, ViolationInv DEF WorkerRegistered
<1> QED
  BY <1>1, <1>2

LEMMA WorkerHeartbeatInv ==
  ASSUME KernelInv, NEW w \in Worker, WorkerHeartbeat(w)
  PROVE  KernelInv'
<1> USE DEF KernelInv
<1>1. CASE w \in DOMAIN available
  <2>1. /\ available' = [available EXCEPT ![w].deadline = tick + WorkerTTL]
        /\ effects' = <<>>
        /\ UNCHANGED <<tick, session_counter, active_streams, sessions>>
    BY <1>1 DEF WorkerHeartbeat, Deadline
  <2>2. IsMap(available', Worker, WorkerRecord)
    <3>1. available[w] \in WorkerRecord
      BY <1>1 DEF TypeOK, IsMap, WorkerRecord
    <3>2. [available[w] EXCEPT !.deadline = tick + WorkerTTL] \in WorkerRecord
      BY <3>1, TTLAssumption DEF TypeOK, WorkerRecord
    <3>3. available' = [available EXCEPT
                          ![w] = [available[w] EXCEPT !.deadline = tick + WorkerTTL]]
      BY <2>1
    <3> QED
      BY <1>1, <3>2, <3>3, ExceptIsMap DEF TypeOK, WorkerRecord
  <2>3. \A v \in DOMAIN available' :
          available'[v].deadline \in tick + 1 .. tick + WorkerTTL
    BY <2>1, TTLAssumption DEF DeadlineWindow, TypeOK, IsMap
  <2>4. /\ IsMap(active_streams', Stream, Nat)
        /\ \A s \in DOMAIN active_streams' :
             active_streams'[s] \in tick + 1 .. tick + StreamTTL
    BY <2>1 DEF TypeOK, DeadlineWindow
  <2>5. \A i \in DOMAIN effects' : effects'[i].type \in EffectType
    BY <2>1
  <2> QED
    BY <2>1, <2>2, <2>3, <2>4, <2>5, JobStepInv
<1>2. CASE w \notin DOMAIN available
  BY <1>2, ViolationInv DEF WorkerHeartbeat
<1> QED
  BY <1>1, <1>2

LEMMA StreamHeartbeatInv ==
  ASSUME KernelInv, NEW s \in Stream, StreamHeartbeat(s)
  PROVE  KernelInv'
<1> USE DEF KernelInv
<1>1. CASE s \in DOMAIN active_streams
  <2>1. /\ active_streams' = [active_streams EXCEPT ![s] = tick + StreamTTL]
        /\ effects' = <<>>
        /\ UNCHANGED <<tick, session_counter, available, sessions>>
    BY <1>1 DEF StreamHeartbeat, Deadline
  <2>2. IsMap(active_streams', Stream, Nat)
    <3>1. tick + StreamTTL \in Nat /\ IsMap(active_streams, Stream, Nat)
      BY TTLAssumption DEF TypeOK
    <3> QED
      BY <1>1, <2>1, <3>1, ExceptIsMap
  <2>3. \A t \in DOMAIN active_streams' :
          active_streams'[t] \in tick + 1 .. tick + StreamTTL
    BY <2>1, TTLAssumption DEF DeadlineWindow, TypeOK, IsMap
  <2>4. /\ IsMap(available', Worker, WorkerRecord)
        /\ \A w \in DOMAIN available' :
             available'[w].deadline \in tick + 1 .. tick + WorkerTTL
    BY <2>1 DEF TypeOK, DeadlineWindow, WorkerRecord
  <2>5. \A i \in DOMAIN effects' : effects'[i].type \in EffectType
    BY <2>1
  <2> QED
    BY <2>1, <2>2, <2>3, <2>4, <2>5, JobStepInv
<1>2. CASE s \notin DOMAIN active_streams
  BY <1>2, ViolationInv DEF StreamHeartbeat
<1> QED
  BY <1>1, <1>2

LEMMA EndAssignmentInv ==
  ASSUME KernelInv, NEW s \in Stream, AssignmentCleared(s) \/ AssignmentFailed(s)
  PROVE  KernelInv'
<1> USE DEF KernelInv
<1>1. CASE s \in DOMAIN active_streams
  <2>1. /\ active_streams' = Without(active_streams, {s})
        /\ UNCHANGED <<tick, session_counter, available, sessions>>
    BY <1>1 DEF AssignmentCleared, AssignmentFailed, EndAssignment
  <2>2. \A i \in DOMAIN effects' : effects'[i].type \in EffectType
    BY <1>1 DEF AssignmentCleared, AssignmentFailed, EndAssignment, FailStreams,
                SendClientError, SendClientDone, EffectType
  <2>3. IsMap(active_streams', Stream, Nat)
    BY <2>1, WithoutIsMap DEF TypeOK
  <2>4. \A t \in DOMAIN active_streams' :
          active_streams'[t] \in tick + 1 .. tick + StreamTTL
    BY <2>1 DEF DeadlineWindow, Without
  <2>5. /\ IsMap(available', Worker, WorkerRecord)
        /\ \A w \in DOMAIN available' :
             available'[w].deadline \in tick + 1 .. tick + WorkerTTL
    BY <2>1 DEF TypeOK, DeadlineWindow, WorkerRecord
  <2> QED
    BY <2>1, <2>2, <2>3, <2>4, <2>5, JobStepInv
<1>2. CASE s \notin DOMAIN active_streams
  BY <1>2, ViolationInv DEF AssignmentCleared, AssignmentFailed, EndAssignment
<1> QED
  BY <1>1, <1>2
-----------------------------------------------------------------------------
(* The session side *)

\* Appending keeps a session well formed and its window.
LEMMA WithEntryOK ==
  ASSUME NEW session, IsSession(session), NEW p \in Payload, NEW now
  PROVE  /\ IsSession(WithEntry(session, p))
         /\ SessionWindow(session, now) => SessionWindow(WithEntry(session, p), now)
<1>1. session = [entries |-> session.entries, subscribers |-> session.subscribers]
  BY DEF IsSession
<1>2. WithEntry(session, p) =
        [entries |-> Append(session.entries, p), subscribers |-> session.subscribers]
  <2>1. ASSUME NEW e
        PROVE  [session EXCEPT !.entries = e] =
               [entries |-> e, subscribers |-> session.subscribers]
    BY <1>1
  <2> QED
    BY <2>1 DEF WithEntry
<1> QED
  BY <1>2 DEF IsSession, SessionWindow

\* Subscribing, and a heartbeat, keep a session well formed and its deadlines
\* inside the window.
LEMMA WithSubscriberOK ==
  ASSUME NEW session, IsSession(session), NEW u \in Subscriber, NEW now \in Nat,
         SessionWindow(session, now)
  PROVE  /\ IsSession(WithSubscriber(session, u, now))
         /\ SessionWindow(WithSubscriber(session, u, now), now)
<1> DEFINE next == WithSubscriber(session, u, now)
<1>1. /\ session = [entries |-> session.entries, subscribers |-> session.subscribers]
      /\ session.entries \in Seq(Payload)
      /\ IsMap(session.subscribers, Subscriber, Nat)
  BY DEF IsSession
<1>2. next = [entries |-> session.entries,
              subscribers |-> Put(session.subscribers, u, now + SubscriberTTL)]
  BY <1>1 DEF WithSubscriber
<1>3. now + SubscriberTTL \in Nat
  BY TTLAssumption
<1>4. IsMap(next.subscribers, Subscriber, Nat)
  BY <1>1, <1>2, <1>3, PutIsMap
<1>5. IsSession(next)
  BY <1>1, <1>2, <1>4 DEF IsSession
<1>6. SessionWindow(next, now)
  BY <1>2, TTLAssumption DEF SessionWindow, Put
<1> QED
  BY <1>5, <1>6

\* Removing subscribers keeps a session well formed and its window.
LEMMA WithoutSubscribersOK ==
  ASSUME NEW session, IsSession(session), NEW U, NEW now
  PROVE  /\ IsSession(WithoutSubscribers(session, U))
         /\ SessionWindow(session, now) => SessionWindow(WithoutSubscribers(session, U), now)
<1> DEFINE next == WithoutSubscribers(session, U)
<1>1. /\ session = [entries |-> session.entries, subscribers |-> session.subscribers]
      /\ session.entries \in Seq(Payload)
      /\ IsMap(session.subscribers, Subscriber, Nat)
  BY DEF IsSession
<1>2. next = [entries |-> session.entries, subscribers |-> Without(session.subscribers, U)]
  BY <1>1 DEF WithoutSubscribers
<1>3. IsMap(next.subscribers, Subscriber, Nat)
  BY <1>1, <1>2, WithoutIsMap
<1>4. IsSession(next)
  BY <1>1, <1>2, <1>3 DEF IsSession
<1>5. SessionWindow(session, now) => SessionWindow(next, now)
  BY <1>2 DEF SessionWindow, Without
<1> QED
  BY <1>4, <1>5

\* The subscribers that survive a tick are inside the window of the new tick.
LEMMA SessionTickedOK ==
  ASSUME NEW session, IsSession(session), NEW now \in Nat, SessionWindow(session, now)
  PROVE  /\ IsSession(SessionTicked(session, now + 1))
         /\ SessionWindow(SessionTicked(session, now + 1), now + 1)
<1> DEFINE next == SessionTicked(session, now + 1)
           Out == ExpiredSubscribers(session, now + 1)
<1>1. IsSession(next)
  BY WithoutSubscribersOK DEF SessionTicked
<1>2. next.subscribers = Without(session.subscribers, Out)
  BY DEF SessionTicked, WithoutSubscribers, IsSession
<1>3. \A u \in DOMAIN session.subscribers :
        /\ session.subscribers[u] \in now + 1 .. now + SubscriberTTL
        /\ u \notin Out => ~(session.subscribers[u] <= now + 1)
  BY DEF SessionWindow, ExpiredSubscribers, Expired
<1>4. \A u \in DOMAIN next.subscribers :
        u \in DOMAIN session.subscribers \ Out /\ next.subscribers[u] = session.subscribers[u]
  BY <1>2 DEF Without
<1>5. SessionWindow(next, now + 1)
  BY <1>3, <1>4, TTLAssumption DEF SessionWindow
<1> QED
  BY <1>1, <1>5

\* A step of one session that leaves the job side and the clock alone.
LEMMA SessionStepInv ==
  ASSUME KernelInv, NEW id \in DOMAIN sessions, NEW next, NEW told,
         SessionStep(id, next, told),
         IsSession(next), SessionWindow(next, tick),
         \A i \in DOMAIN told : told[i].type \in EffectType
  PROVE  KernelInv'
<1> USE DEF KernelInv
<1>1. /\ sessions' = [sessions EXCEPT ![id] = next]
      /\ effects' = told
      /\ UNCHANGED <<tick, session_counter, available, active_streams>>
  BY DEF SessionStep
<1>2. sessions = [i \in DOMAIN sessions |-> sessions[i]]
  BY DEF TypeOK
<1>3. sessions' = [i \in DOMAIN sessions |-> IF i = id THEN next ELSE sessions[i]]
  BY <1>1, <1>2
<1>4. TypeOK'
  BY <1>1, <1>3, ZenonT(60) DEF TypeOK, IsMap, IsSession
<1>5. DeadlineWindow'
  BY <1>1, <1>3 DEF DeadlineWindow, SessionWindow
<1>6. IssuedSessionIds'
  BY <1>1, <1>3 DEF IssuedSessionIds
<1> QED
  BY <1>4, <1>5, <1>6

LEMMA UnknownSessionInv ==
  ASSUME KernelInv, NEW id, NEW U, UnknownSession(id, U)
  PROVE  KernelInv'
<1>1. \A i \in DOMAIN effects' : effects'[i].type \in EffectType
  BY DEF UnknownSession, ProtocolViolation, SubscriberRemoved, EffectType
<1> QED
  BY <1>1, RefusalInv DEF UnknownSession

LEMMA SessionRequestedInv ==
  ASSUME KernelInv, session_counter < MaxSessions, NEW u \in Subscriber,
         SessionRequested(u)
  PROVE  KernelInv'
<1> USE DEF KernelInv
<1> DEFINE first == WithSubscriber(EmptySession, u, tick)
           new == NewSessionId
<1>1. IsSession(EmptySession) /\ SessionWindow(EmptySession, tick)
  BY DEF IsSession, SessionWindow, EmptySession, EmptyMap, IsMap
<1>2. IsSession(first) /\ SessionWindow(first, tick)
  BY <1>1, WithSubscriberOK DEF TypeOK
<1>3. new \in SessionId
  BY HashAssumption, BoundAssumption DEF NewSessionId, TypeOK
<1>4. /\ session_counter' = session_counter + 1
      /\ UNCHANGED <<tick, available, active_streams>>
      /\ effects' = <<SessionCreated(new, u)>>
  BY DEF SessionRequested
<1>5. sessions' = [i \in DOMAIN sessions \union {new} |-> IF i = new THEN first ELSE sessions[i]]
  BY DEF SessionRequested, Put
<1>6. \A i \in DOMAIN sessions' : IsSession(sessions'[i]) /\ SessionWindow(sessions'[i], tick)
  BY <1>2, <1>5 DEF TypeOK, DeadlineWindow
<1>7. TypeOK'
  <2>1. session_counter' \in 0 .. MaxSessions
    BY <1>4, BoundAssumption DEF TypeOK
  <2>2. \A i \in DOMAIN effects' : effects'[i].type \in EffectType
    BY <1>4 DEF SessionCreated, EffectType
  <2>3. \A i \in DOMAIN sessions' : IsSession(sessions[i])'
    BY <1>6 DEF IsSession, IsMap
  <2>4. /\ DOMAIN sessions' \subseteq SessionId
        /\ sessions' = [i \in DOMAIN sessions' |-> sessions'[i]]
    BY <1>3, <1>5 DEF TypeOK
  <2> QED
    BY <1>4, <2>1, <2>2, <2>3, <2>4 DEF TypeOK, IsMap
<1>8. DeadlineWindow'
  BY <1>4, <1>6 DEF DeadlineWindow, SessionWindow
<1>9. IssuedSessionIds'
  BY <1>4, <1>5, BoundAssumption DEF IssuedSessionIds, TypeOK, NewSessionId
<1> QED
  BY <1>7, <1>8, <1>9

LEMMA SessionEventInv ==
  ASSUME KernelInv, NEW id \in SessionId,
         \/ \E p \in Payload : EntryAppended(id, p)
         \/ \E u \in Subscriber :
              Subscribed(id, u) \/ Unsubscribed(id, u) \/ SubscriberHeartbeat(id, u)
  PROVE  KernelInv'
<1> USE DEF KernelInv
<1>1. CASE id \notin DOMAIN sessions
  BY <1>1, UnknownSessionInv
     DEF EntryAppended, Subscribed, Unsubscribed, SubscriberHeartbeat, SessionStep
<1>2. CASE id \in DOMAIN sessions
  <2> DEFINE session == sessions[id]
  <2>1. IsSession(session) /\ SessionWindow(session, tick) /\ tick \in Nat
    BY <1>2 DEF TypeOK, DeadlineWindow
  <2>2. ASSUME NEW p \in Payload, EntryAppended(id, p)
        PROVE  KernelInv'
    <3> DEFINE told == <<NotifySubscribers(Len(session.entries), p, DOMAIN session.subscribers)>>
    <3>1. SessionStep(id, WithEntry(session, p), told)
      BY <1>2, <2>2 DEF EntryAppended, UnknownSession
    <3>2. \A i \in DOMAIN told : told[i].type \in EffectType
      BY DEF NotifySubscribers, EffectType
    <3> HIDE DEF told
    <3> QED
      BY <1>2, <2>1, <3>1, <3>2, WithEntryOK, SessionStepInv
  <2>3. ASSUME NEW u \in Subscriber, Subscribed(id, u)
        PROVE  KernelInv'
    <3>1. SessionStep(id, WithSubscriber(session, u, tick), <<>>)
      BY <1>2, <2>3 DEF Subscribed, UnknownSession
    <3> QED
      BY <1>2, <2>1, <3>1, WithSubscriberOK, SessionStepInv
  <2>4. ASSUME NEW u \in Subscriber, Unsubscribed(id, u)
        PROVE  KernelInv'
    <3> DEFINE told == <<SubscriberRemoved({u} \intersect DOMAIN session.subscribers)>>
    <3>1. SessionStep(id, WithoutSubscribers(session, {u}), told)
      BY <1>2, <2>4 DEF Unsubscribed, UnknownSession
    <3>2. \A i \in DOMAIN told : told[i].type \in EffectType
      BY DEF SubscriberRemoved, EffectType
    <3> HIDE DEF told
    <3> QED
      BY <1>2, <2>1, <3>1, <3>2, WithoutSubscribersOK, SessionStepInv
  <2>5. ASSUME NEW u \in Subscriber, SubscriberHeartbeat(id, u)
        PROVE  KernelInv'
    <3> DEFINE next == IF u \in DOMAIN session.subscribers
                         THEN WithSubscriber(session, u, tick) ELSE session
    <3>1. SessionStep(id, next, <<>>)
      BY <1>2, <2>5 DEF SubscriberHeartbeat, UnknownSession
    <3>2. IsSession(next) /\ SessionWindow(next, tick)
      BY <2>1, WithSubscriberOK
    <3> HIDE DEF next
    <3> QED
      BY <1>2, <3>1, <3>2, SessionStepInv
  <2> QED
    BY <2>2, <2>3, <2>4, <2>5
<1> QED
  BY <1>1, <1>2
-----------------------------------------------------------------------------
(* Time, and the invariant *)

LEMMA TickInv ==
  ASSUME KernelInv, Tick
  PROVE  KernelInv'
<1> USE DEF KernelInv
<1> DEFINE now == tick + 1
           ticked == [id \in DOMAIN sessions |-> SessionTicked(sessions[id], now)]
           removed == UNION {ExpiredSubscribers(sessions[id], now) : id \in DOMAIN sessions}
           empty == {id \in DOMAIN sessions : DOMAIN ticked[id].subscribers = {}}
<1>1. /\ tick' = now
      /\ available' = Without(available, ExpiredWorkers(now))
      /\ active_streams' = Without(active_streams, ExpiredStreams(now))
      /\ sessions' = Without(ticked, empty)
      /\ effects' = <<SendClientError(ExpiredStreams(now)),
                      SendClientDone(ExpiredStreams(now)),
                      SubscriberRemoved(removed),
                      SessionExpired([id \in empty |-> ticked[id].entries])>>
      /\ session_counter' = session_counter
  BY DEF Tick
<1>2. tick \in Nat /\ now \in Nat
  BY DEF TypeOK
<1>3. \A id \in DOMAIN sessions' :
        /\ id \in DOMAIN sessions
        /\ sessions'[id] = SessionTicked(sessions[id], now)
  BY <1>1 DEF Without
<1>4. \A id \in DOMAIN sessions' : IsSession(sessions'[id]) /\ SessionWindow(sessions'[id], now)
  BY <1>2, <1>3, SessionTickedOK DEF TypeOK, DeadlineWindow
<1>5. sessions' = [id \in DOMAIN sessions' |-> sessions'[id]]
  BY <1>1 DEF Without
<1>6. \A i \in DOMAIN effects' : effects'[i].type \in EffectType
  <2> DEFINE logs == [id \in empty |-> ticked[id].entries]
             late == ExpiredStreams(now)
  <2>1. effects' = <<SendClientError(late), SendClientDone(late),
                     SubscriberRemoved(removed), SessionExpired(logs)>>
    BY <1>1
  <2> HIDE DEF logs, late, removed
  <2> QED
    BY <2>1 DEF SendClientError, SendClientDone, SubscriberRemoved, SessionExpired, EffectType
<1>7. IsMap(available', Worker, WorkerRecord) /\ IsMap(active_streams', Stream, Nat)
  BY <1>1, WithoutIsMap DEF TypeOK, WorkerRecord
<1>8. TypeOK'
  <2>1. \A id \in DOMAIN sessions' : IsSession(sessions[id])'
    BY <1>4 DEF IsSession, IsMap
  <2>2. DOMAIN sessions' \subseteq SessionId
    BY <1>3 DEF TypeOK
  <2> QED
    BY <1>1, <1>2, <1>5, <1>6, <1>7, <2>1, <2>2 DEF TypeOK, IsMap, WorkerRecord
<1>9. DeadlineWindow'
  <2>1. \A w \in DOMAIN available' : available'[w].deadline \in now + 1 .. now + WorkerTTL
    <3> SUFFICES ASSUME NEW w \in DOMAIN available'
                 PROVE  available'[w].deadline \in now + 1 .. now + WorkerTTL
      OBVIOUS
    <3>1. /\ w \in DOMAIN available
          /\ available'[w] = available[w]
          /\ ~(available[w].deadline <= now)
      BY <1>1 DEF Without, ExpiredWorkers, Expired
    <3>2. available[w].deadline \in tick + 1 .. tick + WorkerTTL
      BY <3>1 DEF DeadlineWindow
    <3> QED
      BY <1>2, <3>1, <3>2, TTLAssumption
  <2>2. \A s \in DOMAIN active_streams' :
          active_streams'[s] \in now + 1 .. now + StreamTTL
    <3> SUFFICES ASSUME NEW s \in DOMAIN active_streams'
                 PROVE  active_streams'[s] \in now + 1 .. now + StreamTTL
      OBVIOUS
    <3>1. /\ s \in DOMAIN active_streams
          /\ active_streams'[s] = active_streams[s]
          /\ ~(active_streams[s] <= now)
      BY <1>1 DEF Without, ExpiredStreams, Expired
    <3>2. active_streams[s] \in tick + 1 .. tick + StreamTTL
      BY <3>1 DEF DeadlineWindow
    <3> QED
      BY <1>2, <3>1, <3>2, TTLAssumption
  <2> QED
    BY <1>1, <1>4, <2>1, <2>2 DEF DeadlineWindow, SessionWindow
<1>10. IssuedSessionIds'
  BY <1>1, <1>3 DEF IssuedSessionIds
<1> QED
  BY <1>8, <1>9, <1>10

\* Every step of the kernel keeps the invariant.
LEMMA NextKernelInv ==
  ASSUME KernelInv, [Next]_kernelVars
  PROVE  KernelInv'
<1>1. CASE BoundedTick
  BY <1>1, TickInv DEF BoundedTick
<1>2. CASE JobEvent
  BY <1>2, HttpChatRequestedInv, WorkerRegisteredInv, WorkerHeartbeatInv,
     StreamHeartbeatInv, EndAssignmentInv DEF JobEvent
<1>3. CASE SessionEvent
  BY <1>3, SessionRequestedInv, SessionEventInv DEF SessionEvent
<1>4. CASE UNCHANGED kernelVars
  BY <1>4 DEF kernelVars, state, KernelInv, TypeOK, DeadlineWindow, IssuedSessionIds,
              IsMap, IsSession, SessionWindow
<1> QED
  BY <1>1, <1>2, <1>3, <1>4 DEF Next

\* KernelInv holds of every state of the kernel.
THEOREM KernelInvariance == Spec => []KernelInv
<1>1. Init => KernelInv
  BY InitKernelInv
<1>2. KernelInv /\ [Next]_kernelVars => KernelInv'
  BY NextKernelInv
<1> QED
  BY <1>1, <1>2, PTL DEF Spec

\* The state the kernel keeps is well typed, whatever events arrive.
THEOREM KernelTypeOK == Spec => []TypeOK
<1>1. KernelInv => TypeOK
  BY DEF KernelInv
<1> QED
  BY <1>1, KernelInvariance, PTL

\* No expired worker, stream or subscriber survives a tick, and none outlives
\* its time to live: tick's filters and every deadline assignment agree.
THEOREM KernelDeadlineWindow == Spec => []DeadlineWindow
<1>1. KernelInv => DeadlineWindow
  BY DEF KernelInv
<1> QED
  BY <1>1, KernelInvariance, PTL

\* The id of a new session is never the id of a live one.
THEOREM KernelIssuedSessionIds == Spec => []IssuedSessionIds
<1>1. KernelInv => IssuedSessionIds
  BY DEF KernelInv
<1> QED
  BY <1>1, KernelInvariance, PTL
-----------------------------------------------------------------------------
(* Action properties *)

\* What one step does to the set of streams, session by session and stream by
\* stream: the facts the action properties are read off from.
LEMMA StreamsStep ==
  ASSUME KernelInv, Next
  PROVE  \/ DOMAIN active_streams \subseteq DOMAIN active_streams'
         \/ \E s \in Stream :
              /\ active_streams' = Without(active_streams, {s})
              /\ effects' \in {<<SendClientDone({s})>>, FailStreams({s})}
         \/ \E S, U, logs :
              /\ active_streams' = Without(active_streams, S)
              /\ effects' = <<SendClientError(S), SendClientDone(S),
                              SubscriberRemoved(U), SessionExpired(logs)>>
<1>1. CASE BoundedTick
  BY <1>1 DEF BoundedTick, Tick
<1>2. CASE JobEvent
  <2>1. ASSUME NEW s \in Stream, NEW stream \in BOOLEAN, NEW c \in Capability,
               HttpChatRequested(s, stream, c)
        PROVE  DOMAIN active_streams \subseteq DOMAIN active_streams'
    BY <2>1 DEF HttpChatRequested, RejectChat, AcceptChat, Put, state
  <2>2. ASSUME NEW w \in Worker, NEW caps, WorkerRegistered(w, caps) \/ WorkerHeartbeat(w)
        PROVE  DOMAIN active_streams \subseteq DOMAIN active_streams'
    BY <2>2 DEF WorkerRegistered, WorkerHeartbeat, Violation, state
  <2>3. ASSUME NEW s \in Stream, StreamHeartbeat(s)
        PROVE  DOMAIN active_streams \subseteq DOMAIN active_streams'
    BY <2>3 DEF StreamHeartbeat, Violation, state, KernelInv, TypeOK, IsMap
  <2>4. ASSUME NEW s \in Stream, AssignmentCleared(s) \/ AssignmentFailed(s)
        PROVE  \/ DOMAIN active_streams \subseteq DOMAIN active_streams'
               \/ /\ active_streams' = Without(active_streams, {s})
                  /\ effects' \in {<<SendClientDone({s})>>, FailStreams({s})}
    BY <2>4 DEF AssignmentCleared, AssignmentFailed, EndAssignment, Violation, state
  <2> QED
    BY <1>2, <2>1, <2>2, <2>3, <2>4 DEF JobEvent
<1>3. CASE SessionEvent
  BY <1>3 DEF SessionEvent, SessionRequested, EntryAppended, Subscribed, Unsubscribed,
              SubscriberHeartbeat, UnknownSession, SessionStep, state
<1> QED
  BY <1>1, <1>2, <1>3 DEF Next

\* However a stream stops being active, its client is told so in that step, by
\* one Done that no error follows.
THEOREM KernelStreamEndsTold == Spec => StreamEndsTold
<1>1. ASSUME KernelInv, Next
      PROVE  EndsTold
  <2> SUFFICES ASSUME NEW s \in DOMAIN active_streams \ DOMAIN active_streams'
               PROVE  \E i \in DOMAIN effects' :
                        /\ Emitted(i, "SendClientDone", "streams", s)
                        /\ \A j \in DOMAIN effects' \ {i} :
                             /\ ~Emitted(j, "SendClientDone", "streams", s)
                             /\ Emitted(j, "SendClientError", "streams", s) => j < i
    BY DEF EndsTold
  <2>1. CASE \E t \in Stream :
               /\ active_streams' = Without(active_streams, {t})
               /\ effects' \in {<<SendClientDone({t})>>, FailStreams({t})}
    BY <2>1 DEF Without, FailStreams, SendClientDone, SendClientError, Emitted
  <2>2. CASE \E S, U, logs :
               /\ active_streams' = Without(active_streams, S)
               /\ effects' = <<SendClientError(S), SendClientDone(S),
                               SubscriberRemoved(U), SessionExpired(logs)>>
    BY <2>2 DEF Without, SendClientDone, SendClientError, SubscriberRemoved,
                SessionExpired, Emitted
  <2> QED
    BY <1>1, <2>1, <2>2, StreamsStep
<1>2. KernelInv /\ [Next]_kernelVars => [EndsTold]_kernelVars
  BY <1>1
<1> QED
  BY <1>2, KernelInvariance, PTL DEF Spec, StreamEndsTold

\* The id of a dropped session never comes back to life.
THEOREM KernelSessionNeverRevived == Spec => SessionNeverRevived
<1> DEFINE Kept == \A c \in 0 .. session_counter - 1 :
                     HashOf[c] \in DOMAIN sessions' => HashOf[c] \in DOMAIN sessions
<1>1. ASSUME KernelInv, Next
      PROVE  Kept
  <2>1. CASE DOMAIN sessions' \subseteq DOMAIN sessions
    BY <2>1
  <2>2. ASSUME NEW u \in Subscriber, session_counter < MaxSessions, SessionRequested(u)
        PROVE  Kept
    <3>1. DOMAIN sessions' = DOMAIN sessions \union {HashOf[session_counter]}
      BY <2>2 DEF SessionRequested, Put, NewSessionId
    <3>2. \A c \in 0 .. session_counter - 1 : HashOf[c] # HashOf[session_counter]
      BY <1>1, <2>2, HashAssumption, BoundAssumption DEF KernelInv, TypeOK
    <3> QED
      BY <3>1, <3>2
  <2>3. CASE BoundedTick
    BY <2>1, <2>3 DEF BoundedTick, Tick, Without
  <2>4. CASE JobEvent
    BY <2>1, <2>4 DEF JobEvent, HttpChatRequested, RejectChat, AcceptChat, WorkerRegistered,
              WorkerHeartbeat, StreamHeartbeat, AssignmentCleared, AssignmentFailed,
              EndAssignment, Violation, state
  <2>5. ASSUME NEW id \in SessionId,
               \/ \E p \in Payload : EntryAppended(id, p)
               \/ \E u \in Subscriber :
                    Subscribed(id, u) \/ Unsubscribed(id, u) \/ SubscriberHeartbeat(id, u)
        PROVE  DOMAIN sessions' \subseteq DOMAIN sessions
    BY <1>1, <2>5 DEF EntryAppended, Subscribed, Unsubscribed, SubscriberHeartbeat,
              UnknownSession, SessionStep, state, KernelInv, TypeOK
  <2>6. CASE SessionEvent
    BY <2>1, <2>2, <2>5, <2>6 DEF SessionEvent
  <2> QED
    BY <1>1, <2>3, <2>4, <2>6 DEF Next
<1>2. KernelInv /\ [Next]_kernelVars => [Kept]_kernelVars
  BY <1>1
<1> QED
  BY <1>2, KernelInvariance, PTL DEF Spec, SessionNeverRevived

\* The kinds of step, seen from the sessions: all untouched, a new one beside
\* them, one of them changed by a session event, or a tick of them all.
LEMMA SessionsStep ==
  ASSUME KernelInv, Next
  PROVE  \/ sessions' = sessions
         \/ \E new, first : new \notin DOMAIN sessions /\ sessions' = Put(sessions, new, first)
         \/ \E id \in DOMAIN sessions, p \in Payload :
              sessions' = [sessions EXCEPT ![id] = WithEntry(sessions[id], p)]
         \/ \E id \in DOMAIN sessions, u \in Subscriber :
              sessions' = [sessions EXCEPT ![id] = WithSubscriber(sessions[id], u, tick)]
         \/ \E id \in DOMAIN sessions, u \in Subscriber :
              /\ sessions' = [sessions EXCEPT ![id] = WithoutSubscribers(sessions[id], {u})]
              /\ effects' = <<SubscriberRemoved({u} \intersect DOMAIN sessions[id].subscribers)>>
         \/ Tick
<1> DEFINE Created ==
             \E new, first : new \notin DOMAIN sessions /\ sessions' = Put(sessions, new, first)
           Appended ==
             \E id \in DOMAIN sessions, p \in Payload :
               sessions' = [sessions EXCEPT ![id] = WithEntry(sessions[id], p)]
           Renewed ==
             \E id \in DOMAIN sessions, u \in Subscriber :
               sessions' = [sessions EXCEPT ![id] = WithSubscriber(sessions[id], u, tick)]
           Left ==
             \E id \in DOMAIN sessions, u \in Subscriber :
               /\ sessions' = [sessions EXCEPT ![id] = WithoutSubscribers(sessions[id], {u})]
               /\ effects' = <<SubscriberRemoved({u} \intersect DOMAIN sessions[id].subscribers)>>
           Same == sessions' = sessions
<1>1. ASSUME JobEvent
      PROVE  Same
  BY <1>1 DEF JobEvent, HttpChatRequested, RejectChat, AcceptChat, WorkerRegistered,
              WorkerHeartbeat, StreamHeartbeat, AssignmentCleared, AssignmentFailed,
              EndAssignment, Violation, state
<1>2. ASSUME BoundedTick
      PROVE  Tick
  BY <1>2 DEF BoundedTick
<1>3. ASSUME NEW u \in Subscriber, session_counter < MaxSessions, SessionRequested(u)
      PROVE  Created
  <2>1. NewSessionId \notin DOMAIN sessions
    BY <1>3, HashAssumption, BoundAssumption
       DEF NewSessionId, KernelInv, TypeOK, IssuedSessionIds
  <2> QED
    BY <1>3, <2>1 DEF SessionRequested
<1>4. ASSUME NEW id \in SessionId, NEW p \in Payload, EntryAppended(id, p)
      PROVE  Same \/ Appended
  BY <1>4 DEF EntryAppended, UnknownSession, SessionStep, state
<1>5. ASSUME NEW id \in SessionId, NEW u \in Subscriber,
             Subscribed(id, u) \/ SubscriberHeartbeat(id, u)
      PROVE  Same \/ Renewed
  <2>1. sessions = [i \in DOMAIN sessions |-> sessions[i]]
    BY DEF KernelInv, TypeOK
  <2>2. [sessions EXCEPT ![id] = sessions[id]] = sessions
    BY <2>1
  <2> QED
    BY <1>5, <2>2 DEF Subscribed, SubscriberHeartbeat, UnknownSession, SessionStep, state
<1>6. ASSUME NEW id \in SessionId, NEW u \in Subscriber, Unsubscribed(id, u)
      PROVE  Same \/ Left
  BY <1>6 DEF Unsubscribed, UnknownSession, SessionStep, state
<1>7. ASSUME SessionEvent
      PROVE  Same \/ Created \/ Appended \/ Renewed \/ Left
  <2> HIDE DEF Same, Created, Appended, Renewed, Left
  <2> QED
    BY <1>3, <1>4, <1>5, <1>6, <1>7 DEF SessionEvent
<1> QED
  BY <1>1, <1>2, <1>7 DEF Next

\* Whoever a session drops is reported removed in the same step (P14 of the
\* kernel's property tests, for every state and every event).
THEOREM KernelSubscriberNeverForgotten == Spec => SubscriberNeverForgotten
<1>1. ASSUME KernelInv, Next
      PROVE  ForgetsNobody
  <2> SUFFICES ASSUME NEW id \in DOMAIN sessions,
                      NEW u \in SubscribersOf(id) \ SubscribersOf(id)'
               PROVE  \E i \in DOMAIN effects' :
                        Emitted(i, "SubscriberRemoved", "subscribers", u)
    BY DEF ForgetsNobody
  <2>1. /\ IsSession(sessions[id])
        /\ u \in DOMAIN sessions[id].subscribers
        /\ id \in DOMAIN sessions' => u \notin DOMAIN sessions'[id].subscribers
        /\ sessions = [i \in DOMAIN sessions |-> sessions[i]]
    BY <1>1 DEF SubscribersOf, KernelInv, TypeOK
  <2>2. CASE sessions' = sessions
    BY <2>1, <2>2
  <2>3. CASE \E new, first : new \notin DOMAIN sessions /\ sessions' = Put(sessions, new, first)
    BY <2>1, <2>3 DEF Put
  <2>4. ASSUME NEW other \in DOMAIN sessions, NEW next,
               sessions' = [sessions EXCEPT ![other] = next],
               DOMAIN sessions[other].subscribers \subseteq DOMAIN next.subscribers
        PROVE  FALSE
    BY <2>1, <2>4
  <2>5. CASE \E other \in DOMAIN sessions, p \in Payload :
               sessions' = [sessions EXCEPT ![other] = WithEntry(sessions[other], p)]
    <3>1. ASSUME NEW other \in DOMAIN sessions, NEW p \in Payload
          PROVE  WithEntry(sessions[other], p).subscribers = sessions[other].subscribers
      BY <1>1 DEF WithEntry, KernelInv, TypeOK, IsSession
    <3> QED
      BY <2>4, <2>5, <3>1
  <2>6. CASE \E other \in DOMAIN sessions, v \in Subscriber :
               sessions' = [sessions EXCEPT ![other] = WithSubscriber(sessions[other], v, tick)]
    <3>1. ASSUME NEW other \in DOMAIN sessions, NEW v \in Subscriber
          PROVE  DOMAIN sessions[other].subscribers
                   \subseteq DOMAIN WithSubscriber(sessions[other], v, tick).subscribers
      BY <1>1 DEF WithSubscriber, Put, KernelInv, TypeOK, IsSession
    <3> QED
      BY <2>4, <2>6, <3>1
  <2>7. CASE \E other \in DOMAIN sessions, v \in Subscriber :
               /\ sessions' = [sessions EXCEPT
                                  ![other] = WithoutSubscribers(sessions[other], {v})]
               /\ effects' = <<SubscriberRemoved(
                                 {v} \intersect DOMAIN sessions[other].subscribers)>>
    <3>1. PICK other \in DOMAIN sessions, v \in Subscriber :
               /\ sessions' = [sessions EXCEPT
                                  ![other] = WithoutSubscribers(sessions[other], {v})]
               /\ effects' = <<SubscriberRemoved(
                                 {v} \intersect DOMAIN sessions[other].subscribers)>>
      BY <2>7
    <3>2. WithoutSubscribers(sessions[other], {v}).subscribers =
            Without(sessions[other].subscribers, {v})
      BY <1>1 DEF WithoutSubscribers, KernelInv, TypeOK, IsSession
    <3>3. other = id /\ v = u
      BY <2>1, <3>1, <3>2 DEF Without
    <3> QED
      BY <2>1, <3>1, <3>3 DEF SubscriberRemoved, Emitted
  <2>8. CASE Tick
    <3> DEFINE now == tick + 1
               ticked == [i \in DOMAIN sessions |-> SessionTicked(sessions[i], now)]
               empty == {i \in DOMAIN sessions : DOMAIN ticked[i].subscribers = {}}
               removed == UNION {ExpiredSubscribers(sessions[i], now) : i \in DOMAIN sessions}
    <3>1. DOMAIN ticked[id].subscribers =
            DOMAIN sessions[id].subscribers \ ExpiredSubscribers(sessions[id], now)
      BY <2>1 DEF SessionTicked, WithoutSubscribers, Without, IsSession
    <3>2. sessions' = Without(ticked, empty)
      BY <2>8 DEF Tick
    <3>3. u \in ExpiredSubscribers(sessions[id], now)
      BY <2>1, <3>1, <3>2 DEF Without
    <3>4. PICK A, B, logs : effects' = <<SendClientError(A), SendClientDone(B),
                                        SubscriberRemoved(removed), SessionExpired(logs)>>
      BY <2>8 DEF Tick
    <3>5. u \in removed
      BY <3>3
    <3> HIDE DEF removed
    <3>6. 3 \in DOMAIN effects' /\ effects'[3] = SubscriberRemoved(removed)
      BY <3>4
    <3> QED
      BY <3>5, <3>6 DEF SubscriberRemoved, Emitted
  <2> QED
    BY <1>1, <2>2, <2>3, <2>5, <2>6, <2>7, <2>8, SessionsStep
<1>2. KernelInv /\ [Next]_kernelVars => [ForgetsNobody]_kernelVars
  BY <1>1
<1> QED
  BY <1>2, KernelInvariance, PTL DEF Spec, SubscriberNeverForgotten
-----------------------------------------------------------------------------
(* The pool and the logs *)

\* A worker leaves the pool with a job it can do, for a stream that becomes
\* active in that step, or because its time is over; no other event of either
\* side loses one.
THEOREM KernelPoolConserved == Spec => PoolConserved
<1> DEFINE Conserved == \A w \in DOMAIN available \ DOMAIN available' : LeavesPool(w)
<1>1. ASSUME KernelInv, Next
      PROVE  Conserved
  <2> SUFFICES ASSUME NEW w \in DOMAIN available \ DOMAIN available'
               PROVE  LeavesPool(w)
    OBVIOUS
  <2>1. CASE BoundedTick
    <3>1. w \in ExpiredWorkers(tick + 1) /\ tick' = tick + 1
      BY <2>1 DEF BoundedTick, Tick, Without
    <3> QED
      BY <3>1 DEF ExpiredWorkers, Expired, LeavesPool
  <2>2. CASE SessionEvent
    BY <2>2 DEF SessionEvent, SessionRequested, EntryAppended, Subscribed, Unsubscribed,
                SubscriberHeartbeat, UnknownSession, SessionStep, state
  <2>3. ASSUME NEW s \in Stream, NEW stream \in BOOLEAN, NEW c \in Capability,
               HttpChatRequested(s, stream, c)
        PROVE  LeavesPool(w)
    <3>1. AcceptChat(s, stream, c)
      BY <2>3 DEF HttpChatRequested, RejectChat, state
    <3>2. PICK v \in Capable(c) :
            /\ available' = Without(available, {v})
            /\ effects' = <<DispatchJob(v, s, c)>>
      BY <3>1 DEF AcceptChat
    <3>3. v = w
      BY <3>2 DEF Without
    <3>4. s \in DOMAIN active_streams' \ DOMAIN active_streams
      BY <3>1 DEF AcceptChat, Put
    <3>5. c \in available[w].capabilities
      BY <3>3 DEF Capable
    <3> QED
      BY <3>2, <3>3, <3>4, <3>5 DEF LeavesPool
  <2>4. ASSUME NEW v \in Worker, NEW caps, WorkerRegistered(v, caps) \/ WorkerHeartbeat(v)
        PROVE  FALSE
    BY <1>1, <2>4 DEF WorkerRegistered, WorkerHeartbeat, Violation, state, Put, KernelInv,
                      TypeOK, IsMap
  <2>5. ASSUME NEW s \in Stream,
               StreamHeartbeat(s) \/ AssignmentCleared(s) \/ AssignmentFailed(s)
        PROVE  FALSE
    BY <2>5 DEF StreamHeartbeat, AssignmentCleared, AssignmentFailed, EndAssignment,
                Violation, state
  <2> QED
    BY <1>1, <2>1, <2>2, <2>3, <2>4, <2>5 DEF Next, JobEvent
<1>2. KernelInv /\ [Next]_kernelVars => [Conserved]_kernelVars
  BY <1>1
<1> QED
  BY <1>2, KernelInvariance, PTL DEF Spec, PoolConserved

\* One entry more at the end is all an event does to a log.
Grows(log, log2) ==
  /\ Len(log2) \in Len(log) .. Len(log) + 1
  /\ SubSeq(log2, 1, Len(log)) = log

LEMMA GrowsItself ==
  ASSUME NEW log \in Seq(Payload)
  PROVE  Grows(log, log)
BY DEF Grows

LEMMA GrowsFacts ==
  ASSUME NEW log \in Seq(Payload), NEW p \in Payload
  PROVE  Grows(log, log) /\ Grows(log, Append(log, p))
<1>1. Grows(log, log)
  BY DEF Grows
<1>2. Grows(log, Append(log, p))
  <2>1. Len(Append(log, p)) = Len(log) + 1 /\ Len(log) \in Nat
    OBVIOUS
  <2>2. SubSeq(Append(log, p), 1, Len(log)) = log
    OBVIOUS
  <2> QED
    BY <2>1, <2>2 DEF Grows
<1> QED
  BY <1>1, <1>2

\* No event removes or rewrites an entry, and the one that drops a session hands
\* its log out whole.
THEOREM KernelLogPermanence == Spec => LogPermanence
<1>1. ASSUME KernelInv, Next
      PROVE  LogKept
  <2> SUFFICES ASSUME NEW id \in DOMAIN sessions
               PROVE  LET log == sessions[id].entries IN
                      IF id \in DOMAIN sessions'
                        THEN Grows(log, sessions'[id].entries)
                        ELSE \E i \in DOMAIN effects' :
                               /\ effects'[i].type = "SessionExpired"
                               /\ id \in DOMAIN effects'[i].logs
                               /\ effects'[i].logs[id] = log
    BY DEF LogKept, Grows
  <2> DEFINE log == sessions[id].entries
  <2>1. /\ IsSession(sessions[id]) /\ log \in Seq(Payload) /\ Grows(log, log)
        /\ sessions = [i \in DOMAIN sessions |-> sessions[i]]
    BY <1>1, GrowsFacts DEF KernelInv, TypeOK, IsSession, Grows
  <2>2. CASE sessions' = sessions
    BY <2>1, <2>2
  <2>3. CASE \E new, first : new \notin DOMAIN sessions /\ sessions' = Put(sessions, new, first)
    BY <2>1, <2>3 DEF Put
  <2>4. ASSUME NEW other \in DOMAIN sessions, NEW next,
               sessions' = [sessions EXCEPT ![other] = next],
               Grows(sessions[other].entries, next.entries)
        PROVE  id \in DOMAIN sessions' /\ Grows(log, sessions'[id].entries)
    BY <2>1, <2>4
  <2>5. CASE \E other \in DOMAIN sessions, p \in Payload :
               sessions' = [sessions EXCEPT ![other] = WithEntry(sessions[other], p)]
    <3>1. ASSUME NEW other \in DOMAIN sessions, NEW p \in Payload
          PROVE  Grows(sessions[other].entries, WithEntry(sessions[other], p).entries)
      <4>1. IsSession(sessions[other])
        BY <1>1 DEF KernelInv, TypeOK
      <4>2. WithEntry(sessions[other], p).entries = Append(sessions[other].entries, p)
        BY <4>1 DEF WithEntry, IsSession
      <4> QED
        BY <4>1, <4>2, GrowsFacts DEF IsSession
    <3> QED
      BY <2>4, <2>5, <3>1
  <2>6. CASE \E other \in DOMAIN sessions, v \in Subscriber :
               sessions' = [sessions EXCEPT ![other] = WithSubscriber(sessions[other], v, tick)]
    <3>1. ASSUME NEW other \in DOMAIN sessions, NEW v \in Subscriber
          PROVE  Grows(sessions[other].entries,
                       WithSubscriber(sessions[other], v, tick).entries)
      <4>1. /\ IsSession(sessions[other])
            /\ WithSubscriber(sessions[other], v, tick).entries = sessions[other].entries
        BY <1>1 DEF WithSubscriber, KernelInv, TypeOK, IsSession
      <4> QED
        BY <4>1, GrowsItself DEF IsSession
    <3> QED
      BY <2>4, <2>6, <3>1
  <2>7. CASE \E other \in DOMAIN sessions, v \in Subscriber :
               /\ sessions' = [sessions EXCEPT
                                  ![other] = WithoutSubscribers(sessions[other], {v})]
               /\ effects' = <<SubscriberRemoved(
                                 {v} \intersect DOMAIN sessions[other].subscribers)>>
    <3>1. ASSUME NEW other \in DOMAIN sessions, NEW v \in Subscriber
          PROVE  Grows(sessions[other].entries,
                       WithoutSubscribers(sessions[other], {v}).entries)
      <4>1. /\ IsSession(sessions[other])
            /\ WithoutSubscribers(sessions[other], {v}).entries = sessions[other].entries
        BY <1>1 DEF WithoutSubscribers, KernelInv, TypeOK, IsSession
      <4> QED
        BY <4>1, GrowsItself DEF IsSession
    <3> QED
      BY <2>4, <2>7, <3>1
  <2>8. CASE Tick
    <3> DEFINE ticked == [i \in DOMAIN sessions |-> SessionTicked(sessions[i], tick + 1)]
               empty == {i \in DOMAIN sessions : DOMAIN ticked[i].subscribers = {}}
               logs == [i \in empty |-> ticked[i].entries]
    <3>1. ticked[id].entries = log
      BY <2>1 DEF SessionTicked, WithoutSubscribers, IsSession
    <3>2. sessions' = Without(ticked, empty)
      BY <2>8 DEF Tick
    <3>3. PICK A, B, U : effects' = <<SendClientError(A), SendClientDone(B),
                                     SubscriberRemoved(U), SessionExpired(logs)>>
      BY <2>8 DEF Tick
    <3> HIDE DEF ticked
    <3>4. CASE id \in empty
      <4>1. id \in DOMAIN logs /\ logs[id] = log /\ id \notin DOMAIN sessions'
        BY <3>1, <3>2, <3>4 DEF Without
      <4>2. /\ 4 \in DOMAIN effects'
            /\ effects'[4].type = "SessionExpired" /\ effects'[4].logs = logs
        BY <3>3 DEF SessionExpired
      <4> HIDE DEF logs
      <4> QED
        BY <4>1, <4>2
    <3>5. CASE id \notin empty
      BY <2>1, <3>1, <3>2, <3>5 DEF Without, ticked
    <3> QED
      BY <3>4, <3>5
  <2> QED
    BY <1>1, <2>1, <2>2, <2>3, <2>5, <2>6, <2>7, <2>8, SessionsStep
<1>2. KernelInv /\ [Next]_kernelVars => [LogKept]_kernelVars
  BY <1>1
<1> QED
  BY <1>2, KernelInvariance, PTL DEF Spec, LogPermanence
=============================================================================
