------------------------- MODULE SessionGatewayProofs -------------------------
(***************************************************************************)
(* Proofs about SessionGateway: for every number of subscribers, sessions  *)
(* and creators, every capacity of the channels and every time to live, the *)
(* registry has the senders of exactly the subscribers of the sessions.    *)
(*                                                                         *)
(* The registry is one set for all sessions, so a subscriber may only ever *)
(* be in one of them, and whatever is said of it to the kernel must name   *)
(* that one.  The name travels: in a message, in the greeting on its way   *)
(* to a creator, in the handler.  Own says that all these agree.           *)
(*                                                                         *)
(* An entry is on its way to a subscriber in one of four places: a task,   *)
(* its channel, its handler's hand, its socket.  DeliveryInv counts it     *)
(* over the four, and says how many it finds: once from the entry on that  *)
(* the subscriber was told of when it joined.                              *)
(***************************************************************************)
EXTENDS SessionGateway, GatewayKernelProofs, FiniteSetTheorems

Message ==
  {CreateMsg(u) : u \in Subscriber}
  \union {SubscribeMsg(u, id) : u \in Subscriber, id \in SessionId}
  \union {AppendMsg(id, p) : id \in SessionId, p \in Payload}
  \union {HeartbeatMsg(u, id) : u \in Subscriber, id \in SessionId}
  \union {UnsubscribeMsg(u, id) : u \in Subscriber, id \in SessionId}
  \union {TickMsg}

Frame == {Entry(i) : i \in Nat} \union {Greeting(id) : id \in SessionId} \union {Removed}

Phase == {"off", "asking", "created", "greeting", "loop", "sending", "leaving", "gone"}

SendSet == [to : Subscriber, frame : Frame]

SessionTypeOK ==
  /\ queue \in Seq(Message)
  /\ registered \subseteq Subscriber /\ IsFiniteSet(registered)
  /\ tasks \subseteq Seq(SendSet) \ {<< >>}
  /\ chan \in [Subscriber -> Seq(Frame)]
  /\ handler \in [Subscriber -> [phase : Phase, session : SessionId \union {NoSession},
                                 next : Nat, hand : Seq(Frame)]]

Creates == {i \in DOMAIN queue : queue[i].type = "SessionCreate"}

Joins(u) ==
  {i \in DOMAIN queue :
     queue[i].type \in {"SessionCreate", "SessionSubscribe"} /\ queue[i].subscriber = u}

\* A message or a greeting on its way names session id as the one of u.
Called(u, id) ==
  \/ \E i \in DOMAIN queue : queue[i] \in {HeartbeatMsg(u, id), UnsubscribeMsg(u, id)}
  \/ \E k \in DOMAIN chan[u] : chan[u][k] = Greeting(id)
  \/ \E t \in tasks : \E k \in DOMAIN t : t[k] = [to |-> u, frame |-> Greeting(id)]

Fresh(u) == handler[u].phase \in {"off", "asking"}

\* Ids do not run out on the way to the loop.
Counted == session_counter + Cardinality(Creates) <= MaxSessions

\* A handler asks once, and the message says what it remembers.
AskOnce ==
  \A u \in Subscriber :
    /\ \A i, j \in Joins(u) : i = j
    /\ \A i \in Joins(u) :
         /\ handler[u].phase = "asking"
         /\ queue[i] = IF handler[u].session = NoSession
                         THEN CreateMsg(u) ELSE SubscribeMsg(u, handler[u].session)

\* Before the loop has seen the subscriber, nothing is known of it.
FreshInv ==
  \A u \in Subscriber :
    Fresh(u) => \A id \in SessionId : u \notin SubscribersOf(id) /\ ~Called(u, id)

OneSession ==
  \A u \in Subscriber, a, b \in SessionId :
    u \in SubscribersOf(a) /\ u \in SubscribersOf(b) => a = b

Own ==
  \A u \in Subscriber, a, b \in SessionId :
    u \in SubscribersOf(a) /\ (handler[u].session = b \/ Called(u, b)) => a = b

Settled ==
  \A u \in Subscriber :
    /\ handler[u].phase = "off" => handler[u].session = NoSession
    /\ handler[u].phase \in {"greeting", "loop", "sending", "leaving"}
         => handler[u].session \in SessionId

SessionInv ==
  /\ KernelInv /\ SessionTypeOK /\ SubscribersHaveHandles
  /\ Counted /\ AskOnce /\ FreshInv /\ OneSession /\ Own /\ Settled
-----------------------------------------------------------------------------
(* Messages and the queue *)

LEMMA MessageKinds ==
  ASSUME NEW m \in Message
  PROVE  /\ m.type = "SessionCreate" => \E u \in Subscriber : m = CreateMsg(u)
         /\ m.type = "SessionSubscribe" =>
              \E u \in Subscriber, id \in SessionId : m = SubscribeMsg(u, id)
         /\ m.type = "SessionAppendEntry" =>
              \E id \in SessionId, p \in Payload : m = AppendMsg(id, p)
         /\ m.type = "SessionSubscriberHeartbeat" =>
              \E u \in Subscriber, id \in SessionId : m = HeartbeatMsg(u, id)
         /\ m.type = "SessionUnsubscribe" =>
              \E u \in Subscriber, id \in SessionId : m = UnsubscribeMsg(u, id)
BY DEF Message, CreateMsg, SubscribeMsg, AppendMsg, HeartbeatMsg, UnsubscribeMsg, TickMsg

\* Taking the head out of the channel: nothing new is asked for or named, and
\* nobody has asked whose message it was.
LEMMA Dequeued ==
  ASSUME queue \in Seq(Message), queue # << >>, queue' = Tail(queue)
  PROVE  /\ queue' \in Seq(Message)
         /\ Head(queue) \in Message
         /\ 1 \in DOMAIN queue /\ queue[1] = Head(queue)
         /\ \A i \in DOMAIN queue' :
              /\ i \in Nat /\ i + 1 \in DOMAIN queue /\ i + 1 # 1
              /\ queue'[i] = queue[i + 1]
<1>1. Head(queue) \in Message /\ Tail(queue) \in Seq(Message)
  OBVIOUS
<1>2. \A i \in DOMAIN Tail(queue) :
        i \in Nat /\ i + 1 \in DOMAIN queue /\ i + 1 # 1 /\ Tail(queue)[i] = queue[i + 1]
  OBVIOUS
<1> QED
  BY <1>1, <1>2

LEMMA Enqueued ==
  ASSUME queue \in Seq(Message), NEW m \in Message, Enqueue(m)
  PROVE  /\ queue' \in Seq(Message)
         /\ DOMAIN queue' = DOMAIN queue \union {Len(queue) + 1}
         /\ Len(queue) + 1 \notin DOMAIN queue
         /\ \A i \in DOMAIN queue : queue'[i] = queue[i]
         /\ queue'[Len(queue) + 1] = m
<1>1. queue' = Append(queue, m)
  BY DEF Enqueue
<1> QED
  BY <1>1

\* The messages that create a session are finitely many.
LEMMA CreatesFinite ==
  ASSUME queue \in Seq(Message)
  PROVE  IsFiniteSet(Creates) /\ Cardinality(Creates) \in Nat
<1>1. IsFiniteSet(1 .. Len(queue)) /\ Creates \subseteq 1 .. Len(queue)
  <2>1. Len(queue) \in Nat /\ DOMAIN queue = 1 .. Len(queue)
    OBVIOUS
  <2> QED
    BY <2>1, FS_Interval DEF Creates
<1> QED
  BY <1>1, FS_Subset, FS_CardinalityType

\* One fewer once the head has been taken, if the head was one.
LEMMA CreatesDequeued ==
  ASSUME queue \in Seq(Message), queue # << >>, queue' = Tail(queue)
  PROVE  /\ Cardinality(Creates') \in Nat
         /\ Head(queue).type = "SessionCreate" => Cardinality(Creates') < Cardinality(Creates)
         /\ Cardinality(Creates') <= Cardinality(Creates)
<1> DEFINE rest == Creates \ {1}
           f == [i \in Creates' |-> i + 1]
<1>1. IsFiniteSet(rest) /\ Cardinality(rest) \in Nat /\ Cardinality(rest) <= Cardinality(Creates)
  BY CreatesFinite, FS_Subset, FS_CardinalityType
<1>2. f \in Injection(Creates', rest)
  <2>1. \A i \in Creates' : i + 1 \in rest /\ i \in Nat
    BY Dequeued DEF Creates
  <2>2. f \in [Creates' -> rest]
    BY <2>1
  <2>3. \A i, j \in Creates' : f[i] = f[j] => i = j
    BY <2>1
  <2> QED
    BY <2>2, <2>3 DEF Injection, IsInjective
<1>3. IsFiniteSet(Creates') /\ Cardinality(Creates') <= Cardinality(rest)
  BY <1>1, <1>2, FS_Injection
<1>4. Cardinality(Creates') \in Nat /\ Cardinality(Creates) \in Nat
  BY <1>3, FS_CardinalityType, CreatesFinite
<1>5. ASSUME Head(queue).type = "SessionCreate"
      PROVE  Cardinality(rest) = Cardinality(Creates) - 1
  <2>1. 1 \in Creates
    BY <1>5, Dequeued DEF Creates
  <2> QED
    BY <2>1, CreatesFinite, FS_RemoveElement
<1> HIDE DEF rest
<1> QED
  BY <1>1, <1>3, <1>4, <1>5

LEMMA CreatesEnqueued ==
  ASSUME queue \in Seq(Message), NEW m \in Message, Enqueue(m)
  PROVE  Creates' = IF m.type = "SessionCreate" THEN Creates \union {Len(queue) + 1} ELSE Creates
BY Enqueued DEF Creates
-----------------------------------------------------------------------------
(* Effects: whose sender is taken, and what the tasks are given to send *)

NoGreeting ==
  \A i \in DOMAIN effects' :
    Of(effects'[i]) # {} =>
      FrameOf(effects'[i]) \in Frame /\ \A id \in SessionId : FrameOf(effects'[i]) # Greeting(id)

LEMMA FramesDiffer ==
  /\ \A i, id : Entry(i) # Greeting(id)
  /\ \A id : Removed # Greeting(id)
  /\ \A a, b : Greeting(a) = Greeting(b) => a = b
BY DEF Entry, Greeting, Removed

LEMMA OfNothing ==
  ASSUME effects' = << >>
  PROVE  TakenSubscribers = {} /\ NoGreeting
BY DEF TakenSubscribers, NoGreeting

LEMMA OfCreated ==
  ASSUME NEW id \in SessionId, NEW u, effects' = <<SessionCreated(id, u)>>
  PROVE  /\ TakenSubscribers = {}
         /\ \A i \in DOMAIN effects' :
              Of(effects'[i]) = {u} /\ FrameOf(effects'[i]) = Greeting(id)
<1>1. DOMAIN effects' = {1} /\ effects'[1] = SessionCreated(id, u)
  OBVIOUS
<1>2. /\ effects'[1].type = "SessionCreated"
      /\ effects'[1].subscriber = u /\ effects'[1].session = id
  BY <1>1 DEF SessionCreated
<1> QED
  BY <1>1, <1>2 DEF TakenSubscribers, Of, FrameOf

LEMMA OfNotify ==
  ASSUME NEW n \in Nat, NEW p, NEW U, effects' = <<NotifySubscribers(n, p, U)>>
  PROVE  TakenSubscribers = {} /\ NoGreeting
<1>1. DOMAIN effects' = {1} /\ effects'[1] = NotifySubscribers(n, p, U)
  OBVIOUS
<1>2. effects'[1].type = "NotifySubscribers" /\ effects'[1].index = n
  BY <1>1 DEF NotifySubscribers
<1>3. FrameOf(effects'[1]) = Entry(n)
  BY <1>2 DEF FrameOf
<1>4. TakenSubscribers = {}
  BY <1>1, <1>2 DEF TakenSubscribers
<1> QED
  BY <1>1, <1>3, <1>4, FramesDiffer DEF NoGreeting, Frame

LEMMA OfRemoved ==
  ASSUME NEW U, effects' = <<SubscriberRemoved(U)>>
  PROVE  TakenSubscribers = U /\ NoGreeting
<1>1. /\ DOMAIN effects' = {1}
      /\ effects'[1].type = "SubscriberRemoved" /\ effects'[1].subscribers = U
  BY DEF SubscriberRemoved
<1>2. {j \in DOMAIN effects' : effects'[j].type = "SubscriberRemoved"} = {1}
  BY <1>1
<1>3. FrameOf(effects'[1]) = Removed
  BY <1>1 DEF FrameOf
<1>4. TakenSubscribers = U
  BY <1>1, <1>2 DEF TakenSubscribers
<1> QED
  BY <1>1, <1>3, <1>4, FramesDiffer DEF NoGreeting, Frame

LEMMA OfUnknown ==
  ASSUME NEW U, effects' = <<ProtocolViolation, SubscriberRemoved(U)>>
  PROVE  TakenSubscribers = U /\ NoGreeting
<1>1. /\ DOMAIN effects' = {1, 2}
      /\ effects'[1].type = "ProtocolViolation"
      /\ effects'[2].type = "SubscriberRemoved" /\ effects'[2].subscribers = U
  BY DEF SubscriberRemoved, ProtocolViolation
<1>2. {j \in DOMAIN effects' : effects'[j].type = "SubscriberRemoved"} = {2}
  BY <1>1
<1>3. FrameOf(effects'[2]) = Removed /\ Of(effects'[1]) = {}
  BY <1>1 DEF FrameOf, Of
<1>4. TakenSubscribers = U
  BY <1>1, <1>2 DEF TakenSubscribers
<1> QED
  BY <1>1, <1>3, <1>4, FramesDiffer DEF NoGreeting, Frame

LEMMA OfTick ==
  ASSUME NEW A, NEW U, NEW logs,
         effects' = <<SendClientError(A), SendClientDone(A), SubscriberRemoved(U),
                      SessionExpired(logs)>>
  PROVE  TakenSubscribers = U /\ NoGreeting
<1>1. /\ DOMAIN effects' = {1, 2, 3, 4}
      /\ effects'[1].type = "SendClientError"
      /\ effects'[2].type = "SendClientDone"
      /\ effects'[3].type = "SubscriberRemoved" /\ effects'[3].subscribers = U
      /\ effects'[4].type = "SessionExpired"
  BY DEF SendClientError, SendClientDone, SubscriberRemoved, SessionExpired
<1>2. {j \in DOMAIN effects' : effects'[j].type = "SubscriberRemoved"} = {3}
  BY <1>1
<1>3. /\ FrameOf(effects'[3]) = Removed
      /\ Of(effects'[1]) = {} /\ Of(effects'[2]) = {} /\ Of(effects'[4]) = {}
  BY <1>1 DEF FrameOf, Of
<1>4. TakenSubscribers = U
  BY <1>1, <1>2 DEF TakenSubscribers
<1> QED
  BY <1>1, <1>3, <1>4, FramesDiffer DEF NoGreeting, Frame

\* The tasks are given frames of the effects, for subscribers with a handle.
LEMMA Resolved ==
  ASSUME NEW handles, handles \subseteq Subscriber, IsFiniteSet(handles),
         ResolveEffects(handles), tasks \subseteq Seq(SendSet) \ {<< >>},
         \A i \in DOMAIN effects' : Of(effects'[i]) # {} => FrameOf(effects'[i]) \in Frame
  PROVE  /\ registered' = handles \ TakenSubscribers
         /\ registered' \subseteq Subscriber /\ IsFiniteSet(registered')
         /\ tasks' \subseteq Seq(SendSet) \ {<< >>}
         /\ \A t \in tasks' \ tasks : \A k \in DOMAIN t : \E i \in DOMAIN effects' :
              t[k].to \in Of(effects'[i]) /\ t[k].frame = FrameOf(effects'[i])
<1> DEFINE heard(i) == Of(effects'[i]) \intersect handles
           named == {i \in DOMAIN effects' : heard(i) # {}}
           send(i, order) == [k \in DOMAIN order |-> [to |-> order[k], frame |-> FrameOf(effects'[i])]]
<1>1. registered' = handles \ TakenSubscribers
  BY DEF ResolveEffects
<1>2. registered' \subseteq Subscriber /\ IsFiniteSet(registered')
  BY <1>1, FS_Subset
<1>3. CASE named = {}
  BY <1>1, <1>2, <1>3 DEF ResolveEffects
<1>4. CASE named # {}
  <2>0. PICK i \in named : \E order \in SetToSeqs(heard(i)) : tasks' = tasks \union {send(i, order)}
    BY <1>4 DEF ResolveEffects
  <2>1. PICK order \in SetToSeqs(heard(i)) : tasks' = tasks \union {send(i, order)}
    BY <2>0
  <2> DEFINE n == Cardinality(heard(i))
  <2>2. IsFiniteSet(heard(i)) /\ heard(i) # {}
    BY <2>0, FS_Subset
  <2>3. n \in Nat /\ n # 0
    BY <2>2, FS_CardinalityType, FS_EmptySet
  <2>4. order \in [1 .. n -> heard(i)]
    BY <2>1 DEF SetToSeqs
  <2>5. FrameOf(effects'[i]) \in Frame /\ i \in DOMAIN effects'
    BY <2>2, <2>0
  <2>6. \A k \in 1 .. n : [to |-> order[k], frame |-> FrameOf(effects'[i])] \in SendSet
    BY <2>4, <2>5 DEF SendSet
  <2> HIDE DEF heard, n
  <2>7. send(i, order) \in [1 .. n -> SendSet] /\ DOMAIN send(i, order) = 1 .. n
    BY <2>4, <2>6
  <2>8. send(i, order) \in Seq(SendSet) /\ send(i, order) # << >>
    BY <2>3, <2>7
  <2>9. \A k \in DOMAIN send(i, order) :
          /\ send(i, order)[k].to \in Of(effects'[i])
          /\ send(i, order)[k].frame = FrameOf(effects'[i])
    BY <2>4, <2>7 DEF heard
  <2> HIDE DEF send
  <2> QED
    BY <1>1, <1>2, <2>1, <2>5, <2>8, <2>9
<1> QED
  BY <1>3, <1>4
-----------------------------------------------------------------------------
(* Kernel transitions: who is in which session afterwards *)

\* Only those whose handle is taken leave, and nobody joins.
OnlyTakenLeave ==
  \A v \in Subscriber, x \in SessionId :
    v \in SubscribersOf(x)' <=> v \in SubscribersOf(x) /\ v \notin TakenSubscribers

LEMMA SubscribersTyped ==
  ASSUME KernelInv, NEW id \in SessionId
  PROVE  SubscribersOf(id) \subseteq Subscriber
BY DEF KernelInv, TypeOK, IsSession, IsMap, SubscribersOf

LEMMA UnchangedSubscribers ==
  ASSUME UNCHANGED sessions
  PROVE  \A x \in SessionId : SubscribersOf(x)' = SubscribersOf(x)
BY DEF SubscribersOf

LEMMA StepSubscribers ==
  ASSUME KernelInv, NEW id \in SessionId, NEW next, NEW told, SessionStep(id, next, told)
  PROVE  /\ id \in DOMAIN sessions /\ SubscribersOf(id) = DOMAIN sessions[id].subscribers
         /\ SubscribersOf(id)' = DOMAIN next.subscribers
         /\ \A x \in SessionId \ {id} : SubscribersOf(x)' = SubscribersOf(x)
         /\ effects' = told /\ session_counter' = session_counter
<1>1. sessions = [i \in DOMAIN sessions |-> sessions[i]]
  BY DEF KernelInv, TypeOK
<1>2. /\ id \in DOMAIN sessions /\ effects' = told /\ session_counter' = session_counter
      /\ sessions' = [i \in DOMAIN sessions |-> IF i = id THEN next ELSE sessions[i]]
  BY <1>1 DEF SessionStep
<1> QED
  BY <1>2 DEF SubscribersOf

\* The sessions' records after an event, seen from their subscribers.
LEMMA RecordSubscribers ==
  ASSUME KernelInv, NEW id \in DOMAIN sessions, NEW u, NEW p, NEW U
  PROVE  LET S == DOMAIN sessions[id].subscribers IN
         /\ DOMAIN WithEntry(sessions[id], p).subscribers = S
         /\ DOMAIN WithSubscriber(sessions[id], u, tick).subscribers = S \union {u}
         /\ DOMAIN WithoutSubscribers(sessions[id], U).subscribers = S \ U
<1>1. sessions[id] = [entries |-> sessions[id].entries, subscribers |-> sessions[id].subscribers]
  BY DEF KernelInv, TypeOK, IsSession
<1>2. /\ WithEntry(sessions[id], p).subscribers = sessions[id].subscribers
      /\ WithSubscriber(sessions[id], u, tick).subscribers =
           Put(sessions[id].subscribers, u, tick + SubscriberTTL)
      /\ WithoutSubscribers(sessions[id], U).subscribers = Without(sessions[id].subscribers, U)
  BY <1>1 DEF WithEntry, WithSubscriber, WithoutSubscribers
<1> QED
  BY <1>2 DEF Put, Without

\* The id is new, so the creator is the only one in its session.
LEMMA RequestedMoves ==
  ASSUME KernelInv, session_counter < MaxSessions, NEW u \in Subscriber, SessionRequested(u)
  PROVE  \E id \in SessionId :
           /\ effects' = <<SessionCreated(id, u)>>
           /\ \A v \in Subscriber, x \in SessionId :
                v \in SubscribersOf(x)' <=> v \in SubscribersOf(x) \/ (v = u /\ x = id)
<1> DEFINE id == NewSessionId
<1>1. id \in SessionId /\ id \notin DOMAIN sessions
  BY HashAssumption, BoundAssumption DEF NewSessionId, KernelInv, TypeOK, IssuedSessionIds
<1>2. DOMAIN WithSubscriber(EmptySession, u, tick).subscribers = {u}
  BY DEF WithSubscriber, EmptySession, EmptyMap, Put
<1>3. /\ DOMAIN sessions' = DOMAIN sessions \union {id}
      /\ sessions'[id] = WithSubscriber(EmptySession, u, tick)
      /\ \A x \in DOMAIN sessions : sessions'[x] = sessions[x]
  BY <1>1 DEF SessionRequested, Put
<1>4. effects' = <<SessionCreated(id, u)>>
  BY DEF SessionRequested
<1> HIDE DEF id
<1> QED
  BY <1>1, <1>2, <1>3, <1>4 DEF SubscribersOf

LEMMA SubscribedMoves ==
  ASSUME KernelInv, NEW id \in SessionId, NEW u \in Subscriber,
         SessionStep(id, WithSubscriber(sessions[id], u, tick), << >>)
  PROVE  /\ effects' = << >> /\ session_counter' = session_counter
         /\ \A v \in Subscriber, x \in SessionId :
              v \in SubscribersOf(x)' <=> v \in SubscribersOf(x) \/ (v = u /\ x = id)
<1> DEFINE next == WithSubscriber(sessions[id], u, tick)
<1>1. /\ id \in DOMAIN sessions /\ SubscribersOf(id) = DOMAIN sessions[id].subscribers
      /\ SubscribersOf(id)' = DOMAIN next.subscribers
      /\ \A x \in SessionId \ {id} : SubscribersOf(x)' = SubscribersOf(x)
      /\ effects' = << >> /\ session_counter' = session_counter
  BY StepSubscribers
<1>2. DOMAIN next.subscribers = DOMAIN sessions[id].subscribers \union {u}
  BY <1>1, RecordSubscribers
<1> HIDE DEF next
<1>3. ASSUME NEW v \in Subscriber, NEW x \in SessionId
      PROVE  v \in SubscribersOf(x)' <=> v \in SubscribersOf(x) \/ (v = u /\ x = id)
  <2>1. CASE x = id
    BY <1>1, <1>2, <2>1
  <2>2. CASE x # id
    BY <1>1, <2>2
  <2> QED
    BY <2>1, <2>2
<1> QED
  BY <1>1, <1>3

\* An unknown session answers by taking handles, of people in no session.
LEMMA UnknownMoves ==
  ASSUME KernelInv, NEW id, NEW U, UnknownSession(id, U),
         \A v \in U, x \in SessionId : v \notin SubscribersOf(x)
  PROVE  /\ OnlyTakenLeave /\ NoGreeting /\ TakenSubscribers = U
         /\ session_counter' = session_counter
BY OfUnknown, UnchangedSubscribers DEF UnknownSession, OnlyTakenLeave, state

LEMMA AppendMoves ==
  ASSUME KernelInv, NEW id \in SessionId, NEW p \in Payload, EntryAppended(id, p)
  PROVE  OnlyTakenLeave /\ NoGreeting /\ session_counter' = session_counter
<1>1. CASE UnknownSession(id, {})
  BY <1>1, UnknownMoves
<1>2. ASSUME NEW told, SessionStep(id, WithEntry(sessions[id], p), told),
             told = <<NotifySubscribers(Len(sessions[id].entries), p,
                                        DOMAIN sessions[id].subscribers)>>
      PROVE  OnlyTakenLeave /\ NoGreeting /\ session_counter' = session_counter
  <2>1. id \in DOMAIN sessions /\ Len(sessions[id].entries) \in Nat
    BY <1>2, StepSubscribers DEF KernelInv, TypeOK, IsSession
  <2>2. TakenSubscribers = {} /\ NoGreeting
    BY <1>2, <2>1, StepSubscribers, OfNotify
  <2>3. \A x \in SessionId : SubscribersOf(x)' = SubscribersOf(x)
    BY <1>2, <2>1, StepSubscribers, RecordSubscribers
  <2> QED
    BY <1>2, <2>2, <2>3, StepSubscribers DEF OnlyTakenLeave
<1> QED
  BY <1>1, <1>2 DEF EntryAppended

\* A heartbeat for another session than one's own would lose the handle.
LEMMA HeartbeatMoves ==
  ASSUME KernelInv, NEW id \in SessionId, NEW u \in Subscriber, SubscriberHeartbeat(id, u),
         \A x \in SessionId : u \in SubscribersOf(x) => x = id
  PROVE  OnlyTakenLeave /\ NoGreeting /\ session_counter' = session_counter
<1>1. CASE UnknownSession(id, {u})
  <2>1. \A x \in SessionId : u \notin SubscribersOf(x)
    BY <1>1 DEF UnknownSession, SubscribersOf
  <2> QED
    BY <1>1, <2>1, UnknownMoves
<1>2. ASSUME NEW next, SessionStep(id, next, << >>),
             next = IF u \in DOMAIN sessions[id].subscribers
                      THEN WithSubscriber(sessions[id], u, tick) ELSE sessions[id]
      PROVE  OnlyTakenLeave /\ NoGreeting /\ session_counter' = session_counter
  <2>1. id \in DOMAIN sessions /\ effects' = << >>
    BY <1>2, StepSubscribers
  <2>2. DOMAIN next.subscribers = DOMAIN sessions[id].subscribers
    <3>1. CASE u \in DOMAIN sessions[id].subscribers
      <4>1. next = WithSubscriber(sessions[id], u, tick)
        BY <1>2, <3>1
      <4>2. DOMAIN next.subscribers = DOMAIN sessions[id].subscribers \union {u}
        BY <2>1, <4>1, RecordSubscribers
      <4> QED
        BY <3>1, <4>2
    <3>2. CASE u \notin DOMAIN sessions[id].subscribers
      BY <1>2, <3>2
    <3> QED
      BY <3>1, <3>2
  <2>3. \A x \in SessionId : SubscribersOf(x)' = SubscribersOf(x)
    BY <1>2, <2>2, StepSubscribers
  <2> QED
    BY <1>2, <2>1, <2>3, OfNothing, StepSubscribers DEF OnlyTakenLeave
<1> QED
  BY <1>1, <1>2 DEF SubscriberHeartbeat

LEMMA UnsubscribedMoves ==
  ASSUME KernelInv, NEW id \in SessionId, NEW u \in Subscriber, Unsubscribed(id, u),
         \A x \in SessionId : u \in SubscribersOf(x) => x = id
  PROVE  OnlyTakenLeave /\ NoGreeting /\ session_counter' = session_counter
<1>1. CASE UnknownSession(id, {u})
  <2>1. \A x \in SessionId : u \notin SubscribersOf(x)
    BY <1>1 DEF UnknownSession, SubscribersOf
  <2> QED
    BY <1>1, <2>1, UnknownMoves
<1>2. ASSUME NEW U, U = {u} \intersect DOMAIN sessions[id].subscribers,
             SessionStep(id, WithoutSubscribers(sessions[id], {u}), <<SubscriberRemoved(U)>>)
      PROVE  OnlyTakenLeave /\ NoGreeting /\ session_counter' = session_counter
  <2>1. id \in DOMAIN sessions /\ SubscribersOf(id) = DOMAIN sessions[id].subscribers
    BY <1>2, StepSubscribers
  <2>2. TakenSubscribers = U /\ NoGreeting
    BY <1>2, StepSubscribers, OfRemoved
  <2>3. SubscribersOf(id)' = SubscribersOf(id) \ {u}
    BY <1>2, <2>1, StepSubscribers, RecordSubscribers
  <2>4. \A x \in SessionId \ {id} : SubscribersOf(x)' = SubscribersOf(x)
    BY <1>2, StepSubscribers
  <2> QED
    BY <1>2, <2>1, <2>2, <2>3, <2>4, StepSubscribers DEF OnlyTakenLeave
<1> QED
  BY <1>1, <1>2 DEF Unsubscribed

\* Time takes a handle once, and from its only session.
LEMMA TickMoves ==
  ASSUME KernelInv, OneSession, Tick
  PROVE  OnlyTakenLeave /\ NoGreeting /\ session_counter' = session_counter
<1> DEFINE now == tick + 1
           ticked == [x \in DOMAIN sessions |-> SessionTicked(sessions[x], now)]
           out(x) == ExpiredSubscribers(sessions[x], now)
           removed == UNION {out(x) : x \in DOMAIN sessions}
           empty == {x \in DOMAIN sessions : DOMAIN ticked[x].subscribers = {}}
<1>1. /\ sessions' = Without(ticked, empty)
      /\ session_counter' = session_counter
  BY DEF Tick
<1>2. PICK A, logs : effects' = <<SendClientError(A), SendClientDone(A),
                                  SubscriberRemoved(removed), SessionExpired(logs)>>
  BY DEF Tick
<1>3. TakenSubscribers = removed /\ NoGreeting
  BY <1>2, OfTick
<1>4. \A x \in DOMAIN sessions :
        DOMAIN ticked[x].subscribers = DOMAIN sessions[x].subscribers \ out(x)
  BY DEF SessionTicked, WithoutSubscribers, Without, KernelInv, TypeOK, IsSession
<1>5. \A x \in DOMAIN sessions : out(x) \subseteq DOMAIN sessions[x].subscribers
  BY DEF ExpiredSubscribers
<1> HIDE DEF out
<1>6. \A x \in SessionId : SubscribersOf(x)' =
        IF x \in DOMAIN sessions THEN DOMAIN sessions[x].subscribers \ out(x) ELSE {}
  BY <1>1, <1>4 DEF SubscribersOf, Without
<1>7. DOMAIN sessions \subseteq SessionId
  BY DEF KernelInv, TypeOK
<1>8. ASSUME NEW v \in Subscriber, NEW x \in SessionId
      PROVE  v \in SubscribersOf(x)' <=> v \in SubscribersOf(x) /\ v \notin removed
  <2>1. ASSUME v \in SubscribersOf(x), v \in removed
        PROVE  v \in out(x)
    <3>1. PICK y \in DOMAIN sessions : v \in out(y)
      BY <2>1
    <3>2. v \in SubscribersOf(y)
      BY <1>5, <3>1 DEF SubscribersOf
    <3> QED
      BY <1>7, <2>1, <3>1, <3>2 DEF OneSession
  <2>2. ASSUME v \in SubscribersOf(x), v \in out(x)
        PROVE  v \in removed
    BY <2>2 DEF SubscribersOf
  <2> HIDE DEF removed
  <2> QED
    BY <1>6, <2>1, <2>2 DEF SubscribersOf
<1> QED
  BY <1>1, <1>3, <1>8 DEF OnlyTakenLeave
-----------------------------------------------------------------------------
(* The loop: a message taken, a transition made, its effects resolved *)

\* Whatever still names a session has named it before, the new greetings apart.
LEMMA CalledInLoop ==
  ASSUME SessionTypeOK, queue # << >>, queue' = Tail(queue), chan' = chan,
         NEW v \in Subscriber, NEW x \in SessionId, Called(v, x)'
  PROVE  \/ Called(v, x)
         \/ \E t \in tasks' \ tasks : \E k \in DOMAIN t :
              t[k].to = v /\ t[k].frame = Greeting(x)
<1> USE DEF SessionTypeOK
<1>1. CASE \E i \in DOMAIN queue' : queue'[i] \in {HeartbeatMsg(v, x), UnsubscribeMsg(v, x)}
  BY <1>1, Dequeued DEF Called
<1>2. CASE \E k \in DOMAIN chan[v] : chan[v][k] = Greeting(x)
  BY <1>2 DEF Called
<1>3. CASE \E t \in tasks' : \E k \in DOMAIN t : t[k] = [to |-> v, frame |-> Greeting(x)]
  <2>0. PICK t \in tasks' : \E k \in DOMAIN t : t[k] = [to |-> v, frame |-> Greeting(x)]
    BY <1>3
  <2>1. PICK k \in DOMAIN t : t[k] = [to |-> v, frame |-> Greeting(x)]
    BY <2>0
  <2>2. t[k].to = v /\ t[k].frame = Greeting(x)
    BY <2>1
  <2>3. CASE t \in tasks
    BY <2>1, <2>3 DEF Called
  <2>4. CASE t \notin tasks
    BY <2>0, <2>2, <2>4
  <2> QED
    BY <2>3, <2>4
<1>4. \/ \E i \in DOMAIN queue' : queue'[i] \in {HeartbeatMsg(v, x), UnsubscribeMsg(v, x)}
      \/ \E k \in DOMAIN chan[v] : chan[v][k] = Greeting(x)
      \/ \E t \in tasks' : \E k \in DOMAIN t : t[k] = [to |-> v, frame |-> Greeting(x)]
  BY DEF Called, HeartbeatMsg, UnsubscribeMsg, Greeting
<1> QED
  BY <1>1, <1>2, <1>3, <1>4

\* Who had asked has asked before, and the head of the channel was not it.
LEMMA JoinsInLoop ==
  ASSUME SessionInv, queue # << >>, queue' = Tail(queue), NEW v \in Subscriber
  PROVE  /\ \A i, j \in Joins(v)' : i = j
         /\ \A i \in Joins(v)' :
              /\ i + 1 \in Joins(v) /\ queue'[i] = queue[i + 1] /\ 1 \notin Joins(v)
              /\ handler[v].phase = "asking"
<1>1. queue \in Seq(Message)
  BY DEF SessionInv, SessionTypeOK
<1>2. ASSUME NEW i \in Joins(v)'
      PROVE  i \in Nat /\ i + 1 # 1 /\ i + 1 \in Joins(v) /\ queue'[i] = queue[i + 1]
  BY <1>1, <1>2, Dequeued DEF Joins
<1>3. ASSUME NEW i \in Joins(v)'
      PROVE  1 \notin Joins(v) /\ handler[v].phase = "asking"
  BY <1>2, <1>3 DEF SessionInv, AskOnce
<1>4. ASSUME NEW i \in Joins(v)', NEW j \in Joins(v)'
      PROVE  i = j
  <2>1. i + 1 = j + 1 /\ i \in Nat /\ j \in Nat
    BY <1>2 DEF SessionInv, AskOnce
  <2> QED
    BY <2>1
<1> QED
  BY <1>2, <1>3, <1>4

LEMMA CountedInLoop ==
  ASSUME SessionInv, queue # << >>, queue' = Tail(queue),
         \/ session_counter' = session_counter
         \/ Head(queue).type = "SessionCreate" /\ session_counter' = session_counter + 1
  PROVE  Counted'
<1>1. queue \in Seq(Message) /\ session_counter \in Nat /\ MaxSessions \in Nat
  BY BoundAssumption DEF SessionInv, SessionTypeOK, KernelInv, TypeOK
<1> QED
  BY <1>1, CreatesFinite, CreatesDequeued DEF SessionInv, Counted

\* What the loop does to the handlers: it answers the one that asked.
Answered ==
  \A v \in Subscriber :
    \/ handler'[v] = handler[v]
    \/ /\ 1 \in Joins(v)
       /\ handler'[v].session = handler[v].session
       /\ handler'[v].phase \in {"created", "greeting"}
       /\ handler'[v].phase = "greeting" => handler[v].session \in SessionId

LEMMA AskInLoop ==
  ASSUME SessionInv, queue # << >>, queue' = Tail(queue), Answered
  PROVE  /\ AskOnce' /\ Settled'
         /\ \A v \in Subscriber : Fresh(v)' => Fresh(v)
<1>1. ASSUME NEW v \in Subscriber
      PROVE  /\ \A i, j \in Joins(v)' : i = j
             /\ \A i \in Joins(v)' :
                  /\ handler'[v].phase = "asking"
                  /\ queue'[i] = IF handler'[v].session = NoSession
                                   THEN CreateMsg(v) ELSE SubscribeMsg(v, handler'[v].session)
  <2>1. \A i \in Joins(v)' : handler'[v] = handler[v]
    BY JoinsInLoop DEF Answered
  <2>2. \A i \in Joins(v)' :
          queue[i + 1] = IF handler[v].session = NoSession
                           THEN CreateMsg(v) ELSE SubscribeMsg(v, handler[v].session)
    BY JoinsInLoop DEF SessionInv, AskOnce
  <2> QED
    BY <2>1, <2>2, JoinsInLoop
<1>2. AskOnce'
  BY <1>1 DEF AskOnce, CreateMsg, SubscribeMsg
<1>3. Settled'
  BY DEF Settled, Answered, SessionInv
<1>4. \A v \in Subscriber : Fresh(v)' => Fresh(v)
  BY DEF Fresh, Answered
<1> QED
  BY <1>2, <1>3, <1>4

\* A transition after which nobody is in a session who was not there before.
LEMMA NobodyJoins ==
  ASSUME SessionInv, queue # << >>, queue' = Tail(queue), KernelInv', chan' = chan,
         handler' \in [Subscriber -> [phase : Phase, session : SessionId \union {NoSession},
                                      next : Nat, hand : Seq(Frame)]],
         Answered, session_counter' = session_counter, OnlyTakenLeave, NoGreeting,
         NEW handles, handles \subseteq Subscriber, IsFiniteSet(handles), ResolveEffects(handles),
         handles \ TakenSubscribers = registered \ TakenSubscribers
  PROVE  SessionInv'
<1>1. /\ registered' = registered \ TakenSubscribers
      /\ registered' \subseteq Subscriber /\ IsFiniteSet(registered')
      /\ tasks' \subseteq Seq(SendSet) \ {<< >>}
      /\ \A t \in tasks' \ tasks : \A k \in DOMAIN t : \E i \in DOMAIN effects' :
           t[k].to \in Of(effects'[i]) /\ t[k].frame = FrameOf(effects'[i])
  BY Resolved DEF SessionInv, SessionTypeOK, NoGreeting
<1>2. SessionTypeOK'
  BY <1>1, Dequeued DEF SessionInv, SessionTypeOK
<1>3. ASSUME NEW v \in Subscriber, NEW x \in SessionId, Called(v, x)'
      PROVE  Called(v, x)
  <2>1. SessionTypeOK
    BY DEF SessionInv
  <2>2. \A t \in tasks' \ tasks : \A k \in DOMAIN t : t[k].frame # Greeting(x)
    BY <1>1 DEF NoGreeting
  <2> QED
    BY <1>3, <2>1, <2>2, CalledInLoop
<1>4. SubscribersHaveHandles'
  <2>1. ASSUME NEW v
        PROVE  v \in registered' <=> \E x \in SessionId : v \in SubscribersOf(x)'
    <3>1. v \in registered <=> \E x \in SessionId : v \in SubscribersOf(x)
      BY DEF SessionInv, SubscribersHaveHandles
    <3>2. CASE v \in Subscriber
      BY <1>1, <3>1, <3>2 DEF OnlyTakenLeave
    <3>3. CASE v \notin Subscriber
      <4>1. \A x \in SessionId : v \notin SubscribersOf(x)'
        BY <3>3 DEF KernelInv, TypeOK, IsSession, IsMap, SubscribersOf
      <4> QED
        BY <1>1, <3>3, <4>1
    <3> QED
      BY <3>2, <3>3
  <2> QED
    BY <2>1 DEF SubscribersHaveHandles
<1>5. Counted' /\ AskOnce' /\ Settled'
  BY CountedInLoop, AskInLoop
<1>6. \A v \in Subscriber, x \in SessionId : v \in SubscribersOf(x)' => v \in SubscribersOf(x)
  BY DEF OnlyTakenLeave
<1>7. FreshInv'
  BY <1>3, <1>6, AskInLoop DEF SessionInv, FreshInv
<1>8. OneSession'
  BY <1>6 DEF SessionInv, OneSession
<1>9. Own'
  <2>1. \A v \in Subscriber : handler'[v].session = handler[v].session
    BY DEF Answered
  <2> QED
    BY <1>3, <1>6, <2>1 DEF SessionInv, Own
<1> QED
  BY <1>2, <1>4, <1>5, <1>7, <1>8, <1>9 DEF SessionInv
-----------------------------------------------------------------------------
(* A subscriber joins *)

\* The subscriber whose message this is joins session id, and nobody leaves.
LEMMA OneJoins ==
  ASSUME SessionInv, queue # << >>, queue' = Tail(queue), KernelInv', chan' = chan,
         handler' \in [Subscriber -> [phase : Phase, session : SessionId \union {NoSession},
                                      next : Nat, hand : Seq(Frame)]],
         Answered, NEW u \in Subscriber, NEW id \in SessionId, 1 \in Joins(u),
         handler'[u].phase \in {"created", "greeting"},
         handler[u].session \in {NoSession, id},
         Counted', TakenSubscribers = {}, ResolveEffects(registered \union {u}),
         \A i \in DOMAIN effects' : Of(effects'[i]) = {u} /\ FrameOf(effects'[i]) = Greeting(id),
         \A v \in Subscriber, x \in SessionId :
           v \in SubscribersOf(x)' <=> v \in SubscribersOf(x) \/ (v = u /\ x = id)
  PROVE  SessionInv'
<1> DEFINE handles == registered \union {u}
<1>1. Greeting(id) \in Frame
  BY DEF Frame
<1>2. handles \subseteq Subscriber /\ IsFiniteSet(handles)
  BY FS_AddElement DEF SessionInv, SessionTypeOK
<1>3. /\ registered' = registered \union {u}
      /\ registered' \subseteq Subscriber /\ IsFiniteSet(registered')
      /\ tasks' \subseteq Seq(SendSet) \ {<< >>}
      /\ \A t \in tasks' \ tasks : \A k \in DOMAIN t : t[k].to = u /\ t[k].frame = Greeting(id)
  <2>1. \A t \in tasks' \ tasks : \A k \in DOMAIN t : \E i \in DOMAIN effects' :
          t[k].to \in Of(effects'[i]) /\ t[k].frame = FrameOf(effects'[i])
    BY <1>1, <1>2, Resolved DEF SessionInv, SessionTypeOK
  <2>2. /\ registered' = handles \ TakenSubscribers
        /\ registered' \subseteq Subscriber /\ IsFiniteSet(registered')
        /\ tasks' \subseteq Seq(SendSet) \ {<< >>}
    BY <1>1, <1>2, Resolved DEF SessionInv, SessionTypeOK
  <2> QED
    BY <2>1, <2>2
<1>4. SessionTypeOK'
  BY <1>3, Dequeued DEF SessionInv, SessionTypeOK
<1>5. ASSUME NEW v \in Subscriber, NEW x \in SessionId, Called(v, x)'
      PROVE  Called(v, x) \/ (v = u /\ x = id)
  <2>1. SessionTypeOK
    BY DEF SessionInv
  <2> QED
    BY <1>3, <1>5, <2>1, CalledInLoop, FramesDiffer, SMTT(30)
<1>6. \A x \in SessionId : u \notin SubscribersOf(x) /\ ~Called(u, x)
  <2>1. Fresh(u)
    BY DEF SessionInv, AskOnce, Fresh
  <2> QED
    BY <2>1 DEF SessionInv, FreshInv
<1>7. SubscribersHaveHandles'
  <2>1. ASSUME NEW v
        PROVE  v \in registered' <=> \E x \in SessionId : v \in SubscribersOf(x)'
    <3>1. v \in registered <=> \E x \in SessionId : v \in SubscribersOf(x)
      BY DEF SessionInv, SubscribersHaveHandles
    <3>2. CASE v \in Subscriber
      BY <1>3, <3>1, <3>2
    <3>3. CASE v \notin Subscriber
      <4>1. \A x \in SessionId : v \notin SubscribersOf(x)'
        BY <3>3 DEF KernelInv, TypeOK, IsSession, IsMap, SubscribersOf
      <4> QED
        BY <1>3, <3>3, <4>1
    <3> QED
      BY <3>2, <3>3
  <2> QED
    BY <2>1 DEF SubscribersHaveHandles
<1>8. AskOnce' /\ Settled'
  BY AskInLoop
<1>9. FreshInv'
  <2>1. ~Fresh(u)'
    BY DEF Fresh
  <2> QED
    BY <1>5, <2>1, AskInLoop DEF SessionInv, FreshInv
<1>10. OneSession'
  BY <1>6 DEF SessionInv, OneSession
<1>11. Own'
  <2>1. \A v \in Subscriber : handler'[v].session = handler[v].session
    BY DEF Answered
  <2>2. NoSession \notin SessionId
    BY CreatorsAssumption
  <2>3. ASSUME NEW v \in Subscriber, NEW a \in SessionId, NEW b \in SessionId,
               v \in SubscribersOf(a)', handler'[v].session = b \/ Called(v, b)'
        PROVE  a = b
    <3>1. CASE v = u
      <4>1. a = id
        BY <1>6, <2>3, <3>1
      <4>2. b = id
        BY <1>5, <1>6, <2>1, <2>2, <2>3, <3>1
      <4> QED
        BY <4>1, <4>2
    <3>2. CASE v # u
      BY <1>5, <2>1, <2>3, <3>2 DEF SessionInv, Own
    <3> QED
      BY <3>1, <3>2
  <2> QED
    BY <2>3 DEF Own
<1> QED
  BY <1>4, <1>7, <1>8, <1>9, <1>10, <1>11 DEF SessionInv

\* What the head of the channel is known to be.
LEMMA HeadAsked ==
  ASSUME SessionInv, queue # << >>, NEW u \in Subscriber,
         Head(queue).type \in {"SessionCreate", "SessionSubscribe"}, Head(queue).subscriber = u
  PROVE  /\ 1 \in Joins(u) /\ handler[u].phase = "asking"
         /\ Head(queue) = IF handler[u].session = NoSession
                            THEN CreateMsg(u) ELSE SubscribeMsg(u, handler[u].session)
         /\ \A x \in SessionId : u \notin SubscribersOf(x)
<1>1. 1 \in Joins(u) /\ Head(queue) = queue[1]
  BY DEF SessionInv, SessionTypeOK, Joins
<1>2. /\ handler[u].phase = "asking"
      /\ queue[1] = IF handler[u].session = NoSession
                      THEN CreateMsg(u) ELSE SubscribeMsg(u, handler[u].session)
  BY <1>1 DEF SessionInv, AskOnce
<1>3. \A x \in SessionId : u \notin SubscribersOf(x)
  BY <1>2 DEF SessionInv, FreshInv, Fresh
<1> QED
  BY <1>1, <1>2, <1>3

\* A message about a subscriber names the session it is in, if it is in one.
LEMMA HeadNames ==
  ASSUME SessionInv, queue # << >>, NEW u \in Subscriber, NEW id \in SessionId,
         Head(queue) \in {HeartbeatMsg(u, id), UnsubscribeMsg(u, id)}
  PROVE  \A x \in SessionId : u \in SubscribersOf(x) => x = id
<1>1. Called(u, id)
  <2>1. 1 \in DOMAIN queue /\ Head(queue) = queue[1]
    BY DEF SessionInv, SessionTypeOK
  <2> QED
    BY <2>1 DEF Called
<1> QED
  BY <1>1 DEF SessionInv, Own
-----------------------------------------------------------------------------
(* The messages of the loop *)

LEMMA ProcessCreateInv ==
  ASSUME SessionInv, ProcessCreate
  PROVE  SessionInv'
<1> DEFINE u == Head(queue).subscriber
<1>1. /\ queue # << >> /\ queue' = Tail(queue) /\ Head(queue).type = "SessionCreate"
      /\ SessionRequested(u) /\ ResolveEffects(registered \union {u}) /\ chan' = chan
      /\ handler' = [handler EXCEPT ![u].phase = "created"]
  BY DEF ProcessCreate, Receive
<1>2. u \in Subscriber /\ Head(queue) = CreateMsg(u)
  <2>1. Head(queue) \in Message
    BY <1>1 DEF SessionInv, SessionTypeOK
  <2> QED
    BY <1>1, <2>1, MessageKinds DEF CreateMsg
<1> HIDE DEF u
<1>3. /\ 1 \in Joins(u) /\ handler[u].phase = "asking" /\ handler[u].session = NoSession
  <2>1. Head(queue).subscriber = u /\ \A id : Head(queue) # SubscribeMsg(u, id)
    BY <1>2 DEF CreateMsg, SubscribeMsg
  <2> QED
    BY <1>1, <1>2, <2>1, HeadAsked
<1>4. session_counter < MaxSessions
  <2>1. queue \in Seq(Message) /\ session_counter \in Nat /\ MaxSessions \in Nat
    BY BoundAssumption DEF SessionInv, SessionTypeOK, KernelInv, TypeOK
  <2> QED
    BY <1>1, <2>1, CreatesFinite, CreatesDequeued DEF SessionInv, Counted
<1>5. KernelInv'
  BY <1>1, <1>2, <1>4, SessionRequestedInv DEF SessionInv
<1>6. PICK id \in SessionId :
        /\ effects' = <<SessionCreated(id, u)>>
        /\ \A v \in Subscriber, x \in SessionId :
             v \in SubscribersOf(x)' <=> v \in SubscribersOf(x) \/ (v = u /\ x = id)
  BY <1>1, <1>2, <1>4, RequestedMoves DEF SessionInv
<1>7. /\ handler' \in [Subscriber -> [phase : Phase, session : SessionId \union {NoSession},
                                      next : Nat, hand : Seq(Frame)]]
      /\ handler'[u].phase = "created"
      /\ \A v \in Subscriber : v # u => handler'[v] = handler[v]
      /\ handler'[u].session = handler[u].session
  BY <1>1, <1>2 DEF SessionInv, SessionTypeOK, Phase
<1>8. Answered
  BY <1>3, <1>7 DEF Answered
<1>9. Counted'
  BY <1>1, CountedInLoop DEF SessionRequested
<1>10. /\ TakenSubscribers = {}
       /\ \A i \in DOMAIN effects' : Of(effects'[i]) = {u} /\ FrameOf(effects'[i]) = Greeting(id)
  BY <1>6, OfCreated
<1>11. handler'[u].phase \in {"created", "greeting"} /\ handler[u].session \in {NoSession, id}
  BY <1>3, <1>7
<1> QED
  BY <1>1, <1>2, <1>3, <1>5, <1>6, <1>7, <1>8, <1>9, <1>10, <1>11, OneJoins

LEMMA ProcessSubscribeInv ==
  ASSUME SessionInv, ProcessSubscribe
  PROVE  SessionInv'
<1> DEFINE u == Head(queue).subscriber
           id == Head(queue).session
<1>1. /\ queue # << >> /\ queue' = Tail(queue) /\ Head(queue).type = "SessionSubscribe"
      /\ Subscribed(id, u) /\ ResolveEffects(registered \union {u}) /\ chan' = chan
      /\ handler' = [handler EXCEPT ![u].phase = "greeting", ![u].next = FirstUntold(id)]
  BY DEF ProcessSubscribe, Receive
<1>2. u \in Subscriber /\ id \in SessionId /\ Head(queue) = SubscribeMsg(u, id)
  <2>1. Head(queue) \in Message
    BY <1>1 DEF SessionInv, SessionTypeOK
  <2> QED
    BY <1>1, <2>1, MessageKinds DEF SubscribeMsg
<1> HIDE DEF u, id
<1>3. /\ 1 \in Joins(u) /\ handler[u].phase = "asking" /\ handler[u].session = id
      /\ \A x \in SessionId : u \notin SubscribersOf(x)
  <2>1. /\ Head(queue).subscriber = u /\ Head(queue) # CreateMsg(u)
        /\ \A x : Head(queue) = SubscribeMsg(u, x) => x = id
    BY <1>2 DEF CreateMsg, SubscribeMsg
  <2> QED
    BY <1>1, <1>2, <2>1, HeadAsked
<1>4. FirstUntold(id) \in Nat
  BY DEF FirstUntold, SessionInv, KernelInv, TypeOK, IsSession
<1>5. KernelInv'
  BY <1>1, <1>2, SessionEventInv DEF SessionInv
<1>6. /\ handler' \in [Subscriber -> [phase : Phase, session : SessionId \union {NoSession},
                                      next : Nat, hand : Seq(Frame)]]
      /\ handler'[u].phase = "greeting"
      /\ \A v \in Subscriber : v # u => handler'[v] = handler[v]
      /\ handler'[u].session = handler[u].session
  BY <1>1, <1>2, <1>4, ZenonT(60) DEF SessionInv, SessionTypeOK, Phase
<1>7. Answered
  BY <1>2, <1>3, <1>6 DEF Answered
<1>8. registered \union {u} \subseteq Subscriber /\ IsFiniteSet(registered \union {u})
  BY <1>2, FS_AddElement DEF SessionInv, SessionTypeOK
<1>9. CASE UnknownSession(id, {u})
  <2>1. /\ OnlyTakenLeave /\ NoGreeting /\ TakenSubscribers = {u}
        /\ session_counter' = session_counter
    BY <1>3, <1>9, UnknownMoves DEF SessionInv
  <2>2. (registered \union {u}) \ TakenSubscribers = registered \ TakenSubscribers
    BY <2>1
  <2> QED
    BY <1>1, <1>5, <1>6, <1>7, <1>8, <2>1, <2>2, NobodyJoins
<1>10. CASE SessionStep(id, WithSubscriber(sessions[id], u, tick), << >>)
  <2>1. /\ effects' = << >> /\ session_counter' = session_counter
        /\ \A v \in Subscriber, x \in SessionId :
             v \in SubscribersOf(x)' <=> v \in SubscribersOf(x) \/ (v = u /\ x = id)
    BY <1>2, <1>10, SubscribedMoves DEF SessionInv
  <2>3. TakenSubscribers = {} /\ DOMAIN effects' = {}
    BY <2>1, OfNothing
  <2>4. Counted'
    BY <1>1, <2>1, CountedInLoop
  <2> QED
    BY <1>1, <1>2, <1>3, <1>5, <1>6, <1>7, <2>1, <2>3, <2>4, OneJoins
<1> QED
  BY <1>1, <1>9, <1>10 DEF Subscribed

\* Every other message only takes handles away.
LEMMA ForwardInv ==
  ASSUME SessionInv, queue # << >>, queue' = Tail(queue), KernelInv',
         session_counter' = session_counter, OnlyTakenLeave, NoGreeting, Forward
  PROVE  SessionInv'
<1>1. ResolveEffects(registered) /\ chan' = chan /\ handler' = handler
  BY DEF Forward, adapterVars
<1>2. Answered
  BY <1>1 DEF Answered
<1> QED
  BY <1>1, <1>2, NobodyJoins DEF SessionInv, SessionTypeOK

LEMMA ProcessMessageInv ==
  ASSUME SessionInv, ProcessMessage
  PROVE  SessionInv'
<1> DEFINE m == Head(queue)
<1> USE DEF Receive
<1>1. ASSUME queue # << >>
      PROVE  m \in Message
  BY <1>1 DEF SessionInv, SessionTypeOK
<1>2. CASE ProcessAppend
  <2>1. PICK id \in SessionId, p \in Payload : m = AppendMsg(id, p)
    BY <1>1, <1>2, MessageKinds DEF ProcessAppend
  <2>2. EntryAppended(id, p)
    BY <1>2, <2>1 DEF ProcessAppend, AppendMsg
  <2>3. KernelInv'
    BY <2>2, SessionEventInv DEF SessionInv
  <2> QED
    BY <1>2, <2>2, <2>3, AppendMoves, ForwardInv DEF ProcessAppend, SessionInv
<1>3. CASE ProcessHeartbeat
  <2>1. PICK u \in Subscriber, id \in SessionId : m = HeartbeatMsg(u, id)
    BY <1>1, <1>3, MessageKinds DEF ProcessHeartbeat
  <2>2. SubscriberHeartbeat(id, u)
    BY <1>3, <2>1 DEF ProcessHeartbeat, HeartbeatMsg
  <2>3. KernelInv'
    BY <2>2, SessionEventInv DEF SessionInv
  <2>4. \A x \in SessionId : u \in SubscribersOf(x) => x = id
    BY <1>3, <2>1, HeadNames DEF ProcessHeartbeat
  <2> QED
    BY <1>3, <2>2, <2>3, <2>4, HeartbeatMoves, ForwardInv DEF ProcessHeartbeat, SessionInv
<1>4. CASE ProcessUnsubscribe
  <2>1. PICK u \in Subscriber, id \in SessionId : m = UnsubscribeMsg(u, id)
    BY <1>1, <1>4, MessageKinds DEF ProcessUnsubscribe
  <2>2. Unsubscribed(id, u)
    BY <1>4, <2>1 DEF ProcessUnsubscribe, UnsubscribeMsg
  <2>3. KernelInv'
    BY <2>2, SessionEventInv DEF SessionInv
  <2>4. \A x \in SessionId : u \in SubscribersOf(x) => x = id
    BY <1>4, <2>1, HeadNames DEF ProcessUnsubscribe
  <2> QED
    BY <1>4, <2>2, <2>3, <2>4, UnsubscribedMoves, ForwardInv DEF ProcessUnsubscribe, SessionInv
<1>5. CASE ProcessTick
  <2>1. KernelInv'
    BY <1>5, TickInv DEF ProcessTick, SessionInv
  <2> QED
    BY <1>5, <2>1, TickMoves, ForwardInv DEF ProcessTick, SessionInv
<1> QED
  BY <1>2, <1>3, <1>4, <1>5, ProcessCreateInv, ProcessSubscribeInv DEF ProcessMessage
-----------------------------------------------------------------------------
(* Ticks, tasks and handlers: the kernel and the registry are left alone *)

LEMMA CalledByMessage ==
  ASSUME queue \in Seq(Message), NEW m \in Message, Enqueue(m), UNCHANGED <<tasks, chan>>,
         NEW v, NEW x, Called(v, x)'
  PROVE  Called(v, x) \/ m \in {HeartbeatMsg(v, x), UnsubscribeMsg(v, x)}
<1> DEFINE Names(q) == \E i \in DOMAIN q : q[i] \in {HeartbeatMsg(v, x), UnsubscribeMsg(v, x)}
           InChannel == \E k \in DOMAIN chan[v] : chan[v][k] = Greeting(x)
           InTask == \E t \in tasks : \E k \in DOMAIN t : t[k] = [to |-> v, frame |-> Greeting(x)]
<1>1. Called(v, x) <=> Names(queue) \/ InChannel \/ InTask
  BY DEF Called
<1>2. Called(v, x)' <=> Names(queue') \/ InChannel \/ InTask
  BY DEF Called, HeartbeatMsg, UnsubscribeMsg, Greeting
<1>3. Names(queue') => Names(queue) \/ m \in {HeartbeatMsg(v, x), UnsubscribeMsg(v, x)}
  BY Enqueued
<1> HIDE DEF Names, InChannel, InTask
<1> QED
  BY <1>1, <1>2, <1>3

\* A handler asks once it is known that nobody has heard of it.
LEMMA AskInv ==
  ASSUME SessionInv, UNCHANGED <<kernelVars, registered, tasks, chan>>, NEW u \in Subscriber,
         handler[u].phase = "off", NEW session \in SessionId \union {NoSession},
         NEW m \in Message, Enqueue(m),
         m = IF session = NoSession THEN CreateMsg(u) ELSE SubscribeMsg(u, session),
         handler' \in [Subscriber -> [phase : Phase, session : SessionId \union {NoSession},
                                      next : Nat, hand : Seq(Frame)]],
         \A v \in Subscriber \ {u} : handler'[v] = handler[v],
         handler'[u].phase = "asking", handler'[u].session = session,
         Counted'
  PROVE  SessionInv'
<1>1. queue \in Seq(Message)
  BY DEF SessionInv, SessionTypeOK
<1>2. m.type \in {"SessionCreate", "SessionSubscribe"} /\ m.subscriber = u
  BY DEF CreateMsg, SubscribeMsg
<1>3. SessionTypeOK'
  BY <1>1, Enqueued DEF SessionInv, SessionTypeOK
<1>4. SubscribersHaveHandles' /\ KernelInv'
  BY DEF SessionInv, SubscribersHaveHandles, SubscribersOf, KernelInv, TypeOK, DeadlineWindow,
         IssuedSessionIds, SessionWindow, IsSession, IsMap, kernelVars, state
<1>5. \A v \in Subscriber, x \in SessionId : Called(v, x)' => Called(v, x)
  <2>1. \A v, x : m \notin {HeartbeatMsg(v, x), UnsubscribeMsg(v, x)}
    BY <1>2 DEF HeartbeatMsg, UnsubscribeMsg
  <2> QED
    BY <1>1, <2>1, CalledByMessage
<1>6. /\ \A v \in Subscriber \ {u} : Joins(v)' = Joins(v)
      /\ Joins(u) = {} /\ Joins(u)' = {Len(queue) + 1}
  <2>1. Joins(u) = {}
    BY DEF SessionInv, AskOnce
  <2> QED
    BY <1>1, <1>2, <2>1, Enqueued DEF Joins
<1>7. AskOnce'
  <2>1. ASSUME NEW v \in Subscriber, NEW i \in Joins(v)'
        PROVE  /\ handler'[v].phase = "asking"
               /\ queue'[i] = IF handler'[v].session = NoSession
                                THEN CreateMsg(v) ELSE SubscribeMsg(v, handler'[v].session)
    <3>1. CASE v = u
      BY <1>1, <1>6, <2>1, <3>1, Enqueued
    <3>2. CASE v # u
      <4>1. i \in Joins(v) /\ queue'[i] = queue[i] /\ handler'[v] = handler[v]
        BY <1>1, <1>6, <2>1, <3>2, Enqueued DEF Joins
      <4> QED
        BY <2>1, <4>1 DEF SessionInv, AskOnce
    <3> QED
      BY <3>1, <3>2
  <2>2. ASSUME NEW v \in Subscriber
        PROVE  \A i, j \in Joins(v)' : i = j
    BY <1>6 DEF SessionInv, AskOnce
  <2> QED
    BY <2>1, <2>2 DEF AskOnce, CreateMsg, SubscribeMsg
<1>8. Fresh(u) /\ \A v \in Subscriber : Fresh(v)' => Fresh(v)
  BY DEF Fresh
<1>9. \A x \in SessionId : SubscribersOf(x)' = SubscribersOf(x)
  BY DEF SubscribersOf, kernelVars, state
<1>10. FreshInv'
  BY <1>5, <1>8, <1>9 DEF SessionInv, FreshInv
<1>11. OneSession'
  BY <1>9 DEF SessionInv, OneSession
<1>12. Own'
  <2>1. ASSUME NEW v \in Subscriber, NEW a \in SessionId, NEW b \in SessionId,
               v \in SubscribersOf(a)', handler'[v].session = b \/ Called(v, b)'
        PROVE  a = b
    <3>1. v \in SubscribersOf(a)
      BY <1>9, <2>1
    <3>2. v # u
      BY <1>8, <3>1 DEF SessionInv, FreshInv
    <3>3. handler[v].session = b \/ Called(v, b)
      BY <1>5, <2>1, <3>2
    <3> QED
      BY <3>1, <3>3 DEF SessionInv, Own
  <2> QED
    BY <2>1 DEF Own
<1>13. Settled'
  BY DEF SessionInv, Settled
<1> QED
  BY <1>3, <1>4, <1>7, <1>10, <1>11, <1>12, <1>13 DEF SessionInv

\* Any other step outside of the loop moves names that were there before.
LEMMA OutsideInv ==
  ASSUME SessionInv, UNCHANGED <<kernelVars, registered>>, SessionTypeOK',
         \/ queue' = queue
         \/ \E m \in Message :
              Enqueue(m) /\ m.type \notin {"SessionCreate", "SessionSubscribe"},
         \A v \in Subscriber :
           \/ handler'[v] = handler[v]
           \/ /\ ~Fresh(v) /\ ~Fresh(v)'
              /\ handler'[v].phase \in {"greeting", "loop", "sending", "leaving"}
                   => handler'[v].session \in SessionId,
         \A v \in Subscriber, x \in SessionId :
           Called(v, x)' => Called(v, x) \/ (~Fresh(v) /\ handler[v].session = x),
         \A v \in Subscriber, x \in SessionId :
           handler'[v].session = x => handler[v].session = x \/ Called(v, x)
  PROVE  SessionInv'
<1>1. queue \in Seq(Message)
  BY DEF SessionInv, SessionTypeOK
<1>2. SubscribersHaveHandles' /\ KernelInv'
  BY DEF SessionInv, SubscribersHaveHandles, SubscribersOf, KernelInv, TypeOK, DeadlineWindow,
         IssuedSessionIds, SessionWindow, IsSession, IsMap, kernelVars, state
<1>3. /\ Creates' = Creates
      /\ \A v \in Subscriber : Joins(v)' = Joins(v)
      /\ \A i \in DOMAIN queue : queue'[i] = queue[i]
  <2>1. CASE queue' = queue
    BY <2>1 DEF Creates, Joins
  <2>2. ASSUME NEW m \in Message, Enqueue(m),
               m.type \notin {"SessionCreate", "SessionSubscribe"}
        PROVE  /\ Creates' = Creates
               /\ \A v \in Subscriber : Joins(v)' = Joins(v)
               /\ \A i \in DOMAIN queue : queue'[i] = queue[i]
    <3>1. Creates' = Creates /\ \A i \in DOMAIN queue : queue'[i] = queue[i]
      BY <1>1, <2>2, Enqueued, CreatesEnqueued
    <3>2. \A v \in Subscriber : Joins(v)' = Joins(v)
      BY <1>1, <2>2, Enqueued DEF Joins
    <3> QED
      BY <3>1, <3>2
  <2> QED
    BY <2>1, <2>2
<1>4. Counted'
  BY <1>3 DEF SessionInv, Counted, kernelVars, state
<1>5. AskOnce'
  <2>1. ASSUME NEW v \in Subscriber, NEW i \in Joins(v)'
        PROVE  /\ handler'[v].phase = "asking"
               /\ queue'[i] = IF handler'[v].session = NoSession
                                THEN CreateMsg(v) ELSE SubscribeMsg(v, handler'[v].session)
    <3>1. i \in Joins(v) /\ queue'[i] = queue[i]
      BY <1>3, <2>1 DEF Joins
    <3>2. handler[v].phase = "asking"
      BY <3>1 DEF SessionInv, AskOnce
    <3>3. handler'[v] = handler[v]
      BY <3>2 DEF Fresh
    <3> QED
      BY <3>1, <3>3 DEF SessionInv, AskOnce
  <2>2. ASSUME NEW v \in Subscriber
        PROVE  \A i, j \in Joins(v)' : i = j
    BY <1>3 DEF SessionInv, AskOnce
  <2> QED
    BY <2>1, <2>2 DEF AskOnce, CreateMsg, SubscribeMsg
<1>6. \A x \in SessionId : SubscribersOf(x)' = SubscribersOf(x)
  BY DEF SubscribersOf, kernelVars, state
<1>7. \A v \in Subscriber : Fresh(v)' => Fresh(v)
  BY DEF Fresh
<1>8. FreshInv'
  BY <1>6, <1>7 DEF SessionInv, FreshInv
<1>9. OneSession'
  BY <1>6 DEF SessionInv, OneSession
<1>10. Own'
  BY <1>6 DEF SessionInv, Own
<1>11. Settled'
  BY DEF SessionInv, Settled, Fresh
<1> QED
  BY <1>2, <1>4, <1>5, <1>8, <1>9, <1>10, <1>11 DEF SessionInv
-----------------------------------------------------------------------------
(* The steps outside of the loop *)

HandlerSet == [phase : Phase, session : SessionId \union {NoSession},
               next : Nat, hand : Seq(Frame)]

LEMMA TickTaskInv ==
  ASSUME SessionInv, TickTask
  PROVE  SessionInv'
<1>1. /\ Enqueue(TickMsg) /\ TickMsg \in Message
      /\ UNCHANGED <<kernelVars, registered, tasks, chan, handler>>
  BY DEF TickTask, adapterVars, Message
<1>2. TickMsg.type = "Tick" /\ \A v, x : TickMsg \notin {HeartbeatMsg(v, x), UnsubscribeMsg(v, x)}
  BY DEF TickMsg, HeartbeatMsg, UnsubscribeMsg
<1>3. SessionTypeOK'
  BY <1>1, Enqueued DEF SessionInv, SessionTypeOK
<1>4. \A v \in Subscriber, x \in SessionId : Called(v, x)' => Called(v, x)
  BY <1>1, <1>2, CalledByMessage DEF SessionInv, SessionTypeOK
<1> QED
  BY <1>1, <1>2, <1>3, <1>4, OutsideInv

LEMMA CreateInv ==
  ASSUME SessionInv, NEW u \in Subscriber, Create(u)
  PROVE  SessionInv'
<1>1. /\ handler[u].phase = "off" /\ Enqueue(CreateMsg(u))
      /\ handler' = [handler EXCEPT ![u].phase = "asking"]
      /\ Cardinality(Creates) + session_counter < MaxSessions
      /\ UNCHANGED <<kernelVars, registered, tasks, chan>>
  BY DEF Create, To, Runtime, Creates
<1>2. CreateMsg(u) \in Message /\ CreateMsg(u).type = "SessionCreate"
  BY DEF Message, CreateMsg
<1>3. handler[u].session = NoSession
  BY <1>1 DEF SessionInv, Settled
<1>4. /\ handler' \in [Subscriber -> HandlerSet]
      /\ handler'[u].phase = "asking" /\ handler'[u].session = NoSession
      /\ \A v \in Subscriber \ {u} : handler'[v] = handler[v]
  BY <1>1, <1>3, ZenonT(60) DEF SessionInv, SessionTypeOK, Phase, HandlerSet
<1>5. Counted'
  <2>1. queue \in Seq(Message) /\ session_counter \in Nat /\ MaxSessions \in Nat
    BY BoundAssumption DEF SessionInv, SessionTypeOK, KernelInv, TypeOK
  <2>2. Creates' = Creates \union {Len(queue) + 1} /\ Len(queue) + 1 \notin Creates
    BY <1>1, <1>2, <2>1, Enqueued, CreatesEnqueued DEF Creates
  <2>3. Cardinality(Creates') = Cardinality(Creates) + 1
    BY <2>1, <2>2, CreatesFinite, FS_AddElement
  <2>4. session_counter' = session_counter
    BY <1>1 DEF kernelVars, state
  <2> QED
    BY <1>1, <2>1, <2>3, <2>4, CreatesFinite DEF Counted
<1> QED
  BY <1>1, <1>2, <1>4, <1>5, AskInv DEF HandlerSet

LEMMA SubscribeInv ==
  ASSUME SessionInv, NEW u \in Subscriber, NEW id \in SessionId, Subscribe(u, id)
  PROVE  SessionInv'
<1>1. /\ handler[u].phase = "off" /\ Enqueue(SubscribeMsg(u, id))
      /\ handler' = [handler EXCEPT ![u].phase = "asking", ![u].session = id]
      /\ UNCHANGED <<kernelVars, registered, tasks, chan>>
  BY DEF Subscribe, Runtime
<1>2. SubscribeMsg(u, id) \in Message /\ SubscribeMsg(u, id).type = "SessionSubscribe"
  BY DEF Message, SubscribeMsg
<1>3. id # NoSession
  BY CreatorsAssumption
<1>4. /\ handler' \in [Subscriber -> HandlerSet]
      /\ handler'[u].phase = "asking" /\ handler'[u].session = id
      /\ \A v \in Subscriber \ {u} : handler'[v] = handler[v]
  BY <1>1, ZenonT(60) DEF SessionInv, SessionTypeOK, Phase, HandlerSet
<1>5. Counted'
  <2>1. Creates' = Creates
    BY <1>1, <1>2, CreatesEnqueued DEF SessionInv, SessionTypeOK
  <2> QED
    BY <1>1, <2>1 DEF SessionInv, Counted, kernelVars, state
<1> QED
  BY <1>1, <1>2, <1>3, <1>4, <1>5, AskInv DEF HandlerSet

LEMMA ReturnFacts ==
  ASSUME SessionTypeOK, NEW u \in Subscriber, Return(u)
  PROVE  /\ handler' \in [Subscriber -> HandlerSet]
         /\ handler'[u].phase = "gone" /\ handler'[u].session = handler[u].session
         /\ \A v \in Subscriber \ {u} : handler'[v] = handler[v]
         /\ chan' \in [Subscriber -> Seq(Frame)] /\ chan'[u] = << >>
         /\ \A v \in Subscriber \ {u} : chan'[v] = chan[v]
<1>1. /\ handler' = [handler EXCEPT ![u] = [handler[u] EXCEPT !.phase = "gone", !.hand = << >>]]
      /\ chan' = [chan EXCEPT ![u] = << >>]
  BY DEF Return
<1>2. << >> \in Seq(Frame) /\ handler \in [Subscriber -> HandlerSet]
  BY DEF SessionTypeOK, HandlerSet
<1>3. [handler[u] EXCEPT !.phase = "gone", !.hand = << >>] \in HandlerSet
  BY <1>2 DEF HandlerSet, Phase
<1>4. /\ [handler[u] EXCEPT !.phase = "gone", !.hand = << >>].phase = "gone"
      /\ [handler[u] EXCEPT !.phase = "gone", !.hand = << >>].session = handler[u].session
  BY <1>2 DEF HandlerSet
<1>5. chan \in [Subscriber -> Seq(Frame)]
  BY DEF SessionTypeOK
<1> QED
  BY <1>1, <1>2, <1>3, <1>4, <1>5

\* A heartbeat and an append of a handler in its loop, an unsubscription of one
\* that leaves.
LEMMA SayInv ==
  ASSUME SessionInv, NEW u \in Subscriber, handler[u].phase \in {"loop", "leaving"},
         NEW m \in Message, Enqueue(m),
         \/ \E p \in Payload : m = AppendMsg(handler[u].session, p)
         \/ m = HeartbeatMsg(u, handler[u].session)
         \/ m = UnsubscribeMsg(u, handler[u].session),
         UNCHANGED <<kernelVars, registered, tasks>>,
         \/ UNCHANGED <<chan, handler>>
         \/ Return(u)
  PROVE  SessionInv'
<1>1. m.type \notin {"SessionCreate", "SessionSubscribe"}
  BY DEF AppendMsg, HeartbeatMsg, UnsubscribeMsg
<1>2. queue' \in Seq(Message) /\ queue \in Seq(Message)
  BY Enqueued DEF SessionInv, SessionTypeOK
<1>3. \A v, x : m \in {HeartbeatMsg(v, x), UnsubscribeMsg(v, x)} =>
                  v = u /\ handler[u].session = x
  BY DEF AppendMsg, HeartbeatMsg, UnsubscribeMsg
<1>4. ~Fresh(u)
  BY DEF Fresh
<1>5. CASE UNCHANGED <<chan, handler>>
  <2>1. SessionTypeOK'
    BY <1>2, <1>5 DEF SessionInv, SessionTypeOK
  <2>2. \A v \in Subscriber, x \in SessionId :
          Called(v, x)' => Called(v, x) \/ (~Fresh(v) /\ handler[v].session = x)
    BY <1>2, <1>3, <1>4, <1>5, CalledByMessage
  <2> QED
    BY <1>1, <1>5, <2>1, <2>2, OutsideInv
<1>6. CASE Return(u)
  <2>2. /\ handler' \in [Subscriber -> HandlerSet]
        /\ handler'[u].phase = "gone" /\ handler'[u].session = handler[u].session
        /\ \A v \in Subscriber \ {u} : handler'[v] = handler[v]
        /\ chan' \in [Subscriber -> Seq(Frame)] /\ chan'[u] = << >>
        /\ \A v \in Subscriber \ {u} : chan'[v] = chan[v]
    BY <1>6, ReturnFacts DEF SessionInv
  <2>3. SessionTypeOK'
    BY <1>2, <2>2 DEF SessionInv, SessionTypeOK, HandlerSet
  <2>4. ASSUME NEW v \in Subscriber, NEW x \in SessionId, Called(v, x)'
        PROVE  Called(v, x) \/ (~Fresh(v) /\ handler[v].session = x)
    <3>1. CASE \E i \in DOMAIN queue' : queue'[i] \in {HeartbeatMsg(v, x), UnsubscribeMsg(v, x)}
      BY <1>2, <1>3, <1>4, <3>1, Enqueued DEF Called
    <3>2. CASE \E k \in DOMAIN chan'[v] : chan'[v][k] = Greeting(x)
      BY <2>2, <3>2 DEF Called
    <3>3. CASE \E t \in tasks : \E k \in DOMAIN t : t[k] = [to |-> v, frame |-> Greeting(x)]
      BY <3>3 DEF Called
    <3> QED
      BY <2>4, <3>1, <3>2, <3>3 DEF Called, HeartbeatMsg, UnsubscribeMsg, Greeting
  <2>5. \A v \in Subscriber : handler'[v] = handler[v] \/ (~Fresh(v) /\ ~Fresh(v)')
    BY <1>4, <2>2 DEF Fresh
  <2>6. \A v \in Subscriber : handler'[v] # handler[v] =>
          handler'[v].phase \notin {"greeting", "loop", "sending", "leaving"}
    BY <2>2
  <2>7. \A v \in Subscriber : handler'[v].session = handler[v].session
    BY <2>2
  <2> QED
    BY <1>1, <2>3, <2>4, <2>5, <2>6, <2>7, OutsideInv
<1> QED
  BY <1>5, <1>6

\* A step of one handler, or a send into its channel: the session it goes by
\* is the one it had, or that of a greeting on its way.
LEMMA LocalInv ==
  ASSUME SessionInv, UNCHANGED <<kernelVars, registered, queue>>, NEW u \in Subscriber,
         chan' \in [Subscriber -> Seq(Frame)], handler' \in [Subscriber -> HandlerSet],
         tasks' \subseteq Seq(SendSet) \ {<< >>},
         \A v \in Subscriber \ {u} : handler'[v] = handler[v] /\ chan'[v] = chan[v],
         \/ handler'[u] = handler[u]
         \/ /\ ~Fresh(u) /\ handler'[u].phase \notin {"off", "asking"}
            /\ handler'[u].phase \in {"greeting", "loop", "sending", "leaving"}
                 => handler'[u].session \in SessionId,
         handler'[u].session = handler[u].session \/ Called(u, handler'[u].session),
         \A x \in SessionId :
           (\E k \in DOMAIN chan'[u] : chan'[u][k] = Greeting(x)) => Called(u, x),
         \A v \in Subscriber, x \in SessionId :
           (\E t \in tasks' : \E k \in DOMAIN t : t[k] = [to |-> v, frame |-> Greeting(x)])
             => Called(v, x)
  PROVE  SessionInv'
<1>1. SessionTypeOK'
  BY DEF SessionInv, SessionTypeOK, HandlerSet
<1>2. ASSUME NEW v \in Subscriber, NEW x \in SessionId, Called(v, x)'
      PROVE  Called(v, x)
  <2>1. CASE \E i \in DOMAIN queue : queue[i] \in {HeartbeatMsg(v, x), UnsubscribeMsg(v, x)}
    BY <2>1 DEF Called
  <2>2. CASE \E k \in DOMAIN chan'[v] : chan'[v][k] = Greeting(x)
    <3>1. CASE v = u
      BY <2>2, <3>1
    <3>2. CASE v # u
      BY <2>2, <3>2 DEF Called
    <3> QED
      BY <3>1, <3>2
  <2>3. CASE \E t \in tasks' : \E k \in DOMAIN t : t[k] = [to |-> v, frame |-> Greeting(x)]
    BY <2>3
  <2> QED
    BY <1>2, <2>1, <2>2, <2>3 DEF Called, HeartbeatMsg, UnsubscribeMsg, Greeting
<1>3. \A v \in Subscriber :
        \/ handler'[v] = handler[v]
        \/ /\ ~Fresh(v) /\ ~Fresh(v)'
           /\ handler'[v].phase \in {"greeting", "loop", "sending", "leaving"}
                => handler'[v].session \in SessionId
  BY DEF Fresh
<1>4. \A v \in Subscriber, x \in SessionId :
        handler'[v].session = x => handler[v].session = x \/ Called(v, x)
  OBVIOUS
<1> QED
  BY <1>1, <1>2, <1>3, <1>4, OutsideInv

\* Changing phase, session and hand of one handler.
LEMMA HandlerFacts ==
  ASSUME SessionTypeOK, NEW u \in Subscriber, NEW phase \in Phase,
         NEW session \in SessionId \union {NoSession}, NEW hand \in Seq(Frame),
         handler' = [handler EXCEPT ![u].phase = phase, ![u].session = session, ![u].hand = hand]
  PROVE  /\ handler' \in [Subscriber -> HandlerSet]
         /\ handler'[u].phase = phase /\ handler'[u].session = session
         /\ \A v \in Subscriber \ {u} : handler'[v] = handler[v]
<1> DEFINE new == [handler[u] EXCEPT !.phase = phase, !.session = session, !.hand = hand]
<1>1. handler' = [handler EXCEPT ![u] = new]
  OBVIOUS
<1>2. handler \in [Subscriber -> HandlerSet]
  BY DEF SessionTypeOK, HandlerSet
<1>3. new \in HandlerSet /\ new.phase = phase /\ new.session = session
  BY <1>2 DEF HandlerSet
<1> HIDE DEF new
<1>4. handler' \in [Subscriber -> HandlerSet]
  BY <1>1, <1>2, <1>3
<1>5. handler'[u] = new
  BY <1>1, <1>2
<1>6. \A v \in Subscriber \ {u} : handler'[v] = handler[v]
  BY <1>1, <1>2
<1> QED
  BY <1>3, <1>4, <1>5, <1>6

LEMMA SameHandler ==
  ASSUME SessionTypeOK, NEW u \in Subscriber
  PROVE  /\ \A phase : [handler EXCEPT ![u].phase = phase] =
              [handler EXCEPT ![u].phase = phase, ![u].session = handler[u].session,
                              ![u].hand = handler[u].hand]
         /\ \A phase, hand : [handler EXCEPT ![u].phase = phase, ![u].hand = hand] =
              [handler EXCEPT ![u].phase = phase, ![u].session = handler[u].session,
                              ![u].hand = hand]
         /\ handler[u].session \in SessionId \union {NoSession}
         /\ handler[u].hand \in Seq(Frame) /\ handler[u].phase \in Phase
BY DEF SessionTypeOK

LEMMA GreetingInChannel ==
  ASSUME SessionTypeOK, NEW u \in Subscriber, chan[u] # << >>
  PROVE  /\ Head(chan[u]) \in Frame
         /\ [chan EXCEPT ![u] = Tail(@)] \in [Subscriber -> Seq(Frame)]
         /\ Head(chan[u]).type = "Subscribed" =>
              Head(chan[u]).session \in SessionId /\ Called(u, Head(chan[u]).session)
         /\ \A x : (\E k \in DOMAIN Tail(chan[u]) : Tail(chan[u])[k] = Greeting(x)) => Called(u, x)
<1> DEFINE c == chan[u]
<1>1. c \in Seq(Frame) /\ c # << >>
  BY DEF SessionTypeOK
<1>2. Head(c) \in Frame /\ Tail(c) \in Seq(Frame) /\ 1 \in DOMAIN c /\ c[1] = Head(c)
  BY <1>1
<1>3. [chan EXCEPT ![u] = Tail(@)] \in [Subscriber -> Seq(Frame)]
  BY <1>2 DEF SessionTypeOK
<1>4. ASSUME Head(c).type = "Subscribed"
      PROVE  Head(c).session \in SessionId /\ Head(c) = Greeting(Head(c).session)
  BY <1>2, <1>4 DEF Frame, Entry, Greeting, Removed
<1>5. \A k \in DOMAIN Tail(c) : k + 1 \in DOMAIN c /\ Tail(c)[k] = c[k + 1]
  BY <1>1
<1>6. \A x : (\E k \in DOMAIN c : c[k] = Greeting(x)) => Called(u, x)
  BY DEF Called
<1> HIDE DEF c
<1>7. Head(c).type = "Subscribed" => Head(c).session \in SessionId /\ Called(u, Head(c).session)
  BY <1>2, <1>4, <1>6
<1>8. \A x : (\E k \in DOMAIN Tail(c) : Tail(c)[k] = Greeting(x)) => Called(u, x)
  BY <1>5, <1>6
<1> QED
  BY <1>2, <1>3, <1>7, <1>8 DEF c

\* The tasks are left alone, so they name nobody new.
LEMMA QuietTasks ==
  ASSUME UNCHANGED tasks, NEW v, NEW x,
         \E t \in tasks' : \E k \in DOMAIN t : t[k] = [to |-> v, frame |-> Greeting(x)]
  PROVE  Called(v, x)
BY DEF Called

LEMMA QuietChannel ==
  ASSUME NEW v, NEW x, \E k \in DOMAIN chan[v] : chan[v][k] = Greeting(x)
  PROVE  Called(v, x)
BY DEF Called

\* One handler changes, its channel and the tasks do not.
LEMMA PhaseInv ==
  ASSUME SessionInv, UNCHANGED <<kernelVars, registered, queue, tasks, chan>>,
         NEW u \in Subscriber, ~Fresh(u),
         NEW phase \in Phase \ {"off", "asking"}, NEW hand \in Seq(Frame),
         handler' = [handler EXCEPT ![u].phase = phase, ![u].session = handler[u].session,
                                    ![u].hand = hand],
         phase \in {"greeting", "loop", "sending", "leaving"} => handler[u].session \in SessionId
  PROVE  SessionInv'
<1>1. SessionTypeOK
  BY DEF SessionInv
<1>2. /\ handler' \in [Subscriber -> HandlerSet]
      /\ handler'[u].phase = phase /\ handler'[u].session = handler[u].session
      /\ \A v \in Subscriber \ {u} : handler'[v] = handler[v]
  BY <1>1, HandlerFacts, SameHandler
<1>3. /\ chan' \in [Subscriber -> Seq(Frame)]
      /\ tasks' \subseteq Seq(SendSet) \ {<< >>}
  BY <1>1 DEF SessionTypeOK
<1>4. \A x \in SessionId :
        (\E k \in DOMAIN chan'[u] : chan'[u][k] = Greeting(x)) => Called(u, x)
  BY QuietChannel
<1>5. \A v \in Subscriber, x \in SessionId :
        (\E t \in tasks' : \E k \in DOMAIN t : t[k] = [to |-> v, frame |-> Greeting(x)])
          => Called(v, x)
  BY QuietTasks
<1>6. \A v \in Subscriber \ {u} : handler'[v] = handler[v] /\ chan'[v] = chan[v]
  BY <1>2
<1> QED
  BY <1>2, <1>3, <1>4, <1>5, <1>6, LocalInv

\* The handler is over, its receiver dropped.
LEMMA ReturnInv ==
  ASSUME SessionInv, UNCHANGED <<kernelVars, registered, queue, tasks>>,
         NEW u \in Subscriber, ~Fresh(u), Return(u)
  PROVE  SessionInv'
<1>1. /\ handler' \in [Subscriber -> HandlerSet]
      /\ handler'[u].phase = "gone" /\ handler'[u].session = handler[u].session
      /\ \A v \in Subscriber \ {u} : handler'[v] = handler[v]
      /\ chan' \in [Subscriber -> Seq(Frame)] /\ chan'[u] = << >>
      /\ \A v \in Subscriber \ {u} : chan'[v] = chan[v]
  BY ReturnFacts DEF SessionInv
<1>2. tasks' \subseteq Seq(SendSet) \ {<< >>}
  BY DEF SessionInv, SessionTypeOK
<1>3. \A x \in SessionId :
        (\E k \in DOMAIN chan'[u] : chan'[u][k] = Greeting(x)) => Called(u, x)
  BY <1>1
<1>4. \A v \in Subscriber, x \in SessionId :
        (\E t \in tasks' : \E k \in DOMAIN t : t[k] = [to |-> v, frame |-> Greeting(x)])
          => Called(v, x)
  BY QuietTasks
<1> QED
  BY <1>1, <1>2, <1>3, <1>4, LocalInv

LEMMA AwaitCreatedInv ==
  ASSUME SessionInv, NEW u \in Subscriber, AwaitCreated(u)
  PROVE  SessionInv'
<1>1. /\ handler[u].phase = "created" /\ ~Fresh(u)
      /\ UNCHANGED <<kernelVars, registered, tasks, queue>>
  BY DEF AwaitCreated, Runtime, Fresh
<1>2. ASSUME chan[u] # << >>, Head(chan[u]).type = "Subscribed",
             handler' = [handler EXCEPT ![u].phase = "greeting",
                                        ![u].session = Head(chan[u]).session],
             chan' = [chan EXCEPT ![u] = Tail(@)]
      PROVE  SessionInv'
  <2> DEFINE id == Head(chan[u]).session
  <2>1. SessionTypeOK
    BY DEF SessionInv
  <2>2. /\ id \in SessionId /\ Called(u, id)
        /\ chan' \in [Subscriber -> Seq(Frame)]
        /\ \A x : (\E k \in DOMAIN Tail(chan[u]) : Tail(chan[u])[k] = Greeting(x)) => Called(u, x)
    BY <1>2, <2>1, GreetingInChannel
  <2>3. chan'[u] = Tail(chan[u]) /\ \A v \in Subscriber \ {u} : chan'[v] = chan[v]
    BY <1>2, <2>1 DEF SessionTypeOK
  <2>4. /\ handler' \in [Subscriber -> HandlerSet]
        /\ handler'[u].phase = "greeting" /\ handler'[u].session = id
        /\ \A v \in Subscriber \ {u} : handler'[v] = handler[v]
    <3>1. "greeting" \in Phase
      BY DEF Phase
    <3>2. handler' = [handler EXCEPT ![u].phase = "greeting", ![u].session = id,
                                     ![u].hand = handler[u].hand]
      BY <1>2, <2>1 DEF SessionTypeOK
    <3> QED
      BY <2>1, <2>2, <3>1, <3>2, SameHandler, HandlerFacts
  <2>5. tasks' \subseteq Seq(SendSet) \ {<< >>}
    BY <1>1, <2>1 DEF SessionTypeOK
  <2>6. \A v \in Subscriber, x \in SessionId :
          (\E t \in tasks' : \E k \in DOMAIN t : t[k] = [to |-> v, frame |-> Greeting(x)])
            => Called(v, x)
    BY <1>1, QuietTasks
  <2> HIDE DEF id
  <2>7. \A v \in Subscriber \ {u} : handler'[v] = handler[v] /\ chan'[v] = chan[v]
    BY <2>3, <2>4
  <2>8. \A x \in SessionId :
          (\E k \in DOMAIN chan'[u] : chan'[u][k] = Greeting(x)) => Called(u, x)
    BY <2>2, <2>3
  <2> QED
    BY <1>1, <2>2, <2>4, <2>5, <2>6, <2>7, <2>8, LocalInv
<1>3. ASSUME Return(u)
      PROVE  SessionInv'
  BY <1>1, <1>3, ReturnInv
<1> QED
  BY <1>2, <1>3 DEF AwaitCreated

LEMMA ToFacts ==
  ASSUME SessionTypeOK, NEW u \in Subscriber, NEW phase, To(u, phase)
  PROVE  /\ handler' = [handler EXCEPT ![u].phase = phase, ![u].session = handler[u].session,
                                       ![u].hand = handler[u].hand]
         /\ handler[u].hand \in Seq(Frame)
BY SameHandler DEF To

LEMMA GreetInv ==
  ASSUME SessionInv, NEW u \in Subscriber, Greet(u)
  PROVE  SessionInv'
<1>1. /\ handler[u].phase = "greeting" /\ ~Fresh(u) /\ handler[u].session \in SessionId
      /\ UNCHANGED <<kernelVars, registered, tasks, queue>>
  BY DEF Greet, Runtime, Fresh, SessionInv, Settled
<1>2. CASE To(u, "loop") /\ UNCHANGED chan
  BY <1>1, <1>2, ToFacts, PhaseInv DEF Phase, SessionInv
<1>3. CASE Return(u)
  BY <1>1, <1>3, ReturnInv
<1> QED
  BY <1>2, <1>3 DEF Greet

LEMMA TakeInv ==
  ASSUME SessionInv, NEW u \in Subscriber, Take(u)
  PROVE  SessionInv'
<1>1. /\ handler[u].phase = "loop" /\ ~Fresh(u) /\ handler[u].session \in SessionId
      /\ UNCHANGED <<kernelVars, registered, tasks, queue>> /\ SessionTypeOK
  BY DEF Take, Runtime, Fresh, SessionInv, Settled
<1>2. ASSUME chan[u] # << >>,
             handler' = [handler EXCEPT ![u].phase = "sending", ![u].hand = <<Head(chan[u])>>],
             chan' = [chan EXCEPT ![u] = Tail(@)]
      PROVE  SessionInv'
  <2>1. /\ Head(chan[u]) \in Frame
        /\ chan' \in [Subscriber -> Seq(Frame)]
        /\ \A x : (\E k \in DOMAIN Tail(chan[u]) : Tail(chan[u])[k] = Greeting(x)) => Called(u, x)
    BY <1>1, <1>2, GreetingInChannel
  <2>2. chan'[u] = Tail(chan[u]) /\ \A v \in Subscriber \ {u} : chan'[v] = chan[v]
    BY <1>1, <1>2 DEF SessionTypeOK
  <2>3. /\ handler' \in [Subscriber -> HandlerSet]
        /\ handler'[u].phase = "sending" /\ handler'[u].session = handler[u].session
        /\ \A v \in Subscriber \ {u} : handler'[v] = handler[v]
    <3> DEFINE hand == <<Head(chan[u])>>
    <3>1. "sending" \in Phase /\ hand \in Seq(Frame)
      BY <2>1 DEF Phase
    <3>2. handler' = [handler EXCEPT ![u].phase = "sending", ![u].session = handler[u].session,
                                     ![u].hand = hand]
      BY <1>1, <1>2, SameHandler, ZenonT(60)
    <3> HIDE DEF hand
    <3> QED
      BY <1>1, <3>1, <3>2, SameHandler, HandlerFacts
  <2>4. tasks' \subseteq Seq(SendSet) \ {<< >>}
    BY <1>1 DEF SessionTypeOK
  <2>5. \A v \in Subscriber, x \in SessionId :
          (\E t \in tasks' : \E k \in DOMAIN t : t[k] = [to |-> v, frame |-> Greeting(x)])
            => Called(v, x)
    BY <1>1, QuietTasks
  <2>6. \A v \in Subscriber \ {u} : handler'[v] = handler[v] /\ chan'[v] = chan[v]
    BY <2>2, <2>3
  <2>7. \A x \in SessionId :
          (\E k \in DOMAIN chan'[u] : chan'[u][k] = Greeting(x)) => Called(u, x)
    BY <2>1, <2>2
  <2> QED
    BY <1>1, <2>1, <2>3, <2>4, <2>5, <2>6, <2>7, LocalInv
<1>3. CASE To(u, "leaving") /\ UNCHANGED chan
  BY <1>1, <1>3, ToFacts, PhaseInv DEF Phase
<1> QED
  BY <1>2, <1>3 DEF Take

LEMMA WriteInv ==
  ASSUME SessionInv, NEW u \in Subscriber, Write(u)
  PROVE  SessionInv'
<1>1. /\ handler[u].phase = "sending" /\ ~Fresh(u) /\ handler[u].session \in SessionId
      /\ UNCHANGED <<kernelVars, registered, tasks, queue, chan>> /\ SessionTypeOK
  BY DEF Write, Runtime, Fresh, SessionInv, Settled
<1>2. PICK phase \in {"leaving", "loop"} :
        handler' = [handler EXCEPT ![u].phase = phase, ![u].hand = << >>]
  BY DEF Write
<1>3. << >> \in Seq(Frame) /\ phase \in Phase \ {"off", "asking"}
  BY <1>2 DEF Phase
<1>4. handler' = [handler EXCEPT ![u].phase = phase, ![u].session = handler[u].session,
                                 ![u].hand = << >>]
  BY <1>1, <1>2, SameHandler, ZenonT(60)
<1> QED
  BY <1>1, <1>3, <1>4, PhaseInv

LEMMA ClientCloseInv ==
  ASSUME SessionInv, NEW u \in Subscriber, ClientCloses(u)
  PROVE  SessionInv'
<1>1. /\ handler[u].phase = "loop" /\ ~Fresh(u) /\ handler[u].session \in SessionId
      /\ UNCHANGED <<kernelVars, registered, tasks, queue, chan>> /\ SessionTypeOK
      /\ To(u, "leaving")
  BY DEF ClientCloses, Runtime, Fresh, SessionInv, Settled
<1> QED
  BY <1>1, ToFacts, PhaseInv DEF Phase

\* What handlers in their loop, or on their way out of it, tell the runtime.
LEMMA SpeakInv ==
  ASSUME SessionInv, NEW u \in Subscriber,
         (\E p \in Payload : ClientAppends(u, p)) \/ Heartbeat(u) \/ Leave(u)
  PROVE  SessionInv'
<1>1. ASSUME NEW p \in Payload, ClientAppends(u, p)
      PROVE  SessionInv'
  <2>1. AppendMsg(handler[u].session, p) \in Message
    BY <1>1 DEF ClientAppends, SessionInv, Settled, Message
  <2> QED
    BY <1>1, <2>1, SayInv DEF ClientAppends, Runtime, adapterVars
<1>2. CASE Heartbeat(u)
  <2>1. HeartbeatMsg(u, handler[u].session) \in Message
    BY <1>2 DEF Heartbeat, SessionInv, Settled, Message
  <2> QED
    BY <1>2, <2>1, SayInv DEF Heartbeat, Runtime, adapterVars
<1>3. CASE Leave(u)
  <2>1. UnsubscribeMsg(u, handler[u].session) \in Message
    BY <1>3 DEF Leave, SessionInv, Settled, Message
  <2> QED
    BY <1>3, <2>1, SayInv DEF Leave, Runtime
<1> QED
  BY <1>1, <1>2, <1>3

LEMMA SequenceFacts ==
  ASSUME NEW S, NEW s \in Seq(S), NEW e \in S
  PROVE  /\ s # << >> => /\ Tail(s) \in Seq(S)
                         /\ \A k \in DOMAIN Tail(s) : k + 1 \in DOMAIN s /\ Tail(s)[k] = s[k + 1]
         /\ s # << >> /\ Len(s) # 1 => Tail(s) # << >>
         /\ Append(s, e) \in Seq(S)
         /\ \A k \in DOMAIN Append(s, e) :
              \/ k \in DOMAIN s /\ Append(s, e)[k] = s[k]
              \/ Append(s, e)[k] = e
<1>1. ASSUME s # << >>
      PROVE  /\ Tail(s) \in Seq(S)
             /\ \A k \in DOMAIN Tail(s) : k + 1 \in DOMAIN s /\ Tail(s)[k] = s[k + 1]
  BY <1>1
<1>2. ASSUME s # << >>, Len(s) # 1
      PROVE  Tail(s) # << >>
  <2>1. Len(Tail(s)) = Len(s) - 1 /\ Len(s) \in Nat
    BY <1>2
  <2>2. Len(Tail(s)) # 0
    BY <1>2, <2>1
  <2>3. Len(<< >>) = 0
    OBVIOUS
  <2> QED
    BY <2>2, <2>3, Zenon
<1>3. Append(s, e) \in Seq(S)
  OBVIOUS
<1>4. \A k \in DOMAIN Append(s, e) :
        \/ k \in DOMAIN s /\ Append(s, e)[k] = s[k]
        \/ Append(s, e)[k] = e
  OBVIOUS
<1> QED
  BY <1>1, <1>2, <1>3, <1>4

LEMMA ExecuteSendInv ==
  ASSUME SessionInv, NEW t \in tasks, ExecuteSend(t)
  PROVE  SessionInv'
<1> DEFINE u == Head(t).to
           f == Head(t).frame
<1>1. /\ UNCHANGED <<kernelVars, registered, queue, handler>> /\ SessionTypeOK
      /\ tasks' = Executed(t)
      /\ chan' = chan \/ chan' = [chan EXCEPT ![u] = Append(@, f)]
  BY DEF ExecuteSend, SessionInv
<1>2. /\ t \in Seq(SendSet) /\ t # << >> /\ 1 \in DOMAIN t /\ t[1] = Head(t)
      /\ Head(t) \in SendSet
  BY <1>1 DEF SessionTypeOK
<1>3. u \in Subscriber /\ f \in Frame /\ t[1] = [to |-> u, frame |-> f]
  BY <1>2 DEF SendSet
<1>4. \A x : f = Greeting(x) => Called(u, x)
  BY <1>2, <1>3 DEF Called
<1>5. /\ tasks' \subseteq Seq(SendSet) \ {<< >>}
      /\ \A s \in tasks' : \A k \in DOMAIN s :
           \E r \in tasks : \E j \in DOMAIN r : r[j] = s[k]
  <2>1. CASE Len(t) = 1
    BY <1>1, <2>1 DEF Executed, SessionTypeOK
  <2>2. CASE Len(t) # 1
    <3>1. /\ Tail(t) \in Seq(SendSet) /\ Tail(t) # << >>
          /\ \A k \in DOMAIN Tail(t) : k + 1 \in DOMAIN t /\ Tail(t)[k] = t[k + 1]
      BY <1>2, <2>2, SequenceFacts
    <3>2. tasks' = (tasks \ {t}) \union {Tail(t)}
      BY <1>1, <2>2 DEF Executed
    <3> QED
      BY <1>1, <3>1, <3>2 DEF SessionTypeOK
  <2> QED
    BY <2>1, <2>2
<1>6. \A v \in Subscriber, x \in SessionId :
        (\E s \in tasks' : \E k \in DOMAIN s : s[k] = [to |-> v, frame |-> Greeting(x)])
          => Called(v, x)
  BY <1>5 DEF Called
<1> HIDE DEF u, f
<1>7. /\ chan' \in [Subscriber -> Seq(Frame)]
      /\ \A v \in Subscriber \ {u} : chan'[v] = chan[v]
      /\ chan'[u] = chan[u] \/ chan'[u] = Append(chan[u], f)
  <2>1. chan \in [Subscriber -> Seq(Frame)] /\ chan[u] \in Seq(Frame)
    BY <1>1, <1>3 DEF SessionTypeOK
  <2>2. Append(chan[u], f) \in Seq(Frame)
    BY <1>3, <2>1, SequenceFacts
  <2> QED
    BY <1>1, <1>3, <2>1, <2>2 DEF u, f
<1>8. ASSUME NEW x \in SessionId, NEW k \in DOMAIN chan'[u], chan'[u][k] = Greeting(x)
      PROVE  Called(u, x)
  <2>1. chan[u] \in Seq(Frame)
    BY <1>1, <1>3 DEF SessionTypeOK
  <2>2. CASE k \in DOMAIN chan[u] /\ chan'[u][k] = chan[u][k]
    BY <1>8, <2>2, QuietChannel
  <2>3. CASE chan'[u][k] = f
    BY <1>4, <1>8, <2>3
  <2>4. CASE chan'[u] = chan[u]
    BY <1>8, <2>2, <2>4
  <2>5. CASE chan'[u] = Append(chan[u], f)
    <3>1. \/ k \in DOMAIN chan[u] /\ Append(chan[u], f)[k] = chan[u][k]
          \/ Append(chan[u], f)[k] = f
      BY <1>3, <1>8, <2>1, <2>5, SequenceFacts
    <3> QED
      BY <2>2, <2>3, <2>5, <3>1
  <2> QED
    BY <1>7, <2>4, <2>5
<1>9. handler' \in [Subscriber -> HandlerSet]
  BY <1>1 DEF SessionTypeOK, HandlerSet
<1> QED
  BY <1>1, <1>3, <1>5, <1>6, <1>7, <1>8, <1>9, LocalInv
-----------------------------------------------------------------------------
(* The invariant *)

LEMMA InitSessionInv == SessionInit => SessionInv
<1> SUFFICES ASSUME SessionInit PROVE SessionInv
  OBVIOUS
<1> USE DEF SessionInit
<1>1. KernelInv
  BY InitKernelInv
<1>2. /\ \A x : SubscribersOf(x) = {}
      /\ \A u, x : ~Called(u, x) \/ u \notin Subscriber
      /\ \A u : Joins(u) = {}
      /\ Creates = {} /\ session_counter = 0
  BY DEF Init, EmptyMap, SubscribersOf, Called, Joins, Creates
<1>3. SessionTypeOK
  BY FS_EmptySet DEF SessionTypeOK, Phase
<1>4. SubscribersHaveHandles
  BY <1>2 DEF SubscribersHaveHandles
<1>5. Counted
  BY <1>2, FS_EmptySet, BoundAssumption DEF Counted
<1>6. AskOnce /\ FreshInv /\ OneSession /\ Own
  BY <1>2 DEF AskOnce, FreshInv, OneSession, Own
<1>7. Settled
  BY DEF Settled
<1> QED
  BY <1>1, <1>3, <1>4, <1>5, <1>6, <1>7 DEF SessionInv

LEMMA NextSessionInv ==
  ASSUME SessionInv, [SessionNext]_vars
  PROVE  SessionInv'
<1>1. CASE UNCHANGED vars
  <2>1. UNCHANGED <<kernelVars, queue, registered, tasks, chan, handler>>
    BY <1>1 DEF vars, adapterVars
  <2>2. SessionTypeOK'
    BY <2>1 DEF SessionInv, SessionTypeOK
  <2>3. \A v \in Subscriber, x \in SessionId : Called(v, x)' => Called(v, x)
    BY <2>1 DEF Called, HeartbeatMsg, UnsubscribeMsg, Greeting
  <2> QED
    BY <2>1, <2>2, <2>3, OutsideInv
<1>2. CASE ProcessMessage
  BY <1>2, ProcessMessageInv
<1>3. CASE TickTask
  BY <1>3, TickTaskInv
<1>4. ASSUME NEW t \in tasks, ExecuteSend(t)
      PROVE  SessionInv'
  BY <1>4, ExecuteSendInv
<1>5. ASSUME NEW u \in Subscriber, HandlerStep(u)
      PROVE  SessionInv'
  BY <1>5, AwaitCreatedInv, GreetInv, TakeInv, WriteInv, SpeakInv DEF HandlerStep
<1>6. ASSUME NEW u \in Subscriber, Create(u) \/ \E id \in SessionId : Subscribe(u, id)
      PROVE  SessionInv'
  BY <1>6, CreateInv, SubscribeInv
<1>7. ASSUME NEW u \in Subscriber,
             Heartbeat(u) \/ ClientCloses(u) \/ \E p \in Payload : ClientAppends(u, p)
      PROVE  SessionInv'
  BY <1>7, SpeakInv, ClientCloseInv
<1> QED
  BY <1>1, <1>2, <1>3, <1>4, <1>5, <1>6, <1>7 DEF SessionNext

\* In every behaviour the loop, the tasks and the handlers can have, with any
\* number of each, the registry and the sessions agree.
THEOREM SessionInvariance == SessionSpec => []SessionInv
<1>1. SessionInv /\ [SessionNext]_vars => SessionInv'
  BY NextSessionInv
<1> QED
  BY <1>1, InitSessionInv, PTL DEF SessionSpec

\* The senders in the registry (gateway/channel_registry.rs) are those of the
\* subscribers in the kernel's sessions (gateway/session/kernel.rs): nobody is
\* notified without a channel, no channel outlives its place in a session.
THEOREM SubscribersAlwaysHaveHandles == SessionSpec => []SubscribersHaveHandles
<1>1. SessionInv => SubscribersHaveHandles
  BY DEF SessionInv
<1> QED
  BY <1>1, SessionInvariance, PTL

\* No subscriber is ever in two sessions, so that a removal, which names only
\* the subscriber, cannot take the handle away from another session.
THEOREM SubscribersInOneSession == SessionSpec => []OneSession
<1>1. SessionInv => OneSession
  BY DEF SessionInv
<1> QED
  BY <1>1, SessionInvariance, PTL

\* The requests for sessions never run past the ids the hash is asked for, and
\* the kernel's own invariant holds with the runtime around it.
THEOREM KernelInvComposed == SessionSpec => []KernelInv
<1>1. SessionInv => KernelInv
  BY DEF SessionInv
<1> QED
  BY <1>1, SessionInvariance, PTL
-----------------------------------------------------------------------------
(* Delivery: how often a sequence has an element *)

Times(s, x) == Cardinality({k \in DOMAIN s : s[k] = x})

LEMMA PlacesFinite ==
  ASSUME NEW S, NEW s \in Seq(S), NEW x
  PROVE  IsFiniteSet({k \in DOMAIN s : s[k] = x}) /\ Times(s, x) \in Nat
<1>1. IsFiniteSet(1 .. Len(s)) /\ {k \in DOMAIN s : s[k] = x} \subseteq 1 .. Len(s)
  <2>1. Len(s) \in Nat /\ DOMAIN s = 1 .. Len(s)
    OBVIOUS
  <2> QED  BY <2>1, FS_Interval
<1> QED  BY <1>1, FS_Subset, FS_CardinalityType DEF Times

LEMMA TimesShort ==
  /\ \A x : Times(<< >>, x) = 0
  /\ \A e, x : Times(<<e>>, x) = IF e = x THEN 1 ELSE 0
<1>1. ASSUME NEW x  PROVE Times(<< >>, x) = 0
  <2>1. {k \in DOMAIN << >> : << >>[k] = x} = {}
    OBVIOUS
  <2> QED  BY <2>1, FS_EmptySet DEF Times
<1>2. ASSUME NEW e, NEW x  PROVE Times(<<e>>, x) = IF e = x THEN 1 ELSE 0
  <2>1. {k \in DOMAIN <<e>> : <<e>>[k] = x} = IF e = x THEN {1} ELSE {}
    OBVIOUS
  <2> QED  BY <2>1, FS_EmptySet, FS_Singleton DEF Times
<1> QED  BY <1>1, <1>2

LEMMA TimesAppend ==
  ASSUME NEW S, NEW s \in Seq(S), NEW e \in S, NEW x
  PROVE  Times(Append(s, e), x) = Times(s, x) + (IF e = x THEN 1 ELSE 0)
<1> DEFINE t == Append(s, e)
           P == {k \in DOMAIN s : s[k] = x}
           Q == {k \in DOMAIN t : t[k] = x}
<1>1. IsFiniteSet(P) /\ Cardinality(P) \in Nat
  BY PlacesFinite DEF Times
<1>2. /\ Len(s) \in Nat /\ DOMAIN s = 1 .. Len(s) /\ DOMAIN t = 1 .. Len(s) + 1
      /\ \A k \in 1 .. Len(s) : t[k] = s[k]
      /\ t[Len(s) + 1] = e
  OBVIOUS
<1> HIDE DEF t
<1>3. Len(s) + 1 \notin P
  BY <1>2
<1>4. Q = IF e = x THEN P \union {Len(s) + 1} ELSE P
  BY <1>2
<1>5. Cardinality(Q) = Cardinality(P) + (IF e = x THEN 1 ELSE 0)
  <2> HIDE DEF P, Q
  <2>1. CASE e = x
    BY <1>1, <1>3, <1>4, <2>1, FS_AddElement
  <2>2. CASE e # x
    BY <1>1, <1>4, <2>2
  <2> QED  BY <2>1, <2>2
<1> QED  BY <1>5 DEF Times, t

LEMMA TimesTail ==
  ASSUME NEW S, NEW s \in Seq(S), s # << >>, NEW x
  PROVE  /\ Times(Tail(s), x) \in Nat
         /\ Times(s, x) = Times(Tail(s), x) + (IF Head(s) = x THEN 1 ELSE 0)
<1> DEFINE t == Tail(s)
           P == {k \in DOMAIN s : s[k] = x}
           Q == {k \in DOMAIN t : t[k] = x}
           f == [k \in Q |-> k + 1]
<1>1. /\ t \in Seq(S) /\ Len(s) \in Nat /\ Len(s) > 0
      /\ DOMAIN s = 1 .. Len(s) /\ DOMAIN t = 1 .. Len(s) - 1
      /\ \A k \in 1 .. Len(s) - 1 : t[k] = s[k + 1]
      /\ s[1] = Head(s)
  OBVIOUS
<1>2. IsFiniteSet(P) /\ Cardinality(P) \in Nat /\ IsFiniteSet(Q) /\ Cardinality(Q) \in Nat
  BY <1>1, PlacesFinite DEF Times
<1> HIDE DEF t
<1>3. f \in Bijection(Q, P \ {1})
  <2>1. \A k \in Q : k \in Nat /\ k + 1 \in P \ {1}
    BY <1>1
  <2>2. f \in [Q -> P \ {1}] /\ \A j, k \in Q : f[j] = f[k] => j = k
    BY <2>1
  <2>3. ASSUME NEW p \in P \ {1}
        PROVE  \E k \in Q : f[k] = p
    <3>1. p - 1 \in Q /\ (p - 1) + 1 = p
      BY <1>1
    <3> QED  BY <3>1
  <2>4. f \in Injection(Q, P \ {1}) /\ f \in Surjection(Q, P \ {1})
    BY <2>2, <2>3 DEF Injection, Surjection, IsInjective
  <2> QED  BY <2>4 DEF Bijection
<1>4. Cardinality(P \ {1}) = Cardinality(Q)
  BY <1>2, <1>3, FS_Bijection DEF ExistsBijection
<1>5. Cardinality(P \ {1}) = IF 1 \in P THEN Cardinality(P) - 1 ELSE Cardinality(P)
  BY <1>2, FS_RemoveElement
<1>6. 1 \in P <=> Head(s) = x
  BY <1>1
<1>7. Cardinality(P) = Cardinality(Q) + (IF Head(s) = x THEN 1 ELSE 0)
  <2> HIDE DEF P, Q
  <2> QED  BY <1>2, <1>4, <1>5, <1>6
<1> QED  BY <1>2, <1>7 DEF Times, t

-----------------------------------------------------------------------------
(* Delivery: what is on its way to a subscriber *)

Sends(u, i) == {t \in tasks : \E k \in DOMAIN t : t[k] = [to |-> u, frame |-> Entry(i)]}

\* A task has one send for each of its subscribers.
OneEach == \A t \in tasks : \A j, k \in DOMAIN t : t[j].to = t[k].to => j = k

\* The handler has a frame in hand only while it writes it.
Handed ==
  \A u \in Subscriber :
    IF handler[u].phase = "sending" THEN Len(handler[u].hand) = 1 ELSE handler[u].hand = << >>

WayTypeOK == wire \in [Subscriber -> Seq(Nat)] /\ IsFiniteSet(tasks)

\* Of n entries, those from the subscriber's first on are on their way, once.
Owed(u, n) ==
  \A i \in Nat : OnTheWay(u, i) = IF handler[u].next <= i /\ i < n THEN 1 ELSE 0

DeliveryInv ==
  /\ WayTypeOK /\ OneEach /\ Handed
  /\ \A u \in Subscriber : Fresh(u) => handler[u].next = 0 /\ Owed(u, 0)
  /\ \A id \in SessionId : \A u \in SubscribersOf(id) :
       handler[u].phase \in Live =>
         handler[u].next <= FirstUntold(id) /\ Owed(u, FirstUntold(id))

LEMMA OnTheWaySum ==
  ASSUME NEW u \in Subscriber, NEW i
  PROVE  /\ OnTheWay(u, i) = Times(chan[u], Entry(i)) + Times(handler[u].hand, Entry(i))
                             + Cardinality(Sends(u, i)) + Times(wire[u], i)
         /\ OnTheWay(u, i)' = Times(chan'[u], Entry(i)) + Times(handler'[u].hand, Entry(i))
                              + Cardinality(Sends(u, i)') + Times(wire'[u], i)
BY DEF OnTheWay, Times, Sends, Entry

LEMMA WayTyped ==
  ASSUME SessionInv, WayTypeOK, NEW u \in Subscriber, NEW i
  PROVE  /\ Times(chan[u], Entry(i)) \in Nat /\ Times(handler[u].hand, Entry(i)) \in Nat
         /\ IsFiniteSet(Sends(u, i)) /\ Cardinality(Sends(u, i)) \in Nat
         /\ Times(wire[u], i) \in Nat
<1>1. chan[u] \in Seq(Frame) /\ handler[u].hand \in Seq(Frame) /\ wire[u] \in Seq(Nat)
  BY DEF SessionInv, SessionTypeOK, WayTypeOK
<1>2. IsFiniteSet(Sends(u, i)) /\ Cardinality(Sends(u, i)) \in Nat
  <2>1. Sends(u, i) \subseteq tasks /\ IsFiniteSet(tasks)
    BY DEF Sends, WayTypeOK
  <2> QED  BY <2>1, FS_Subset, FS_CardinalityType
<1> QED  BY <1>1, <1>2, PlacesFinite

LEMMA SameWay ==
  ASSUME NEW u \in Subscriber, NEW i, chan'[u] = chan[u], handler'[u].hand = handler[u].hand,
         wire'[u] = wire[u], Sends(u, i)' = Sends(u, i)
  PROVE  OnTheWay(u, i)' = OnTheWay(u, i)
BY OnTheWaySum

LEMMA SameSends ==
  ASSUME UNCHANGED tasks, NEW u, NEW i
  PROVE  Sends(u, i)' = Sends(u, i)
BY DEF Sends, Entry

\* A step outside of the loop after which nobody who is still served has more
\* or less on the way than before.
LEMMA OutsideDelivery ==
  ASSUME DeliveryInv, UNCHANGED kernelVars, WayTypeOK', OneEach', Handed',
         \A v \in Subscriber :
           /\ Fresh(v)' => Fresh(v)
           /\ handler'[v].phase \in Live => handler[v].phase \in Live
           /\ handler'[v].next = handler[v].next,
         \A v \in Subscriber : Fresh(v)' \/ handler'[v].phase \in Live =>
           \A i \in Nat : OnTheWay(v, i) \in {0, 1} => OnTheWay(v, i)' = OnTheWay(v, i),
         \A x \in SessionId : SubscribersOf(x) \subseteq Subscriber
  PROVE  DeliveryInv'
<1>1. \A x \in SessionId : SubscribersOf(x)' = SubscribersOf(x) /\ FirstUntold(x)' = FirstUntold(x)
  BY DEF SubscribersOf, FirstUntold, kernelVars, state
<1>2. ASSUME NEW v \in Subscriber, NEW n, Owed(v, n), Fresh(v)' \/ handler'[v].phase \in Live
      PROVE  \A i \in Nat :
               OnTheWay(v, i)' = IF handler'[v].next <= i /\ i < n THEN 1 ELSE 0
  <2> TAKE i \in Nat
  <2>1. OnTheWay(v, i) = IF handler[v].next <= i /\ i < n THEN 1 ELSE 0
    BY <1>2 DEF Owed
  <2>2. OnTheWay(v, i) \in {0, 1}
    BY <2>1
  <2> QED  BY <1>2, <2>1, <2>2
<1>3. ASSUME NEW v \in Subscriber, Fresh(v)'
      PROVE  (handler[v].next = 0 /\ Owed(v, 0))'
  BY <1>2, <1>3 DEF DeliveryInv, Owed
<1>4. ASSUME NEW x \in SessionId, NEW v \in SubscribersOf(x)', handler'[v].phase \in Live
      PROVE  (handler[v].next <= FirstUntold(x) /\ Owed(v, FirstUntold(x)))'
  <2>1. /\ v \in SubscribersOf(x) /\ v \in Subscriber /\ FirstUntold(x)' = FirstUntold(x)
        /\ handler[v].phase \in Live /\ handler'[v].next = handler[v].next
    BY <1>1, <1>4
  <2>2. handler[v].next <= FirstUntold(x) /\ Owed(v, FirstUntold(x))
    BY <2>1 DEF DeliveryInv
  <2> QED  BY <1>2, <1>4, <2>1, <2>2 DEF Owed
<1> QED  BY <1>3, <1>4 DEF DeliveryInv, Live

\* A step that leaves channel, hand, wire and tasks alone.
LEMMA StillDelivery ==
  ASSUME SessionInv, DeliveryInv, UNCHANGED <<kernelVars, tasks, chan, wire>>,
         \A v \in Subscriber :
           \/ handler'[v] = handler[v]
           \/ /\ handler'[v].hand = handler[v].hand /\ handler'[v].next = handler[v].next
              /\ handler[v].phase # "sending" /\ handler'[v].phase # "sending"
              /\ Fresh(v)' => Fresh(v)
              /\ handler'[v].phase \in Live => handler[v].phase \in Live
  PROVE  DeliveryInv'
<1>1. WayTypeOK' /\ OneEach' /\ Handed'
  BY DEF DeliveryInv, WayTypeOK, OneEach, Handed
<1>2. ASSUME NEW v \in Subscriber, NEW i  PROVE OnTheWay(v, i)' = OnTheWay(v, i)
  BY SameWay, SameSends
<1>3. \A v \in Subscriber :
        /\ Fresh(v)' => Fresh(v)
        /\ handler'[v].phase \in Live => handler[v].phase \in Live
        /\ handler'[v].next = handler[v].next
  BY DEF Fresh
<1>4. \A x \in SessionId : SubscribersOf(x) \subseteq Subscriber
  BY SubscribersTyped DEF SessionInv
<1>5. UNCHANGED kernelVars
  OBVIOUS
<1> QED  BY <1>1, <1>2, <1>3, <1>4, <1>5, OutsideDelivery

\* A handler goes from one state to another in which nothing is in its hand.
LEMMA PhaseDelivery ==
  ASSUME SessionInv, DeliveryInv, UNCHANGED <<kernelVars, tasks, chan, wire>>,
         NEW u \in Subscriber, handler[u].phase \in Live \ {"sending"},
         NEW phase \in {"loop", "leaving"}, To(u, phase)
  PROVE  DeliveryInv'
<1>1. /\ handler'[u].phase = phase /\ handler'[u].next = handler[u].next
      /\ handler'[u].hand = handler[u].hand
      /\ \A v \in Subscriber \ {u} : handler'[v] = handler[v]
  BY DEF To, SessionInv, SessionTypeOK
<1> QED  BY <1>1, StillDelivery DEF Fresh

\* Nothing is owed to a handler that is over.
LEMMA ReturnDelivery ==
  ASSUME SessionInv, DeliveryInv, UNCHANGED <<kernelVars, tasks, wire>>,
         NEW u \in Subscriber, Return(u)
  PROVE  DeliveryInv'
<1>1. /\ handler'[u].phase = "gone" /\ handler'[u].hand = << >>
      /\ handler'[u].next = handler[u].next
      /\ \A v \in Subscriber \ {u} : handler'[v] = handler[v] /\ chan'[v] = chan[v]
  BY DEF Return, SessionInv, SessionTypeOK
<1>2. WayTypeOK' /\ OneEach'
  BY DEF DeliveryInv, WayTypeOK, OneEach
<1>3. Handed'
  BY <1>1 DEF DeliveryInv, Handed
<1>4. ~Fresh(u)' /\ handler'[u].phase \notin Live
  BY <1>1 DEF Fresh, Live
<1>5. ASSUME NEW v \in Subscriber, v # u, NEW i  PROVE OnTheWay(v, i)' = OnTheWay(v, i)
  BY <1>1, <1>5, SameWay, SameSends
<1>6. \A v \in Subscriber :
        /\ Fresh(v)' => Fresh(v)
        /\ handler'[v].phase \in Live => handler[v].phase \in Live
        /\ handler'[v].next = handler[v].next
  BY <1>1, <1>4 DEF Fresh
<1>7. \A x \in SessionId : SubscribersOf(x) \subseteq Subscriber
  BY SubscribersTyped DEF SessionInv
<1> QED  BY <1>2, <1>3, <1>4, <1>5, <1>6, <1>7, OutsideDelivery

\* One handler and its channel: what leaves the channel is in its hand, and
\* what leaves its hand on the wire, if the client is still served.
LEMMA LocalDelivery ==
  ASSUME SessionInv, SessionInv', DeliveryInv, UNCHANGED <<kernelVars, tasks>>, WayTypeOK',
         NEW u \in Subscriber, Handed',
         ~Fresh(u)', handler'[u].phase \in Live => handler[u].phase \in Live,
         handler'[u].next = handler[u].next,
         \A v \in Subscriber \ {u} :
           handler'[v] = handler[v] /\ chan'[v] = chan[v] /\ wire'[v] = wire[v],
         handler'[u].phase \in Live => \A i \in Nat :
           Times(chan'[u], Entry(i)) + Times(handler'[u].hand, Entry(i)) + Times(wire'[u], i)
             = Times(chan[u], Entry(i)) + Times(handler[u].hand, Entry(i)) + Times(wire[u], i)
  PROVE  DeliveryInv'
<1>1. OneEach'
  BY DEF DeliveryInv, OneEach
<1>2. ASSUME NEW v \in Subscriber, v # u, NEW i  PROVE OnTheWay(v, i)' = OnTheWay(v, i)
  BY <1>2, SameWay, SameSends
<1>3. ASSUME handler'[u].phase \in Live, NEW i \in Nat
      PROVE  OnTheWay(u, i)' = OnTheWay(u, i)
  <2>1. Sends(u, i)' = Sends(u, i)
    BY SameSends
  <2>2. /\ Times(chan[u], Entry(i)) \in Nat /\ Times(handler[u].hand, Entry(i)) \in Nat
        /\ Cardinality(Sends(u, i)) \in Nat /\ Times(wire[u], i) \in Nat
    BY WayTyped DEF DeliveryInv
  <2>3. Times(chan'[u], Entry(i)) \in Nat /\ Times(handler'[u].hand, Entry(i)) \in Nat
        /\ Times(wire'[u], i) \in Nat
    <3>1. chan'[u] \in Seq(Frame) /\ handler'[u].hand \in Seq(Frame) /\ wire'[u] \in Seq(Nat)
      BY DEF SessionInv, SessionTypeOK, WayTypeOK
    <3> QED  BY <3>1, PlacesFinite
  <2>4. Times(chan'[u], Entry(i)) + Times(handler'[u].hand, Entry(i)) + Times(wire'[u], i)
          = Times(chan[u], Entry(i)) + Times(handler[u].hand, Entry(i)) + Times(wire[u], i)
    BY <1>3
  <2>5. OnTheWay(u, i) = Times(chan[u], Entry(i)) + Times(handler[u].hand, Entry(i))
                         + Cardinality(Sends(u, i)) + Times(wire[u], i)
    BY OnTheWaySum
  <2>6. OnTheWay(u, i)' = Times(chan'[u], Entry(i)) + Times(handler'[u].hand, Entry(i))
                          + Cardinality(Sends(u, i)) + Times(wire'[u], i)
    BY <2>1, OnTheWaySum
  <2> QED  BY <2>2, <2>3, <2>4, <2>5, <2>6
<1>4. \A v \in Subscriber :
        /\ Fresh(v)' => Fresh(v)
        /\ handler'[v].phase \in Live => handler[v].phase \in Live
        /\ handler'[v].next = handler[v].next
  BY DEF Fresh
<1>5. \A x \in SessionId : SubscribersOf(x) \subseteq Subscriber
  BY SubscribersTyped DEF SessionInv
<1> QED  BY <1>1, <1>2, <1>3, <1>4, <1>5, OutsideDelivery

LEMMA EntryKind ==
  /\ \A i, j : Entry(i) = Entry(j) <=> i = j
  /\ \A f \in Frame : f.type = "Entry" => f.index \in Nat /\ f = Entry(f.index)
  /\ \A f \in Frame : f.type # "Entry" => \A i : f # Entry(i)
BY DEF Frame, Entry, Greeting, Removed

LEMMA AwaitCreatedDelivery ==
  ASSUME SessionInv, SessionInv', DeliveryInv, NEW u \in Subscriber, AwaitCreated(u)
  PROVE  DeliveryInv'
<1>1. /\ handler[u].phase = "created" /\ UNCHANGED <<kernelVars, tasks, wire>>
  BY DEF AwaitCreated, Runtime
<1>2. ASSUME chan[u] # << >>, Head(chan[u]).type = "Subscribed",
             handler' = [handler EXCEPT ![u].phase = "greeting",
                                        ![u].session = Head(chan[u]).session],
             chan' = [chan EXCEPT ![u] = Tail(@)]
      PROVE  DeliveryInv'
  <2>1. /\ handler'[u].phase = "greeting" /\ handler'[u].next = handler[u].next
        /\ handler'[u].hand = handler[u].hand /\ chan'[u] = Tail(chan[u])
        /\ \A v \in Subscriber \ {u} : handler'[v] = handler[v] /\ chan'[v] = chan[v]
    BY <1>2 DEF SessionInv, SessionTypeOK
  <2>2. WayTypeOK' /\ Handed'
    BY <1>1, <2>1, SMTT(30) DEF DeliveryInv, WayTypeOK, Handed
  <2>3. chan[u] \in Seq(Frame) /\ Head(chan[u]) \in Frame
    BY <1>2 DEF SessionInv, SessionTypeOK
  <2>4. ASSUME NEW i \in Nat
        PROVE  Times(chan'[u], Entry(i)) = Times(chan[u], Entry(i))
    <3>1. Head(chan[u]) # Entry(i)
      BY <1>2, <2>3, EntryKind
    <3> QED  BY <1>2, <2>1, <2>3, <3>1, TimesTail
  <2>5. ~Fresh(u)' /\ handler[u].phase \in Live
    BY <1>1, <2>1 DEF Fresh, Live
  <2>6. \A i \in Nat :
          Times(chan'[u], Entry(i)) + Times(handler'[u].hand, Entry(i)) + Times(wire'[u], i)
            = Times(chan[u], Entry(i)) + Times(handler[u].hand, Entry(i)) + Times(wire[u], i)
    BY <1>1, <2>1, <2>4
  <2> QED  BY <1>1, <2>1, <2>2, <2>5, <2>6, LocalDelivery
<1> QED  BY <1>1, <1>2, ReturnDelivery DEF AwaitCreated

LEMMA GreetDelivery ==
  ASSUME SessionInv, DeliveryInv, NEW u \in Subscriber, Greet(u)
  PROVE  DeliveryInv'
<1>1. handler[u].phase = "greeting" /\ UNCHANGED <<kernelVars, tasks, wire>>
  BY DEF Greet, Runtime
<1>2. CASE To(u, "loop") /\ UNCHANGED chan
  BY <1>1, <1>2, PhaseDelivery DEF Live
<1>3. CASE Return(u)
  BY <1>1, <1>3, ReturnDelivery
<1> QED  BY <1>2, <1>3 DEF Greet

LEMMA TakeDelivery ==
  ASSUME SessionInv, SessionInv', DeliveryInv, NEW u \in Subscriber, Take(u)
  PROVE  DeliveryInv'
<1>1. handler[u].phase = "loop" /\ UNCHANGED <<kernelVars, tasks, wire>>
  BY DEF Take, Runtime
<1>2. ASSUME chan[u] # << >>,
             handler' = [handler EXCEPT ![u].phase = "sending", ![u].hand = <<Head(chan[u])>>],
             chan' = [chan EXCEPT ![u] = Tail(@)]
      PROVE  DeliveryInv'
  <2>1. /\ handler'[u].phase = "sending" /\ handler'[u].next = handler[u].next
        /\ handler'[u].hand = <<Head(chan[u])>> /\ chan'[u] = Tail(chan[u])
        /\ \A v \in Subscriber \ {u} : handler'[v] = handler[v] /\ chan'[v] = chan[v]
    BY <1>2 DEF SessionInv, SessionTypeOK
  <2>2. WayTypeOK' /\ Handed'
    <3>1. WayTypeOK'
      BY <1>1 DEF DeliveryInv, WayTypeOK
    <3>2. Len(handler'[u].hand) = 1
      BY <2>1
    <3> QED  BY <2>1, <3>1, <3>2 DEF DeliveryInv, Handed
  <2>3. chan[u] \in Seq(Frame) /\ wire[u] \in Seq(Nat)
    BY DEF SessionInv, SessionTypeOK, DeliveryInv, WayTypeOK
  <2>4. handler[u].hand = << >>
    BY <1>1 DEF DeliveryInv, Handed
  <2>5. ~Fresh(u)' /\ handler[u].phase \in Live
    BY <1>1, <2>1 DEF Fresh, Live
  <2>6. ASSUME NEW i \in Nat
        PROVE  Times(chan'[u], Entry(i)) + Times(handler'[u].hand, Entry(i)) + Times(wire'[u], i)
                 = Times(chan[u], Entry(i)) + Times(handler[u].hand, Entry(i)) + Times(wire[u], i)
    <3> DEFINE one == IF Head(chan[u]) = Entry(i) THEN 1 ELSE 0
    <3>1. /\ Times(chan'[u], Entry(i)) \in Nat
          /\ Times(chan[u], Entry(i)) = Times(chan'[u], Entry(i)) + one
      BY <1>2, <2>1, <2>3, TimesTail
    <3>2. Times(handler'[u].hand, Entry(i)) = one /\ Times(handler[u].hand, Entry(i)) = 0
      BY <2>1, <2>4, TimesShort
    <3>3. Times(wire'[u], i) = Times(wire[u], i) /\ Times(wire[u], i) \in Nat
      BY <1>1, <2>3, PlacesFinite
    <3>4. one \in Nat
      OBVIOUS
    <3> HIDE DEF one
    <3> QED  BY <3>1, <3>2, <3>3, <3>4
  <2> QED  BY <1>1, <2>1, <2>2, <2>5, <2>6, LocalDelivery
<1>3. CASE To(u, "leaving") /\ UNCHANGED chan
  <2>1. /\ handler'[u].phase = "leaving" /\ handler'[u].next = handler[u].next
        /\ handler'[u].hand = handler[u].hand
        /\ \A v \in Subscriber \ {u} : handler'[v] = handler[v]
    BY <1>3 DEF To, SessionInv, SessionTypeOK
  <2> QED  BY <1>1, <1>3, <2>1, StillDelivery DEF Fresh, Live
<1> QED  BY <1>2, <1>3 DEF Take

\* What is written, or lost with the client.
LEMMA WriteDelivery ==
  ASSUME SessionInv, SessionInv', DeliveryInv, NEW u \in Subscriber, Write(u)
  PROVE  DeliveryInv'
<1> DEFINE frame == handler[u].hand[1]
<1>1. handler[u].phase = "sending" /\ UNCHANGED <<kernelVars, tasks, chan>>
  BY DEF Write, Runtime
<1>2. handler[u].hand \in Seq(Frame) /\ Len(handler[u].hand) = 1
  BY <1>1 DEF SessionInv, SessionTypeOK, DeliveryInv, Handed
<1>3. frame \in Frame /\ handler[u].hand = <<frame>>
  BY <1>2
<1>4. handler[u].phase \in Live
  BY <1>1 DEF Live
<1>5. wire \in [Subscriber -> Seq(Nat)] /\ wire[u] \in Seq(Nat)
  BY DEF DeliveryInv, WayTypeOK
<1> HIDE DEF frame
<1>6. ASSUME NEW phase \in {"loop", "leaving"},
             handler' = [handler EXCEPT ![u].phase = phase, ![u].hand = << >>]
      PROVE  /\ handler'[u].phase = phase /\ handler'[u].next = handler[u].next
             /\ handler'[u].hand = << >>
             /\ \A v \in Subscriber \ {u} : handler'[v] = handler[v]
             /\ Handed' /\ ~Fresh(u)'
  <2>1. /\ handler'[u].phase = phase /\ handler'[u].next = handler[u].next
        /\ handler'[u].hand = << >>
        /\ \A v \in Subscriber \ {u} : handler'[v] = handler[v]
    BY <1>6 DEF SessionInv, SessionTypeOK
  <2> QED  BY <2>1 DEF DeliveryInv, Handed, Fresh
<1>7. ASSUME handler' = [handler EXCEPT ![u].phase = IF frame = Removed THEN "leaving" ELSE "loop",
                                        ![u].hand = << >>],
             wire' = IF frame.type = "Entry" THEN [wire EXCEPT ![u] = Append(@, frame.index)]
                                             ELSE wire
      PROVE  DeliveryInv'
  <2>1. /\ handler'[u].next = handler[u].next /\ handler'[u].hand = << >>
        /\ \A v \in Subscriber \ {u} : handler'[v] = handler[v]
        /\ Handed' /\ ~Fresh(u)'
    BY <1>6, <1>7
  <2>2. CASE frame.type = "Entry"
    <3>1. PICK j \in Nat : j = frame.index /\ frame = Entry(j)
      BY <1>3, <2>2, EntryKind
    <3>2. Append(wire[u], j) \in Seq(Nat)
      BY <1>5
    <3>3. /\ wire' \in [Subscriber -> Seq(Nat)] /\ wire'[u] = Append(wire[u], j)
          /\ \A v \in Subscriber \ {u} : wire'[v] = wire[v]
      BY <1>5, <1>7, <2>2, <3>1, <3>2
    <3>4. WayTypeOK'
      BY <1>1, <3>3 DEF DeliveryInv, WayTypeOK
    <3>5. ASSUME NEW i \in Nat
          PROVE  Times(chan'[u], Entry(i)) + Times(handler'[u].hand, Entry(i)) + Times(wire'[u], i)
                   = Times(chan[u], Entry(i)) + Times(handler[u].hand, Entry(i)) + Times(wire[u], i)
      <4>1. Times(wire'[u], i) = Times(wire[u], i) + (IF j = i THEN 1 ELSE 0)
        <5>1. PICK w \in Seq(Nat) : w = wire[u]
          BY <1>5
        <5>2. Times(Append(w, j), i) = Times(w, i) + (IF j = i THEN 1 ELSE 0)
          BY TimesAppend
        <5> QED  BY <3>3, <5>1, <5>2
      <4>2. /\ Times(handler'[u].hand, Entry(i)) = 0
            /\ Times(handler[u].hand, Entry(i)) = IF j = i THEN 1 ELSE 0
        BY <1>3, <2>1, <3>1, TimesShort, EntryKind
      <4>3. Times(wire[u], i) \in Nat /\ Times(chan[u], Entry(i)) \in Nat
        BY WayTyped DEF DeliveryInv
      <4>4. chan'[u] = chan[u]
        BY <1>1
      <4> QED  BY <4>1, <4>2, <4>3, <4>4
    <3> QED  BY <1>1, <1>4, <2>1, <3>3, <3>4, <3>5, LocalDelivery
  <2>3. CASE frame.type # "Entry"
    <3>1. wire' = wire
      BY <1>7, <2>3
    <3>2. WayTypeOK'
      BY <1>1, <3>1 DEF DeliveryInv, WayTypeOK
    <3>3. ASSUME NEW i \in Nat
          PROVE  Times(handler'[u].hand, Entry(i)) = 0 /\ Times(handler[u].hand, Entry(i)) = 0
      BY <1>3, <2>1, <2>3, TimesShort, EntryKind
    <3> QED  BY <1>1, <1>4, <2>1, <3>1, <3>2, <3>3, LocalDelivery
  <2> QED  BY <2>2, <2>3
<1>8. ASSUME handler' = [handler EXCEPT ![u].phase = "leaving", ![u].hand = << >>],
             wire' = wire
      PROVE  DeliveryInv'
  <2>1. /\ handler'[u].phase = "leaving" /\ handler'[u].next = handler[u].next
        /\ \A v \in Subscriber \ {u} : handler'[v] = handler[v]
        /\ Handed' /\ ~Fresh(u)'
    BY <1>6, <1>8
  <2>2. WayTypeOK'
    BY <1>1, <1>8 DEF DeliveryInv, WayTypeOK
  <2>3. handler'[u].phase \notin Live
    BY <2>1 DEF Live
  <2> QED  BY <1>1, <1>8, <2>1, <2>2, <2>3, LocalDelivery
<1> QED  BY <1>7, <1>8 DEF Write, frame

LEMMA TaskFacts ==
  ASSUME NEW t \in Seq(SendSet), t # << >>,
         \A j, k \in DOMAIN t : t[j].to = t[k].to => j = k
  PROVE  /\ 1 \in DOMAIN t /\ t[1] = Head(t) /\ Head(t) \in SendSet
         /\ \A k \in DOMAIN t : k = 1 \/ \E j \in DOMAIN Tail(t) : Tail(t)[j] = t[k]
         /\ \A j \in DOMAIN Tail(t) : \E k \in DOMAIN t : k = j + 1 /\ k # 1 /\ Tail(t)[j] = t[k]
         /\ \A j \in DOMAIN Tail(t) : Tail(t)[j].to # Head(t).to
         /\ \A j, k \in DOMAIN Tail(t) : Tail(t)[j].to = Tail(t)[k].to => j = k
         /\ Len(t) = 1 => DOMAIN t = {1}
<1>1. /\ Len(t) \in Nat /\ Len(t) > 0 /\ DOMAIN t = 1 .. Len(t) /\ t[1] = Head(t)
      /\ Head(t) \in SendSet /\ DOMAIN Tail(t) = 1 .. Len(t) - 1
      /\ \A j \in 1 .. Len(t) - 1 : Tail(t)[j] = t[j + 1]
  OBVIOUS
<1>2. ASSUME NEW k \in DOMAIN t, k # 1
      PROVE  \E j \in DOMAIN Tail(t) : Tail(t)[j] = t[k]
  <2>1. k - 1 \in 1 .. Len(t) - 1 /\ (k - 1) + 1 = k
    BY <1>1, <1>2
  <2> QED  BY <1>1, <2>1
<1>3. \A j \in DOMAIN Tail(t) : j + 1 \in DOMAIN t /\ j + 1 # 1 /\ Tail(t)[j] = t[j + 1]
  BY <1>1
<1>4. \A j \in DOMAIN Tail(t) : Tail(t)[j].to # Head(t).to
  BY <1>1, <1>3
<1>5. ASSUME NEW j \in DOMAIN Tail(t), NEW k \in DOMAIN Tail(t), Tail(t)[j].to = Tail(t)[k].to
      PROVE  j = k
  <2>1. j + 1 = k + 1 /\ j \in Nat /\ k \in Nat
    BY <1>1, <1>3, <1>5
  <2> QED  BY <2>1
<1>6. Len(t) = 1 => DOMAIN t = {1}
  BY <1>1
<1> QED  BY <1>1, <1>2, <1>3, <1>4, <1>5, <1>6

\* A send moves an entry from its task to the channel, and the entries that the
\* task has for others stay with what is left of it.
LEMMA ExecuteSendDelivery ==
  ASSUME SessionInv, SessionInv', DeliveryInv, NEW t \in tasks, ExecuteSend(t)
  PROVE  DeliveryInv'
<1> DEFINE u == Head(t).to
           f == Head(t).frame
<1>1. /\ UNCHANGED <<kernelVars, handler, wire>> /\ tasks' = Executed(t)
      /\ \/ Receiving(u) /\ chan' = [chan EXCEPT ![u] = Append(@, f)]
         \/ ~Receiving(u) /\ UNCHANGED chan
  BY DEF ExecuteSend
<1>2. /\ t \in Seq(SendSet) /\ t # << >> /\ IsFiniteSet(tasks)
      /\ \A j, k \in DOMAIN t : t[j].to = t[k].to => j = k
  BY DEF SessionInv, SessionTypeOK, DeliveryInv, WayTypeOK, OneEach
<1>3. /\ 1 \in DOMAIN t /\ t[1] = Head(t) /\ Head(t) \in SendSet
      /\ \A k \in DOMAIN t : k = 1 \/ \E j \in DOMAIN Tail(t) : Tail(t)[j] = t[k]
      /\ \A j \in DOMAIN Tail(t) : \E k \in DOMAIN t : k = j + 1 /\ k # 1 /\ Tail(t)[j] = t[k]
      /\ \A j \in DOMAIN Tail(t) : Tail(t)[j].to # Head(t).to
      /\ \A j, k \in DOMAIN Tail(t) : Tail(t)[j].to = Tail(t)[k].to => j = k
      /\ Len(t) = 1 => DOMAIN t = {1}
  BY <1>2, TaskFacts
<1>4. u \in Subscriber /\ f \in Frame /\ Head(t) = [to |-> u, frame |-> f]
  BY <1>3 DEF SendSet
<1>5. WayTypeOK' /\ OneEach' /\ Handed'
  <2>1. IsFiniteSet(tasks \ {t}) /\ IsFiniteSet((tasks \ {t}) \union {Tail(t)})
    BY <1>2, FS_Subset, FS_AddElement
  <2>2. IsFiniteSet(tasks')
    BY <1>1, <2>1 DEF Executed
  <2>3. OneEach'
    BY <1>1, <1>3 DEF Executed, DeliveryInv, OneEach
  <2> QED  BY <1>1, <2>2, <2>3 DEF DeliveryInv, WayTypeOK, Handed
<1>6. chan \in [Subscriber -> Seq(Frame)] /\ chan[u] \in Seq(Frame)
  BY <1>4 DEF SessionInv, SessionTypeOK
<1> HIDE DEF u, f
<1> DEFINE Has(s, v, i) == \E k \in DOMAIN s : s[k] = [to |-> v, frame |-> Entry(i)]
<1>7. ASSUME NEW v \in Subscriber, NEW i \in Nat, [to |-> v, frame |-> Entry(i)] # Head(t),
             Cardinality(Sends(v, i)) \in {0, 1}
      PROVE  Cardinality(Sends(v, i)') = Cardinality(Sends(v, i))
  <2>0. /\ \A s : s \in Sends(v, i) <=> s \in tasks /\ Has(s, v, i)
        /\ \A s : s \in Sends(v, i)' <=> s \in tasks' /\ Has(s, v, i)
    BY DEF Sends, Entry
  <2>1. Len(t) = 1 => ~Has(t, v, i)
    BY <1>3, <1>7
  <2>2. Has(t, v, i) <=> Has(Tail(t), v, i)
    BY <1>3, <1>7
  <2>3. IsFiniteSet(Sends(v, i))
    BY WayTyped DEF DeliveryInv
  <2> HIDE DEF Has
  <2>4. CASE ~Has(t, v, i)
    <3>1. Sends(v, i)' = Sends(v, i)
      BY <1>1, <2>0, <2>2, <2>4 DEF Executed
    <3> QED  BY <3>1
  <2>5. CASE Has(t, v, i)
    <3>1. t \in Sends(v, i)
      BY <2>0, <2>5
    <3>2. Cardinality(Sends(v, i)) = 1
      BY <1>7, <2>3, <3>1, FS_EmptySet
    <3>3. Sends(v, i) = {t}
      BY <2>3, <3>1, <3>2, FS_Singleton
    <3>4. Sends(v, i)' = {Tail(t)}
      BY <1>1, <2>0, <2>1, <2>2, <2>5, <3>3 DEF Executed
    <3> QED  BY <3>2, <3>4, FS_Singleton
  <2> QED  BY <2>4, <2>5
<1>8. ASSUME NEW i \in Nat, f = Entry(i)
      PROVE  Cardinality(Sends(u, i)') = Cardinality(Sends(u, i)) - 1
  <2>0. /\ \A s : s \in Sends(u, i) <=> s \in tasks /\ Has(s, u, i)
        /\ \A s : s \in Sends(u, i)' <=> s \in tasks' /\ Has(s, u, i)
    BY DEF Sends, Entry
  <2>1. Has(t, u, i)
    BY <1>3, <1>4, <1>8
  <2>2. ~Has(Tail(t), u, i)
    BY <1>3, <1>4
  <2>3. IsFiniteSet(Sends(u, i))
    BY <1>4, WayTyped DEF DeliveryInv
  <2> HIDE DEF Has
  <2>4. Sends(u, i)' = Sends(u, i) \ {t} /\ t \in Sends(u, i)
    BY <1>1, <2>0, <2>1, <2>2 DEF Executed
  <2> QED  BY <2>3, <2>4, FS_RemoveElement
<1>9. ASSUME NEW v \in Subscriber, Fresh(v)' \/ handler'[v].phase \in Live,
             NEW i \in Nat, OnTheWay(v, i) \in {0, 1}
      PROVE  OnTheWay(v, i)' = OnTheWay(v, i)
  <2>1. /\ Times(chan[v], Entry(i)) \in Nat /\ Times(handler[v].hand, Entry(i)) \in Nat
        /\ Cardinality(Sends(v, i)) \in Nat /\ Times(wire[v], i) \in Nat
    BY WayTyped DEF DeliveryInv
  <2>2. OnTheWay(v, i) = Times(chan[v], Entry(i)) + Times(handler[v].hand, Entry(i))
                         + Cardinality(Sends(v, i)) + Times(wire[v], i)
    BY OnTheWaySum
  <2>3. OnTheWay(v, i)' = Times(chan'[v], Entry(i)) + Times(handler[v].hand, Entry(i))
                          + Cardinality(Sends(v, i)') + Times(wire[v], i)
    BY <1>1, OnTheWaySum
  <2>4. Cardinality(Sends(v, i)) \in {0, 1}
    BY <1>9, <2>1, <2>2
  <2>5. Receiving(v)
    BY <1>1, <1>9 DEF Receiving, Fresh, Live
  <2>6. CASE v = u /\ f = Entry(i)
    <3>1. chan'[u] = Append(chan[u], f)
      BY <1>1, <1>4, <1>6, <2>5, <2>6
    <3>2. Times(chan'[u], Entry(i)) = Times(chan[u], Entry(i)) + 1
      BY <1>4, <1>6, <2>6, <3>1, TimesAppend
    <3>3. Cardinality(Sends(u, i)') = Cardinality(Sends(u, i)) - 1
      BY <1>8, <2>6
    <3> QED  BY <2>1, <2>2, <2>3, <2>6, <3>2, <3>3
  <2>7. CASE ~(v = u /\ f = Entry(i))
    <3>1. [to |-> v, frame |-> Entry(i)] # Head(t)
      BY <1>4, <2>7
    <3>2. Cardinality(Sends(v, i)') = Cardinality(Sends(v, i))
      BY <1>7, <2>4, <3>1
    <3>3. Times(chan'[v], Entry(i)) = Times(chan[v], Entry(i))
      <4>1. CASE chan'[v] = chan[v]
        BY <4>1
      <4>2. CASE chan'[v] # chan[v]
        <5>1. v = u /\ chan'[u] = Append(chan[u], f)
          BY <1>1, <1>4, <1>6, <4>2
        <5>2. Times(chan'[u], Entry(i)) = Times(chan[u], Entry(i)) + 0
          BY <1>4, <1>6, <2>7, <5>1, TimesAppend
        <5> QED  BY <2>1, <5>1, <5>2
      <4> QED  BY <4>1, <4>2
    <3> QED  BY <2>2, <2>3, <3>2, <3>3
  <2> QED  BY <2>6, <2>7
<1>10. \A v \in Subscriber :
         /\ Fresh(v)' => Fresh(v)
         /\ handler'[v].phase \in Live => handler[v].phase \in Live
         /\ handler'[v].next = handler[v].next
  BY <1>1 DEF Fresh
<1>11. \A x \in SessionId : SubscribersOf(x) \subseteq Subscriber
  BY SubscribersTyped DEF SessionInv
<1> QED  BY <1>1, <1>5, <1>9, <1>10, <1>11, OutsideDelivery

\* t resolves effect e: it has one send for each subscriber that e names and
\* that has a handle.
NewTask(t, e, handles) ==
  /\ tasks' = tasks \union {t}
  /\ \A v : v \in Of(e) \intersect handles <=> \E k \in DOMAIN t : t[k].to = v
  /\ \A k \in DOMAIN t : t[k] = [to |-> t[k].to, frame |-> FrameOf(e)]
  /\ \A j, k \in DOMAIN t : t[j].to = t[k].to => j = k

LEMMA ResolvedExactly ==
  ASSUME NEW handles, handles \subseteq Subscriber, IsFiniteSet(handles),
         ResolveEffects(handles)
  PROVE  \/ tasks' = tasks /\ \A i \in DOMAIN effects' : Of(effects'[i]) \intersect handles = {}
         \/ \E i \in DOMAIN effects' : \E t : NewTask(t, effects'[i], handles)
<1> DEFINE heard(i) == Of(effects'[i]) \intersect handles
           named == {i \in DOMAIN effects' : heard(i) # {}}
           send(i, order) == [k \in DOMAIN order |-> [to |-> order[k], frame |-> FrameOf(effects'[i])]]
<1>1. CASE named = {}
  BY <1>1 DEF ResolveEffects
<1>2. CASE named # {}
  <2>0. PICK i \in named : \E order \in SetToSeqs(heard(i)) : tasks' = tasks \union {send(i, order)}
    BY <1>2 DEF ResolveEffects
  <2>1. PICK order \in SetToSeqs(heard(i)) : tasks' = tasks \union {send(i, order)}
    BY <2>0
  <2> DEFINE n == Cardinality(heard(i))
  <2>2. IsFiniteSet(heard(i)) /\ n \in Nat
    BY FS_Subset, FS_CardinalityType
  <2>3. order \in [1 .. n -> heard(i)] /\ IsInjective(order)
    <3>1. /\ order \in [1 .. n -> heard(i)]
          /\ \A j, k \in 1 .. n : j # k => order[j] # order[k]
      BY <2>1 DEF SetToSeqs
    <3> QED  BY <3>1 DEF IsInjective
  <2>4. Range(order) = heard(i)
    <3>1. IsFiniteSet(1 .. n) /\ Cardinality(1 .. n) = n
      BY <2>2, FS_Interval
    <3>2. order \in Injection(1 .. n, heard(i))
      BY <2>3 DEF Injection
    <3>3. order \in Surjection(1 .. n, heard(i))
      BY <2>2, <3>1, <3>2, FS_Injection
    <3> QED  BY <2>3, <3>3 DEF Surjection, Range
  <2>5. /\ DOMAIN send(i, order) = DOMAIN order
        /\ \A k \in DOMAIN order : send(i, order)[k] = [to |-> order[k], frame |-> FrameOf(effects'[i])]
    OBVIOUS
  <2>6. i \in DOMAIN effects'
    BY <2>0
  <2>7. \A v : v \in heard(i) <=> \E k \in DOMAIN order : order[k] = v
    BY <2>3, <2>4 DEF Range
  <2>8. \A j, k \in DOMAIN order : order[j] = order[k] => j = k
    BY <2>3 DEF IsInjective
  <2> DEFINE t == send(i, order)
  <2>9. /\ DOMAIN t = DOMAIN order
        /\ \A k \in DOMAIN order :
             t[k].to = order[k] /\ t[k] = [to |-> t[k].to, frame |-> FrameOf(effects'[i])]
    BY <2>5
  <2>10. tasks' = tasks \union {t}
    BY <2>1
  <2> HIDE DEF t
  <2> QED  BY <2>6, <2>7, <2>8, <2>9, <2>10 DEF NewTask
<1> QED  BY <1>1, <1>2

\* Who is told of an entry, and who of something else.
NoEntry ==
  \A i \in DOMAIN effects' :
    Of(effects'[i]) # {} => \A n \in Nat : FrameOf(effects'[i]) # Entry(n)

LEMMA FrameOfEffect ==
  \A e : e.type # "NotifySubscribers" => \A n : FrameOf(e) # Entry(n)
BY DEF FrameOf, Entry, Greeting, Removed

LEMMA SilentLoop ==
  ASSUME DeliveryInv, NEW handles, handles \subseteq Subscriber, IsFiniteSet(handles),
         ResolveEffects(handles), NoEntry
  PROVE  /\ IsFiniteSet(tasks') /\ OneEach'
         /\ \A v \in Subscriber, i \in Nat : Sends(v, i)' = Sends(v, i)
<1>1. CASE tasks' = tasks
  BY <1>1, SameSends DEF DeliveryInv, WayTypeOK, OneEach
<1>2. ASSUME NEW e \in DOMAIN effects', NEW t, NewTask(t, effects'[e], handles)
      PROVE  /\ IsFiniteSet(tasks') /\ OneEach'
             /\ \A v \in Subscriber, i \in Nat : Sends(v, i)' = Sends(v, i)
  <2>1. IsFiniteSet(tasks') /\ OneEach'
    BY <1>2, FS_AddElement DEF NewTask, DeliveryInv, WayTypeOK, OneEach
  <2>2. ASSUME NEW v \in Subscriber, NEW i \in Nat, NEW k \in DOMAIN t
        PROVE  t[k] # [to |-> v, frame |-> Entry(i)]
    <3>1. Of(effects'[e]) # {}
      BY <1>2 DEF NewTask
    <3>2. FrameOf(effects'[e]) # Entry(i)
      BY <3>1 DEF NoEntry
    <3>3. t[k].frame = FrameOf(effects'[e])
      BY <1>2 DEF NewTask
    <3> QED  BY <3>2, <3>3
  <2>3. ASSUME NEW v \in Subscriber, NEW i \in Nat  PROVE Sends(v, i)' = Sends(v, i)
    BY <1>2, <2>2 DEF NewTask, Sends, Entry
  <2> QED  BY <2>1, <2>3
<1> QED  BY <1>1, <1>2, ResolvedExactly

\* A message of the loop that brings no entry: those who stay are owed what
\* they were, those who join are owed nothing yet.
LEMMA LoopDelivery ==
  ASSUME SessionInv, SessionInv', DeliveryInv, UNCHANGED <<chan, wire>>,
         NEW handles, handles \subseteq Subscriber, IsFiniteSet(handles),
         ResolveEffects(handles), NoEntry,
         \A v \in Subscriber :
           \/ handler'[v] = handler[v]
           \/ /\ Fresh(v) /\ ~Fresh(v)' /\ handler'[v].phase # "sending"
              /\ handler'[v].hand = handler[v].hand,
         \A x \in SessionId : \A v \in SubscribersOf(x)' :
           \/ /\ v \in SubscribersOf(x) /\ handler'[v] = handler[v]
              /\ FirstUntold(x)' = FirstUntold(x)
           \/ Fresh(v) /\ handler'[v].next = FirstUntold(x)'
  PROVE  DeliveryInv'
<1>1. /\ IsFiniteSet(tasks') /\ OneEach'
      /\ \A v \in Subscriber, i \in Nat : Sends(v, i)' = Sends(v, i)
  BY SilentLoop
<1>2. ASSUME NEW v \in Subscriber, NEW i \in Nat
      PROVE  OnTheWay(v, i)' = OnTheWay(v, i)
  BY <1>1, SameWay
<1>3. WayTypeOK' /\ Handed'
  BY <1>1 DEF DeliveryInv, WayTypeOK, Handed, Fresh
<1>4. ASSUME NEW v \in Subscriber, Fresh(v)'
      PROVE  (handler[v].next = 0 /\ Owed(v, 0))'
  <2>1. handler'[v] = handler[v]
    BY <1>4
  <2>2. Fresh(v)
    BY <1>4, <2>1 DEF Fresh
  <2> QED  BY <1>2, <2>1, <2>2 DEF DeliveryInv, Owed
<1>5. ASSUME NEW x \in SessionId, NEW v \in SubscribersOf(x)', handler'[v].phase \in Live
      PROVE  (handler[v].next <= FirstUntold(x) /\ Owed(v, FirstUntold(x)))'
  <2>0. v \in Subscriber
    <3>1. SubscribersOf(x)' \subseteq Subscriber
      BY DEF SessionInv, KernelInv, TypeOK, IsSession, IsMap, SubscribersOf
    <3> QED  BY <3>1
  <2>1. CASE /\ v \in SubscribersOf(x) /\ handler'[v] = handler[v]
             /\ FirstUntold(x)' = FirstUntold(x)
    BY <1>2, <1>5, <2>0, <2>1 DEF DeliveryInv, Owed
  <2>2. CASE Fresh(v) /\ handler'[v].next = FirstUntold(x)'
    <3>1. Owed(v, 0) /\ handler[v].next = 0
      BY <2>0, <2>2 DEF DeliveryInv
    <3>2. handler'[v].next \in Nat
      BY <2>0 DEF SessionInv, SessionTypeOK
    <3>3. \A i \in Nat : OnTheWay(v, i)' = 0
      BY <1>2, <2>0, <3>1 DEF Owed
    <3>4. PICK n \in Nat : n = handler'[v].next /\ n = FirstUntold(x)'
      BY <2>2, <3>2
    <3>5. \A i \in Nat : OnTheWay(v, i)' = IF n <= i /\ i < n THEN 1 ELSE 0
      BY <3>3
    <3> QED  BY <3>4, <3>5 DEF Owed
  <2> QED  BY <1>5, <2>1, <2>2
<1> QED  BY <1>1, <1>3, <1>4, <1>5 DEF DeliveryInv, Live

\* The entries of a session are as many as before wherever somebody is left.
EntriesKept ==
  \A x \in SessionId : SubscribersOf(x)' # {} => FirstUntold(x)' = FirstUntold(x)

LEMMA UnknownKeeps ==
  ASSUME NEW id, NEW U, UnknownSession(id, U)
  PROVE  EntriesKept /\ NoEntry
<1>1. /\ effects' = <<ProtocolViolation, SubscriberRemoved(U)>> /\ sessions' = sessions
  BY DEF UnknownSession, state
<1>2. \A i \in DOMAIN effects' : effects'[i].type # "NotifySubscribers"
  BY <1>1 DEF ProtocolViolation, SubscriberRemoved
<1> QED  BY <1>1, <1>2, FrameOfEffect DEF EntriesKept, NoEntry, FirstUntold

LEMMA StepKeeps ==
  ASSUME KernelInv, NEW id \in SessionId, NEW next, NEW told, SessionStep(id, next, told),
         next.entries = sessions[id].entries,
         told = << >> \/ \E U : told = <<SubscriberRemoved(U)>>
  PROVE  EntriesKept /\ NoEntry
<1>1. sessions = [i \in DOMAIN sessions |-> sessions[i]]
  BY DEF KernelInv, TypeOK
<1>2. /\ effects' = told
      /\ sessions' = [i \in DOMAIN sessions |-> IF i = id THEN next ELSE sessions[i]]
  BY <1>1 DEF SessionStep
<1>3. \A i \in DOMAIN effects' : effects'[i].type # "NotifySubscribers"
  BY <1>2 DEF SubscriberRemoved
<1> QED  BY <1>2, <1>3, FrameOfEffect DEF EntriesKept, NoEntry, FirstUntold

LEMMA TickKeeps ==
  ASSUME KernelInv, Tick
  PROVE  EntriesKept /\ NoEntry
<1> DEFINE now == tick + 1
           ticked == [x \in DOMAIN sessions |-> SessionTicked(sessions[x], now)]
           empty == {x \in DOMAIN sessions : DOMAIN ticked[x].subscribers = {}}
           removed == UNION {ExpiredSubscribers(sessions[x], now) : x \in DOMAIN sessions}
<1>1. sessions' = Without(ticked, empty)
  BY DEF Tick
<1>2. PICK A, logs : effects' = <<SendClientError(A), SendClientDone(A),
                                  SubscriberRemoved(removed), SessionExpired(logs)>>
  BY DEF Tick
<1> HIDE DEF removed
<1>3. \A i \in DOMAIN effects' : effects'[i].type # "NotifySubscribers"
  BY <1>2 DEF SendClientError, SendClientDone, SubscriberRemoved, SessionExpired
<1>4. \A x \in DOMAIN sessions : ticked[x].entries = sessions[x].entries
  BY DEF SessionTicked, WithoutSubscribers, KernelInv, TypeOK, IsSession
<1>5. \A x \in DOMAIN sessions' : x \in DOMAIN sessions /\ sessions'[x].entries = sessions[x].entries
  BY <1>1, <1>4 DEF Without
<1>6. \A x \in SessionId : SubscribersOf(x)' # {} => x \in DOMAIN sessions'
  BY DEF SubscribersOf
<1> QED  BY <1>3, <1>5, <1>6, FrameOfEffect DEF EntriesKept, NoEntry, FirstUntold

LEMMA RecordEntries ==
  ASSUME KernelInv, NEW id \in DOMAIN sessions, NEW u, NEW U
  PROVE  /\ WithSubscriber(sessions[id], u, tick).entries = sessions[id].entries
         /\ WithoutSubscribers(sessions[id], U).entries = sessions[id].entries
<1>1. sessions[id] = [entries |-> sessions[id].entries, subscribers |-> sessions[id].subscribers]
  BY DEF KernelInv, TypeOK, IsSession
<1> QED  BY <1>1 DEF WithSubscriber, WithoutSubscribers

\* The handlers are left alone, and only those who leave are not told why.
LEMMA ForwardDelivery ==
  ASSUME SessionInv, SessionInv', DeliveryInv, Forward, OnlyTakenLeave, EntriesKept, NoEntry
  PROVE  DeliveryInv'
<1>1. UNCHANGED <<chan, handler, wire>> /\ ResolveEffects(registered)
  BY DEF Forward, adapterVars
<1>2. registered \subseteq Subscriber /\ IsFiniteSet(registered)
  BY DEF SessionInv, SessionTypeOK
<1>3. ASSUME NEW x \in SessionId, NEW v \in SubscribersOf(x)'
      PROVE  v \in SubscribersOf(x) /\ FirstUntold(x)' = FirstUntold(x)
  <2>1. SubscribersOf(x)' \subseteq Subscriber
    BY DEF SessionInv, KernelInv, TypeOK, IsSession, IsMap, SubscribersOf
  <2> QED  BY <1>3, <2>1 DEF OnlyTakenLeave, EntriesKept
<1> QED  BY <1>1, <1>2, <1>3, LoopDelivery

LEMMA ProcessCreateDelivery ==
  ASSUME SessionInv, SessionInv', DeliveryInv, ProcessCreate
  PROVE  DeliveryInv'
<1>0. queue # << >> /\ Head(queue).type = "SessionCreate"
  BY DEF ProcessCreate, Receive
<1>u. PICK u \in Subscriber : u = Head(queue).subscriber
  <2>1. Head(queue) \in Message
    BY <1>0 DEF SessionInv, SessionTypeOK
  <2> QED  BY <1>0, <2>1, MessageKinds DEF CreateMsg
<1>1. /\ queue # << >> /\ Head(queue).type = "SessionCreate"
      /\ SessionRequested(u) /\ ResolveEffects(registered \union {u}) /\ UNCHANGED <<chan, wire>>
      /\ handler' = [handler EXCEPT ![u].phase = "created"]
  BY <1>u DEF ProcessCreate, Receive
<1>2. u \in Subscriber
  OBVIOUS
<1>3. handler[u].phase = "asking"
  BY <1>u, <1>1, HeadAsked
<1>4. session_counter < MaxSessions
  <2>1. queue \in Seq(Message) /\ session_counter \in Nat /\ MaxSessions \in Nat
    BY BoundAssumption DEF SessionInv, SessionTypeOK, KernelInv, TypeOK
  <2>2. queue' = Tail(queue)
    BY DEF ProcessCreate, Receive
  <2> QED  BY <1>1, <2>1, <2>2, CreatesFinite, CreatesDequeued DEF SessionInv, Counted
<1>5. PICK id \in SessionId :
        /\ effects' = <<SessionCreated(id, u)>>
        /\ \A v \in Subscriber, x \in SessionId :
             v \in SubscribersOf(x)' <=> v \in SubscribersOf(x) \/ (v = u /\ x = id)
  BY <1>1, <1>2, <1>4, RequestedMoves DEF SessionInv
<1>6. NewSessionId \in SessionId /\ NewSessionId \notin DOMAIN sessions
  BY <1>4, HashAssumption, BoundAssumption
  DEF NewSessionId, SessionInv, KernelInv, TypeOK, IssuedSessionIds
<1>7. /\ sessions' = Put(sessions, NewSessionId, WithSubscriber(EmptySession, u, tick))
      /\ effects' = <<SessionCreated(NewSessionId, u)>>
  BY <1>1 DEF SessionRequested
<1>8. NewSessionId = id
  <2>1. effects'[1].session = NewSessionId /\ effects'[1].session = id
    BY <1>5, <1>7 DEF SessionCreated
  <2> QED  BY <2>1
<1>9. WithSubscriber(EmptySession, u, tick).entries = << >>
  BY DEF WithSubscriber, EmptySession
<1>10. FirstUntold(id)' = 0 /\ \A x \in SessionId \ {id} : FirstUntold(x)' = FirstUntold(x)
  BY <1>7, <1>8, <1>9 DEF FirstUntold, Put
<1>11. NoEntry
  <2>1. \A i \in DOMAIN effects' : effects'[i].type # "NotifySubscribers"
    BY <1>5 DEF SessionCreated
  <2> QED  BY <2>1, FrameOfEffect DEF NoEntry
<1>12. /\ handler'[u].phase = "created" /\ handler'[u].hand = handler[u].hand
       /\ handler'[u].next = handler[u].next
       /\ \A v \in Subscriber \ {u} : handler'[v] = handler[v]
  BY <1>1, <1>2 DEF SessionInv, SessionTypeOK
<1>13. Fresh(u) /\ ~Fresh(u)' /\ handler[u].next = 0
  BY <1>2, <1>3, <1>12 DEF Fresh, DeliveryInv
<1>14. registered \union {u} \subseteq Subscriber /\ IsFiniteSet(registered \union {u})
  BY <1>2, FS_AddElement DEF SessionInv, SessionTypeOK
<1>15. ASSUME NEW x \in SessionId, NEW v \in SubscribersOf(x)'
       PROVE  \/ /\ v \in SubscribersOf(x) /\ handler'[v] = handler[v]
                 /\ FirstUntold(x)' = FirstUntold(x)
              \/ Fresh(v) /\ handler'[v].next = FirstUntold(x)'
  <2>1. v \in Subscriber
    <3>1. SubscribersOf(x)' \subseteq Subscriber
      BY DEF SessionInv, KernelInv, TypeOK, IsSession, IsMap, SubscribersOf
    <3> QED  BY <1>15, <3>1
  <2>2. CASE v = u
    <3>1. x = id
      <4>1. u \notin SubscribersOf(x)
        BY <1>2, <1>13 DEF SessionInv, FreshInv
      <4> QED  BY <1>5, <1>15, <2>1, <2>2, <4>1
    <3> QED  BY <1>10, <1>12, <1>13, <2>2, <3>1
  <2>3. CASE v # u
    <3>1. v \in SubscribersOf(x) /\ handler'[v] = handler[v]
      BY <1>5, <1>12, <1>15, <2>1, <2>3
    <3>2. x # id
      BY <1>6, <1>8, <3>1 DEF SubscribersOf
    <3> QED  BY <1>10, <3>1, <3>2
  <2> QED  BY <2>2, <2>3
<1>16. \A v \in Subscriber :
         \/ handler'[v] = handler[v]
         \/ /\ Fresh(v) /\ ~Fresh(v)' /\ handler'[v].phase # "sending"
            /\ handler'[v].hand = handler[v].hand
  BY <1>12, <1>13
<1> QED  BY <1>1, <1>11, <1>14, <1>15, <1>16, LoopDelivery

LEMMA ProcessSubscribeDelivery ==
  ASSUME SessionInv, SessionInv', DeliveryInv, ProcessSubscribe
  PROVE  DeliveryInv'
<1>0. queue # << >> /\ Head(queue).type = "SessionSubscribe"
  BY DEF ProcessSubscribe, Receive
<1>u. PICK u \in Subscriber, id \in SessionId :
         u = Head(queue).subscriber /\ id = Head(queue).session
  <2>1. Head(queue) \in Message
    BY <1>0 DEF SessionInv, SessionTypeOK
  <2> QED  BY <1>0, <2>1, MessageKinds DEF SubscribeMsg
<1>1. /\ queue # << >> /\ Head(queue).type = "SessionSubscribe"
      /\ Subscribed(id, u) /\ ResolveEffects(registered \union {u}) /\ UNCHANGED <<chan, wire>>
      /\ handler' = [handler EXCEPT ![u].phase = "greeting", ![u].next = FirstUntold(id)]
  BY <1>u DEF ProcessSubscribe, Receive
<1>2. u \in Subscriber /\ id \in SessionId
  OBVIOUS
<1>3. handler[u].phase = "asking" /\ \A x \in SessionId : u \notin SubscribersOf(x)
  BY <1>u, <1>1, HeadAsked
<1>4. /\ handler'[u].phase = "greeting" /\ handler'[u].hand = handler[u].hand
      /\ handler'[u].next = FirstUntold(id)
      /\ \A v \in Subscriber \ {u} : handler'[v] = handler[v]
  BY <1>1, <1>2 DEF SessionInv, SessionTypeOK
<1>5. Fresh(u) /\ ~Fresh(u)'
  BY <1>2, <1>3, <1>4 DEF Fresh
<1>6. registered \union {u} \subseteq Subscriber /\ IsFiniteSet(registered \union {u})
  BY <1>2, FS_AddElement DEF SessionInv, SessionTypeOK
<1>7. /\ EntriesKept /\ NoEntry
      /\ \A v \in Subscriber, x \in SessionId :
           v \in SubscribersOf(x)' => v \in SubscribersOf(x) \/ (v = u /\ x = id)
  <2>1. CASE UnknownSession(id, {u})
    <3>1. \A x \in SessionId : SubscribersOf(x)' = SubscribersOf(x)
      BY <2>1, UnchangedSubscribers DEF UnknownSession, state
    <3> QED  BY <2>1, <3>1, UnknownKeeps
  <2>2. CASE SessionStep(id, WithSubscriber(sessions[id], u, tick), << >>)
    <3>1. id \in DOMAIN sessions
      BY <2>2 DEF SessionStep
    <3>2. WithSubscriber(sessions[id], u, tick).entries = sessions[id].entries
      BY <3>1, RecordEntries DEF SessionInv
    <3>3. EntriesKept /\ NoEntry
      BY <1>2, <2>2, <3>2, StepKeeps DEF SessionInv
    <3> QED  BY <1>2, <2>2, <3>3, SubscribedMoves DEF SessionInv
  <2> QED  BY <1>1, <2>1, <2>2 DEF Subscribed
<1>8. ASSUME NEW x \in SessionId, NEW v \in SubscribersOf(x)'
      PROVE  \/ /\ v \in SubscribersOf(x) /\ handler'[v] = handler[v]
                /\ FirstUntold(x)' = FirstUntold(x)
             \/ Fresh(v) /\ handler'[v].next = FirstUntold(x)'
  <2>1. v \in Subscriber
    <3>1. SubscribersOf(x)' \subseteq Subscriber
      BY DEF SessionInv, KernelInv, TypeOK, IsSession, IsMap, SubscribersOf
    <3> QED  BY <1>8, <3>1
  <2>2. FirstUntold(x)' = FirstUntold(x)
    BY <1>7, <1>8 DEF EntriesKept
  <2>3. CASE v = u
    BY <1>3, <1>4, <1>5, <1>7, <1>8, <2>1, <2>2, <2>3
  <2>4. CASE v # u
    BY <1>4, <1>7, <1>8, <2>1, <2>2, <2>4
  <2> QED  BY <2>3, <2>4
<1>9. \A v \in Subscriber :
        \/ handler'[v] = handler[v]
        \/ /\ Fresh(v) /\ ~Fresh(v)' /\ handler'[v].phase # "sending"
           /\ handler'[v].hand = handler[v].hand
  BY <1>4, <1>5
<1> QED  BY <1>1, <1>6, <1>7, <1>8, <1>9, LoopDelivery

\* A new entry goes to all the subscribers its session has, once each, and
\* nothing of it was on the way before.
LEMMA AppendDelivery ==
  ASSUME SessionInv, SessionInv', DeliveryInv, Forward, NEW id \in SessionId, NEW p \in Payload,
         SessionStep(id, WithEntry(sessions[id], p),
                     <<NotifySubscribers(Len(sessions[id].entries), p,
                                         DOMAIN sessions[id].subscribers)>>)
  PROVE  DeliveryInv'
<1>1. /\ UNCHANGED <<chan, handler, wire>> /\ ResolveEffects(registered)
      /\ registered \subseteq Subscriber /\ IsFiniteSet(registered) /\ KernelInv
  BY DEF Forward, adapterVars, SessionInv, SessionTypeOK
<1>2. id \in DOMAIN sessions /\ SubscribersOf(id) = DOMAIN sessions[id].subscribers
  BY <1>1, StepSubscribers
<1>3. PICK n \in Nat : n = Len(sessions[id].entries) /\ n = FirstUntold(id)
  BY <1>1, <1>2 DEF KernelInv, TypeOK, IsSession, FirstUntold
<1>4. /\ DOMAIN effects' = {1}
      /\ Of(effects'[1]) = SubscribersOf(id) /\ FrameOf(effects'[1]) = Entry(n)
  <2>1. effects' = <<NotifySubscribers(n, p, SubscribersOf(id))>>
    BY <1>1, <1>2, <1>3, StepSubscribers
  <2>2. DOMAIN effects' = {1} /\ effects'[1] = NotifySubscribers(n, p, SubscribersOf(id))
    BY <2>1
  <2> QED  BY <2>2 DEF Of, FrameOf, NotifySubscribers
<1>5. SubscribersOf(id) \subseteq registered /\ SubscribersOf(id) \subseteq Subscriber
  BY <1>1, SubscribersTyped DEF SessionInv, SubscribersHaveHandles
<1>6. FirstUntold(id)' = n + 1 /\ \A x \in SessionId \ {id} : FirstUntold(x)' = FirstUntold(x)
  <2>1. /\ sessions = [x \in DOMAIN sessions |-> sessions[x]]
        /\ sessions[id].entries \in Seq(Payload)
        /\ sessions[id] = [entries |-> sessions[id].entries,
                           subscribers |-> sessions[id].subscribers]
    BY <1>1, <1>2 DEF KernelInv, TypeOK, IsSession
  <2>2. sessions' = [x \in DOMAIN sessions |-> IF x = id THEN WithEntry(sessions[id], p)
                                                         ELSE sessions[x]]
    BY <2>1 DEF SessionStep
  <2>3. WithEntry(sessions[id], p).entries = Append(sessions[id].entries, p)
    BY <2>1 DEF WithEntry
  <2>4. Len(Append(sessions[id].entries, p)) = n + 1
    <3>1. PICK e \in Seq(Payload) : e = sessions[id].entries
      BY <2>1
    <3>2. Len(Append(e, p)) = Len(e) + 1
      OBVIOUS
    <3> QED  BY <1>3, <3>1, <3>2
  <2> QED  BY <1>2, <2>2, <2>3, <2>4 DEF FirstUntold
<1>7. \A x \in SessionId : SubscribersOf(x)' = SubscribersOf(x)
  BY <1>1, <1>2, StepSubscribers, RecordSubscribers
<1>8. /\ IsFiniteSet(tasks') /\ OneEach'
      /\ \A v \in Subscriber, i \in Nat :
           v \notin SubscribersOf(id) \/ i # n => Sends(v, i)' = Sends(v, i)
      /\ \A v \in SubscribersOf(id) :
           Sends(v, n) = {} => \E t : Sends(v, n)' = {t}
  <2>1. CASE tasks' = tasks /\ \A i \in DOMAIN effects' : Of(effects'[i]) \intersect registered = {}
    <3>1. SubscribersOf(id) = {}
      BY <1>4, <1>5, <2>1
    <3> QED  BY <2>1, <3>1, SameSends DEF DeliveryInv, WayTypeOK, OneEach
  <2>2. ASSUME NEW t, NewTask(t, effects'[1], registered)
        PROVE  /\ IsFiniteSet(tasks') /\ OneEach'
               /\ \A v \in Subscriber, i \in Nat :
                    v \notin SubscribersOf(id) \/ i # n => Sends(v, i)' = Sends(v, i)
               /\ \A v \in SubscribersOf(id) :
                    Sends(v, n) = {} => \E r : Sends(v, n)' = {r}
    <3>1. /\ tasks' = tasks \union {t}
          /\ \A v : v \in SubscribersOf(id) <=> \E k \in DOMAIN t : t[k].to = v
          /\ \A k \in DOMAIN t : t[k] = [to |-> t[k].to, frame |-> Entry(n)]
          /\ \A j, k \in DOMAIN t : t[j].to = t[k].to => j = k
      BY <1>4, <1>5, <2>2 DEF NewTask
    <3>2. IsFiniteSet(tasks') /\ OneEach'
      BY <3>1, FS_AddElement DEF DeliveryInv, WayTypeOK, OneEach
    <3>3. \A v, i : (\E k \in DOMAIN t : t[k] = [to |-> v, frame |-> Entry(i)])
                      <=> v \in SubscribersOf(id) /\ i = n
      <4> TAKE v, i
      <4>1. ASSUME NEW k \in DOMAIN t, t[k] = [to |-> v, frame |-> Entry(i)]
            PROVE  v \in SubscribersOf(id) /\ i = n
        <5>1. t[k].to = v /\ t[k].frame = Entry(i) /\ t[k].frame = Entry(n)
          BY <3>1, <4>1
        <5> QED  BY <3>1, <5>1, EntryKind
      <4>2. ASSUME v \in SubscribersOf(id), i = n
            PROVE  \E k \in DOMAIN t : t[k] = [to |-> v, frame |-> Entry(i)]
        BY <3>1, <4>2
      <4> QED  BY <4>1, <4>2
    <3>4. \A v, i : Sends(v, i)' = IF v \in SubscribersOf(id) /\ i = n
                                     THEN Sends(v, i) \union {t} ELSE Sends(v, i)
      BY <3>1, <3>3 DEF Sends, Entry
    <3> QED  BY <3>2, <3>4
  <2> QED  BY <1>1, <1>4, <2>1, <2>2, ResolvedExactly
<1>9. WayTypeOK' /\ Handed'
  BY <1>1, <1>8 DEF DeliveryInv, WayTypeOK, Handed
<1>10. ASSUME NEW v \in Subscriber, NEW i \in Nat, v \notin SubscribersOf(id) \/ i # n
       PROVE  OnTheWay(v, i)' = OnTheWay(v, i)
  BY <1>1, <1>8, <1>10, SameWay
<1>11. ASSUME NEW v \in Subscriber, Fresh(v)'
       PROVE  (handler[v].next = 0 /\ Owed(v, 0))'
  <2>1. Fresh(v) /\ handler'[v] = handler[v]
    BY <1>1, <1>11 DEF Fresh
  <2>2. v \notin SubscribersOf(id)
    BY <2>1 DEF SessionInv, FreshInv
  <2> QED  BY <1>10, <2>1, <2>2 DEF DeliveryInv, Owed
<1>12. ASSUME NEW v \in SubscribersOf(id), handler'[v].phase \in Live
       PROVE  (handler[v].next <= FirstUntold(id) /\ Owed(v, FirstUntold(id)))'
  <2>1. v \in Subscriber /\ handler'[v] = handler[v] /\ handler[v].next \in Nat
    BY <1>1, <1>5 DEF SessionInv, SessionTypeOK
  <2>2. handler[v].next <= n /\ Owed(v, n)
    BY <1>3, <1>12, <2>1 DEF DeliveryInv
  <2>3. OnTheWay(v, n) = 0
    BY <2>1, <2>2 DEF Owed
  <2>4. /\ Times(chan[v], Entry(n)) \in Nat /\ Times(handler[v].hand, Entry(n)) \in Nat
        /\ IsFiniteSet(Sends(v, n)) /\ Cardinality(Sends(v, n)) \in Nat
        /\ Times(wire[v], n) \in Nat
    BY <2>1, WayTyped DEF DeliveryInv
  <2>5. OnTheWay(v, n) = Times(chan[v], Entry(n)) + Times(handler[v].hand, Entry(n))
                         + Cardinality(Sends(v, n)) + Times(wire[v], n)
    BY <2>1, OnTheWaySum
  <2>6. OnTheWay(v, n)' = Times(chan[v], Entry(n)) + Times(handler[v].hand, Entry(n))
                          + Cardinality(Sends(v, n)') + Times(wire[v], n)
    BY <1>1, <2>1, OnTheWaySum
  <2>7. Cardinality(Sends(v, n)) = 0
    BY <2>3, <2>4, <2>5
  <2>8. Sends(v, n) = {}
    BY <2>4, <2>7, FS_EmptySet
  <2>9. Cardinality(Sends(v, n)') = 1
    BY <1>8, <2>8, FS_Singleton
  <2>10. OnTheWay(v, n)' = 1
    BY <2>3, <2>4, <2>5, <2>6, <2>7, <2>9
  <2>11. ASSUME NEW i \in Nat
         PROVE  OnTheWay(v, i)' = IF handler'[v].next <= i /\ i < n + 1 THEN 1 ELSE 0
    <3>1. CASE i = n
      BY <2>1, <2>2, <2>10, <3>1
    <3>2. CASE i # n
      <4>1. OnTheWay(v, i)' = OnTheWay(v, i)
        BY <1>10, <2>1, <3>2
      <4>2. OnTheWay(v, i) = IF handler[v].next <= i /\ i < n THEN 1 ELSE 0
        BY <2>2 DEF Owed
      <4> QED  BY <2>1, <3>2, <4>1, <4>2
    <3> QED  BY <3>1, <3>2
  <2> QED  BY <1>6, <2>1, <2>2, <2>11 DEF Owed
<1>13. ASSUME NEW x \in SessionId, x # id, NEW v \in SubscribersOf(x), handler'[v].phase \in Live
       PROVE  (handler[v].next <= FirstUntold(x) /\ Owed(v, FirstUntold(x)))'
  <2>1. v \in Subscriber /\ handler'[v] = handler[v]
    BY <1>1, SubscribersTyped
  <2>2. v \notin SubscribersOf(id)
    BY <1>13, <2>1 DEF SessionInv, OneSession
  <2>3. handler[v].next <= FirstUntold(x) /\ Owed(v, FirstUntold(x))
    BY <1>13, <2>1 DEF DeliveryInv
  <2>4. FirstUntold(x)' = FirstUntold(x)
    BY <1>6, <1>13
  <2> QED  BY <1>10, <2>1, <2>2, <2>3, <2>4 DEF Owed
<1>14. ASSUME NEW x \in SessionId, NEW v \in SubscribersOf(x)', handler'[v].phase \in Live
       PROVE  (handler[v].next <= FirstUntold(x) /\ Owed(v, FirstUntold(x)))'
  BY <1>7, <1>12, <1>13, <1>14
<1> QED  BY <1>8, <1>9, <1>11, <1>14 DEF DeliveryInv, Live

\* What the loop does with the message at the head of its channel.
LEMMA ProcessMessageDelivery ==
  ASSUME SessionInv, SessionInv', DeliveryInv, ProcessMessage
  PROVE  DeliveryInv'
<1> DEFINE m == Head(queue)
<1> USE DEF Receive
<1>1. ASSUME queue # << >>
      PROVE  m \in Message
  BY <1>1 DEF SessionInv, SessionTypeOK
<1>2. CASE ProcessAppend
  <2>1. PICK id \in SessionId, p \in Payload : m = AppendMsg(id, p)
    BY <1>1, <1>2, MessageKinds DEF ProcessAppend
  <2>2. EntryAppended(id, p) /\ Forward
    BY <1>2, <2>1 DEF ProcessAppend, AppendMsg
  <2>3. CASE UnknownSession(id, {})
    <3>1. OnlyTakenLeave
      BY <2>2, AppendMoves DEF SessionInv
    <3> QED  BY <2>2, <2>3, <3>1, UnknownKeeps, ForwardDelivery
  <2>4. CASE SessionStep(id, WithEntry(sessions[id], p),
                         <<NotifySubscribers(Len(sessions[id].entries), p,
                                             DOMAIN sessions[id].subscribers)>>)
    BY <2>2, <2>4, AppendDelivery
  <2> QED  BY <2>2, <2>3, <2>4 DEF EntryAppended
<1>3. CASE ProcessHeartbeat
  <2>1. PICK u \in Subscriber, id \in SessionId : m = HeartbeatMsg(u, id)
    BY <1>1, <1>3, MessageKinds DEF ProcessHeartbeat
  <2>2. SubscriberHeartbeat(id, u) /\ Forward
    BY <1>3, <2>1 DEF ProcessHeartbeat, HeartbeatMsg
  <2>3. \A x \in SessionId : u \in SubscribersOf(x) => x = id
    BY <1>3, <2>1, HeadNames DEF ProcessHeartbeat
  <2>4. OnlyTakenLeave
    BY <2>2, <2>3, HeartbeatMoves DEF SessionInv
  <2>5. EntriesKept /\ NoEntry
    <3>1. CASE UnknownSession(id, {u})
      BY <3>1, UnknownKeeps
    <3>2. ASSUME NEW next, SessionStep(id, next, << >>),
                 next = IF u \in DOMAIN sessions[id].subscribers
                          THEN WithSubscriber(sessions[id], u, tick) ELSE sessions[id]
          PROVE  EntriesKept /\ NoEntry
      <4>1. id \in DOMAIN sessions
        BY <3>2 DEF SessionStep
      <4>2. next.entries = sessions[id].entries
        BY <3>2, <4>1, RecordEntries DEF SessionInv
      <4> QED  BY <3>2, <4>2, StepKeeps DEF SessionInv
    <3> QED  BY <2>2, <3>1, <3>2 DEF SubscriberHeartbeat
  <2> QED  BY <2>2, <2>4, <2>5, ForwardDelivery
<1>4. CASE ProcessUnsubscribe
  <2>1. PICK u \in Subscriber, id \in SessionId : m = UnsubscribeMsg(u, id)
    BY <1>1, <1>4, MessageKinds DEF ProcessUnsubscribe
  <2>2. Unsubscribed(id, u) /\ Forward
    BY <1>4, <2>1 DEF ProcessUnsubscribe, UnsubscribeMsg
  <2>3. \A x \in SessionId : u \in SubscribersOf(x) => x = id
    BY <1>4, <2>1, HeadNames DEF ProcessUnsubscribe
  <2>4. OnlyTakenLeave
    BY <2>2, <2>3, UnsubscribedMoves DEF SessionInv
  <2>5. EntriesKept /\ NoEntry
    <3>1. CASE UnknownSession(id, {u})
      BY <3>1, UnknownKeeps
    <3>2. ASSUME NEW U, SessionStep(id, WithoutSubscribers(sessions[id], {u}), <<SubscriberRemoved(U)>>)
          PROVE  EntriesKept /\ NoEntry
      <4>1. id \in DOMAIN sessions
        BY <3>2 DEF SessionStep
      <4>2. WithoutSubscribers(sessions[id], {u}).entries = sessions[id].entries
        BY <4>1, RecordEntries DEF SessionInv
      <4> QED  BY <3>2, <4>2, StepKeeps DEF SessionInv
    <3> QED  BY <2>2, <3>1, <3>2 DEF Unsubscribed
  <2> QED  BY <2>2, <2>4, <2>5, ForwardDelivery
<1>5. CASE ProcessTick
  <2>1. Tick /\ Forward
    BY <1>5 DEF ProcessTick
  <2>2. OnlyTakenLeave /\ EntriesKept /\ NoEntry
    BY <2>1, TickMoves, TickKeeps DEF SessionInv
  <2> QED  BY <2>1, <2>2, ForwardDelivery
<1> QED
  BY <1>2, <1>3, <1>4, <1>5, ProcessCreateDelivery, ProcessSubscribeDelivery DEF ProcessMessage

LEMMA InitDelivery == SessionInit => DeliveryInv
<1> SUFFICES ASSUME SessionInit PROVE DeliveryInv
  OBVIOUS
<1> USE DEF SessionInit
<1>1. WayTypeOK /\ OneEach /\ Handed
  BY FS_EmptySet DEF WayTypeOK, OneEach, Handed
<1>2. \A id : SubscribersOf(id) = {}
  BY DEF Init, EmptyMap, SubscribersOf
<1>3. ASSUME NEW u \in Subscriber, NEW i \in Nat
      PROVE  OnTheWay(u, i) = 0
  <2>1. Sends(u, i) = {} /\ chan[u] = << >> /\ handler[u].hand = << >> /\ wire[u] = << >>
    BY DEF Sends
  <2>2. OnTheWay(u, i) = Times(chan[u], Entry(i)) + Times(handler[u].hand, Entry(i))
                         + Cardinality(Sends(u, i)) + Times(wire[u], i)
    BY OnTheWaySum
  <2>3. /\ Times(chan[u], Entry(i)) = 0 /\ Times(handler[u].hand, Entry(i)) = 0
        /\ Cardinality(Sends(u, i)) = 0 /\ Times(wire[u], i) = 0
    BY <2>1, TimesShort, FS_EmptySet
  <2> QED  BY <2>2, <2>3
<1>4. \A u \in Subscriber : handler[u].next = 0 /\ Owed(u, 0)
  BY <1>3 DEF Owed
<1> QED  BY <1>1, <1>2, <1>4 DEF DeliveryInv

LEMMA NextDelivery ==
  ASSUME SessionInv, SessionInv', DeliveryInv, [SessionNext]_vars
  PROVE  DeliveryInv'
<1>1. CASE UNCHANGED vars
  <2>1. UNCHANGED <<kernelVars, tasks, chan, wire, handler>>
    BY <1>1 DEF vars, adapterVars
  <2> QED  BY <2>1, StillDelivery
<1>2. CASE ProcessMessage
  BY <1>2, ProcessMessageDelivery
<1>3. CASE TickTask
  <2>1. UNCHANGED <<kernelVars, tasks, chan, wire, handler>>
    BY <1>3 DEF TickTask, adapterVars
  <2> QED  BY <2>1, StillDelivery
<1>4. ASSUME NEW t \in tasks, ExecuteSend(t)
      PROVE  DeliveryInv'
  BY <1>4, ExecuteSendDelivery
<1>5. ASSUME NEW u \in Subscriber, HandlerStep(u)
      PROVE  DeliveryInv'
  <2>1. CASE Leave(u)
    <3>1. UNCHANGED <<kernelVars, tasks, wire>> /\ Return(u)
      BY <2>1 DEF Leave, Runtime
    <3> QED  BY <3>1, ReturnDelivery
  <2> QED
    BY <1>5, <2>1, AwaitCreatedDelivery, GreetDelivery, TakeDelivery, WriteDelivery DEF HandlerStep
<1>6. ASSUME NEW u \in Subscriber, Create(u) \/ \E id \in SessionId : Subscribe(u, id)
      PROVE  DeliveryInv'
  <2>1. /\ handler[u].phase = "off" /\ UNCHANGED <<kernelVars, tasks, chan, wire>>
        /\ \/ To(u, "asking")
           \/ \E id : handler' = [handler EXCEPT ![u].phase = "asking", ![u].session = id]
    BY <1>6 DEF Create, Subscribe, Runtime
  <2>2. /\ handler'[u].phase = "asking" /\ handler'[u].next = handler[u].next
        /\ handler'[u].hand = handler[u].hand
        /\ \A v \in Subscriber \ {u} : handler'[v] = handler[v]
    BY <2>1 DEF To, SessionInv, SessionTypeOK
  <2> QED  BY <2>1, <2>2, StillDelivery DEF Fresh, Live
<1>7. ASSUME NEW u \in Subscriber, Heartbeat(u) \/ \E p \in Payload : ClientAppends(u, p)
      PROVE  DeliveryInv'
  <2>1. UNCHANGED <<kernelVars, tasks, chan, wire, handler>>
    BY <1>7 DEF Heartbeat, ClientAppends, Runtime, adapterVars
  <2> QED  BY <2>1, StillDelivery
<1>8. ASSUME NEW u \in Subscriber, ClientCloses(u)
      PROVE  DeliveryInv'
  <2>1. /\ handler[u].phase = "loop" /\ To(u, "leaving")
        /\ UNCHANGED <<kernelVars, tasks, chan, wire>>
    BY <1>8 DEF ClientCloses, Runtime
  <2> QED  BY <2>1, PhaseDelivery DEF Live
<1> QED
  BY <1>1, <1>2, <1>3, <1>4, <1>5, <1>6, <1>7, <1>8 DEF SessionNext

\* A handler (router/session_ws.rs) whose subscriber is in a session gets every
\* entry appended after what it was told when it subscribed, once, and no
\* other, whichever way tasks, channels and the loop are interleaved and
\* whatever is full, late, lost or closed meanwhile.
THEOREM EntriesNotifiedOnce == SessionSpec => []NotifiedOnce
<1>1. SessionInv /\ DeliveryInv => NotifiedOnce
  <2> SUFFICES ASSUME SessionInv, DeliveryInv,
                      NEW id \in SessionId, NEW u \in SubscribersOf(id),
                      handler[u].phase \in Live,
                      NEW i \in 0 .. Len(sessions[id].entries) - 1
               PROVE  OnTheWay(u, i) = IF i >= handler[u].next THEN 1 ELSE 0
    BY DEF NotifiedOnce
  <2>1. u \in Subscriber /\ id \in DOMAIN sessions
    BY SubscribersTyped DEF SessionInv, SubscribersOf
  <2>2. FirstUntold(id) = Len(sessions[id].entries) /\ FirstUntold(id) \in Nat
    BY <2>1 DEF FirstUntold, SessionInv, KernelInv, TypeOK, IsSession
  <2>3. handler[u].next <= FirstUntold(id) /\ Owed(u, FirstUntold(id)) /\ handler[u].next \in Nat
    BY <2>1 DEF DeliveryInv, SessionInv, SessionTypeOK
  <2>4. i \in Nat /\ i < FirstUntold(id)
    BY <2>2
  <2>5. OnTheWay(u, i) = IF handler[u].next <= i /\ i < FirstUntold(id) THEN 1 ELSE 0
    BY <2>3, <2>4 DEF Owed
  <2> QED  BY <2>3, <2>4, <2>5
<1>2. SessionInit => DeliveryInv
  BY InitDelivery
<1>3. SessionInv /\ SessionInv' /\ DeliveryInv /\ [SessionNext]_vars => DeliveryInv'
  BY NextDelivery
<1> QED
  BY <1>1, <1>2, <1>3, SessionInvariance, PTL DEF SessionSpec
=============================================================================
