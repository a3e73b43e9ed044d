-------------------------- MODULE SessionSyncProofs --------------------------
(***************************************************************************)
(* Proofs about SessionSync.                                               *)
(***************************************************************************)
EXTENDS SessionSync, TLAPS, WellFoundedInduction

\* A non-empty set of naturals has a least element.
LEMMA LeastNat ==
  ASSUME NEW T, T \subseteq Nat, T # {}
  PROVE  \E m \in T : \A n \in T : m <= n
<1> DEFINE Less == {ss \in Nat \X Nat : ss[1] < ss[2]}
<1>1. IsWellFoundedOn(Less, Nat)
  BY NatLessThanWellFounded DEF OpToRel
<1>2. \A m, n \in Nat : n < m => <<n, m>> \in Less
  OBVIOUS
<1> HIDE DEF Less
<1>3. PICK m \in T : \A n \in T : <<n, m>> \notin Less
  BY <1>1, WFMin
<1>4. \A n \in T : ~ (n < m)
  BY <1>2, <1>3
<1> QED
  BY <1>4

LEMMA FunctionIsSequence ==
  ASSUME NEW S, NEW n \in Nat, NEW f \in [1 .. n -> S]
  PROVE  f \in Seq(S) /\ Len(f) = n
OBVIOUS

-----------------------------------------------------------------------------
(* The coordinator *)

\* Slots never shrink, and keep what they received.
LEMMA ExtendFacts ==
  ASSUME NEW s \in Seq(Slot), NEW n \in Nat
  PROVE  /\ Extend(s, n) \in Seq(Slot)
         /\ Len(Extend(s, n)) = IF n <= Len(s) THEN Len(s) ELSE n
         /\ \A i \in DOMAIN s : Extend(s, n)[i] = s[i]
         /\ \A i \in DOMAIN Extend(s, n) \ DOMAIN s : Extend(s, n)[i] = Requested
<1>1. CASE n <= Len(s)
  BY <1>1 DEF Extend
<1>2. CASE ~(n <= Len(s))
  <2> DEFINE f == [i \in 1 .. n |-> IF i <= Len(s) THEN s[i] ELSE Requested]
  <2>1. Extend(s, n) = f
    BY <1>2 DEF Extend
  <2>2. f \in [1 .. n -> Slot]
    BY DEF Slot
  <2>3. f \in Seq(Slot) /\ Len(f) = n
    BY <2>2, FunctionIsSequence
  <2>4. DOMAIN f = 1 .. n /\ DOMAIN s = 1 .. Len(s)
    OBVIOUS
  <2> QED
    BY <1>2, <2>1, <2>3, <2>4
<1> QED
  BY <1>1, <1>2

LEMMA ExtendEmpty ==
  ASSUME NEW n \in Nat
  PROVE  /\ Extend(<<>>, n) \in Seq(Slot) /\ Len(Extend(<<>>, n)) = n
         /\ \A i \in DOMAIN Extend(<<>>, n) : Extend(<<>>, n)[i] = Requested
<1>1. CASE n = 0
  BY <1>1 DEF Extend
<1>2. CASE n # 0
  <2> DEFINE f == [i \in 1 .. n |-> IF i <= Len(<<>>) THEN <<>>[i] ELSE Requested]
  <2>1. Extend(<<>>, n) = f
    BY <1>2 DEF Extend
  <2>2. \A i \in 1 .. n : f[i] = Requested
    OBVIOUS
  <2>3. f \in [1 .. n -> Slot]
    BY <2>2 DEF Slot
  <2>4. f \in Seq(Slot) /\ Len(f) = n
    BY <2>3, FunctionIsSequence
  <2> QED
    BY <2>1, <2>2, <2>4
<1> QED
  BY <1>1, <1>2

\* A reception fills the one slot it is for, if it was missing.
LEMMA ReceivedFacts ==
  ASSUME NEW s \in Seq(Slot), NEW i \in Nat \ {0}, NEW e \in Payload
  PROVE  /\ Received(s, i, e) \in Seq(Slot)
         /\ Len(Received(s, i, e)) = IF i <= Len(s) THEN Len(s) ELSE i
         /\ \A j \in DOMAIN s : s[j] # Requested => Received(s, i, e)[j] = s[j]
         /\ \A j \in DOMAIN Received(s, i, e) :
              \/ Received(s, i, e)[j] = Requested
              \/ j \in DOMAIN s /\ Received(s, i, e)[j] = s[j]
              \/ j = i /\ Received(s, i, e)[j] = e
         /\ Received(s, i, e)[i] # Requested
<1> DEFINE k == Extend(s, i)
<1>1. /\ k \in Seq(Slot)
      /\ Len(k) = IF i <= Len(s) THEN Len(s) ELSE i
      /\ \A j \in DOMAIN s : k[j] = s[j]
      /\ \A j \in DOMAIN k \ DOMAIN s : k[j] = Requested
  BY ExtendFacts
<1>2. i \in DOMAIN k /\ DOMAIN k = 1 .. Len(k) /\ DOMAIN s = 1 .. Len(s) /\ Len(s) \in Nat
  BY <1>1
<1>3. Received(s, i, e) = IF k[i] = Requested THEN [k EXCEPT ![i] = e] ELSE k
  BY DEF Received
<1>4. e \in Slot /\ e # Requested
  BY RequestedAssumption DEF Slot
<1> HIDE DEF k
<1>5. CASE k[i] = Requested
  <2>1. Received(s, i, e) = [k EXCEPT ![i] = e]
    BY <1>3, <1>5
  <2>2. [k EXCEPT ![i] = e] \in Seq(Slot) /\ Len([k EXCEPT ![i] = e]) = Len(k)
    BY <1>1, <1>2, <1>4
  <2>3. \A j \in DOMAIN k : [k EXCEPT ![i] = e][j] = IF j = i THEN e ELSE k[j]
    BY <1>1, <1>2
  <2>4. DOMAIN [k EXCEPT ![i] = e] = DOMAIN k
    OBVIOUS
  <2> QED
    BY <1>1, <1>2, <1>4, <1>5, <2>1, <2>2, <2>3, <2>4
<1>6. CASE k[i] # Requested
  BY <1>1, <1>2, <1>3, <1>6
<1> QED
  BY <1>5, <1>6

\* The same of any sequence of slots r in the place of what was received.
IsReceived(r, s, i, e) ==
  /\ r \in Seq(Slot)
  /\ Len(r) = IF i <= Len(s) THEN Len(s) ELSE i
  /\ \A j \in DOMAIN s : s[j] # Requested => r[j] = s[j]
  /\ \A j \in DOMAIN r :
       \/ r[j] = Requested
       \/ j \in DOMAIN s /\ r[j] = s[j]
       \/ j = i /\ r[j] = e
  /\ r[i] # Requested

LEMMA ReceivedIs ==
  ASSUME NEW s \in Seq(Slot), NEW i \in Nat \ {0}, NEW e \in Payload
  PROVE  IsReceived(Received(s, i, e), s, i, e)
BY ReceivedFacts DEF IsReceived

LEMMA ModFacts ==
  ASSUME NEW n \in Nat \ {0}, NEW a \in Nat
  PROVE  a % n \in 0 .. n - 1 /\ a % n <= a /\ (a - (a % n)) % n = 0
<1>1. a % n \in 0 .. n - 1
  OBVIOUS
<1>2. a = (n * (a \div n)) + (a % n) /\ a \div n \in Nat
  OBVIOUS
<1>3. (n * (a \div n)) % n = 0
  BY <1>2
<1> QED
  BY <1>1, <1>2, <1>3

\* Every missing slot is in some page of the plan, however the missing slots
\* are spread and whatever the page limit.
LEMMA FetchesCover ==
  ASSUME NEW s \in Seq(Slot), NEW i \in Missing(s)
  PROVE  \E f \in Fetches(s) : i \in f.from .. (f.from + f.limit - 1)
<1> DEFINE M == Missing(s)
<1>1. M \subseteq 1 .. Len(s) /\ Len(s) \in Nat /\ i \in M
  BY DEF Missing
<1> HIDE DEF M
<1>2. PICK start \in 1 .. i : start .. i \subseteq M /\ start - 1 \notin M
  <2> DEFINE T == {k \in 1 .. i : k .. i \subseteq M}
  <2>1. T \subseteq Nat /\ i \in T
    BY <1>1
  <2>2. PICK k \in T : \A n \in T : k <= n
    BY <2>1, LeastNat
  <2>3. k - 1 \notin M
    <3> SUFFICES ASSUME k - 1 \in M PROVE FALSE
      OBVIOUS
    <3>1. k - 1 \in 1 .. i /\ (k - 1) .. i \subseteq M
      BY <1>1
    <3> QED
      BY <2>2, <3>1
  <2> QED
    BY <2>2, <2>3
<1> DEFINE r == (i - start) % PageLimit
           from == i - r
<1>3. /\ r \in 0 .. PageLimit - 1 /\ r <= i - start
      /\ (from - start) % PageLimit = 0
  <2>1. PICK a \in Nat : a = i - start
    BY <1>1
  <2>2. /\ a % PageLimit \in 0 .. PageLimit - 1 /\ a % PageLimit <= a
        /\ (a - (a % PageLimit)) % PageLimit = 0
    BY ModFacts, PageLimitAssumption
  <2>3. r = a % PageLimit
    BY <2>1
  <2> HIDE DEF r
  <2>4. a - r = from - start
    BY <1>1, <2>1, <2>2, <2>3
  <2> QED
    BY <2>1, <2>2, <2>3, <2>4
<1> HIDE DEF r
<1>4. from \in start .. i /\ from .. i \subseteq M /\ from \in M
  BY <1>1, <1>2, <1>3
<1>5. PICK m \in Nat \ {0} :
        from + m \notin M /\ \A l \in Nat \ {0} : from + l \notin M => m <= l
  <2> DEFINE T == {l \in Nat \ {0} : from + l \notin M}
  <2>1. Len(s) + 1 \in T
    BY <1>1, <1>4
  <2>2. T \subseteq Nat /\ T # {}
    BY <2>1
  <2> QED
    BY <2>2, LeastNat
<1> DEFINE limit == IF m <= PageLimit THEN m ELSE PageLimit
           f == [from |-> from, limit |-> limit]
<1>6. limit \in 1 .. PageLimit /\ limit <= m
  BY <1>5, PageLimitAssumption
<1>7. from .. (from + limit - 1) \subseteq M
  <2> SUFFICES ASSUME NEW k \in from .. (from + limit - 1), k \notin M PROVE FALSE
    OBVIOUS
  <2>1. k - from \in Nat \ {0} /\ from + (k - from) = k /\ k - from < m
    BY <1>1, <1>4, <1>6
  <2> QED
    BY <1>5, <2>1
<1>8. r < limit
  <2>1. r < m
    <3> SUFFICES ASSUME m <= r PROVE FALSE
      BY <1>3
    <3>1. from + m \in from .. i
      BY <1>1, <1>3, <1>4
    <3> QED
      BY <1>4, <1>5, <3>1
  <2> QED
    BY <1>3, <1>5, <2>1, PageLimitAssumption
<1>9. limit = PageLimit \/ from + limit \notin M
  BY <1>5
<1>10. StartsPage(s, from)
  <2>1. start .. from \subseteq M /\ start \in 1 .. from
    BY <1>1, <1>2, <1>4
  <2> QED
    BY <1>2, <1>3, <2>1 DEF StartsPage, M
<1>11. f \in Fetches(s)
  BY <1>4, <1>6, <1>7, <1>9, <1>10 DEF Fetches, M
<1> QED
  BY <1>1, <1>3, <1>4, <1>6, <1>8, <1>11
-----------------------------------------------------------------------------
(* The invariant *)

\* Nothing is announced before it is in the log.
Announced(message) ==
  IF message.type = "subscribed" THEN message.latest <= Len(log)
  ELSE message.index <= Len(log)
PositionsExist ==
  /\ notifying \subseteq 1 .. Len(log)
  /\ \A k \in DOMAIN inbox : Announced(inbox[k])

\* The one bootstrap comes first, so that it never discards a received entry.
BootstrapFirst ==
  /\ socket = "connecting" => inbox = <<>> /\ slots = <<>> /\ plan = {}
  /\ \A k \in DOMAIN inbox :
       inbox[k].type = "subscribed" => k = 1 /\ slots = <<>> /\ plan = {}

SlotsMatch ==
  \A i \in DOMAIN slots : slots[i] # Requested => slots[i] = log[i]

\* A page stays within the slots it was planned for.
Pages(fetches) == UNION {f.from .. (f.from + f.limit - 1) : f \in fetches}
PlanInside == Pages(plan) \subseteq DOMAIN slots

\* While the page shows connected, or is on its way to it, every gap is in the
\* plan.
Tracked ==
  /\ plan # {} => connection # "connected"
  /\ connection = "connected" \/ (plan # {} /\ resume) =>
       \A i \in Missing(slots) : log[i] \in Valid => i \in Pages(plan)

SyncInv ==
  /\ TypeOK
  /\ PositionsExist
  /\ BootstrapFirst
  /\ SlotsMatch
  /\ PlanInside
  /\ Tracked

\* What the actions may use of the types.
LEMMA TypeFacts ==
  ASSUME TypeOK
  PROVE  /\ log \in Seq(Payload) /\ Len(log) \in Nat /\ DOMAIN log = 1 .. Len(log)
         /\ slots \in Seq(Slot) /\ Len(slots) \in Nat /\ DOMAIN slots = 1 .. Len(slots)
         /\ \A i \in DOMAIN slots : i \in DOMAIN log /\ log[i] \in Payload
         /\ Missing(slots) \subseteq DOMAIN slots
<1>1. slots \in Seq(Slot)
  BY ValidAssumption DEF TypeOK, Slot
<1> QED
  BY <1>1 DEF TypeOK, Missing

LEMMA InitSyncInv == Init => SyncInv
<1> SUFFICES ASSUME Init PROVE SyncInv
  OBVIOUS
<1> USE DEF Init
<1>1. Len(log) = 0 /\ Len(slots) = 0 /\ DOMAIN inbox = {} /\ DOMAIN slots = {}
  OBVIOUS
<1>2. TypeOK
  <2>1. 0 \in 0 .. MaxEntries /\ 0 <= MaxEntries
    BY MaxEntriesAssumption
  <2>2. log \in Seq(Payload) /\ inbox \in Seq(Message) /\ slots \in Seq(Valid \union {Requested})
    OBVIOUS
  <2>3. Len(log) <= MaxEntries /\ Len(slots) <= Len(log)
    BY <1>1, <2>1
  <2> QED
    BY <2>1, <2>2, <2>3 DEF TypeOK
<1>3. PositionsExist /\ BootstrapFirst /\ SlotsMatch
  BY <1>1 DEF PositionsExist, BootstrapFirst, SlotsMatch
<1>4. PlanInside /\ Tracked
  BY <1>1 DEF PlanInside, Pages, Tracked
<1> QED
  BY <1>2, <1>3, <1>4 DEF SyncInv

LEMMA AppendedKeepsInv ==
  ASSUME SyncInv, NEW entry \in Payload, EntryAppended(entry)
  PROVE  SyncInv'
<1> USE DEF EntryAppended, page
<1>1. /\ log' \in Seq(Payload) /\ Len(log') = Len(log) + 1 /\ Len(log') <= MaxEntries
      /\ \A i \in DOMAIN log : log'[i] = log[i]
  BY MaxEntriesAssumption DEF SyncInv, TypeOK
<1>2. TypeOK'
  <2>1. Len(log) \in Nat /\ Len(slots) \in Nat /\ Len(log) + 1 \in Position
    BY MaxEntriesAssumption, TypeFacts DEF SyncInv, Position
  <2>2. notifying' \subseteq Position
    BY <2>1 DEF SyncInv, TypeOK
  <2>3. Len(slots') <= Len(log')
    BY <1>1, <2>1 DEF SyncInv, TypeOK
  <2> QED
    BY <1>1, <2>2, <2>3 DEF SyncInv, TypeOK
<1>3. PositionsExist'
  <2>1. \A k \in DOMAIN inbox : inbox[k] \in Message /\ Announced(inbox[k])
    BY DEF SyncInv, TypeOK, PositionsExist
  <2>2. ASSUME NEW m \in Message, Announced(m)
        PROVE  Announced(m)'
    <3>1. \/ m.type = "subscribed" /\ m.latest \in Nat
          \/ m.type = "entry" /\ m.index \in Nat
      BY MaxEntriesAssumption DEF Message, Position
    <3> QED
      BY <1>1, <2>2, <3>1, TypeFacts DEF SyncInv, Announced
  <2>3. notifying' \subseteq 1 .. Len(log')
    <3>1. 1 .. Len(log) \subseteq 1 .. Len(log') /\ Len(log) + 1 \in 1 .. Len(log')
      BY <1>1, TypeFacts DEF SyncInv
    <3> QED
      BY <3>1 DEF SyncInv, PositionsExist
  <2> QED
    BY <2>1, <2>2, <2>3 DEF PositionsExist
<1>4. BootstrapFirst'
  BY DEF SyncInv, BootstrapFirst
<1>5. SlotsMatch'
  BY <1>1, TypeFacts DEF SyncInv, SlotsMatch
<1>6. PlanInside'
  BY DEF SyncInv, PlanInside
<1>7. Tracked'
  BY <1>1, TypeFacts DEF SyncInv, Tracked
<1> QED
  BY <1>2, <1>3, <1>4, <1>5, <1>6, <1>7 DEF SyncInv

LEMMA SubscribeKeepsInv ==
  ASSUME SyncInv, Subscribe
  PROVE  SyncInv'
<1> USE DEF Subscribe
<1>1. TypeOK'
  <2>1. SubscribedMessage(Len(log)) \in Message
    BY DEF SyncInv, TypeOK, SubscribedMessage, Message
  <2> QED
    BY <2>1 DEF SyncInv, TypeOK
<1>2. /\ DOMAIN inbox' = {1} /\ inbox'[1].type = "subscribed" /\ inbox'[1].latest = Len(log)
  BY DEF SubscribedMessage
<1>3. PositionsExist'
  BY <1>2, TypeFacts DEF SyncInv, PositionsExist, Announced
<1>4. BootstrapFirst'
  BY <1>2 DEF SyncInv, BootstrapFirst
<1>5. SlotsMatch' /\ PlanInside' /\ Tracked'
  BY DEF SyncInv, SlotsMatch, PlanInside, Tracked
<1> QED
  BY <1>1, <1>3, <1>4, <1>5 DEF SyncInv

LEMMA DeliverKeepsInv ==
  ASSUME SyncInv, NEW i \in Position, Deliver(i)
  PROVE  SyncInv'
<1> USE DEF Deliver
<1>1. EntryMessage(i) \in Message
  BY DEF EntryMessage, Message
<1>2. inbox \in Seq(Message)
  BY DEF SyncInv, TypeOK
<1>3. /\ inbox' \in Seq(Message) /\ DOMAIN inbox' = DOMAIN inbox \union {Len(inbox) + 1}
      /\ \A k \in DOMAIN inbox : inbox'[k] = inbox[k]
      /\ inbox'[Len(inbox) + 1] = EntryMessage(i)
  BY <1>1, <1>2
<1>4. TypeOK'
  BY <1>3 DEF SyncInv, TypeOK
<1>5. PositionsExist'
  BY <1>3 DEF SyncInv, PositionsExist, Announced, EntryMessage
<1>6. BootstrapFirst'
  BY <1>3 DEF SyncInv, BootstrapFirst, EntryMessage
<1>7. SlotsMatch' /\ PlanInside' /\ Tracked'
  BY DEF SyncInv, SlotsMatch, PlanInside, Tracked
<1> QED
  BY <1>4, <1>5, <1>6, <1>7 DEF SyncInv

LEMMA CloseKeepsInv ==
  ASSUME SyncInv, NEW how \in Closings, Close(how)
  PROVE  SyncInv'
<1> USE DEF Close
<1>0. connection' \in {"disconnected", "error"}
  BY DEF Shown
<1>1. TypeOK'
  BY <1>0 DEF SyncInv, TypeOK
<1>2. PositionsExist'
  BY DEF SyncInv, PositionsExist, Announced
<1>3. BootstrapFirst' /\ SlotsMatch' /\ PlanInside'
  BY DEF SyncInv, BootstrapFirst, SlotsMatch, PlanInside
<1>4. Tracked'
  BY <1>0 DEF SyncInv, Tracked
<1> QED
  BY <1>1, <1>2, <1>3, <1>4 DEF SyncInv
-----------------------------------------------------------------------------
(* The page *)

LEMMA FetchesFacts ==
  ASSUME NEW s \in Seq(Slot)
  PROVE  /\ Fetches(s) \subseteq [from : DOMAIN s, limit : 1 .. PageLimit]
         /\ Pages(Fetches(s)) = Missing(s)
<1>1. Fetches(s) \subseteq [from : DOMAIN s, limit : 1 .. PageLimit]
  BY DEF Fetches, Missing
<1>2. Pages(Fetches(s)) \subseteq Missing(s)
  BY DEF Pages, Fetches
<1>3. Missing(s) \subseteq Pages(Fetches(s))
  BY FetchesCover DEF Pages
<1> QED
  BY <1>1, <1>2, <1>3

LEMMA NextMessageFacts ==
  ASSUME SyncInv, NEW type, NextMessage(type), inbox' = Tail(inbox)
  PROVE  /\ Head(inbox) \in Message /\ Head(inbox).type = type
         /\ Announced(Head(inbox))
         /\ type = "subscribed" => slots = <<>>
         /\ socket # "connecting"
         /\ inbox' \in Seq(Message)
         /\ \A k \in DOMAIN inbox' :
              Announced(inbox'[k]) /\ inbox'[k].type # "subscribed"
<1>1. inbox \in Seq(Message) /\ inbox # <<>> /\ Head(inbox).type = type
  BY DEF SyncInv, TypeOK, NextMessage
<1>2. /\ 1 \in DOMAIN inbox /\ Head(inbox) = inbox[1] /\ inbox[1] \in Message
      /\ inbox' \in Seq(Message)
      /\ \A k \in DOMAIN inbox' :
           k + 1 \in DOMAIN inbox /\ k + 1 # 1 /\ inbox'[k] = inbox[k + 1]
  BY <1>1
<1>3. \A k \in DOMAIN inbox' : Announced(inbox'[k]) /\ inbox'[k].type # "subscribed"
  BY <1>2 DEF SyncInv, PositionsExist, BootstrapFirst
<1>4. Announced(Head(inbox)) /\ (type = "subscribed" => slots = <<>>)
  BY <1>1, <1>2 DEF SyncInv, PositionsExist, BootstrapFirst
<1>5. socket # "connecting"
  BY <1>1 DEF SyncInv, BootstrapFirst
<1> QED
  BY <1>1, <1>2, <1>3, <1>4, <1>5

\* The queue part of the invariant, for the three handlers of messages.
LEMMA QueueKept ==
  ASSUME SyncInv, NEW type, NextMessage(type), inbox' = Tail(inbox), UNCHANGED gateway
  PROVE  PositionsExist' /\ BootstrapFirst'
<1>1. log' = log /\ notifying' = notifying /\ socket' = socket
  BY DEF gateway
<1>2. PositionsExist'
  BY <1>1, NextMessageFacts DEF SyncInv, PositionsExist, Announced
<1>3. BootstrapFirst'
  BY NextMessageFacts DEF BootstrapFirst, gateway
<1> QED
  BY <1>2, <1>3

Status == {"connecting", "syncing", "connected", "disconnected", "error"}

\* What a task has to show for Tracked to hold after it ran its effects.
LEMMA RunEffectsTracked ==
  ASSUME NEW fetches, NEW restores \in BOOLEAN, NEW status \in Status,
         RunEffects(fetches, restores, status),
         \/ fetches # {} /\ restores
         \/ fetches = {} /\ (status = "connected" \/ (restores /\ status = "syncing"))
         => \A i \in Missing(slots') : log'[i] \in Valid => i \in Pages(fetches)
  PROVE  Tracked' /\ resume' \in BOOLEAN /\ connection' \in Status
<1>1. plan' = fetches /\ resume' = restores /\ connection' = StatusWith(fetches, restores, status)
  BY DEF RunEffects
<1>2. connection' \in Status /\ resume' \in BOOLEAN
  BY <1>1 DEF StatusWith, Status
<1>3. plan' # {} => connection' # "connected"
  BY <1>1 DEF StatusWith
<1>4. ASSUME connection' = "connected" \/ (plan' # {} /\ resume')
      PROVE  \/ fetches # {} /\ restores
             \/ fetches = {} /\ (status = "connected" \/ (restores /\ status = "syncing"))
  BY <1>1, <1>4 DEF StatusWith
<1> QED
  BY <1>1, <1>2, <1>3, <1>4 DEF Tracked

LEMMA SubscribedKeepsInv ==
  ASSUME SyncInv, HandleSubscribed
  PROVE  SyncInv'
<1> DEFINE latest == Head(inbox).latest
           s == Extend(<<>>, latest)
<1>1. /\ NextMessage("subscribed") /\ inbox' = Tail(inbox) /\ slots' = s
      /\ RunEffects(Fetches(slots'), TRUE, "syncing")
      /\ UNCHANGED <<gateway, failedAt>>
  BY DEF HandleSubscribed
<1>2. latest \in Nat /\ latest <= Len(log)
  BY <1>1, NextMessageFacts, MaxEntriesAssumption DEF Message, Announced
<1> HIDE DEF latest
<1>4. s \in Seq(Slot) /\ Len(s) = latest /\ \A i \in DOMAIN s : s[i] = Requested
  BY <1>2, ExtendEmpty
<1> HIDE DEF s
<1>5. Tracked' /\ resume' \in BOOLEAN /\ connection' \in Status
  <2>1. \A i \in Missing(slots') : i \in Pages(Fetches(slots'))
    BY <1>1, <1>4, FetchesFacts
  <2> QED
    BY <1>1, <2>1, RunEffectsTracked DEF Status
<1>6. plan' = Fetches(s)
  BY <1>1 DEF RunEffects
<1>7. TypeOK'
  <2>1. s \in Seq(Valid \union {Requested})
    BY <1>4
  <2>2. DOMAIN s \subseteq Position
    <3>1. DOMAIN s = 1 .. latest /\ latest <= MaxEntries
      BY <1>2, <1>4, TypeFacts, MaxEntriesAssumption DEF SyncInv, TypeOK
    <3> QED
      BY <1>2, <3>1, MaxEntriesAssumption DEF Position
  <2>3. plan' \subseteq Fetch
    BY <1>4, <1>6, <2>2, FetchesFacts DEF Fetch
  <2> QED
    BY <1>1, <1>2, <1>4, <1>5, <2>1, <2>3, NextMessageFacts DEF SyncInv, TypeOK, Status, gateway
<1>8. PositionsExist' /\ BootstrapFirst'
  BY <1>1, QueueKept
<1>9. SlotsMatch'
  BY <1>1, <1>4 DEF SlotsMatch
<1>10. PlanInside'
  BY <1>1, <1>4, <1>6, FetchesFacts DEF PlanInside, Missing
<1> QED
  BY <1>5, <1>7, <1>8, <1>9, <1>10 DEF SyncInv

LEMMA MalformedKeepsInv ==
  ASSUME SyncInv, HandleMalformed
  PROVE  SyncInv'
<1>1. /\ NextMessage("entry") /\ inbox' = Tail(inbox) /\ connection' = "error"
      /\ UNCHANGED gateway /\ UNCHANGED <<slots, plan, resume, failedAt>>
  BY DEF HandleMalformed
<1>2. TypeOK'
  BY <1>1, NextMessageFacts DEF SyncInv, TypeOK, gateway
<1>3. PositionsExist' /\ BootstrapFirst'
  BY <1>1, QueueKept
<1>4. SlotsMatch' /\ PlanInside'
  BY <1>1 DEF SyncInv, SlotsMatch, PlanInside, gateway
<1>5. Tracked'
  BY <1>1 DEF SyncInv, Tracked, NextMessage
<1> QED
  BY <1>2, <1>3, <1>4, <1>5 DEF SyncInv

LEMMA EntryKeepsInv ==
  ASSUME SyncInv, HandleEntry
  PROVE  SyncInv'
<1> DEFINE i == Head(inbox).index
           fetches == FetchesOnReceived(slots, i, log[i])
<1>1. /\ NextMessage("entry") /\ inbox' = Tail(inbox) /\ log[i] \in Valid
      /\ slots' = Received(slots, i, log[i])
      /\ RunEffects(fetches, connection = "connected", connection)
      /\ UNCHANGED <<gateway, failedAt>>
  BY DEF HandleEntry
<1>2. i \in Nat \ {0} /\ i <= Len(log) /\ i \in Position
  BY <1>1, NextMessageFacts, MaxEntriesAssumption DEF Message, Announced, Position
<1>3. plan = {} /\ log' = log
  BY <1>1 DEF NextMessage, gateway
<1> HIDE DEF i
<1>4. /\ slots' \in Seq(Slot)
      /\ Len(slots') = IF i <= Len(slots) THEN Len(slots) ELSE i
      /\ \A j \in DOMAIN slots' :
           \/ slots'[j] = Requested
           \/ j \in DOMAIN slots /\ slots'[j] = slots[j]
           \/ j = i /\ slots'[j] = log[i]
      /\ \A j \in DOMAIN slots : slots[j] # Requested => slots'[j] = slots[j]
  <2>1. slots \in Seq(Slot) /\ log[i] \in Payload
    BY <1>1, ValidAssumption, TypeFacts DEF SyncInv
  <2>2. PICK e \in Payload : e = log[i]
    BY <2>1
  <2>3. slots' = Received(slots, i, e)
    BY <1>1, <2>2
  <2>4. i \in Nat \ {0}
    BY <1>2
  <2>5. IsReceived(slots', slots, i, e)
    BY <2>1, <2>3, <2>4, ReceivedIs
  <2> QED
    BY <2>2, <2>5 DEF IsReceived
<1>5. fetches = IF i <= Len(slots) THEN {} ELSE Fetches(slots')
  BY <1>1 DEF FetchesOnReceived
<1> HIDE DEF fetches
<1>6. Tracked' /\ resume' \in BOOLEAN /\ connection' \in Status
  <2>1. ASSUME \/ fetches # {} /\ connection = "connected"
               \/ fetches = {} /\ connection = "connected",
               NEW j \in Missing(slots'), log'[j] \in Valid
        PROVE  j \in Pages(fetches)
    <3>1. CASE i <= Len(slots)
      <4>1. j \in DOMAIN slots /\ slots[j] = Requested
        BY <1>4, <2>1, <3>1, TypeFacts DEF SyncInv, Missing
      <4> QED
        BY <1>3, <2>1, <4>1 DEF SyncInv, Tracked, Missing, Pages
    <3>2. CASE ~(i <= Len(slots))
      BY <1>4, <1>5, <2>1, <3>2, FetchesFacts
    <3> QED
      BY <3>1, <3>2
  <2>2. connection \in Status
    BY DEF SyncInv, TypeOK, Status
  <2> DEFINE restores == connection = "connected"
  <2>3. restores \in BOOLEAN /\ (restores => connection # "syncing")
    OBVIOUS
  <2>4. \/ fetches # {} /\ restores
        \/ fetches = {} /\ (connection = "connected" \/ (restores /\ connection = "syncing"))
        => \A j \in Missing(slots') : log'[j] \in Valid => j \in Pages(fetches)
    BY <2>1
  <2>5. RunEffects(fetches, restores, connection)
    BY <1>1
  <2> HIDE DEF restores
  <2> QED
    BY <2>2, <2>3, <2>4, <2>5, RunEffectsTracked
<1>7. plan' = fetches
  BY <1>1 DEF RunEffects
<1>8. TypeOK'
  <2>1. DOMAIN slots' \subseteq 1 .. Len(log) /\ Len(slots') <= Len(log)
    BY <1>2, <1>4, TypeFacts DEF SyncInv, TypeOK
  <2>2. slots' \in Seq(Valid \union {Requested})
    <3>1. \A j \in DOMAIN slots' : slots'[j] \in Valid \union {Requested}
      <4>1. \A j \in DOMAIN slots : slots[j] \in Valid \union {Requested}
        BY DEF SyncInv, TypeOK
      <4> QED
        BY <1>1, <1>4, <4>1
    <3>2. slots' \in [1 .. Len(slots') -> Valid \union {Requested}]
      BY <1>4, <3>1
    <3> QED
      BY <1>4, <3>2, FunctionIsSequence
  <2>3. DOMAIN slots' \subseteq Position
    BY <2>1, TypeFacts, MaxEntriesAssumption DEF SyncInv, TypeOK, Position
  <2>4. plan' \subseteq Fetch
    BY <1>4, <1>5, <1>7, <2>3, FetchesFacts DEF Fetch
  <2> QED
    BY <1>1, <1>3, <1>6, <2>1, <2>2, <2>4, NextMessageFacts DEF SyncInv, TypeOK, Status, gateway
<1>9. PositionsExist' /\ BootstrapFirst'
  BY <1>1, QueueKept
<1>10. SlotsMatch'
  BY <1>3, <1>4 DEF SyncInv, SlotsMatch
<1>11. PlanInside'
  BY <1>4, <1>5, <1>7, FetchesFacts DEF PlanInside, Missing, Pages
<1> QED
  BY <1>6, <1>8, <1>9, <1>10, <1>11 DEF SyncInv

LEMMA FailureKeepsInv ==
  ASSUME SyncInv, FetchFails
  PROVE  SyncInv'
<1> USE DEF FetchFails
<1>1. TypeOK'
  <2>1. Len(slots) \in 0 .. MaxEntries
    BY TypeFacts, MaxEntriesAssumption DEF SyncInv, TypeOK
  <2> QED
    BY <2>1 DEF SyncInv, TypeOK, gateway
<1>2. PositionsExist'
  BY DEF SyncInv, PositionsExist, Announced, gateway
<1>3. BootstrapFirst' /\ SlotsMatch'
  BY DEF SyncInv, BootstrapFirst, SlotsMatch, gateway
<1>4. PlanInside' /\ Tracked'
  BY DEF PlanInside, Pages, Tracked
<1> QED
  BY <1>1, <1>2, <1>3, <1>4 DEF SyncInv

\* A page brings every position its fetch was planned for.
LEMMA PageIsWhole ==
  ASSUME SyncInv, NEW f \in plan
  PROVE  PageOf(f) = f.from .. (f.from + f.limit - 1)
<1>1. f.from \in Nat /\ f.limit \in Nat \ {0} /\ f.limit <= ServerLimit
  BY PageLimitAssumption, ServerLimitAssumption, MaxEntriesAssumption
     DEF SyncInv, TypeOK, Fetch, Position
<1>2. f.from + f.limit - 1 \in Pages(plan)
  BY <1>1 DEF Pages
<1>3. f.from + f.limit - 1 <= Len(log)
  BY <1>1, <1>2, TypeFacts DEF SyncInv, TypeOK, PlanInside
<1> QED
  BY <1>1, <1>3, ServerLimitAssumption DEF PageOf, Smaller

LEMMA PageKeepsInv ==
  ASSUME SyncInv, PageArrives
  PROVE  SyncInv'
<1> DEFINE f == NextFetch(plan)
           status == IF \E i \in PageOf(f) : log[i] \notin Valid THEN "error" ELSE connection
           rest == plan \ {f}
<1>1. /\ plan # {} /\ slots' = WithPage(PageOf(f)) /\ RunEffects(rest, resume, status)
      /\ UNCHANGED <<gateway, inbox, failedAt>>
  BY DEF PageArrives
<1>2. f \in plan
  <2> DEFINE froms == {g.from : g \in plan}
  <2>1. froms \subseteq Nat /\ froms # {}
    BY <1>1, MaxEntriesAssumption DEF SyncInv, TypeOK, Fetch, Position
  <2>2. \E least \in froms : \A n \in froms : least <= n
    BY <2>1, LeastNat
  <2>3. \E g \in plan : \A h \in plan : g.from <= h.from
    BY <2>2
  <2> QED
    BY <2>3 DEF NextFetch
<1> HIDE DEF f
<1>3. PageOf(f) = f.from .. (f.from + f.limit - 1)
  BY <1>2, PageIsWhole
<1>4. /\ slots' \in Seq(Valid \union {Requested}) /\ Len(slots') = Len(slots)
      /\ DOMAIN slots' = DOMAIN slots
      /\ \A j \in DOMAIN slots :
           slots'[j] = IF j \in PageOf(f) /\ slots[j] = Requested /\ log[j] \in Valid
                       THEN log[j] ELSE slots[j]
  <2>1. slots' \in [1 .. Len(slots) -> Valid \union {Requested}]
    BY <1>1, TypeFacts DEF SyncInv, TypeOK, WithPage
  <2>2. slots' \in Seq(Valid \union {Requested}) /\ Len(slots') = Len(slots)
    BY <2>1, TypeFacts, FunctionIsSequence DEF SyncInv
  <2> QED
    BY <1>1, <2>2, TypeFacts DEF SyncInv, WithPage
<1>5. log' = log /\ inbox' = inbox /\ plan' = rest /\ UNCHANGED gateway
  BY <1>1 DEF RunEffects, gateway
<1>6. \A j \in Missing(slots') :
        j \in Missing(slots) /\ (j \notin PageOf(f) \/ log[j] \notin Valid)
  BY <1>4, RequestedAssumption, ValidAssumption, TypeFacts DEF SyncInv, Missing
<1>7. Tracked' /\ resume' \in BOOLEAN /\ connection' \in Status
  <2>1. status \in Status /\ resume \in BOOLEAN
    BY DEF SyncInv, TypeOK, Status
  <2>2. ASSUME \/ rest # {} /\ resume
               \/ rest = {} /\ (status = "connected" \/ (resume /\ status = "syncing")),
               NEW j \in Missing(slots'), log'[j] \in Valid
        PROVE  j \in Pages(rest)
    <3>1. resume
      BY <1>1, <2>2 DEF SyncInv, Tracked
    <3>2. j \in Pages(plan) /\ j \notin PageOf(f)
      BY <1>1, <1>5, <1>6, <2>2, <3>1 DEF SyncInv, Tracked
    <3> QED
      BY <1>3, <3>2 DEF Pages
  <2> HIDE DEF status, rest
  <2> QED
    BY <1>1, <2>1, <2>2, RunEffectsTracked
<1>8. TypeOK'
  BY <1>1, <1>4, <1>5, <1>7 DEF SyncInv, TypeOK, Status, gateway
<1>9. PositionsExist'
  BY <1>5 DEF SyncInv, PositionsExist, Announced, gateway
<1>10. BootstrapFirst'
  BY <1>1, <1>5 DEF SyncInv, BootstrapFirst, gateway
<1>11. SlotsMatch'
  BY <1>4, <1>5 DEF SyncInv, SlotsMatch
<1>12. PlanInside'
  BY <1>4, <1>5 DEF SyncInv, PlanInside, Pages
<1> QED
  BY <1>7, <1>8, <1>9, <1>10, <1>11, <1>12 DEF SyncInv

-----------------------------------------------------------------------------
(* Theorems *)

\* Every action keeps the invariant.
LEMMA NextSyncInv == SyncInv /\ [Next]_vars => SyncInv'
<1> SUFFICES ASSUME SyncInv, [Next]_vars PROVE SyncInv'
  OBVIOUS
<1>1. ASSUME NEW entry \in Payload, EntryAppended(entry) PROVE SyncInv'
  BY <1>1, AppendedKeepsInv
<1>2. CASE Subscribe
  BY <1>2, SubscribeKeepsInv
<1>3. ASSUME NEW i \in Position, Deliver(i) PROVE SyncInv'
  BY <1>3, DeliverKeepsInv
<1>4. ASSUME NEW how \in Closings, Close(how) PROVE SyncInv'
  BY <1>4, CloseKeepsInv
<1>5. CASE HandleMessage
  BY <1>5, SubscribedKeepsInv, EntryKeepsInv, MalformedKeepsInv DEF HandleMessage
<1>6. CASE PageArrives
  BY <1>6, PageKeepsInv
<1>7. CASE FetchFails
  BY <1>7, FailureKeepsInv
<1>8. CASE UNCHANGED vars
  BY <1>8 DEF vars, gateway, page, SyncInv, TypeOK, PositionsExist, Announced,
              BootstrapFirst, SlotsMatch, PlanInside, Tracked
<1> QED
  BY <1>1, <1>2, <1>3, <1>4, <1>5, <1>6, <1>7, <1>8 DEF Next

\* The invariant holds for every page limit, payload and length of the log.
THEOREM SyncInvariance == Spec => []SyncInv
<1> QED
  BY InitSyncInv, NextSyncInv, PTL DEF Spec

\* TypeOK of SessionSync: no slot lies beyond the log, no plan beyond the slots.
THEOREM SyncTypes == Spec => []TypeOK
<1>1. SyncInv => TypeOK
  BY DEF SyncInv
<1> QED
  BY <1>1, SyncInvariance, PTL

\* A viewer that shows "connected" misses no entry it knows of that decodes:
\* the plans of the coordinator cover every gap and pages are served whole.
THEOREM ConnectedIsSynced == Spec => []ConnectedMeansSynced
<1>1. SyncInv => ConnectedMeansSynced
  <2> SUFFICES ASSUME SyncInv, connection = "connected", NEW i \in Missing(slots)
               PROVE  log[i] \notin Valid
    BY DEF ConnectedMeansSynced
  <2>1. plan = {} /\ Pages(plan) = {}
    BY DEF SyncInv, Tracked, Pages
  <2> QED
    BY <2>1 DEF SyncInv, Tracked
<1> QED
  BY <1>1, SyncInvariance, PTL

\* Slots that only gain entries of the log make the prefix grow.
LEMMA SlotsGrow ==
  ASSUME SyncInv, SyncInv', log' = log, Len(slots) <= Len(slots'),
         \A i \in DOMAIN slots : slots[i] # Requested => slots'[i] = slots[i]
  PROVE  Committed_Log!Learn
<1> DEFINE I == Committed(slots')
<1>1. /\ DOMAIN slots = 1 .. Len(slots) /\ DOMAIN slots' = 1 .. Len(slots')
      /\ DOMAIN slots \subseteq DOMAIN slots' /\ DOMAIN slots' \subseteq DOMAIN log
      /\ Len(slots) \in Nat /\ Len(slots') \in Nat
  BY TypeFacts DEF SyncInv, TypeOK
<1>2. I \in SUBSET DOMAIN log
  BY <1>1 DEF Committed
<1>3. Committed_Log!HoleFree(I)
  <2> SUFFICES ASSUME NEW i \in I, NEW j \in 1 .. i PROVE j \in I
    BY DEF Committed_Log!HoleFree
  <2>1. j \in DOMAIN slots' /\ 1 .. j \subseteq 1 .. i
    BY <1>1 DEF Committed
  <2> QED
    BY <2>1 DEF Committed
<1>4. DOMAIN CommittedPrefix(slots) \subseteq I
  <2> SUFFICES ASSUME NEW i \in Committed(slots) PROVE i \in I
    BY DEF CommittedPrefix
  <2>1. i \in DOMAIN slots' /\ 1 .. i \subseteq DOMAIN slots
    BY <1>1 DEF Committed
  <2>2. \A j \in 1 .. i : slots'[j] # Requested
    BY <2>1 DEF Committed
  <2> QED
    BY <2>1, <2>2 DEF Committed
<1>5. CommittedPrefix(slots)' = [i \in I |-> log[i]]
  <2>1. \A i \in I : slots'[i] = log[i]
    <3> SUFFICES ASSUME NEW i \in I PROVE slots'[i] = log[i]
      OBVIOUS
    <3>1. i \in DOMAIN slots' /\ i \in 1 .. i
      BY <1>1 DEF Committed
    <3>2. slots'[i] # Requested
      BY <3>1 DEF Committed
    <3> QED
      BY <3>1, <3>2 DEF SyncInv, SlotsMatch
  <2> QED
    BY <2>1 DEF CommittedPrefix
<1> QED
  BY <1>2, <1>3, <1>4, <1>5 DEF Committed_Log!Learn

LEMMA SyncStep ==
  SyncInv /\ SyncInv' /\ [Next]_vars => [Committed_Log!Next]_(Committed_Log!vars)
<1> SUFFICES ASSUME SyncInv, SyncInv', [Next]_vars
             PROVE  Committed_Log!Next \/ UNCHANGED <<log, slots>>
  BY DEF Committed_Log!vars, CommittedPrefix, Committed
<1>1. ASSUME NEW entry \in Payload, EntryAppended(entry)
      PROVE  Committed_Log!Commit
  BY <1>1 DEF EntryAppended, page, Committed_Log!Commit, CommittedPrefix, Committed
<1>2. CASE Subscribe \/ (\E i \in Position : Deliver(i)) \/ (\E how \in Closings : Close(how))
           \/ HandleMalformed \/ FetchFails \/ UNCHANGED vars
  BY <1>2 DEF Subscribe, Deliver, Close, HandleMalformed, FetchFails, vars, gateway, page
<1>3. CASE HandleSubscribed
  <2>1. NextMessage("subscribed") /\ inbox' = Tail(inbox) /\ log' = log
    BY <1>3 DEF HandleSubscribed, gateway
  <2>2. slots = <<>>
    BY <2>1, NextMessageFacts
  <2>3. DOMAIN slots = {} /\ Len(slots) = 0 /\ Len(slots') \in Nat
    BY <2>2, TypeFacts DEF SyncInv, TypeOK
  <2> QED
    BY <2>1, <2>3, SlotsGrow DEF Committed_Log!Next
<1>4. CASE HandleEntry
  <2>1. log' = log /\ slots \in Seq(Slot)
    BY <1>4, TypeFacts DEF HandleEntry, gateway, SyncInv
  <2>2. PICK i \in Nat \ {0}, e \in Payload : slots' = Received(slots, i, e)
    <3>1. NextMessage("entry") /\ inbox' = Tail(inbox)
      BY <1>4 DEF HandleEntry
    <3>2. Head(inbox).index \in Nat \ {0}
      BY <3>1, NextMessageFacts, MaxEntriesAssumption DEF Message, Position
    <3>3. log[Head(inbox).index] \in Payload
      BY <1>4, ValidAssumption DEF HandleEntry
    <3> QED
      BY <1>4, <3>2, <3>3 DEF HandleEntry
  <2>3. Len(slots) <= Len(slots')
    BY <2>1, <2>2, ReceivedFacts
  <2>4. IsReceived(slots', slots, i, e)
    BY <2>1, <2>2, ReceivedIs
  <2>5. \A j \in DOMAIN slots : slots[j] # Requested => slots'[j] = slots[j]
    BY <2>4 DEF IsReceived
  <2> QED
    BY <2>1, <2>3, <2>5, SlotsGrow DEF Committed_Log!Next
<1>5. CASE PageArrives
  <2>1. PICK positions : slots' = WithPage(positions) /\ log' = log
    BY <1>5 DEF PageArrives, gateway
  <2>2. DOMAIN slots' = DOMAIN slots
    BY <2>1 DEF WithPage
  <2>3. Len(slots) <= Len(slots')
    BY <2>2, TypeFacts DEF SyncInv, TypeOK
  <2>4. \A j \in DOMAIN slots : slots[j] # Requested => slots'[j] = slots[j]
    BY <2>1 DEF WithPage
  <2> QED
    BY <2>1, <2>3, <2>4, SlotsGrow DEF Committed_Log!Next
<1> QED
  BY <1>1, <1>2, <1>3, <1>4, <1>5 DEF Next, HandleMessage, Committed_Log!Next

\* Gateway, page and coordinator implement the committed log: whatever the order
\* of notifications and pages, whatever fails, the viewer has a prefix of the
\* log, and never takes back an entry.
THEOREM SyncImplementsLog == Spec => ImplementsCommittedLog
<1>1. Init => Committed_Log!Init
  BY DEF Init, Committed_Log!Init, CommittedPrefix, Committed
<1> QED
  BY <1>1, SyncStep, SyncInvariance, PTL DEF Spec, ImplementsCommittedLog, Committed_Log!Spec
=============================================================================
