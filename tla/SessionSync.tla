----------------------------- MODULE SessionSync -----------------------------
(***************************************************************************)
(* A browser viewer of a consensus session: the log in the gateway, the    *)
(* notifications on their way (one task each, in no order), the websocket, *)
(* the serial queue of the page (static/consensus_ui/index.html) and the   *)
(* coordinator inside its wasm handle.                                     *)
(*                                                                         *)
(* The page handles one queued message to its end, through every fetch the *)
(* coordinator asked for, before the next; events of the browser run when  *)
(* it waits for a response or has nothing queued.                          *)
(***************************************************************************)
EXTENDS Coordinator

CONSTANTS
  Valid,         \* payloads that decode to an Entry; the gateway takes any
  ServerLimit,   \* MAX_LIMIT of the entries endpoint
  MaxEntries     \* bound: the length of the log

ASSUME ValidAssumption == Valid \subseteq Payload
\* COORDINATOR_PAGE_LIMIT and MAX_LIMIT are both 1000.
ASSUME ServerLimitAssumption == ServerLimit \in Nat /\ PageLimit <= ServerLimit
ASSUME MaxEntriesAssumption == MaxEntries \in Nat

VARIABLES
  log,          \* the session's entries in the kernel
  notifying,    \* positions whose notification has not reached the page
  socket,       \* connecting, open, closed
  inbox,        \* the serial queue of the page; the latest position for a
                \* Subscribed message, a position for an Entry message
  slots,        \* the coordinator
  plan,         \* fetches the running task still has to do, or waits for
  resume,       \* whether the running task ends in connected
  connection,   \* state.connection, the status the page shows
  failedAt      \* history: the known slots when a fetch last failed
gateway == <<log, notifying, socket>>
page == <<inbox, slots, plan, resume, connection, failedAt>>
vars == <<gateway, page>>

Position == 1 .. MaxEntries
Message ==
  [type : {"subscribed"}, latest : 0 .. MaxEntries]
    \union [type : {"entry"}, index : Position]
SubscribedMessage(latest) == [type |-> "subscribed", latest |-> latest]
EntryMessage(i) == [type |-> "entry", index |-> i]

Init ==
  /\ log = <<>> /\ notifying = {} /\ socket = "connecting"
  /\ inbox = <<>> /\ slots = <<>> /\ plan = {}
  /\ resume = FALSE /\ connection = "connecting" /\ failedAt = 0

\* EntryAppended: a participant's entry, notified to whoever is subscribed.
EntryAppended(entry) ==
  /\ Len(log) < MaxEntries
  /\ log' = Append(log, entry)
  /\ notifying' =
       IF socket = "open" THEN notifying \union {Len(log) + 1} ELSE notifying
  /\ UNCHANGED <<socket, page>>

\* handle_session_subscribe: the reply tells the latest position as of the
\* transition that adds the subscriber.
Subscribe ==
  /\ socket = "connecting"
  /\ socket' = "open"
  /\ inbox' = <<SubscribedMessage(Len(log))>>
  /\ UNCHANGED <<log, notifying, slots, plan, resume, connection, failedAt>>

\* The queue runs at once when nothing is awaited: the browser delivers its
\* events in between.
EventsRun == plan # {} \/ inbox = <<>>

\* NotifySubscribers reaches the page as an entry message.
Deliver(i) ==
  /\ EventsRun /\ socket = "open" /\ i \in notifying
  /\ notifying' = notifying \ {i}
  /\ inbox' = Append(inbox, EntryMessage(i))
  /\ UNCHANGED <<log, socket, slots, plan, resume, connection, failedAt>>

\* What the page shows of a socket that has closed by itself, because the
\* subscriber was removed, or in a failure, of which there is an error event first.
Shown(how) ==
  CASE how = "removed" -> "disconnected"
    [] how = "failed" -> "error"
    [] OTHER -> IF connection = "error" THEN "error" ELSE "disconnected"

\* The socket closes or fails, perhaps before it is open, or the kernel has
\* removed the subscriber and the handler closes it: what had not arrived is lost.
Closings == {"closed", "failed", "removed"}
Close(how) ==
  /\ EventsRun
  /\ socket = "open" \/ (socket = "connecting" /\ how # "removed")
  /\ socket' = "closed"
  /\ notifying' = {}
  /\ connection' = Shown(how)
  /\ UNCHANGED <<log, inbox, slots, plan, resume, failedAt>>

\* The next fetch of a plan: runEffects awaits them in order.
NextFetch(fetches) ==
  CHOOSE f \in fetches : \A g \in fetches : f.from <= g.from

\* What the status is once a task has only these fetches left.  A fetch that
\* starts shows syncing whatever was shown; the end of a task restores
\* connected from syncing.
StatusWith(fetches, restores, status) ==
  IF fetches # {} THEN "syncing"
  ELSE IF restores /\ status = "syncing" THEN "connected" ELSE status

\* runEffects of a task that starts.
RunEffects(fetches, restores, status) ==
  /\ plan' = fetches
  /\ resume' = restores
  /\ connection' = StatusWith(fetches, restores, status)

NextMessage(type) == plan = {} /\ inbox # <<>> /\ Head(inbox).type = type

\* handleSubscribed: bootstrap the app at the latest position, then sync.
HandleSubscribed ==
  /\ NextMessage("subscribed")
  /\ inbox' = Tail(inbox)
  /\ slots' = Extend(<<>>, Head(inbox).latest)
  /\ RunEffects(Fetches(slots'), TRUE, "syncing")
  /\ UNCHANGED <<gateway, failedAt>>

\* applyEntry of a live entry that decodes.
HandleEntry ==
  /\ NextMessage("entry")
  /\ LET i == Head(inbox).index
     IN  /\ log[i] \in Valid
         /\ slots' = Received(slots, i, log[i])
         /\ RunEffects(FetchesOnReceived(slots, i, log[i]),
                       connection = "connected", connection)
  /\ inbox' = Tail(inbox)
  /\ UNCHANGED <<gateway, failedAt>>

\* receiveEntry throws before it touches the state.
HandleMalformed ==
  /\ NextMessage("entry")
  /\ log[Head(inbox).index] \notin Valid
  /\ inbox' = Tail(inbox)
  /\ connection' = "error"
  /\ UNCHANGED <<gateway, slots, plan, resume, failedAt>>

\* The positions a response to a fetch holds: AppendLog::slice, with the limit
\* the endpoint allows.
Smaller(a, b) == IF a <= b THEN a ELSE b
PageOf(f) ==
  f.from .. Smaller(f.from + Smaller(f.limit, ServerLimit) - 1, Len(log))

\* The slots after applyEntry of each entry of a page.  A page never reaches
\* beyond the slots it was planned for, so none of them plans a fetch.
WithPage(positions) ==
  [i \in DOMAIN slots |->
     IF i \in positions /\ slots[i] = Requested /\ log[i] \in Valid
     THEN log[i] ELSE slots[i]]

\* fetchMissing: the page is applied in one go, then the next fetch starts or
\* the task ends.
PageArrives ==
  /\ plan # {}
  /\ LET f == NextFetch(plan)
         malformed == \E i \in PageOf(f) : log[i] \notin Valid
     IN  /\ slots' = WithPage(PageOf(f))
         /\ RunEffects(plan \ {f}, resume,
                       IF malformed THEN "error" ELSE connection)
  /\ UNCHANGED <<gateway, inbox, failedAt>>

\* The request fails or answers an error: the rest of the task is abandoned.
FetchFails ==
  /\ plan # {}
  /\ plan' = {}
  /\ connection' = "error"
  /\ failedAt' = Len(slots)
  /\ UNCHANGED <<gateway, inbox, slots, resume>>

HandleMessage == HandleSubscribed \/ HandleEntry \/ HandleMalformed

Next ==
  \/ \E entry \in Payload : EntryAppended(entry)
  \/ Subscribe
  \/ \E i \in Position : Deliver(i)
  \/ \E how \in Closings : Close(how)
  \/ HandleMessage
  \/ PageArrives
  \/ FetchFails

Spec == Init /\ [][Next]_vars

\* Tasks of the gateway and of the page run, a request is answered or fails.
FairSpec ==
  /\ Spec
  /\ \A i \in Position : WF_vars(Deliver(i))
  /\ WF_vars(HandleMessage)
  /\ WF_vars(PageArrives)

-----------------------------------------------------------------------------
Fetch == [from : Position, limit : 1 .. PageLimit]
TypeOK ==
  /\ log \in Seq(Payload) /\ Len(log) <= MaxEntries
  /\ notifying \subseteq Position
  /\ socket \in {"connecting", "open", "closed"}
  /\ inbox \in Seq(Message)
  /\ slots \in Seq(Valid \union {Requested}) /\ Len(slots) <= Len(log)
  /\ plan \subseteq Fetch
  /\ resume \in BOOLEAN
  /\ connection \in
       {"connecting", "syncing", "connected", "disconnected", "error"}
  /\ failedAt \in 0 .. MaxEntries

\* What the viewer shows is a prefix of the log that only grows, whatever the
\* order entries and pages arrive in, whatever fails: the coordinator, the
\* page and the gateway together implement the committed log.
Committed_Log == INSTANCE CommittedLog WITH prefix <- CommittedPrefix(slots)
ImplementsCommittedLog == Committed_Log!Spec

\* "connected" is shown only when no entry the viewer knows of is missing,
\* entries that do not decode apart: handleSubscribed and runEffects set it
\* back only when every fetch of the task is done.
ConnectedMeansSynced ==
  connection = "connected" =>
    \A i \in Missing(slots) : log[i] \notin Valid

\* An entry of the log, and what precedes it, reaches the committed prefix,
\* whatever the races of Subscribed, notifications and pages.  The exceptions
\* are a lost socket and a failed fetch after which no new entry arrived: the
\* first new one plans every gap again.
DecodesUpTo(n) == n <= Len(log) /\ \A i \in 1 .. n : log[i] \in Valid
AwaitsNewEntry == failedAt # 0 /\ failedAt = Len(slots)
CatchesUp ==
  \A n \in Position :
    (socket = "open" /\ DecodesUpTo(n))
      ~> (n \in Committed(slots) \/ socket = "closed" \/ AwaitsNewEntry)

=============================================================================
