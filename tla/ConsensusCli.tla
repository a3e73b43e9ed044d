---------------------------- MODULE ConsensusCli ----------------------------
(***************************************************************************)
(* The terminal client of a consensus session: the application (a loop     *)
(* that takes a line or a session event, and runs what follows to its end),*)
(* its entry buffer with the submission on its way, the session task that  *)
(* owns the websocket and reconnects it, the two channels between them,    *)
(* and the session's log in the gateway.                                   *)
(*                                                                         *)
(* The engine is the sequence of entries it has been given (Deliberation   *)
(* has the rest).  A draft is a claim, a link that refers to the claim     *)
(* drafted before it, or a stance, whose entry any other stance equals.    *)
(***************************************************************************)
EXTENDS Integers, SequencesExt

CONSTANTS
  DraftKinds,     \* kinds of draft the participant makes
  EventBuffer,    \* EVENT_BUFFER
  PageLimit,      \* ENTRY_PAGE_LIMIT
  MaxOthers,      \* bound: entries of other participants
  MaxDrafts,      \* bound: drafts made
  MaxDisconnects  \* bound: lost connections

ASSUME LimitsAssumption ==
  /\ DraftKinds \subseteq {"claim", "link", "stance"}
  /\ {EventBuffer, PageLimit} \subseteq Nat \ {0}
  /\ {MaxOthers, MaxDrafts, MaxDisconnects} \subseteq Nat

VARIABLES
  log,          \* the session's entries in the gateway
  up,           \* appends on the current connection, in order
  late,         \* appends of lost connections that may still be read
  down          \* positions notified and not yet arrived, in no order
VARIABLES
  task,         \* connected, blocked (with an entry, on a full channel),
                \* report, connecting, announce, sleeping
  hand,         \* position of the entry it is blocked with
  cmd,          \* the command channel: the payload to append, or Nothing
  reply,        \* its reply: none, ok, disconnected
  events        \* the event channel
VARIABLES
  applied,      \* entries given to the engine; next_index is their number
  buffered,     \* buffered_entries: by position
  pending,      \* pending_submission
  drafts,       \* the engine's drafts
  connected,
  asked,        \* confirmation is Some(Submit)
  pc,           \* what the application does: idle, catch_up, drain, resume,
                \* append (waits for the reply), echo, stopped
  after,        \* where a catch-up returns to
  waiting_for
VARIABLES
  made,         \* history variable: drafts ever made
  disconnects,  \* history variable: connections lost
  silent        \* history variable: a Reconnected was drained, with no fetch
                \* to its end since
gateway == <<log, up, late, down>>
session == <<task, hand, cmd, reply, events>>
buffer == <<applied, buffered, pending, drafts>>
app == <<connected, asked, pc, after, waiting_for>>
history == <<made, disconnects, silent>>
vars == <<gateway, session, buffer, app, history>>

Nothing == << >>
None == [payloads |-> << >>, next_entry |-> 0]
EntryEvent(i) == [type |-> "entry", index |-> i]
Disconnected == [type |-> "disconnected"]
Reconnected == [type |-> "reconnected"]

OthersPayload == <<"other">>
Stance == <<"stance">>
\* What a draft becomes: claims and links have an id of their own in them.
PayloadOf(draft) == IF draft.kind = "stance" THEN Stance ELSE <<draft.kind, draft.id>>

\* A program that has joined a session.
Joined ==
  /\ log \in {<< >>, <<OthersPayload>>}
  /\ up = << >> /\ late = << >> /\ down = {}
  /\ task = "connected" /\ hand = 0 /\ cmd = Nothing /\ reply = "none" /\ events = << >>
  /\ disconnects = 0

InitiallyIn(start) ==
  /\ Joined
  /\ applied = << >> /\ buffered = {} /\ pending = None /\ drafts = << >>
  /\ connected = TRUE /\ asked = FALSE
  /\ pc = start /\ after = "idle" /\ waiting_for = 0
  /\ made = 0 /\ silent = FALSE

Init == InitiallyIn("catch_up")

-----------------------------------------------------------------------------
(* The gateway and the network *)

\* Notified to the client while its subscription is there.
Subscribed == task \in {"connected", "blocked", "announce"}
Committed(payload) ==
  /\ log' = Append(log, payload)
  /\ down' = IF Subscribed THEN down \union {Len(log) + 1} ELSE down

OthersAppend ==
  /\ Cardinality({i \in DOMAIN log : log[i] = OthersPayload}) < MaxOthers
  /\ Committed(OthersPayload)
  /\ UNCHANGED <<up, late, session, buffer, app, history>>

AppendArrives ==
  /\ up # << >>
  /\ Committed(Head(up)) /\ up' = Tail(up)
  /\ UNCHANGED <<late, session, buffer, app, history>>

LateAppendArrives ==
  /\ late # << >>
  /\ Committed(Head(late)) /\ late' = Tail(late)
  /\ UNCHANGED <<up, session, buffer, app, history>>

LateAppendsLost ==
  /\ late # << >> /\ late' = << >>
  /\ UNCHANGED <<log, up, down, session, buffer, app, history>>

\* The websocket fails or closes, or the gateway has removed the subscriber.
ConnectionLost ==
  /\ task = "connected" /\ disconnects < MaxDisconnects
  /\ task' = "report"
  /\ late' = late \o up /\ up' = << >> /\ down' = {}
  /\ disconnects' = disconnects + 1
  /\ UNCHANGED <<log, hand, cmd, reply, events, buffer, app, made, silent>>

-----------------------------------------------------------------------------
(* The session task.  It waits where the event channel is full. *)

Emit(event) ==
  /\ Len(events) < EventBuffer
  /\ events' = Append(events, event)

\* connected_loop, a frame
EntryArrives(i) ==
  /\ task = "connected" /\ i \in down
  /\ down' = down \ {i}
  /\ \/ Emit(EntryEvent(i)) /\ UNCHANGED <<task, hand>>
     \/ Len(events) = EventBuffer /\ task' = "blocked" /\ hand' = i /\ UNCHANGED events
  /\ UNCHANGED <<log, up, late, cmd, reply, buffer, app, history>>

Unblocked ==
  /\ task = "blocked" /\ Emit(EntryEvent(hand))
  /\ task' = "connected" /\ hand' = 0
  /\ UNCHANGED <<gateway, cmd, reply, buffer, app, history>>

\* connected_loop, a command: the reply says that the socket took it.
CommandSent ==
  /\ task = "connected" /\ cmd # Nothing
  /\ up' = Append(up, cmd)
  /\ cmd' = Nothing /\ reply' = "ok"
  /\ UNCHANGED <<log, late, down, task, hand, events, buffer, app, history>>

\* The socket fails under the command; its frame may be out all the same.
CommandFails ==
  /\ task = "connected" /\ cmd # Nothing /\ disconnects < MaxDisconnects
  /\ cmd' = Nothing /\ reply' = "disconnected" /\ task' = "report"
  /\ late' \in {late \o up, late \o Append(up, cmd)} /\ up' = << >> /\ down' = {}
  /\ disconnects' = disconnects + 1
  /\ UNCHANGED <<log, hand, events, buffer, app, made, silent>>

LossReported ==
  /\ task = "report" /\ Emit(Disconnected)
  /\ task' = "connecting"
  /\ UNCHANGED <<gateway, hand, cmd, reply, buffer, app, history>>

\* reconnect: a command that comes meanwhile stays in the channel.
ReconnectSucceeds ==
  /\ task = "connecting" /\ task' = "announce"
  /\ UNCHANGED <<gateway, hand, cmd, reply, events, buffer, app, history>>

\* The loss has been reported by now.
ReconnectFails ==
  /\ task = "connecting" /\ task' = "sleeping"
  /\ UNCHANGED <<gateway, hand, cmd, reply, events, buffer, app, history>>

BackoffEnds ==
  /\ task = "sleeping" /\ task' = "connecting"
  /\ UNCHANGED <<gateway, hand, cmd, reply, events, buffer, app, history>>

CommandRefused ==
  /\ task = "sleeping" /\ cmd # Nothing
  /\ cmd' = Nothing /\ reply' = "disconnected"
  /\ UNCHANGED <<gateway, task, hand, events, buffer, app, history>>

ReconnectAnnounced ==
  /\ task = "announce" /\ Emit(Reconnected)
  /\ task' = "connected"
  /\ UNCHANGED <<gateway, hand, cmd, reply, buffer, app, history>>

-----------------------------------------------------------------------------
(* The entry buffer *)

\* Mutant of Noted: the echo of an entry is any entry.
NotedAny(sub, payload) ==
  IF sub # None /\ sub.next_entry < Len(sub.payloads)
    THEN [sub EXCEPT !.next_entry = @ + 1] ELSE sub

\* note_submission_payload
Noted(sub, payload) ==
  IF /\ sub # None /\ sub.next_entry < Len(sub.payloads)
     /\ sub.payloads[sub.next_entry + 1] = payload
    THEN [sub EXCEPT !.next_entry = @ + 1] ELSE sub

\* Mutant of Contiguous: an entry that comes early is applied at once.
ContiguousOrNot(I) == I \ DOMAIN applied

\* What entries at positions I make contiguous, with those buffered.
Contiguous(I) ==
  {j \in Len(applied) + 1 .. Len(log) : Len(applied) + 1 .. j \subseteq buffered \union I}

\* What entries in order leave of the submission.
NotedAll(sub, entries) ==
  LET noted[k \in 0 .. Len(entries)] == IF k = 0 THEN sub ELSE Noted(noted[k - 1], entries[k])
  IN noted[Len(entries)]

\* apply_or_buffer_entry, of entries in order: entries that are known already
\* are dropped, early ones kept, the others applied with all they make
\* contiguous.
Learned(I) ==
  LET run == Contiguous(I)
      payloads == IF run = {} THEN << >> ELSE SubSeq(log, Min(run), Max(run))
  IN [applied |-> applied \o payloads,
      buffered |-> (buffered \union I) \ (DOMAIN applied \union run),
      pending |-> NotedAll(pending, payloads)]

ApplyOrBuffer(I) ==
  LET learned == Learned(I)
  IN /\ applied' = learned.applied
     /\ buffered' = learned.buffered
     /\ pending' = learned.pending

\* is_submission_complete
Complete(sub) == sub # None /\ sub.next_entry >= Len(sub.payloads)

\* What is left of drafts removed in order: a claim that a later one refers to
\* cannot go, and with the error the removal ends.
Removed(ds) ==
  LET referredTo == {ds[k].to : k \in {j \in DOMAIN ds : ds[j].kind = "link"}}
  IN SelectSeq(ds, LAMBDA d : \E to \in referredTo : d.id >= to)

\* After entries: finish_submission, if all of the submission has come back.
\* It takes the submission, then removes the drafts; the error ends the client.
Settle(sub, next) ==
  IF Complete(sub)
    THEN /\ pending' = None
         /\ drafts' = Removed(drafts)
         /\ pc' = IF drafts' = << >> THEN next ELSE "stopped"
    ELSE pending' = sub /\ pc' = next /\ UNCHANGED drafts

-----------------------------------------------------------------------------
(* The application *)

\* catch_up, a page
PageFetched ==
  /\ pc = "catch_up"
  /\ Len(applied) < Len(log)
  /\ ApplyOrBuffer(Len(applied) + 1 .. (IF Len(applied) + PageLimit < Len(log)
                                          THEN Len(applied) + PageLimit ELSE Len(log)))
  /\ UNCHANGED <<gateway, session, drafts, app, history>>

\* Mutant of FetchedAll: a page ends the catch-up.
FetchedAPage ==
  /\ pc = "catch_up" /\ (Len(applied) >= Len(log) \/ Len(applied) >= PageLimit)
  /\ pc' = "drain" /\ silent' = FALSE
  /\ UNCHANGED <<gateway, session, buffer, connected, asked, after, waiting_for,
                 made, disconnects>>

\* The empty page.
FetchedAll ==
  /\ pc = "catch_up" /\ Len(applied) >= Len(log)
  /\ pc' = "drain" /\ silent' = FALSE
  /\ UNCHANGED <<gateway, session, buffer, connected, asked, after, waiting_for,
                 made, disconnects>>

\* The session is gone, or the request fails: the client ends.
FetchFails ==
  /\ pc = "catch_up" /\ pc' = "stopped"
  /\ UNCHANGED <<gateway, session, buffer, connected, asked, after, waiting_for, history>>

\* drain_queued_session_events, one of them
Drain ==
  /\ pc = "drain" /\ events # << >>
  /\ events' = Tail(events)
  /\ LET event == Head(events)
     IN /\ IF event.type = "entry"
           THEN ApplyOrBuffer({event.index}) /\ UNCHANGED <<connected, silent>>
           ELSE /\ connected' = (event = Reconnected)
                /\ silent' = (silent \/ event = Reconnected)
                /\ UNCHANGED <<applied, buffered, pending>>
  /\ UNCHANGED <<gateway, task, hand, cmd, reply, drafts, asked, pc, after, waiting_for,
                 made, disconnects>>

\* The wait for an echo ends on a lost connection.
Drained ==
  /\ pc = "drain" /\ events = << >>
  /\ Settle(pending, IF after = "echo" /\ ~connected THEN "idle" ELSE after)
  /\ after' = "idle"
  /\ waiting_for' = IF pc' = "echo" THEN waiting_for ELSE 0
  /\ UNCHANGED <<gateway, session, applied, buffered, connected, asked, history>>

\* resume_pending_submission; a complete submission has been finished by now.
ResumeEnds ==
  /\ pc = "resume" /\ (pending = None \/ ~connected)
  /\ pc' = "idle"
  /\ UNCHANGED <<gateway, session, buffer, connected, asked, after, waiting_for, history>>

ResumeSends ==
  /\ pc = "resume" /\ pending # None /\ connected
  /\ cmd' = pending.payloads[pending.next_entry + 1]
  /\ waiting_for' = pending.next_entry
  /\ pc' = "append"
  /\ UNCHANGED <<gateway, task, hand, reply, events, buffer, connected, asked, after,
                 history>>

Replied ==
  /\ pc = "append" /\ reply # "none"
  /\ reply' = "none"
  /\ IF reply = "ok" THEN pc' = "echo" /\ UNCHANGED connected
     ELSE pc' = "idle" /\ connected' = FALSE
  /\ waiting_for' = IF pc' = "echo" THEN waiting_for ELSE 0
  /\ UNCHANGED <<gateway, task, hand, cmd, events, buffer, asked, after, history>>

Echoed == pending # None /\ pending.next_entry > waiting_for
EchoSeen ==
  /\ pc = "echo" /\ Echoed
  /\ pc' = "resume" /\ waiting_for' = 0
  /\ UNCHANGED <<gateway, session, buffer, connected, asked, after, history>>

\* run and the wait for the echo both take the next event.
TakeEvent(type) ==
  /\ (pc = "idle" \/ (pc = "echo" /\ ~Echoed))
  /\ events # << >> /\ Head(events).type = type
  /\ events' = Tail(events)
  /\ UNCHANGED <<gateway, task, hand, cmd, reply, asked, made, disconnects>>

HandleEntry ==
  /\ TakeEvent("entry")
  /\ LET learned == Learned({Head(events).index})
     IN /\ applied' = learned.applied /\ buffered' = learned.buffered
        /\ Settle(learned.pending, pc)
  /\ UNCHANGED <<connected, after, waiting_for, silent>>

HandleDisconnected ==
  /\ TakeEvent("disconnected")
  /\ connected' = FALSE /\ pc' = "idle" /\ waiting_for' = 0
  /\ UNCHANGED <<buffer, after, silent>>

\* Mutant of ResumesAfter: what was on its way is not resumed.
NothingResumed == IF pc = "idle" THEN "idle" ELSE "echo"
ResumesAfter == IF pc = "idle" THEN "resume" ELSE "echo"

HandleReconnected ==
  /\ TakeEvent("reconnected")
  /\ connected' = TRUE
  /\ pc' = "catch_up" /\ after' = ResumesAfter
  /\ UNCHANGED <<buffer, waiting_for, silent>>

-----------------------------------------------------------------------------
(* The participant *)

\* A turn with the model makes a draft; handle_input holds it back while a
\* submission is on its way or the session is disconnected.
MakeDraft(kind) ==
  /\ pc = "idle" /\ ~asked /\ pending = None /\ connected
  /\ made < MaxDrafts /\ made' = made + 1
  /\ LET claims == {i \in DOMAIN drafts : drafts[i].kind = "claim"}
     IN /\ kind = "link" => claims # {}
        /\ drafts' = Append(drafts, [kind |-> kind, id |-> made,
             to |-> IF kind = "link" THEN drafts[Max(claims)].id ELSE made])
  /\ UNCHANGED <<gateway, session, applied, buffered, pending, app, disconnects, silent>>

\* /submit asks first; so does /clear, with nothing to go wrong in between.
AskSubmit ==
  /\ pc = "idle" /\ ~asked /\ pending = None /\ drafts # << >> /\ connected
  /\ asked' = TRUE
  /\ UNCHANGED <<gateway, session, buffer, connected, pc, after, waiting_for, history>>

Cancel ==
  /\ pc = "idle" /\ asked
  /\ asked' = FALSE
  /\ UNCHANGED <<gateway, session, buffer, connected, pc, after, waiting_for, history>>

Clear ==
  /\ pc = "idle" /\ ~asked /\ pending = None /\ drafts # << >>
  /\ drafts' = << >>
  /\ UNCHANGED <<gateway, session, applied, buffered, pending, app, history>>

\* begin_submission; the connection may have been lost since the question.
ConfirmSubmit ==
  /\ pc = "idle" /\ asked
  /\ asked' = FALSE
  /\ pending' = [payloads |-> [i \in DOMAIN drafts |-> PayloadOf(drafts[i])], next_entry |-> 0]
  /\ pc' = "resume"
  /\ UNCHANGED <<gateway, session, applied, buffered, drafts, connected, after, waiting_for,
                 history>>

-----------------------------------------------------------------------------
TaskStep ==
  \/ CommandSent \/ CommandRefused \/ LossReported \/ BackoffEnds \/ ReconnectAnnounced
  \/ Unblocked
AppStep ==
  \/ PageFetched \/ FetchedAll \/ Drain \/ Drained
  \/ ResumeEnds \/ ResumeSends \/ Replied \/ EchoSeen
  \/ HandleEntry \/ HandleDisconnected \/ HandleReconnected

\* The session: its gateway, the network and the task.
SessionStep ==
  \/ AppendArrives \/ LateAppendArrives \/ TaskStep
  \/ OthersAppend \/ LateAppendsLost \/ ConnectionLost \/ CommandFails
  \/ ReconnectSucceeds \/ ReconnectFails
  \/ \E i \in down : EntryArrives(i)

\* The client's process ends with its application.
Next ==
  /\ pc # "stopped"
  /\ \/ SessionStep \/ AppStep \/ FetchFails
     \/ \E kind \in DraftKinds : MakeDraft(kind)
     \/ AskSubmit \/ Cancel \/ Clear \/ ConfirmSubmit

\* The runtimes run the application, the task and the gateway; frames of an
\* open connection arrive; a network that fails comes back.
Fairness ==
  /\ WF_vars(AppendArrives) /\ WF_vars(TaskStep) /\ WF_vars(AppStep)
  /\ WF_vars(\E i \in down : EntryArrives(i))
  /\ SF_vars(ReconnectSucceeds)

Spec == Init /\ [][Next]_vars /\ Fairness

-----------------------------------------------------------------------------
(* Properties *)

Payloads ==
  {OthersPayload, Stance} \union
  ((DraftKinds \ {"stance"}) \X (0 .. MaxDrafts - 1))

\* What the engine has been given is at every moment a prefix of the session's
\* log, and grows without a hole, a repetition or a change of order, although
\* notifications come in no order, twice (with a page) or not at all.
CL == INSTANCE CommittedLog WITH Payload <- Payloads, prefix <- applied
EngineGetsCommittedLog == [][CL!Next]_<<log, applied>>

\* The submission is over only when the log in front of the engine has all its
\* payloads, in their order: nothing is reported as submitted on the word of
\* the socket, whatever was lost, resumed or seen twice.
InOrder(payloads, entries) ==
  \E at \in [DOMAIN payloads -> DOMAIN entries] :
    /\ \A k \in DOMAIN payloads : entries[at[k]] = payloads[k]
    /\ \A k, l \in DOMAIN payloads : k < l => at[k] < at[l]
SubmittedIsCommitted ==
  [][pending # None /\ pending' = None => InOrder(pending.payloads, applied')]_vars

\* A connected client with nothing left to read has the whole log, unless it
\* has drained a Reconnected without fetching what it missed.
NoGap ==
  /\ pc = "idle" /\ connected /\ ~silent
  /\ task = "connected" /\ events = << >> /\ down = {}
  => applied = log

\* A submission is over when it is completed or the client has stopped.  Two
\* more ways out are the code's own: a drained Reconnected, and an application
\* that waits for the reply of a session task that waits for room in the event
\* channel only the application empties.
Stuck ==
  /\ pc = "append" /\ cmd # Nothing /\ reply = "none"
  /\ task \in {"blocked", "report", "announce"} /\ Len(events) = EventBuffer
SubmissionOver == pending = None \/ pc = "stopped" \/ silent \/ Stuck

\* The documentation of finish_submission: a submission that is complete has
\* its drafts removed.
FinishRemovesDrafts ==
  [][pending # None /\ pending' = None => drafts' = << >>]_vars

=============================================================================
