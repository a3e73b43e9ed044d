# Verification of prosthetic-conscience

TLA+ models, TLC runs and TLAPS proofs kept beside the Rust workspace in `src/`.
Every definition is translated from the source; `PROJECT.json` (`map`) gives, for
each definition, the file and lines it stands for, and `hazards` the lines where
something can go wrong that a test would hardly reach, with the properties about it.

## 1. The system

A gateway connects HTTP clients to inference workers, and lets participants of a
consensus session share an append-only log of claims, stances and relations.  Three
crates: `prosthetic-conscience` (gateway, worker, command line clients), `consensus`
(pure state machines for a participant) and `consensus-wasm` (browser bindings).

| Component | Source | State | Operations |
|---|---|---|---|
| Gateway kernel | `gateway/kernel.rs`, `gateway/session/kernel.rs` | tick, idle workers with deadlines, active streams with deadlines, sessions (log, subscribers with deadlines), session counter | one pure `reduce` over 8 events, 5 session events |
| Runtime | `gateway/runtime.rs`, `gateway/effects/*` | message queue (256), kernel state, registry; effect tasks in flight | one handler per command, `resolve_effects`, `spawn_effects`, tick task |
| Channel registry | `gateway/channel_registry.rs` | worker oneshots, stream senders, subscriber senders | register, take, clone |
| Worker websocket adapter | `router/worker_ws_upgrade.rs`, `gateway/relay.rs` | connection phase, current id, current job, heartbeat timers | register, wait, relay, report, re-register |
| Inference endpoints | `router/chat_completions.rs`, `router/audio_transcriptions.rs` | a channel of 32 or 4 frames | register a stream, request, stream the answer, leave |
| Session adapter | `router/session_ws.rs`, `router/session_entries.rs` | channel of 32, subscriber id, socket | handshake, forward, append, heartbeat, unsubscribe, paged reads |
| Worker client | `worker/client.rs`, `worker/inference.rs`, `worker/whisper.rs`, `bin/pc-worker.rs` | current job | connect with backoff, one job after the other, offer capabilities |
| Session coordinator | `consensus/coordinator.rs` | slots requested or received, page limit | init, sync to latest, receive |
| Entry buffer | `consensus/entry_buffer.rs` | next index, buffered entries, pending submission | apply or buffer, begin, resume and finish a submission |
| Drafts, engine | `consensus/drafts.rs`, `engine.rs`, `preview.rs` | local drafts that refer to each other and to the log | draft, remove, clear, materialize, preview |
| Reducer, solver, status | `consensus/reducer.rs`, `solver.rs`, `status.rs` | claims, relations, stances, labels | replay, attack graph, grounded labelling |
| Tool calls | `consensus/app_tools.rs`, `consensus/tools.rs` | none | decode a call, check its arguments, draft |
| Conversation, LLM turn | `consensus/conversation.rs`, `consensus/llm_turn.rs`, `consensus_cli/llm.rs` | history, rounds | prompt, completion, tool results, truncation, failure |
| Chat client | `bin/pc-client.rs`, `client/tool_loop.rs`, `client/tools/*`, `chat_gateway/gateway_client.rs` | history | one turn with tools at a time |
| Consensus app | `consensus/app.rs`, `consensus-wasm` | conversation, drafts, coordinator | events delegated to them |
| Command line client | `consensus_cli/app.rs`, `consensus_cli/session.rs` | connection flag, event queue, pending submission | submit, resume, catch up, reconnect |
| Seeder | `consensus_cli/seed.rs`, `consensus_support/seed.rs`, `bin/pc-consensus-sim.rs`, `bin/pc-consensus-seed.rs` | payloads, position | load a file, append, verify |
| Evaluation | `consensus_support/eval.rs` | none | run a suite of cases, judge each, report |
| Rendering | `consensus/render.rs`, `consensus/format.rs` | none | overview, details, attention signals |
| Pages | `static/consensus_ui/index.html`, `static/transcribe.html` | connection flag, serial queue; recorder | fetch and apply; record and upload |

How they interact.  Adapters send commands into the runtime's one bounded FIFO and
await a reply.  The loop takes one message at a time, runs the kernel transition and
resolves its effects against the registry; the resolved effects run in a task per
message, concurrently with the loop and with each other, and send into the channels
of streams and subscribers, or back into the queue.  A worker's connection task and
the HTTP task of the stream it serves share only the stream's channel.  A participant
reads the log over a websocket and over HTTP at once, applies each index once, in
order, to its engine, and learns that its own entry was accepted from the echo only.

What is hard about it.  Kernel and registry are updated by different code and must
agree.  An effect is executed after the state it was decided on has moved.  Handlers
disappear at any await (closed sockets, dropped HTTP requests) and mostly tell nobody:
deadlines are the only recovery.  All queues are bounded and block.  The frames of a
job carry no stream id.  Session entries reach a participant out of order and around
reconnects.  Drafts refer to drafts, and the reference must name an id that only the
log gives out.  A turn with a model fails between two of its rounds, or between two
calls of one round, with part of it already in the history.

What correctness means, by component:

* kernel: nothing idle or active is lost, kept or ended twice; deadlines stay in their
  window; every end of a stream is told, error before done; logs only grow; an expired
  session stays expired; a subscriber is never dropped silently;
* runtime: whatever the kernel may dispatch or end has its handle; no job is in two
  hands; no stream is forgotten; every response ends; a subscriber is told every entry
  once, and its handler, its channel and its place in the session end together;
* relay: a client gets its own answer, in order, whole if it ends well, and a worker
  comes back to the pool;
* participant: what is applied is a prefix of the log, once each and in order; a
  submission is echoed, finished once, and control returns to the user;
* argumentation: references never dangle, the preview is what submission would give,
  the labelling is the grounded one whatever the order of nodes;
* turns: calls and results stay paired, every request ends with its prompt, what a tool
  call says is what it does, in both programs that decode it;
* answers: what a user gets is what was answered, or an error, or its beginning; what a
  recording says is the text of that recording.

## 2. Modules

| Module | Models | Uses |
|---|---|---|
| `Maps` | maps keyed by a finite set of present keys | |
| `GatewayKernel` | the reducer, one action per event | `Maps` |
| `JobGateway` | runtime loop, registry, effect tasks, worker connections, HTTP handlers, around the kernel's own actions | `GatewayKernel` |
| `SessionGateway` | the session side of the same loop: handlers, sockets, channels, notifying tasks | `GatewayKernel` |
| `JobRelay` | frames of the jobs of one worker connection, from the worker's socket to the client | |
| `CommittedLog` | abstract: an append-only log and a growing prefix of it | |
| `Coordinator` | the pure coordinator: slots, planned fetches, committed prefix | |
| `SessionSync` | a browser viewer around it: notifications, socket, page, fetches | `Coordinator`, instance of `CommittedLog` |
| `ConsensusCli` | the terminal client: entry buffer, session task, application loop, over the log and a connection that fails | instance of `CommittedLog` |
| `Seeding` | the seeder, on the same task and channels | `ConsensusCli` |
| `Argumentation` | engine, drafts, reducer, attack graph, solver, status, preview, rendering, as operators | `Maps` |
| `Deliberation` | one participant who drafts, removes, submits and queries while others append | `Argumentation` |
| `ToolCalls` | tool calls from their JSON to the drafts they leave, in both decoders | `Deliberation` |
| `Prompt` | what a model is told: the system prompt, the tools, and the names in the answers of each | `ToolCalls` |
| `Evaluation` | the evaluation of a model's tool calls: turns in full, the verdict on each, the report | `Prompt` |
| `Turns` | a conversation with the model in the browser, in the terminal or in the chat client | |
| `AnswerStream` | the body of an answer, from the inference server's pieces to the assembled message | `Turns` |
| `Transcription` | a recording from its form to the text in the response | `AnswerStream` |
| `PushToTalk` | the transcription page: keys, recorder, uploads | `Transcription` |
| `ClientTools` | the chat client's registry of tools and what they return | `AnswerStream` |
| `WorkerOffer` | what a worker offers in its URL and what the gateway reads there | `AnswerStream` |
| `Answers` | these together | `PushToTalk`, `ClientTools`, `WorkerOffer` |
| `*Proofs` | theorems about the module they are named after; `DeliberationProofs` has those of `ToolCalls` and `Evaluation`, `ConsensusCliProofs` those of `Seeding`, `TurnsProofs` those of `Transcription`, `PushToTalk`, `ClientTools` and `WorkerOffer` | that module, TLAPS |
| `MC*` | constants for TLC | the module they check |

`GatewayKernel`.  `tick`, `session_counter`, `available`, `active_streams` and
`sessions` are the fields of `GatewayState`; `effects` is what the last transition
returned, in order.  An effect that a loop produces in map order is one record over the
set of keys.  `stream`, `capability` and ids are the inputs; payloads are elements of
`Payload`.  Session ids are the counter value they are hashed from.

`JobGateway` uses the kernel's actions as they are: `ProcessChat` is `HttpChatRequested`
of the kernel followed, in the same step, by `ResolveEffects` against `workers` and
`streams` (the registry).  What is left to execute goes into `tasks`; `ExecuteEffect`
runs one effect of any task.  `conn` is where each websocket handler is in its loop
(`registering`, `waiting`, `relaying`, `ended`, `gone`), `client` where each HTTP handler
is.  A stream's content is abstracted to whether some sender of its channel is alive.

`SessionGateway` does the same for sessions.  `handler` says where each websocket handler
is: its handshake (create or subscribe, answered by a reply channel), its loop (forward,
append, heartbeat between two sends), its cleanup.  `chan` is the channel the registry's
sender fills, `wire` what the socket was given; `registered` the registry, `queue` the
loop's messages.  `tasks` are the notifying sends, which wait where a channel is full.

`JobRelay` is the other half of a job: one worker connection, several clients one after
the other, with the frames.  The kernel is reduced to what a relay sees of it, the ticks
a stream has `remaining`; `channel`, `wire` and `relay.frame` are the three places a
frame can be; `work` is what the worker has been sent.  `received` and `renewed` are
history, kept only when `Recording` is TRUE, and of clients that are still there.

`SessionSync` follows one entry from `EntryAppended` in the kernel to the coordinator's
committed prefix.  `notifying` is the set of notification tasks, `inbox` the promise
chain of the page, `plan` the fetches the running task still has to do; the entries of a
page are applied in one step because nothing else can run in between.  Positions count
from 1, so that a `latest_entry_index` of `None` is 0.  A payload outside `Valid` is one
the gateway stores and the wasm handle refuses.  `failedAt` is history.

`ConsensusCli`.  The application's loop (`pc`, `after`, `waiting_for`) and the session task
(`task`, `hand`) are two processes with a command channel (`cmd`, `reply`), an event
channel (`events`) of `EventBuffer` places, and a connection between them and the log.
`up` holds the appends of the current connection; `late` those of lost connections, which
may still be read or not; `down` the positions notified and not yet arrived, in any order.
The entry buffer is `applied`, `buffered` and `pending`; a submission is begun, resumed
after a reconnect and finished by the code's own conditions.

`Seeding` is the other program on that task and those channels: it reads a file, appends
entry after entry, each when the echo of the last has come, and compares what the session
has.  Its `SeedingSpec` begins as the terminal client or as a seeder, and is what the
`client` run checks.

`Argumentation` is pure.  Drafts are numbered as they come and refer to a claim of the log
or to an earlier draft.  The solver's passes are a fold over the nodes; the labelling it
must reach is defined apart from it, as the least complete one.

`Deliberation` runs a query node by node, in an order the hash map chooses (`order`,
`labels`, `at`, `changed`), and has the draft tools of the engine beside the draft events of
the page, which take the same drafts by different code.  `ToolCalls` has a call as a
record of JSON kinds per argument, so that a missing argument, a wrong type and a wrong
value are three cases, as they are in the code, and compares what every call comes to in
the two programs.  The schemas are those the two programs advertise, where the number of a
draft may be any JSON number and a reference any string; `Advertised` says of every call that
keeps to them that it is decoded exactly if it is `Readable` too.  `Prompt` has what the programs tell the model as sections of lines, and of
each line what it says: the claim it names and how the name is written (bare, after
"claim:", after "draft:"), a status, a count, what has changed; words and bodies are left
out.  What a name means when the model writes it back is what `ToolCalls` reads in it, so that
a name shown and not understood is an error of the model.  `Evaluation` takes whole turns of the terminal client on the same
buffer: the calls in their JSON, the drafts they leave, the confirmation that ends the
turn, the verdict by each expectation, and the report that counts them.

`Turns`: `host` is which of the three programs it is.  A message is its role and, for an
assistant, how many calls it makes; the chat client's history may begin with a system message.  Truncation, the limit of rounds and the failure
paths are those of each program.  The browser may have several completions on their way.

`AnswerStream` has a body as a sequence of symbols, small enough to be cut anywhere, also
inside a line, inside "data:" and inside a character of two bytes; both readers (worker and
client) and the assembler are functions of the pieces.  `Transcription`, `ClientTools`
and `WorkerOffer` are functions too, checked on every input of small sets.  `PushToTalk`
is a state machine again: the script's variables, the browser's recorder, and the task in
which a stopped recorder hands over what it has.

## 3. What is checked

Runs that pass:

| Run | Question | Instance | States |
|---|---|---|---|
| `kernel` | pool, streams, deadlines, sessions, logs and subscribers under every order of events | 1 worker, 2 streams, 2 capabilities, 1 session, 2 subscribers, logs up to 2 entries, times to live 1 and 2 | 26,000 |
| `jobs_safety` | kernel, registry and handlers agree; no job in two hands; no stream forgotten | 2 connections, 4 worker ids, 2 streams, queue of 2 | 1.0 million |
| `jobs_liveness` | every response ends | 1 connection, 3 ids, 2 streams, queue of 1 | 54,000 |
| `relay_sharing` | what two answers through one worker can do to each other; order, completeness, heartbeats | 2 streams, 2 chunks, channels of 1 frame | 1.4 million |
| `relay_liveness` | responses end and the worker comes back | 2 streams, 1 chunk | 62,000 |
| `sync` | a viewer implements the committed log, shows "connected" only without gaps, and catches up | logs up to 4 of 3 payloads, pages of 2 | 92,000 |
| `client` | a terminal client applies the log, submits across lost connections and gives control back; a seeder puts its file into the session | a claim and a stance, another participant's entry, 2 lost connections, pages of 1, 2 events, an endpoint limit of 2 | 358,000 |
| `sessions` | handlers, channels and subscriptions stay together; each entry is told once | 2 subscribers, 1 session, logs of 2, all channels of 1 | 171,000 |
| `deliberation` | references, what a model is shown, labelling, repeated entries, both decoders, confirmations, the evaluation's report | 5 entries and drafts together, 3 nodes; 403 calls on every buffer; 176 turns | 1.2 million |
| `turns` | pairing and truncation in three programs; bodies of answers, forms of recordings, the page, tools, offers | 4 messages kept, 2 rounds, 4 prompts, 2 calls a completion; 4 parts a form, 4 presses | 133,000 |

What the properties say, and of which code, is in the comment above each definition.

Two runs exhibit a disagreement between the code and what the repository says of it
(`findings` quotes the lines):

| Run | What is said | What happens |
|---|---|---|
| `relay_mixes` | no cross-stream contamination | the rest of an abandoned answer goes to the worker's next client, and then chains on |
| `client_finish` | finishing a submission removes the drafts it submitted | with a draft that refers to another, the removal of the first is refused and `finish_submission` fails |

### Other disagreements met while modelling

They have no run of their own; each is behaviour the models contain.

* Gateway.  The registry entry of a worker that left while idle stays for ever
  (`runtime.rs:361`; `core-logic-invariants.md:160` says stale entries heal), and so does
  the sender of a stream that was registered and never requested (`runtime.rs:424`).
  A timeout does not stop the relay, which holds its own sender (`relay.rs:90`;
  `core-logic-invariants.md:106`).  The relay's own timer keeps a hung worker's stream
  alive (`relay.rs:69`; `streaming-behavior.md:16`).  A successful answer carries `[DONE]`
  twice, from the relay and from `SendClientDone` (`core-logic-invariants.md:95`).  After
  `ClientGone` a worker holds two jobs at once (`worker-routing-behavior.md:23`).
* Browser.  The end of a sync shows "connected" over a socket that has closed in between
  (`index.html:692`).  An entry that does not decode stays a hole of the coordinator for
  ever, where LG7 of `session-coordinator-behavior.md` wants it to consume its index.
* Terminal client.  A submission whose last echo arrives through the live path leaves
  `resume_pending_submission` waiting until the next disconnect (`app.rs:358`).  A
  `Reconnected` drained during a catch-up sets the flag without the resync
  (`app.rs:433`; `silent`).  With a full event channel the application waits for the reply
  to its append while the session task waits for room in the channel (`Stuck`).  A resumed
  payload may already be in the log: it is then there twice.
* Seeder.  A `Disconnected` and `Reconnected` that are read late make it append an entry
  twice and then fail on the comparison.  More than 1000 entries always fail it: the
  endpoint gives no more at a time (`MAX_LIMIT`).  What `pc-consensus-sim` writes as
  jsonl it cannot read.  Its `about` says "Create a consensus session"; it only joins one.
* Turns.  `handle_input` drops the last message when a later round fails, which may be
  the result of a call (`todo-near-term.md:88` asks that pairs be preserved; the comment
  of `pc-client.rs:127` says it removes the user's message).  `llm_turn.rs:298` speaks of
  at most `max` messages; truncation keeps a whole turn.  Dispatch accepts
  `submit_drafts` and `clear_drafts`, which are hidden from the model
  (`todo-near-term.md:65`); a confirmation after the second tells of what is gone.
* Tool calls.  `remove_draft`'s schema says "number" (`tools.rs:336`, `app_tools.rs:207`),
  both decoders want a non-negative integer: they refuse -1 and 1.5, and the reference
  "draft:x", all of which keep to their schemas (`Readable` in `Advertised`).  The terminal's decoder reports an argument of the wrong type as missing.  A
  confirmation calls a reference in its object form with the prefix "claim:" "that idea".
* Prompt.  A preview calls the claim of a draft "draft-0", an id that no tool knows (the
  drafts themselves are shown as "draft:0").  The system prompt asks for "claim:<id>" in
  the arguments of tools, and `claim_detail` takes the bare id only.  A stance is shown as
  "stand-aside" and taken as "stand_aside".  The terminal puts the text of an error into
  JSON without escaping it.
* Evaluation (`docs/tool-calling-eval-methodology.md`).  The match of arguments and the
  match of outcomes know different spellings of a reference (`#0` and `draft:0`, `claim:x`
  and `x`), so that a run may have the outcome and not the argument.  Needles are
  taken as they are while texts are normalised.  A turn that failed counts as an outcome
  met where plain text without needles was expected.  Two cases of one id, or a setting
  given twice, come out as one line with the runs of both (`eval.rs:669`).  One case with a checkpoint beyond
  its scenario discards the runs before it.  The suite
  `fixtures/tool-call-eval/authentication-tool-reliability.json` names an expectation,
  `no_structured_action`, that the code has no variant for.
* Answers.  Both readers of an event stream take a body that ends without `[DONE]`, at
  the end of a line, for complete, and decode every piece by itself, so that a character
  cut in two is replaced.  An error's body is passed on as it is, also where the model's
  name is overridden.  Two tool calls without an index are joined to one.  A
  `response_format` of `text` or `srt` gives an answer that is not JSON and becomes an
  error 500; a temperature of NaN is dropped; a form that breaks off loses the fields
  behind without an error.
* Tools of the chat client.  A command that has timed out goes on, where the comment says
  that it is killed (`shell.rs:92`).
* Transcription page.  A key pressed between the recorder's stop and its `onstop` leads
  to two uploads at once, and the first that ends clears `sending`.  In a browser without
  `MediaRecorder` `recording` stays set.
* Worker.  A gateway URL with a `capabilities` of its own overrides the worker's offer.

### Bounds

`MaxTick` bounds the clock, and `WithinHorizon`, `TickAtArrival` and `InHorizon` keep out
events whose deadline would lie beyond it, so that the end of the clock never keeps
something alive: every deadline that is set can be reached.  `QueueCap` is 256 in the
code; 1 and 2 make senders wait, which 256 would never do on a small instance.  The same
holds for `ChanCap` (32 in the code, 1 here), `EventBuffer` (256, 2 here), `ChannelCap` and
`WireCap`: every queue fills.  Worker ids are fresh UUIDs: the runs have one more than
registrations can use before the interesting states.  In `JobRelay` the clock is the time
left of each stream and needs no bound.  In `SessionSync` four entries and pages of two
give gaps of one, two and more pages, before and after a failure.  `MaxDisconnects` of 2
lets a connection be lost while the recovery from the first loss is under way.
`MaxHistory` of 4 is below the length of a turn with two rounds, so that truncation cuts
inside and between turns.  `MaxNodes` of 3 has odd and even cycles, chains and
self-defence; the proof covers larger graphs.  `MaxPresses` of 4 has a recording, its
upload, and two more while it is on its way.  `MaxParts` of 4 has a form with a field
twice.  The bodies in `AnswerStream` (`Streamed`, `BodyForms`) are short, but cut at every
place.  `ToolCalls`, `Evaluation` and the functions over `AnswerStream` are evaluated in one
state each stands for: every buffer, every answer awaited.

### Fairness

The loop, the tasks and the connection tasks are scheduled by tokio (weak fairness).
A send into a bounded channel is served in the order of the waiters, so it is strongly
fair.  The tick task does not wait, `try_send` skips a tick: strong fairness says that
not every tick finds the channel full, which is what the code relies on.  That a job
comes to an outcome is assumed in `jobs_liveness` (the third divergence of the gateway
above is what happens without).  Clients are never obliged to act, except that one that
is sent to either reads or fails.  In `SessionSync` tasks and the page run, and a request
is answered or fails; failures, removals and closed sockets may happen at any time and
never have to.  In `ConsensusCli` the application, the task, and the arrival of an append
and of an entry are weakly fair, and a reconnect that is tried again and again succeeds
(strong fairness of `ReconnectSucceeds`); `UploadsEnd` names, as its
exceptions, the waits described above (`Stuck`, `SeederStuck`, `silent`).  The seeder's own
loop is weakly fair too.

The deadlock check is off where the system may really stop: a session nobody appends
to, a page without a socket, a gateway without clients, a conversation nobody continues.
It is on for `kernel`, `relay_*` and `deliberation`.

## 4. What is proved

All theorems hold for every value of the constants, under the named assumptions of the
modules (page limits, capacities and times to live are positive, ids and payloads are
arbitrary sets).  Those of `Deliberation` say that entries and contents have the fields of
their types, as the enums `Entry` and `DraftContent` do, that no claim of the session has an id
that a preview gives to a draft, and that the ids a submission makes are new
(`EntriesAssumption`, `ContentsAssumption`): whoever calls `submission_bundle` makes them.
Those of `Evaluation` say what is given to it: answers are lists of calls,
and a string in them that may be a reference begins with one of the prefixes the code
knows or has none (`AnswersAssumption`); an expectation names parameters of its tool
(`ExpectationsAssumption`, the fields of `ExpectedToolUse`); suites and settings are lists, and
repeats a number (`SuitesAssumption`); and the id of a claim of the scenario is not spelled
like a reference (`ScenarioAssumption`), as an id "claim:x" would be.

`GatewayKernelProofs`.  The invariant is a conjunction per part of the state: types,
deadlines within `tick` and `tick + ttl`, issued session ids below the counter.  Each
event preserves each part.  The window of deadlines needs that `Tick` keeps only what
lies beyond the new tick, which is where an off-by-one would show.  Action properties
follow event by event: `StreamEndsTold`, `SessionNeverRevived` (from the issued ids),
`SubscriberNeverForgotten`, `PoolConserved` and `LogPermanence`.

`JobGatewayProofs`.  That an active stream has its sender, and an idle worker its
oneshot, is not inductive: between the registration and the kernel's event a message
waits in the queue.  `RequestInv` strengthens it: a stream is requested at most once,
by the client that holds its id, after it was registered and before it is active.  With
it `JobInv` is inductive, and the fallback of `resolve_effects` is shown dead code in
this composition.

The second half of the module is about where each id can be.  A connection is offered only
under the id it waits with; its job came from a task that took this id out of the
registry; the task came from the one request of the stream.  From these chains: a job is
in one hand, a busy connection is not offered, a connection is offered once, and every
open response is known to somebody.

`SessionGatewayProofs`.  `SessionInv` joins the kernel's invariant with what handlers add:
a subscriber has its channel (`SubscribersHaveHandles`), a handler asks once (`AskOnce`)
under an id nobody else has (`FreshInv`), is in one session (`OneSession`, `Own`), and
what it was told is settled before it goes on (`Settled`).  `EntriesNotifiedOnce` adds where
the notification of an entry can be: with a task, in the channel, in the handler's hand
(`Handed`) or on the wire.  A task has one send for each of its subscribers (`OneEach`), and
of the entries told so far, those from a subscriber's first one on are in exactly one of
these places, and no other is in any (`DeliveryInv`).

`ConsensusCliProofs`.  `CliInv` has five parts.  `PrefixInv` says that what is applied is the
beginning of the log, and that the entry to apply next is never left in the buffer; it
gives the refinement of `CommittedLog` (`EngineGetsLog`).  `SubmissionInv` says that the part
of a submission that counts as done is, in its order, among the entries applied (`Found`),
from which `SubmittedCommitted` follows.  `CoverInv` says that each entry of the log is applied,
buffered, or in one of the places it passes on its way, unless a fetch that will see it is
still to come or a reconnect was drained (`silent`): `ClientsMissNothing` rests on it.  `SeedInv`
says how far the seeder is in its file, and that what it has counted is in the log, at its
place: `SeedingFaithful`, for files that hold what a session may have
(`FilesAssumption`).

`JobRelayProofs`.  As long as nobody has left, the worker has at most one job, and
the frames of a stream are a run of consecutive numbers through channel, relay and wire,
with the frame that ends the job behind all others; what the client has received
continues that run downwards.  `MixedOnlyAfterLeave`, `ChunksInOrder` and
`DoneMeansComplete` follow.  `MixedOnlyAfterLeave` says "nobody has left" and no more,
because one abandoned answer is enough for every later client to get the frames of the
one before it.  `LiveStreamNotTimedOut` rests on a deadline that stays ahead of the timer.

`SessionSyncProofs`.  `SyncInv` has six parts.  `BootstrapFirst` says that the one
`Subscribed` message is first in the queue, so that re-initialisation discards nothing;
`SlotsMatch` that slots hold entries of the log; both give the refinement of
`CommittedLog`, where every step is a `Commit`, a `Learn` or a stutter.  `Tracked` says
that while the page shows "connected", or is about to, every gap is in the plan: it
rests on `FetchesCover` (pages cover all missing slots, whatever the page limit, by the
least-number principle) and on `PageIsWhole` (the endpoint's limit is not below the page
limit).

`DeliberationProofs`.  `BufferInv` says that ids are handed out in order and never twice,
and that a reference names a claim draft before it: a removal of a draft that is referred
to is refused, so that every reference survives every other removal
(`DraftReferencesResolve`).  `SolverInv` says that each label given so far is forced in every
complete labelling (`Forced`), that it is justified by labels given (`Justified`), and that a
pass which has changed nothing so far has left each node it has visited settled
(`PassSettles`); at the end the labelling is complete, and therefore the grounded one, for
every graph and every order of its nodes (`AnswersAreGrounded`).  `CallsAlwaysAgree` is not
about steps: it holds of any call and any buffer of drafts.  The two programs have the same
parameters for every tool in common (`SameTools`), an argument is wrong for both or for
neither (`SameVerdict`), so that they blame the same one, the first in the order of the
parameters, and what is decoded alike comes to the same.  An argument that keeps to the schema
of its tool is taken if and only if it can be read (`ConformingArgument`): the schemas allow
references and draft numbers that both decoders refuse, and nothing else that they refuse.
`RepeatAlwaysHarmless` follows an
entry through the replay, state by state (`ReplayStates`): what each state keeps of it (`Kept`)
no later entry takes away that does not overtake it, and an entry of which all is kept
leaves active claims, attacks and stances as they are (`KeptIsHarmless`).  The replay is a
recursive function of the number of entries, so that the first number at which something
went wrong takes the place of an induction.

`OrderDoesNotMatter` joins the two forms of the labelling: what a query finds, one visit at a
time and in the order of a hash map, is what the operator `GroundedLabelling` gives, from
which all overviews are made.  A pass of the operator is a fold over a set; a visit keeps
labels `Reasoned` and takes none away (`VisitReasoned`), a pass that changes nothing has
settled every node, and one pass for each node is enough because the labels that are given
become more with every other one (`LabellingGrounded`); there is only one labelling that is
complete and reasoned (`GroundedUnique`).

`ShownAlwaysFaithful` has two halves.  A preview and its submission are twins: entry by entry
they differ in the ids of the new claims only (`EntriesTwin`), so do the states they replay to
(`TwinStates`), and since `Final` makes no two ids one, unless a committed reference names a
preview id (`Leak`), labels, statuses, summaries, overviews and details are the same up to
these ids (`LabellingRenamed`, `TwinStatuses`, `TwinOverview`, `TwinDetail`).  The other half is
about the prompt: each spelling is read as what it stands for (`SpellingsRead`), the overview
names the claims of `NamedIn` and so every claim that is neither established nor defeated
(`OverviewNamesAre`), and drafts take no claim away and make none active that was
resolved (`MergedGrows`), so that a change begins at a status and the prompt says "no
structural changes" only when there are none.  The attempt showed `ChangesTold` to have
been wrong: it said that nothing is told if and only if no status changes, and a draft that
resolves the claim of another draft leaves a new claim to tell of, without a status.  It
now speaks of the new claims as well, and the instance has such a draft.

`ConfirmationsAreTrue` and `ReportsAreTrue` follow a turn in the same way, answer by answer
(`TurnOK`) and call by call within an answer (`RunOK`); the buffer stays `Sound`, which is
`BufferInv` for any buffer.  The confirmation tells of the last call that changed something;
behind it nothing has, so that its draft is the newest one, and the claims it refers to are
those the preview gives to its references.  For the report, `Numbered` says that every draft
left is that of one successful call, in their order, and `CallsCompareAlike` that the
arguments of this call in JSON and its decoded draft compare alike with an expectation, field
by field.  The rows add up because each run has one key: the runs of a key are counted
through the three nested lists they are made from (`HitsFlattened`, `CellsCounted`), and the
sum over the rows is that over the runs (`LinesAddUp`).

`TurnsProofs`.  `HistoryStaysPaired`: each program's history is paired up to the calls that
are still being answered, until a turn has failed (`spoiled`); truncation cuts only at a
user's message or a bare answer.  That the prompt of a turn stays in it (`PromptIsLast`)
is part of the invariant.  `RequestsAnswerPrompts` needs more (`AskedInv`): a history
begins at a place where truncation may cut or with the system message, and behind the prompt that an outstanding
request answers there is no such place, so that no cut can lose it.

The same module proves four of the six parts of `AnswersArrive`.  `RecordingsAreSent` rests on
`PageInv`: nothing is ever left of a recording that was handed over, the recorder belongs
to the newest press, and the recordings that have stopped come, in the order of their
presses, after those that were sent, so that no recording is sent twice or in parts and
none with another one's sound in it.  `ResultsAreTrue` follows the calls of a completion up
to the first that fails (`ToolRan`); an output is divided again at the header of the errors,
which no byte of an output is, and each half shows what the command wrote as far as the
limit lets it (`Truncated`, `DividedTwo`), for every output and limit.  `OffersAreKept` finds
the pair that the gateway reads: the first that names capabilities, and so the worker's own
only when the operator's URL has none (`ExtractedOf`).  `TranscriptionIsFaithful` reads a
form part by part (`FormRead`: what it holds of a name is the last readable part of that
name), and follows it into the fields that the whisper server gets (`AskedIs`) and the
frames back, however many of them come.  What they assume of the constants: a pair list
is a list (`QueriesAssumption`), outputs are lists of bytes (`OutputsAssumption`), and a
part's name and value are there or not, with "null" reserved for what JSON has for
NaN (`PartsAssumption`).

## 5. What is only model-checked, and what is not modelled

Only model-checked:

* Liveness (`SessionsExpire`, `ResponsesEnd`, `WorkerComesBack`, `CatchesUp`, `EndTogether`,
  `UploadsEnd`) rests on fairness, which the prover does not handle.
* `AnswersWhole`, a part of `AnswersArrive`: what its folds compute for every input needs an
  induction over data, which no installed prover can instantiate; `ShownFaithful`,
  `RepeatHarmless`, `ConfirmationTrue`, `ReportTrue` and the parts of `AnswersArrive` that are
  proved get by with the least number, because all they need is one step of the replay, the
  labelling, the turn, the report, the calls or the form after the other.
* `DatesRight`, another part of `AnswersArrive`, has no constants: TLC evaluates the whole
  formula, every day of one period of the calendar and five of the next, and a theorem would
  say no more.

Not modelled:

* Router, bearer authentication and static pages: stateless request plumbing.
* How things are worded and ordered: the words of what `Prompt` and `Evaluation` have by
  what it says, logs, the presentation of the pages.
* Argument parsing and start-up of the programs, beyond what `WorkerOffer` and
  `Seeding` have of it.
* How long a backoff waits.  To the gateway a worker that connects again is a new
  connection, of which there are as many as it likes.
* Collisions of the session-id hash (`HashOf` is injective where it is given), the
  conversion of values at the wasm boundary, and what the inference server, the whisper
  server, docker and the browser do inside.

## 6. What could come next

* A proof of `AnswersWhole`, with its folds as recursive functions on numbers, as `ReadForm`
  and `RunCalls` are now.
* The worker's reconnecting loop composed with `JobGateway`, to ask how long a job may
  wait for a worker that is coming back.
* The order in which the overview and the attention signals list claims.
