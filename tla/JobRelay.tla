------------------------------ MODULE JobRelay ------------------------------
(***************************************************************************)
(* What travels through one worker connection: the relay of a job          *)
(* (gateway/relay.rs) in the worker websocket handler                      *)
(* (router/worker_ws_upgrade.rs), the worker at the other end              *)
(* (worker/client.rs), the bounded channel of each client stream and the   *)
(* HTTP response that drains it (router/chat_completions.rs), and the      *)
(* kernel's deadline of an active stream.                                  *)
(*                                                                         *)
(* A frame of the worker does not name the stream it belongs to; in the    *)
(* model it does, so that properties can tell, and no guard looks at it.   *)
(* Deadlines are kept as the ticks that remain, which makes time unbounded *)
(* in a finite model.  The order of the messages to the runtime is the     *)
(* subject of JobGateway: here the kernel handles an event in the step     *)
(* that sends it.                                                          *)
(***************************************************************************)
EXTENDS Naturals, Sequences

CONSTANTS
  Stream,           \* client streams, each asking for one job
  NoStream,         \* "no job"
  StreamTTL,        \* ticks without heartbeat that end a stream (30)
  HeartbeatPeriod,  \* ticks between two heartbeats of a relay (10)
  ChannelCap,       \* frames a stream's channel holds (32, audio 4)
  WireCap,          \* bound: frames on the way from the worker to the relay
  MaxChunks,        \* bound: chunks of one answer
  Recording         \* whether the history variables are kept

ASSUME NoStreamAssumption == NoStream \notin Stream
\* Both defaults and every configuration in use have the period well inside
\* the time to live; nothing in the code enforces it.
ASSUME PeriodAssumption ==
  /\ HeartbeatPeriod \in Nat \ {0}
  /\ StreamTTL \in Nat
  /\ HeartbeatPeriod < StreamTTL
ASSUME CapAssumption ==
  ChannelCap \in Nat \ {0} /\ WireCap \in Nat \ {0} /\ MaxChunks \in Nat
ASSUME RecordingAssumption == Recording \in BOOLEAN

VARIABLES
  client,     \* Stream -> "new", "open", "gone" (left) or "ended" (response over)
  remaining,  \* kernel: ticks left of an active stream, 0 when it is not active
  registered, \* registry: streams with a sender in it
  ending,     \* frames the kernel's effect task still has to send to a stream
  channel,    \* frames in the stream's channel
  received,   \* history: frames a client that is still there has been sent
  renewed,    \* history: streams whose deadline their relay has renewed
  relay,      \* the handler: [phase, job, frame], frame on its way to the client;
              \* phases "waiting", "starting" (the job goes out), "reading",
              \* "sending", "reporting" and "gone"
  heartbeat,  \* ticks until the relay's timer fires
  work,       \* worker: jobs received, the first in progress
  produced,   \* worker: chunks of each job so far
  wire        \* frames between the worker and the gateway

kernel == <<remaining, registered, ending>>
stream == <<client, channel, received>>
worker == <<work, produced, wire>>
handler == <<relay, heartbeat, renewed>>
vars == <<kernel, stream, handler, worker>>

Frame(kind, job, n) == [kind |-> kind, job |-> job, chunk |-> n]
NoFrame == Frame("None", NoStream, 0)
-----------------------------------------------------------------------------
(* The kernel *)

Active(s) == remaining[s] > 0

DoneFrame(s) == Frame("Done", s, 0)
ErrorFrame(s) == Frame("Error", s, 0)
Failure(s) == <<ErrorFrame(s), DoneFrame(s)>>

\* Mutant of Told: the registry keeps the sender of a stream that ended.
ToldSenderKept(S, told) ==
  /\ remaining' = [s \in Stream |-> IF s \in S THEN 0 ELSE remaining[s]]
  /\ ending' = [s \in Stream |-> IF s \in S THEN told[s] ELSE ending[s]]
  /\ registered' = registered

\* Streams in S stop being active and are told told[s]; their senders move
\* from the registry to the effect tasks.
Told(S, told) ==
  /\ remaining' = [s \in Stream |-> IF s \in S THEN 0 ELSE remaining[s]]
  /\ ending' = [s \in Stream |-> IF s \in S THEN told[s] ELSE ending[s]]
  /\ registered' = registered \ S

\* AssignmentCleared and AssignmentFailed; a protocol violation if the stream
\* is no longer active.
EndAssignment(s, told) ==
  IF Active(s) THEN Told({s}, [t \in {s} |-> told]) ELSE UNCHANGED kernel

\* A request takes the idle worker or is refused.
Request(s) ==
  /\ client[s] = "new"
  /\ client' = [client EXCEPT ![s] = "open"]
  /\ IF relay.phase = "waiting"
       THEN /\ remaining' = [remaining EXCEPT ![s] = StreamTTL]
            /\ registered' = registered \union {s}
            /\ relay' = [phase |-> "starting", job |-> s, frame |-> NoFrame]
            /\ UNCHANGED ending
       ELSE /\ ending' = [ending EXCEPT ![s] = Failure(s)]
            /\ UNCHANGED <<remaining, registered, relay>>
  /\ UNCHANGED <<channel, received, heartbeat, renewed, worker>>

Relaying == relay.phase \in {"reading", "sending"}

\* A relay whose timer is due and that is free to look at it does so before the
\* next second passes.
Due == relay.phase = "reading" /\ heartbeat = 0

Tick ==
  /\ ~Due
  /\ LET late == {s \in Stream : remaining[s] = 1} IN
       /\ remaining' = [s \in Stream |-> IF Active(s) THEN remaining[s] - 1 ELSE 0]
       /\ ending' = [s \in Stream |-> IF s \in late THEN Failure(s) ELSE ending[s]]
       /\ registered' = registered \ late
  /\ heartbeat' = IF Relaying /\ heartbeat > 0 THEN heartbeat - 1 ELSE heartbeat
  /\ UNCHANGED <<stream, relay, renewed, worker>>
-----------------------------------------------------------------------------
(* The channel of a stream *)

HasRoom(s) == client[s] = "open" /\ Len(channel[s]) < ChannelCap
Closed(s) == client[s] \in {"gone", "ended"}

Push(s, frame) == channel' = [channel EXCEPT ![s] = Append(@, frame)]

\* The effect task awaits room for each frame, and drops its sender with the last.
KernelSends(s) ==
  /\ ending[s] # <<>>
  /\ \/ HasRoom(s) /\ Push(s, Head(ending[s]))
     \/ Closed(s) /\ UNCHANGED channel
  /\ ending' = [ending EXCEPT ![s] = Tail(@)]
  /\ UNCHANGED <<client, received, remaining, registered, handler, worker>>

Senders(s) == s \in registered \/ ending[s] # <<>> \/ relay.job = s

Receive(s) ==
  /\ client[s] = "open" /\ channel[s] # <<>>
  /\ received' =
       IF Recording THEN [received EXCEPT ![s] = Append(@, Head(channel[s]))] ELSE received
  /\ channel' = [channel EXCEPT ![s] = Tail(@)]
  /\ UNCHANGED <<client, kernel, handler, worker>>

\* The response is over when the channel is empty and has no sender left.
EndResponse(s) ==
  /\ client[s] = "open" /\ channel[s] = <<>> /\ ~Senders(s)
  /\ client' = [client EXCEPT ![s] = "ended"]
  /\ received' = [received EXCEPT ![s] = <<>>]
  /\ UNCHANGED <<channel, kernel, handler, worker>>

\* The HTTP connection is dropped (or, for audio, the answer is complete or
\* late) and the receiver with it.
Leave(s) ==
  /\ client[s] = "open"
  /\ client' = [client EXCEPT ![s] = "gone"]
  /\ channel' = [channel EXCEPT ![s] = <<>>]
  /\ received' = [received EXCEPT ![s] = <<>>]
  /\ UNCHANGED <<kernel, handler, worker>>
-----------------------------------------------------------------------------
(* The worker: one job after the other, in the order they arrive *)

Emit(frame) == Len(wire) < WireCap /\ wire' = Append(wire, frame)

Produce ==
  /\ work # <<>> /\ relay.phase # "gone"
  /\ LET s == Head(work) IN
       /\ produced[s] < MaxChunks
       /\ Emit(Frame("Chunk", s, produced[s] + 1))
       /\ produced' = [produced EXCEPT ![s] = @ + 1]
  /\ UNCHANGED <<work, kernel, stream, handler>>

\* WorkerMessage::End or WorkerMessage::Error.  A transcription sends its only
\* chunk and the end, or an error: one of the answers a chat may have.
Endings == {"Done", "Error"}

\* The loop waits for the next job whatever became of this one.
NextJob == work' = Tail(work)

Finish ==
  /\ work # <<>> /\ relay.phase # "gone"
  /\ \E kind \in Endings : Emit(Frame(kind, Head(work), produced[Head(work)]))
  /\ NextJob
  /\ UNCHANGED <<produced, kernel, stream, handler>>
-----------------------------------------------------------------------------
(* The worker websocket handler and its relay *)

Idle == [phase |-> "waiting", job |-> NoStream, frame |-> NoFrame]
Gone == [phase |-> "gone", job |-> NoStream, frame |-> NoFrame]

\* The job frame goes out and the relay starts, with a fresh timer.
StartRelay ==
  /\ relay.phase = "starting"
  /\ relay' = [relay EXCEPT !.phase = "reading"]
  /\ heartbeat' = HeartbeatPeriod
  /\ work' = Append(work, relay.job)
  /\ UNCHANGED <<produced, wire, kernel, stream, renewed>>

\* While the handler waits for a job, or cannot hand it out, the connection may
\* be lost.  The gateway is told in neither case.
LoseIdleWorker ==
  /\ relay.phase \in {"waiting", "starting"}
  /\ relay' = Gone
  /\ UNCHANGED <<kernel, stream, heartbeat, renewed, worker>>

\* Frames that arrive between two jobs are read and ignored.
IgnoreFrame ==
  /\ relay.phase = "waiting" /\ wire # <<>>
  /\ wire' = Tail(wire)
  /\ UNCHANGED <<work, produced, kernel, stream, handler>>

\* Mutant of RelayHeartbeat: the kernel takes note but keeps the deadline.
HeartbeatKeepsDeadline ==
  /\ Due
  /\ heartbeat' = HeartbeatPeriod
  /\ renewed' = IF Recording THEN renewed \union {relay.job} ELSE renewed
  /\ UNCHANGED <<kernel, stream, relay, worker>>

RelayHeartbeat ==
  /\ Due
  /\ heartbeat' = HeartbeatPeriod
  /\ remaining' =
       [remaining EXCEPT ![relay.job] = IF Active(relay.job) THEN StreamTTL ELSE 0]
  /\ renewed' = IF Recording THEN renewed \union {relay.job} ELSE renewed
  /\ UNCHANGED <<registered, ending, stream, relay, worker>>

\* Mutant of ReadFrame: a relay whose stream is over goes back to the pool.
ReadUnlessOver ==
  /\ relay.phase = "reading" /\ wire # <<>>
  /\ relay' = IF Active(relay.job)
                THEN [relay EXCEPT !.phase = "sending", !.frame = Head(wire)]
                ELSE Idle
  /\ wire' = Tail(wire)
  /\ UNCHANGED <<work, produced, kernel, stream, heartbeat, renewed>>

ReadFrame ==
  /\ relay.phase = "reading" /\ wire # <<>>
  /\ relay' = [relay EXCEPT !.phase = "sending", !.frame = Head(wire)]
  /\ wire' = Tail(wire)
  /\ UNCHANGED <<work, produced, kernel, stream, heartbeat, renewed>>

\* The websocket closes under a job: RelayOutcome::WorkerDisconnected.
LoseWorker ==
  /\ relay.phase = "reading"
  /\ relay' = [relay EXCEPT !.phase = "reporting", !.frame = Frame("Lost", NoStream, 0)]
  /\ UNCHANGED <<kernel, stream, heartbeat, renewed, worker>>

\* Mutant of AfterSend: an error of the worker does not end the relay.
AfterSendOrError == IF relay.frame.kind = "Done" THEN "reporting" ELSE "reading"

AfterSend == IF relay.frame.kind = "Chunk" THEN "reading" ELSE "reporting"

\* Mutant of SendFrame: try_send, a frame that finds the channel full is dropped.
TrySendFrame ==
  /\ relay.phase = "sending" /\ client[relay.job] = "open"
  /\ IF HasRoom(relay.job) THEN Push(relay.job, relay.frame) ELSE UNCHANGED channel
  /\ relay' = [relay EXCEPT !.phase = AfterSend]
  /\ UNCHANGED <<client, received, kernel, heartbeat, renewed, worker>>

\* client_tx.send(frame).await: waits while the channel is full.
SendFrame ==
  /\ relay.phase = "sending" /\ HasRoom(relay.job)
  /\ Push(relay.job, relay.frame)
  /\ relay' = [relay EXCEPT !.phase = AfterSend]
  /\ UNCHANGED <<client, received, kernel, heartbeat, renewed, worker>>

\* The receiver is gone: a chunk ends the relay with RelayOutcome::ClientGone and
\* the handler re-registers at once; a terminal frame is reported all the same.
SendFails ==
  /\ relay.phase = "sending" /\ Closed(relay.job)
  /\ relay' = IF relay.frame.kind = "Chunk" THEN Idle
                                            ELSE [relay EXCEPT !.phase = "reporting"]
  /\ UNCHANGED <<kernel, stream, heartbeat, renewed, worker>>

\* Mutant of Report: a lost worker is reported like one that finished.
ReportAsCleared ==
  /\ relay.phase = "reporting"
  /\ EndAssignment(relay.job, <<DoneFrame(relay.job)>>)
  /\ relay' = IF relay.frame.kind = "Lost" THEN Gone ELSE Idle
  /\ UNCHANGED <<stream, heartbeat, renewed, worker>>

\* The outcome is reported, then the handler re-registers or exits; the job's
\* sender goes with it.
Report ==
  /\ relay.phase = "reporting"
  /\ EndAssignment(relay.job,
       IF relay.frame.kind = "Done" THEN <<DoneFrame(relay.job)>> ELSE Failure(relay.job))
  /\ relay' = IF relay.frame.kind = "Lost" THEN Gone ELSE Idle
  /\ UNCHANGED <<stream, heartbeat, renewed, worker>>
-----------------------------------------------------------------------------
Init ==
  /\ client = [s \in Stream |-> "new"]
  /\ remaining = [s \in Stream |-> 0]
  /\ registered = {}
  /\ ending = [s \in Stream |-> <<>>]
  /\ channel = [s \in Stream |-> <<>>]
  /\ received = [s \in Stream |-> <<>>]
  /\ renewed = {}
  /\ relay = Idle
  /\ heartbeat = 0
  /\ work = <<>>
  /\ produced = [s \in Stream |-> 0]
  /\ wire = <<>>

Relay ==
  \/ StartRelay \/ RelayHeartbeat \/ ReadFrame \/ SendFrame \/ SendFails
  \/ IgnoreFrame \/ Report

Next ==
  \/ Tick \/ Relay \/ LoseIdleWorker \/ LoseWorker \/ Produce \/ Finish
  \/ \E s \in Stream :
       Request(s) \/ KernelSends(s) \/ Receive(s) \/ EndResponse(s) \/ Leave(s)

Spec == Init /\ [][Next]_vars

\* The gateway runs: its relay, its effect tasks, its clock, and the end of a
\* response nobody writes to any more.  Two senders that wait for room in one
\* channel are served in order.
GatewayFairness ==
  /\ WF_vars(Tick)
  /\ WF_vars(StartRelay) /\ WF_vars(RelayHeartbeat) /\ WF_vars(ReadFrame)
  /\ SF_vars(SendFrame) /\ WF_vars(SendFails)
  /\ WF_vars(IgnoreFrame) /\ WF_vars(Report)
  /\ \A s \in Stream : SF_vars(KernelSends(s)) /\ WF_vars(EndResponse(s))

\* Clients read what they are sent; workers finish what they are given.
ClientFairness == \A s \in Stream : WF_vars(Receive(s))
WorkerFairness == WF_vars(Finish)

FairSpec == Spec /\ GatewayFairness /\ ClientFairness /\ WorkerFairness
-----------------------------------------------------------------------------
(* Properties *)

Foreign(s) == {i \in DOMAIN received[s] : received[s][i].job # s}

\* As long as no client has left in the middle of its answer, every client is
\* sent frames of its own only: neither a timeout nor a lost or failed job mixes
\* two answers.  (Once one has, the next client's answer ends early, and what is
\* left of that one goes to the client after it, which may be a third.)
MixedOnlyAfterLeave ==
  (\A s \in Stream : client[s] # "gone") => \A s \in Stream : Foreign(s) = {}

\* What is expected of concurrent streams: each client gets its own.
OwnFramesOnly == \A s \in Stream : Foreign(s) = {}

OwnChunks(s) ==
  {i \in DOMAIN received[s] : received[s][i].kind = "Chunk" /\ received[s][i].job = s}
Numbers(s, I) == {received[s][i].chunk : i \in I}

\* The chunks of its answer reach a client in order, each once and without a
\* gap, whatever blocks, times out or is lost in between.
ChunksInOrder ==
  \A s \in Stream : \A i \in OwnChunks(s) :
    Numbers(s, {j \in OwnChunks(s) : j < i}) = 1 .. received[s][i].chunk - 1

\* An answer that ends in [DONE] and not in an error is the whole answer: every
\* chunk the worker made of it is there.  (Frames of an answer somebody left
\* may end it early, see MixedOnlyAfterLeave.)
DoneMeansComplete ==
  \A s \in Stream : \A i \in DOMAIN received[s] :
    /\ received[s][i].kind = "Done" /\ Foreign(s) = {}
    /\ \A j \in 1 .. i : received[s][j].kind # "Error"
    => Numbers(s, OwnChunks(s)) = 1 .. produced[s]

\* A relay that has begun to renew the deadline of its stream never loses it to
\* the clock, unless its client holds it up.  (A relay that starts late, because
\* the job frame was slow to go out, may lose it before its first heartbeat.)
TimesOut(s) == remaining[s] = 1 /\ remaining'[s] = 0 /\ relay' = relay
KeptAlive(s) == relay.job = s /\ relay.phase = "reading" /\ s \in renewed
LiveStreamNotTimedOut == [][\A s \in Stream : TimesOut(s) => ~KeptAlive(s)]_vars

\* With workers that finish and clients that read, every response is over in
\* the end.
ResponsesEnd == \A s \in Stream : client[s] = "open" ~> client[s] \in {"gone", "ended"}

\* ... and the worker is back in the pool, or its connection is lost.
WorkerComesBack == relay.phase # "waiting" ~> relay.phase \in {"waiting", "gone"}

=============================================================================
