--------------------------- MODULE JobRelayProofs ---------------------------
(***************************************************************************)
(* What a client is sent through a worker connection: its own frames only, *)
(* as long as nobody left; its chunks in order; a whole answer, if it ends *)
(* well.  And a relay that renews a deadline is not overtaken by it.  For  *)
(* any number of streams, and channels and answers of any length.          *)
(***************************************************************************)
EXTENDS JobRelay, SequenceTheorems, TLAPS

Kinds == {"None", "Chunk", "Done", "Error", "Lost"}
Frames == [kind : Kinds, job : Stream \union {NoStream}, chunk : Nat]
Phases == {"waiting", "starting", "reading", "sending", "reporting", "gone"}

RelayTypeOK ==
  /\ client \in [Stream -> {"new", "open", "gone", "ended"}]
  /\ remaining \in [Stream -> Nat]
  /\ registered \in SUBSET Stream
  /\ ending \in [Stream -> Seq(Frames)]
  /\ channel \in [Stream -> Seq(Frames)]
  /\ received \in [Stream -> Seq(Frames)]
  /\ renewed \in SUBSET Stream
  /\ relay \in [phase : Phases, job : Stream \union {NoStream}, frame : Frames]
  /\ heartbeat \in Nat
  /\ work \in Seq(Stream)
  /\ produced \in [Stream -> Nat]
  /\ wire \in Seq(Frames)

\* What a stream is before it is requested.
NewInv ==
  \A s \in Stream : client[s] = "new" =>
    /\ relay.job # s /\ relay.frame.job # s
    /\ remaining[s] = 0 /\ produced[s] = 0 /\ s \notin renewed
    /\ ending[s] = <<>> /\ channel[s] = <<>> /\ received[s] = <<>>
    /\ \A i \in 1 .. Len(work) : work[i] # s
    /\ \A i \in 1 .. Len(wire) : wire[i].job # s

Holding == relay.phase \notin {"waiting", "gone"}

\* The handler holds the job of a client that has not seen the end of its
\* response, and has not handed it out before.
HoldInv ==
  /\ Holding <=> relay.job \in Stream
  /\ relay.job \in Stream => client[relay.job] \in {"open", "gone"}
  /\ relay.phase = "starting" =>
       /\ relay.job \notin renewed
       /\ \A i \in 1 .. Len(work) : work[i] # relay.job
  /\ \A i, j \in 1 .. Len(work) : work[i] = work[j] => i = j
  /\ relay.phase = "sending" => relay.frame.kind \in {"Chunk", "Done", "Error"}
  /\ relay.phase = "reporting" => relay.frame.kind \in {"Done", "Error", "Lost"}
  /\ \A i \in 1 .. Len(wire) : wire[i].kind \in {"Chunk", "Done", "Error"}

-----------------------------------------------------------------------------
(* Own frames only *)

NobodyLeft == \A s \in Stream : client[s] # "gone"

Own(q, s) == \A i \in 1 .. Len(q) : q[i].job = s

\* The worker has no job but the relay's, and ends it last.
OneJob ==
  /\ \A i \in 1 .. Len(work) : work[i] = relay.job
  /\ \A i \in 1 .. Len(wire) :
       /\ wire[i].job = relay.job
       /\ wire[i].kind # "Chunk" => i = Len(wire) /\ work = <<>>

NothingLeft == work = <<>> /\ wire = <<>>

OwnSent == \A s \in Stream : Own(channel[s], s) /\ Own(received[s], s)

OneAnswer ==
  /\ relay.phase \in {"waiting", "starting"} => NothingLeft
  /\ relay.phase \in {"reading", "sending"} => OneJob
  /\ relay.phase = "sending" =>
       /\ relay.frame.job = relay.job
       /\ relay.frame.kind # "Chunk" => NothingLeft
  /\ relay.phase = "reporting" /\ relay.frame.kind # "Lost" => NothingLeft

OwnInv ==
  /\ \A s \in Stream : Own(ending[s], s)
  /\ NobodyLeft => OwnSent /\ OneAnswer

-----------------------------------------------------------------------------
(* Deadlines *)

DeadlineInv ==
  \A s \in renewed :
    relay.job = s /\ relay.phase \in {"reading", "sending"} /\ heartbeat > 0
      /\ remaining[s] > 0
    => remaining[s] > heartbeat

-----------------------------------------------------------------------------
(* The order of chunks, and the end of an answer *)

IsChunk(f, s) == f.kind = "Chunk" /\ f.job = s

\* The chunks of s in q are numbered a + 1 to b, in order.
Run(q, s, a, b) ==
  /\ a \in Nat /\ b \in Nat /\ a <= b
  /\ \A i \in 1 .. Len(q) : IsChunk(q[i], s) => q[i].chunk \in a + 1 .. b
  /\ \A n \in a + 1 .. b : \E i \in 1 .. Len(q) : IsChunk(q[i], s) /\ q[i].chunk = n
  /\ \A i, j \in 1 .. Len(q) :
       i < j /\ IsChunk(q[i], s) /\ IsChunk(q[j], s) => q[i].chunk < q[j].chunk

\* What a client has been or will be sent, and what its relay has still to send.
Sent(s) == received[s] \o channel[s]
Ahead == IF relay.phase = "sending" THEN <<relay.frame>> \o wire ELSE wire

Flowing(s) == relay.job = s /\ relay.phase \in {"starting", "reading", "sending"}

FlowInv ==
  \A s \in Stream : Recording /\ client[s] = "open" =>
    \E b \in 0 .. produced[s] :
      /\ Run(Sent(s), s, 0, b)
      /\ Flowing(s) => Run(Ahead, s, b, produced[s])

\* No more chunks of s will be made.
Finished(s) ==
  /\ client[s] # "new"
  /\ relay.phase = "starting" => relay.job # s
  /\ \A i \in 1 .. Len(work) : work[i] # s

\* Nothing follows the frame that ends a job.
LastInv ==
  \A s \in Stream : \A i \in 1 .. Len(Ahead) :
    Ahead[i].job = s /\ Ahead[i].kind # "Chunk" =>
      /\ Finished(s)
      /\ \A j \in 1 .. Len(Ahead) : i < j => Ahead[j].job # s

\* All chunks of s are among the first n frames of q.
Whole(q, s, n) ==
  /\ Finished(s)
  /\ \A k \in 1 .. produced[s] : \E i \in 1 .. n : IsChunk(q[i], s) /\ q[i].chunk = k

\* Among the first n frames of q is an error, or one of another answer.
Spoilt(q, s, n) == \E i \in 1 .. n : q[i].kind = "Error" \/ q[i].job # s

SpoiltOrWhole(s) ==
  LET q == Sent(s) IN Spoilt(q, s, Len(q)) \/ Whole(q, s, Len(q))

DoneInv ==
  \A s \in Stream :
    /\ ending[s] \in {<<>>, Failure(s), <<DoneFrame(s)>>}
    /\ remaining[s] > 0 => ending[s] = <<>>
    /\ Recording /\ client[s] = "open" =>
         /\ \A i \in 1 .. Len(Sent(s)) :
              Sent(s)[i].kind = "Done" => Spoilt(Sent(s), s, i) \/ Whole(Sent(s), s, i)
         /\ ending[s] = <<DoneFrame(s)>> => SpoiltOrWhole(s)
         /\ relay.job = s /\ relay.phase = "reporting" /\ relay.frame.kind = "Done"
              => SpoiltOrWhole(s)

\* Nothing is kept of what a client that is not there was sent.
Unrecorded ==
  \A s \in Stream : ~(Recording /\ client[s] = "open") => received[s] = <<>>

RelayInv ==
  RelayTypeOK /\ NewInv /\ HoldInv /\ OwnInv /\ DeadlineInv /\ FlowInv /\ LastInv /\ DoneInv
  /\ Unrecorded
-----------------------------------------------------------------------------
LEMMA Appended ==
  ASSUME NEW S, NEW q \in Seq(S), NEW x \in S
  PROVE  /\ Append(q, x) \in Seq(S) /\ Len(q) \in Nat
         /\ Len(Append(q, x)) = Len(q) + 1
         /\ \A i \in 1 .. Len(q) : Append(q, x)[i] = q[i]
         /\ Append(q, x)[Len(q) + 1] = x
         /\ Append(q, x) # <<>>
BY AppendProperties, LenProperties

LEMMA Shortened ==
  ASSUME NEW S, NEW q \in Seq(S), q # <<>>
  PROVE  /\ Tail(q) \in Seq(S) /\ Head(q) \in S /\ Head(q) = q[1]
         /\ Len(q) \in Nat \ {0} /\ Len(Tail(q)) = Len(q) - 1
         /\ \A i \in 1 .. Len(q) - 1 : Tail(q)[i] = q[i + 1]
BY HeadTailProperties, EmptySeq, LenProperties

LEMMA FrameTypes ==
  /\ \A s \in Stream \union {NoStream}, k \in Kinds, n \in Nat :
       /\ Frame(k, s, n) \in Frames
       /\ Frame(k, s, n).kind = k /\ Frame(k, s, n).job = s /\ Frame(k, s, n).chunk = n
  /\ NoFrame \in Frames
  /\ \A s \in Stream : /\ DoneFrame(s) \in Frames /\ ErrorFrame(s) \in Frames
                       /\ Failure(s) \in Seq(Frames) /\ <<DoneFrame(s)>> \in Seq(Frames)
BY DEF Frame, Frames, Kinds, NoFrame, DoneFrame, ErrorFrame, Failure

\* The two outcomes of a request.
Accepted(s) ==
  /\ relay.phase = "waiting"
  /\ remaining' = [remaining EXCEPT ![s] = StreamTTL]
  /\ registered' = registered \union {s}
  /\ relay' = [phase |-> "starting", job |-> s, frame |-> NoFrame]
  /\ ending' = ending
Refused(s) ==
  /\ relay.phase # "waiting"
  /\ ending' = [ending EXCEPT ![s] = Failure(s)]
  /\ remaining' = remaining /\ registered' = registered /\ relay' = relay

LEMMA Requested ==
  ASSUME NEW s \in Stream, Request(s)
  PROVE  /\ client[s] = "new" /\ client' = [client EXCEPT ![s] = "open"]
         /\ Accepted(s) \/ Refused(s)
         /\ channel' = channel /\ received' = received /\ heartbeat' = heartbeat
         /\ renewed' = renewed /\ work' = work /\ produced' = produced /\ wire' = wire
<1>1. CASE relay.phase = "waiting"
  BY <1>1, Zenon DEF Request, worker, Accepted
<1>2. CASE relay.phase # "waiting"
  BY <1>2, Zenon DEF Request, worker, Refused
<1> QED  BY <1>1, <1>2

LEMMA Typed ==
  ASSUME RelayTypeOK, HoldInv, [Next]_vars
  PROVE  RelayTypeOK'
<1> USE FrameTypes DEF RelayTypeOK
<1>0. HeartbeatPeriod \in Nat /\ StreamTTL \in Nat
  BY PeriodAssumption
<1>h. relay.phase \notin {"waiting", "gone"} => relay.job \in Stream
  BY DEF HoldInv, Holding, Phases
<1>1. CASE Tick
  <2>1. remaining' \in [Stream -> Nat]
    BY <1>1, SMTT(30) DEF Tick, Active
  <2>2. ending' \in [Stream -> Seq(Frames)] /\ registered' \in SUBSET Stream
    BY <1>1 DEF Tick
  <2>3. heartbeat' \in Nat
    BY <1>1 DEF Tick
  <2> QED  BY <1>1, <2>1, <2>2, <2>3 DEF Tick, stream, worker
<1>2. CASE StartRelay
  <2>1. relay.job \in Stream
    BY <1>2, <1>h DEF StartRelay
  <2>2. work' \in Seq(Stream)
    BY <1>2, <2>1 DEF StartRelay
  <2> QED  BY <1>2, <2>2, <1>0 DEF StartRelay, stream, kernel, Phases
<1>3. CASE RelayHeartbeat
  <2>1. relay.job \in Stream
    BY <1>3, <1>h DEF RelayHeartbeat, Due
  <2> QED  BY <1>3, <2>1, <1>0 DEF RelayHeartbeat, stream, worker
<1>4. CASE ReadFrame
  <2>1. Head(wire) \in Frames /\ wire' \in Seq(Frames)
    BY <1>4, Shortened DEF ReadFrame
  <2> QED  BY <1>4, <2>1 DEF ReadFrame, stream, kernel, Phases
<1>5. CASE SendFrame
  <2>1. relay.job \in Stream /\ relay.frame \in Frames
    BY <1>5, <1>h DEF SendFrame
  <2>2. channel' \in [Stream -> Seq(Frames)]
    BY <1>5, <2>1 DEF SendFrame, Push
  <2>3. relay' \in [phase : Phases, job : Stream \union {NoStream}, frame : Frames]
    BY <1>5 DEF SendFrame, AfterSend, Phases
  <2> QED  BY <1>5, <2>2, <2>3 DEF SendFrame, kernel, worker
<1>6. CASE SendFails
  BY <1>6 DEF SendFails, Idle, Phases, stream, kernel, worker
<1>7. CASE IgnoreFrame
  <2>1. wire' \in Seq(Frames)
    BY <1>7, Shortened DEF IgnoreFrame
  <2> QED  BY <1>7, <2>1 DEF IgnoreFrame, stream, kernel, handler
<1>8. CASE Report
  <2>1. relay.job \in Stream
    BY <1>8, <1>h DEF Report
  <2>2. /\ remaining' \in [Stream -> Nat] /\ registered' \in SUBSET Stream
        /\ ending' \in [Stream -> Seq(Frames)]
    <3> DEFINE told == IF relay.frame.kind = "Done" THEN <<DoneFrame(relay.job)>>
                                                    ELSE Failure(relay.job)
    <3>1. told \in Seq(Frames)
      BY <2>1
    <3> HIDE DEF told
    <3>2. EndAssignment(relay.job, told)
      BY <1>8 DEF Report, told
    <3>3. CASE Told({relay.job}, [t \in {relay.job} |-> told])
      BY <2>1, <3>1, <3>3 DEF Told
    <3>4. CASE UNCHANGED kernel
      BY <3>4 DEF kernel
    <3> QED  BY <3>2, <3>3, <3>4 DEF EndAssignment
  <2>3. relay' \in [phase : Phases, job : Stream \union {NoStream}, frame : Frames]
    BY <1>8 DEF Report, Idle, Gone, Phases
  <2> QED  BY <1>8, <2>2, <2>3 DEF Report, stream, worker
<1>9. CASE LoseIdleWorker
  BY <1>9 DEF LoseIdleWorker, Gone, Phases, stream, kernel, worker
<1>10. CASE LoseWorker
  <2>1. Frame("Lost", NoStream, 0) \in Frames
    BY DEF Kinds
  <2> QED  BY <1>10, <2>1 DEF LoseWorker, Phases, stream, kernel, worker
<1>11. CASE Produce
  <2>1. Head(work) \in Stream
    BY <1>11, Shortened DEF Produce
  <2>2. Frame("Chunk", Head(work), produced[Head(work)] + 1) \in Frames
    BY <2>1, SMTT(30) DEF Kinds
  <2>3. wire' \in Seq(Frames)
    BY <1>11, <2>2, Appended DEF Produce, Emit
  <2>4. produced' \in [Stream -> Nat]
    <3>1. produced' = [produced EXCEPT ![Head(work)] = @ + 1]
      BY <1>11, Zenon DEF Produce
    <3>2. PICK h \in Stream : produced' = [produced EXCEPT ![h] = produced[h] + 1]
      BY <2>1, <3>1, Zenon
    <3>3. produced[h] + 1 \in Nat
      OBVIOUS
    <3> QED  BY <3>2, <3>3
  <2> QED  BY <1>11, <2>3, <2>4 DEF Produce, stream, kernel, handler
<1>12. CASE Finish
  <2>1. Head(work) \in Stream /\ work' \in Seq(Stream)
    BY <1>12, Shortened DEF Finish, NextJob
  <2>2. \A kind \in Endings : Frame(kind, Head(work), produced[Head(work)]) \in Frames
    BY <2>1 DEF Kinds, Endings
  <2>3. wire' \in Seq(Frames)
    BY <1>12, <2>2 DEF Finish, Emit
  <2> QED  BY <1>12, <2>1, <2>3 DEF Finish, stream, kernel, handler
<1>13. ASSUME NEW s \in Stream, Request(s)  PROVE RelayTypeOK'
  <2>0. /\ client' = [client EXCEPT ![s] = "open"]
        /\ Accepted(s) \/ Refused(s)
        /\ channel' = channel /\ received' = received /\ heartbeat' = heartbeat
        /\ renewed' = renewed /\ work' = work /\ produced' = produced /\ wire' = wire
    BY <1>13, Requested, Zenon
  <2>1. CASE Accepted(s)
    BY <1>0, <2>0, <2>1 DEF Accepted, Phases
  <2>2. CASE Refused(s)
    BY <2>0, <2>2 DEF Refused
  <2> QED  BY <2>0, <2>1, <2>2
<1>14. ASSUME NEW s \in Stream, KernelSends(s)  PROVE RelayTypeOK'
  <2>1. Head(ending[s]) \in Frames /\ Tail(ending[s]) \in Seq(Frames)
    BY <1>14, Shortened DEF KernelSends
  <2>2. Append(channel[s], Head(ending[s])) \in Seq(Frames)
    BY <2>1, Appended
  <2>3. channel' \in [Stream -> Seq(Frames)]
    <3>1. CASE Push(s, Head(ending[s]))
      BY <3>1, <2>2 DEF Push
    <3>2. CASE UNCHANGED channel
      BY <3>2
    <3> QED  BY <1>14, <3>1, <3>2 DEF KernelSends
  <2>4. ending' \in [Stream -> Seq(Frames)]
    BY <1>14, <2>1 DEF KernelSends
  <2> QED  BY <1>14, <2>3, <2>4 DEF KernelSends, handler, worker
<1>15. ASSUME NEW s \in Stream, Receive(s)  PROVE RelayTypeOK'
  <2>1. Head(channel[s]) \in Frames /\ Tail(channel[s]) \in Seq(Frames)
    BY <1>15, Shortened DEF Receive
  <2>2. channel' \in [Stream -> Seq(Frames)]
    BY <1>15, <2>1 DEF Receive
  <2>3. received' \in [Stream -> Seq(Frames)]
    BY <1>15, <2>1 DEF Receive
  <2> QED  BY <1>15, <2>2, <2>3 DEF Receive, handler, worker, kernel
<1>16. ASSUME NEW s \in Stream, EndResponse(s)  PROVE RelayTypeOK'
  BY <1>16 DEF EndResponse, handler, worker, kernel
<1>17. ASSUME NEW s \in Stream, Leave(s)  PROVE RelayTypeOK'
  BY <1>17 DEF Leave, handler, worker, kernel
<1>18. CASE UNCHANGED vars
  BY <1>18 DEF vars, kernel, stream, handler, worker
<1> QED
  BY <1>1, <1>2, <1>3, <1>4, <1>5, <1>6, <1>7, <1>8, <1>9, <1>10, <1>11, <1>12, <1>13,
     <1>14, <1>15, <1>16, <1>17, <1>18 DEF Next, Relay

-----------------------------------------------------------------------------
(* What the steps that move frames do *)

\* x is q with f at its end; x is q without its first element.
Grown(x, q, f) ==
  /\ Len(q) \in Nat /\ Len(x) = Len(q) + 1 /\ x[Len(q) + 1] = f
  /\ \A i \in 1 .. Len(q) : x[i] = q[i]
Shrunk(x, q) ==
  /\ Len(q) \in Nat \ {0} /\ Len(x) = Len(q) - 1
  /\ \A i \in 1 .. Len(q) - 1 : x[i] = q[i + 1]

LEMMA Grows ==
  ASSUME NEW S, NEW q \in Seq(S), NEW f \in S
  PROVE  Grown(Append(q, f), q, f)
BY Appended DEF Grown

LEMMA Shrinks ==
  ASSUME NEW S, NEW q \in Seq(S), q # <<>>
  PROVE  Shrunk(Tail(q), q) /\ Head(q) = q[1] /\ Head(q) \in S
BY Shortened DEF Shrunk

LEMMA Started ==
  ASSUME RelayTypeOK, HoldInv, StartRelay
  PROVE  /\ relay.phase = "starting" /\ relay.job \in Stream
         /\ relay'.phase = "reading" /\ relay'.job = relay.job /\ relay'.frame = relay.frame
         /\ heartbeat' = HeartbeatPeriod
         /\ Grown(work', work, relay.job)
         /\ UNCHANGED <<client, remaining, registered, ending, channel, received, renewed,
                        produced, wire>>
<1>1. relay.phase = "starting" /\ relay.job \in Stream
  BY DEF StartRelay, HoldInv, Holding
<1>2. Grown(work', work, relay.job)
  BY <1>1, Grows DEF StartRelay, RelayTypeOK
<1> QED  BY <1>1, <1>2 DEF StartRelay, RelayTypeOK, stream, kernel

LEMMA Read ==
  ASSUME RelayTypeOK, HoldInv, ReadFrame
  PROVE  /\ relay.phase = "reading" /\ relay.job \in Stream
         /\ relay'.phase = "sending" /\ relay'.job = relay.job /\ relay'.frame = wire[1]
         /\ Shrunk(wire', wire) /\ wire' = Tail(wire) /\ wire # <<>>
         /\ UNCHANGED <<client, remaining, registered, ending, channel, received, renewed,
                        heartbeat, produced, work>>
<1>1. relay.phase = "reading" /\ relay.job \in Stream
  BY DEF ReadFrame, HoldInv, Holding
<1>2. wire # <<>> /\ wire' = Tail(wire)
  BY DEF ReadFrame
<1>3. Shrunk(wire', wire) /\ Head(wire) = wire[1]
  BY <1>2, Shrinks DEF RelayTypeOK
<1> QED  BY <1>1, <1>2, <1>3 DEF ReadFrame, RelayTypeOK, stream, kernel

LEMMA FrameSent ==
  ASSUME RelayTypeOK, HoldInv, SendFrame
  PROVE  /\ relay.phase = "sending" /\ relay.job \in Stream /\ relay.frame \in Frames
         /\ client[relay.job] = "open"
         /\ channel' = [channel EXCEPT ![relay.job] = Append(@, relay.frame)]
         /\ relay'.phase = AfterSend /\ relay'.job = relay.job /\ relay'.frame = relay.frame
         /\ UNCHANGED <<client, remaining, registered, ending, received, renewed,
                        heartbeat, produced, work, wire>>
BY DEF SendFrame, HoldInv, Holding, Push, HasRoom, RelayTypeOK, kernel, worker

LEMMA NotSent ==
  ASSUME RelayTypeOK, HoldInv, SendFails
  PROVE  /\ relay.phase = "sending" /\ relay.job \in Stream /\ client[relay.job] = "gone"
         /\ \/ relay' = Idle
            \/ /\ relay.frame.kind # "Chunk"
               /\ relay'.phase = "reporting" /\ relay'.job = relay.job
               /\ relay'.frame = relay.frame
         /\ UNCHANGED <<client, remaining, registered, ending, channel, received, renewed,
                        heartbeat, produced, work, wire>>
<1>1. relay.phase = "sending" /\ relay.job \in Stream /\ client[relay.job] = "gone"
  BY DEF SendFails, HoldInv, Holding, Closed
<1> QED  BY <1>1 DEF SendFails, RelayTypeOK, kernel, worker, stream

LEMMA Ignored ==
  ASSUME RelayTypeOK, IgnoreFrame
  PROVE  /\ relay.phase = "waiting" /\ wire # <<>>
         /\ Shrunk(wire', wire)
         /\ UNCHANGED <<client, remaining, registered, ending, channel, received, renewed,
                        relay, heartbeat, produced, work>>
BY Shrinks DEF IgnoreFrame, RelayTypeOK, stream, kernel, handler

LEMMA MadeChunk ==
  ASSUME RelayTypeOK, Produce
  PROVE  /\ \E h \in Stream, f \in Frames :
              /\ Len(work) \in Nat \ {0} /\ work[1] = h
              /\ f.kind = "Chunk" /\ f.job = h /\ f.chunk = produced[h] + 1
              /\ produced' = [produced EXCEPT ![h] = @ + 1]
              /\ Grown(wire', wire, f) /\ wire' = Append(wire, f)
         /\ relay.phase # "gone"
         /\ UNCHANGED <<client, remaining, registered, ending, channel, received, renewed,
                        relay, heartbeat, work>>
<1>1. work # <<>> /\ relay.phase # "gone"
  BY DEF Produce
<1>2. Len(work) \in Nat \ {0} /\ Head(work) = work[1] /\ Head(work) \in Stream
  BY <1>1, Shrinks DEF Shrunk, RelayTypeOK
<1>3. /\ produced' = [produced EXCEPT ![Head(work)] = @ + 1]
      /\ wire' = Append(wire, Frame("Chunk", Head(work), produced[Head(work)] + 1))
  BY Zenon DEF Produce, Emit
<1>4. PICK h \in Stream :
        /\ h = work[1] /\ produced' = [produced EXCEPT ![h] = @ + 1]
        /\ wire' = Append(wire, Frame("Chunk", h, produced[h] + 1))
  BY <1>2, <1>3, Zenon
<1>5. produced[h] + 1 \in Nat
  BY DEF RelayTypeOK
<1>6. PICK f : f = Frame("Chunk", h, produced[h] + 1)
  OBVIOUS
<1>7. f \in Frames /\ f.kind = "Chunk" /\ f.job = h /\ f.chunk = produced[h] + 1
  BY <1>5, <1>6 DEF Frame, Frames, Kinds
<1>8. Grown(wire', wire, f) /\ wire' = Append(wire, f)
  BY <1>4, <1>6, <1>7, Grows DEF RelayTypeOK
<1> QED  BY <1>1, <1>2, <1>4, <1>7, <1>8 DEF Produce, stream, kernel, handler

LEMMA MadeEnd ==
  ASSUME RelayTypeOK, Finish
  PROVE  /\ \E h \in Stream, f \in Frames :
              /\ work[1] = h /\ Shrunk(work', work) /\ work' = Tail(work)
              /\ f.kind \in {"Done", "Error"} /\ f.job = h
              /\ Grown(wire', wire, f) /\ wire' = Append(wire, f)
         /\ relay.phase # "gone"
         /\ UNCHANGED <<client, remaining, registered, ending, channel, received, renewed,
                        relay, heartbeat, produced>>
<1>1. work # <<>> /\ relay.phase # "gone" /\ work' = Tail(work)
  BY DEF Finish, NextJob
<1>2. Shrunk(work', work) /\ Head(work) = work[1] /\ Head(work) \in Stream
  BY <1>1, Shrinks DEF RelayTypeOK
<1>3. PICK kind \in Endings :
        wire' = Append(wire, Frame(kind, Head(work), produced[Head(work)]))
  BY Zenon DEF Finish, Emit
<1>4. PICK h \in Stream : h = work[1] /\ wire' = Append(wire, Frame(kind, h, produced[h]))
  BY <1>2, <1>3, Zenon
<1>5. PICK f : f = Frame(kind, h, produced[h])
  OBVIOUS
<1>6. produced[h] \in Nat
  BY DEF RelayTypeOK
<1>7. f \in Frames /\ f.kind \in {"Done", "Error"} /\ f.job = h
  BY <1>5, <1>6 DEF Frame, Frames, Kinds, Endings
<1>8. Grown(wire', wire, f) /\ wire' = Append(wire, f)
  BY <1>4, <1>5, <1>7, Grows DEF RelayTypeOK
<1> QED  BY <1>1, <1>2, <1>4, <1>7, <1>8 DEF Finish, stream, kernel, handler

LEMMA Reported ==
  ASSUME RelayTypeOK, HoldInv, Report
  PROVE  /\ relay.phase = "reporting" /\ relay.job \in Stream /\ relay' \in {Idle, Gone}
         /\ relay.frame.kind # "Lost" => relay' = Idle
         /\ relay.frame.kind = "Lost" => relay' = Gone
         /\ \/ remaining' = remaining /\ ending' = ending
            \/ /\ remaining[relay.job] > 0
               /\ remaining' = [remaining EXCEPT ![relay.job] = 0]
               /\ ending' = [ending EXCEPT ![relay.job] =
                    IF relay.frame.kind = "Done" THEN <<DoneFrame(relay.job)>>
                                                 ELSE Failure(relay.job)]
         /\ UNCHANGED <<client, channel, received, renewed, heartbeat, produced, work, wire>>
<1>1. relay.phase = "reporting" /\ relay.job \in Stream
  BY DEF Report, HoldInv, Holding
<1>2. /\ relay' \in {Idle, Gone}
      /\ relay.frame.kind # "Lost" => relay' = Idle
      /\ relay.frame.kind = "Lost" => relay' = Gone
  BY DEF Report
<1> DEFINE told == IF relay.frame.kind = "Done" THEN <<DoneFrame(relay.job)>>
                                                ELSE Failure(relay.job)
<1>3. EndAssignment(relay.job, told)
  BY DEF Report
<1> HIDE DEF told
<1>4. CASE Active(relay.job)
  <2>1. Told({relay.job}, [t \in {relay.job} |-> told])
    BY <1>3, <1>4 DEF EndAssignment
  <2>2. remaining' = [remaining EXCEPT ![relay.job] = 0]
    BY <1>1, <2>1 DEF Told, RelayTypeOK
  <2>3. ending' = [ending EXCEPT ![relay.job] = told]
    BY <1>1, <2>1 DEF Told, RelayTypeOK
  <2> QED  BY <1>1, <1>2, <1>4, <2>2, <2>3 DEF Report, Active, stream, worker, told
<1>5. CASE ~ Active(relay.job)
  BY <1>1, <1>2, <1>3, <1>5 DEF EndAssignment, Report, kernel, stream, worker
<1> QED  BY <1>4, <1>5

LEMMA Ticked ==
  ASSUME RelayTypeOK, Tick
  PROVE  /\ ~Due
         /\ \A s \in Stream :
              /\ remaining'[s] = IF remaining[s] > 0 THEN remaining[s] - 1 ELSE 0
              /\ ending'[s] = IF remaining[s] = 1 THEN Failure(s) ELSE ending[s]
         /\ heartbeat' = IF Relaying /\ heartbeat > 0 THEN heartbeat - 1 ELSE heartbeat
         /\ UNCHANGED <<client, channel, received, relay, renewed, produced, work, wire>>
BY DEF Tick, RelayTypeOK, Active, stream, worker

LEMMA KernelSent ==
  ASSUME RelayTypeOK, NEW t \in Stream, KernelSends(t)
  PROVE  /\ ending[t] # <<>> /\ Head(ending[t]) = ending[t][1]
         /\ Shrunk(ending'[t], ending[t])
         /\ \A s \in Stream : s # t => ending'[s] = ending[s] /\ channel'[s] = channel[s]
         /\ \/ channel'[t] = channel[t] /\ client[t] \in {"gone", "ended"}
            \/ Grown(channel'[t], channel[t], ending[t][1]) /\ client[t] = "open"
         /\ ending'[t] = Tail(ending[t])
         /\ channel'[t] \in {channel[t], Append(channel[t], ending[t][1])}
         /\ UNCHANGED <<client, remaining, registered, received, renewed, relay, heartbeat,
                        produced, work, wire>>
<1>1. ending[t] # <<>> /\ ending' = [ending EXCEPT ![t] = Tail(@)]
  BY DEF KernelSends
<1>2. Head(ending[t]) = ending[t][1] /\ Head(ending[t]) \in Frames
      /\ Shrunk(Tail(ending[t]), ending[t])
  BY <1>1, Shrinks DEF RelayTypeOK
<1>3. /\ ending'[t] = Tail(ending[t])
      /\ \A s \in Stream : s # t => ending'[s] = ending[s]
  BY <1>1 DEF RelayTypeOK
<1>4. CASE Closed(t) /\ UNCHANGED channel
  BY <1>1, <1>2, <1>3, <1>4 DEF KernelSends, Closed, handler, worker
<1>5. CASE HasRoom(t) /\ Push(t, Head(ending[t]))
  <2>1. Grown(Append(channel[t], Head(ending[t])), channel[t], Head(ending[t]))
    BY <1>2, Grows DEF RelayTypeOK
  <2>2. channel'[t] = Append(channel[t], Head(ending[t]))
        /\ \A s \in Stream : s # t => channel'[s] = channel[s]
    BY <1>5 DEF Push, RelayTypeOK
  <2> QED  BY <1>1, <1>2, <1>3, <1>5, <2>1, <2>2 DEF KernelSends, HasRoom, handler, worker
<1> QED  BY <1>4, <1>5 DEF KernelSends

LEMMA GotFrame ==
  ASSUME RelayTypeOK, NEW t \in Stream, Receive(t)
  PROVE  /\ client[t] = "open" /\ channel[t] # <<>> /\ Head(channel[t]) = channel[t][1]
         /\ Head(channel[t]) \in Frames
         /\ channel'[t] = Tail(channel[t])
         /\ Shrunk(channel'[t], channel[t])
         /\ Recording => /\ Grown(received'[t], received[t], channel[t][1])
                         /\ received'[t] = Append(received[t], channel[t][1])
         /\ ~Recording => received'[t] = received[t]
         /\ \A s \in Stream : s # t => channel'[s] = channel[s] /\ received'[s] = received[s]
         /\ UNCHANGED <<client, remaining, registered, ending, renewed, relay, heartbeat,
                        produced, work, wire>>
<1>1. client[t] = "open" /\ channel[t] # <<>> /\ channel' = [channel EXCEPT ![t] = Tail(@)]
  BY DEF Receive
<1>2. Head(channel[t]) = channel[t][1] /\ Head(channel[t]) \in Frames
      /\ Shrunk(Tail(channel[t]), channel[t])
  BY <1>1, Shrinks DEF RelayTypeOK
<1>3. /\ channel'[t] = Tail(channel[t])
      /\ \A s \in Stream : s # t => channel'[s] = channel[s]
  BY <1>1 DEF RelayTypeOK
<1>4. CASE Recording
  <2>1. Grown(Append(received[t], Head(channel[t])), received[t], Head(channel[t]))
    BY <1>2, Grows DEF RelayTypeOK
  <2>2. received' = [received EXCEPT ![t] = Append(@, Head(channel[t]))]
    BY <1>4 DEF Receive
  <2>3. received'[t] = Append(received[t], Head(channel[t]))
        /\ \A s \in Stream : s # t => received'[s] = received[s]
    BY <2>2 DEF RelayTypeOK
  <2> QED  BY <1>1, <1>2, <1>3, <1>4, <2>1, <2>3 DEF Receive, kernel, handler, worker
<1>5. CASE ~Recording
  BY <1>1, <1>2, <1>3, <1>5 DEF Receive, kernel, handler, worker
<1> QED  BY <1>4, <1>5

-----------------------------------------------------------------------------
(* Jobs that are new, and jobs that are held *)

LEMMA HoldKept ==
  ASSUME RelayTypeOK, NewInv, HoldInv, [Next]_vars
  PROVE  HoldInv'
<1> USE NoStreamAssumption DEF HoldInv, Holding
<1>1. CASE Tick
  BY <1>1, Ticked
<1>2. CASE StartRelay
  <2>1. \A i, j \in 1 .. Len(work') : work'[i] = work'[j] => i = j
    BY <1>2, Started DEF Grown
  <2> QED  BY <1>2, <2>1, Started
<1>3. CASE RelayHeartbeat
  BY <1>3 DEF RelayHeartbeat, Due, stream, worker
<1>4. CASE ReadFrame
  <2>1. /\ wire[1].kind \in {"Chunk", "Done", "Error"}
        /\ \A i \in 1 .. Len(wire') : wire'[i].kind \in {"Chunk", "Done", "Error"}
    <3>1. Shrunk(wire', wire)
      BY <1>4, Read
    <3> QED  BY <3>1 DEF Shrunk
  <2> QED  BY <1>4, <2>1, Read
<1>5. CASE SendFrame
  BY <1>5, FrameSent DEF AfterSend
<1>6. CASE SendFails
  BY <1>6, NotSent DEF Idle
<1>7. CASE IgnoreFrame
  BY <1>7, Ignored DEF Shrunk
<1>8. CASE Report
  BY <1>8, Reported DEF Gone, Idle
<1>9. CASE LoseIdleWorker
  BY <1>9 DEF LoseIdleWorker, Gone, stream, worker
<1>10. CASE LoseWorker
  <2>1. relay.phase = "reading" /\ UNCHANGED <<client, work, wire, renewed>>
        /\ relay'.phase = "reporting" /\ relay'.job = relay.job /\ relay'.frame.kind = "Lost"
    BY <1>10 DEF LoseWorker, stream, worker, RelayTypeOK, Frame
  <2> QED  BY <2>1
<1>11. CASE Produce
  BY <1>11, MadeChunk DEF Grown
<1>12. CASE Finish
  <2>1. UNCHANGED <<client, relay, renewed>>
    BY <1>12, MadeEnd
  <2>2. \A i \in 1 .. Len(wire') : wire'[i].kind \in {"Chunk", "Done", "Error"}
    BY <1>12, MadeEnd DEF Grown
  <2>3. Shrunk(work', work)
    BY <1>12, MadeEnd
  <2> QED  BY <2>1, <2>2, <2>3, SMTT(30) DEF Shrunk
<1>13. ASSUME NEW s \in Stream, Request(s)  PROVE HoldInv'
  <2>0. /\ client[s] = "new" /\ client' = [client EXCEPT ![s] = "open"]
        /\ Accepted(s) \/ Refused(s)
        /\ UNCHANGED <<renewed, work, wire>>
    BY <1>13, Requested, Zenon
  <2>1. CASE Accepted(s)
    BY <2>0, <2>1 DEF Accepted, RelayTypeOK, NewInv
  <2>2. CASE Refused(s)
    BY <2>0, <2>2 DEF Refused, RelayTypeOK
  <2> QED  BY <2>0, <2>1, <2>2
<1>14. ASSUME NEW s \in Stream, KernelSends(s)  PROVE HoldInv'
  BY <1>14 DEF KernelSends, handler, worker
<1>15. ASSUME NEW s \in Stream, Receive(s)  PROVE HoldInv'
  BY <1>15 DEF Receive, handler, worker
<1>16. ASSUME NEW s \in Stream, EndResponse(s)  PROVE HoldInv'
  BY <1>16 DEF EndResponse, Senders, handler, worker, RelayTypeOK
<1>17. ASSUME NEW s \in Stream, Leave(s)  PROVE HoldInv'
  BY <1>17 DEF Leave, handler, worker, RelayTypeOK
<1>18. CASE UNCHANGED vars
  BY <1>18 DEF vars, stream, handler, worker
<1> QED
  BY <1>1, <1>2, <1>3, <1>4, <1>5, <1>6, <1>7, <1>8, <1>9, <1>10, <1>11, <1>12, <1>13,
     <1>14, <1>15, <1>16, <1>17, <1>18 DEF Next, Relay

Unused(s) ==
  /\ relay.job # s /\ relay.frame.job # s
  /\ remaining[s] = 0 /\ produced[s] = 0 /\ s \notin renewed
  /\ ending[s] = <<>> /\ channel[s] = <<>> /\ received[s] = <<>>
  /\ \A i \in 1 .. Len(work) : work[i] # s
  /\ \A i \in 1 .. Len(wire) : wire[i].job # s

LEMMA NewKept ==
  ASSUME RelayTypeOK, NewInv, HoldInv, [Next]_vars
  PROVE  NewInv'
<1> SUFFICES ASSUME NEW s \in Stream, client'[s] = "new"  PROVE Unused(s)'
  BY DEF NewInv, Unused
<1>u. client[s] = "new" => Unused(s)
  BY DEF NewInv, Unused
<1> USE NoStreamAssumption
<1>1. CASE Tick
  BY <1>1, <1>u, Ticked DEF Unused
<1>2. CASE StartRelay
  BY <1>2, <1>u, Started DEF Unused, Grown
<1>3. CASE RelayHeartbeat
  BY <1>3, <1>u DEF RelayHeartbeat, Unused, stream, worker, RelayTypeOK
<1>4. CASE ReadFrame
  <2>1. Unused(s) /\ Shrunk(wire', wire)
    BY <1>4, <1>u, Read
  <2>2. wire[1].job # s /\ \A i \in 1 .. Len(wire') : wire'[i].job # s
    BY <2>1 DEF Unused, Shrunk
  <2> QED  BY <1>4, <2>1, <2>2, Read DEF Unused
<1>5. CASE SendFrame
  <2>1. Unused(s) /\ channel'[s] = channel[s]
    BY <1>5, <1>u, FrameSent DEF Unused, RelayTypeOK
  <2> QED  BY <1>5, <2>1, FrameSent DEF Unused
<1>6. CASE SendFails
  <2>1. Unused(s)
    BY <1>6, <1>u, NotSent
  <2>2. relay'.job # s /\ relay'.frame.job # s
    BY <1>6, <2>1, NotSent DEF Unused, Idle, NoFrame, Frame
  <2> QED  BY <1>6, <2>1, <2>2, NotSent DEF Unused
<1>7. CASE IgnoreFrame
  BY <1>7, <1>u, Ignored DEF Unused, Shrunk
<1>8. CASE Report
  <2>1. Unused(s)
    BY <1>8, <1>u, Reported
  <2>2. relay'.job # s /\ relay'.frame.job # s
    BY <1>8, Reported DEF Idle, Gone, NoFrame, Frame
  <2>3. remaining'[s] = 0 /\ ending'[s] = <<>>
    BY <1>8, <2>1, Reported DEF Unused, RelayTypeOK
  <2> QED  BY <1>8, <2>1, <2>2, <2>3, Reported DEF Unused
<1>9. CASE LoseIdleWorker
  BY <1>9, <1>u DEF LoseIdleWorker, Gone, NoFrame, Frame, stream, kernel, worker, Unused
<1>10. CASE LoseWorker
  <2>1. /\ relay'.job = relay.job /\ relay'.frame.job = NoStream
        /\ UNCHANGED <<kernel, stream, renewed, worker>>
    BY <1>10 DEF LoseWorker, Frame, RelayTypeOK
  <2> QED  BY <1>u, <2>1 DEF stream, kernel, worker, Unused
<1>11. CASE Produce
  <2>1. Unused(s)
    BY <1>11, <1>u, MadeChunk
  <2>2. produced'[s] = 0 /\ \A i \in 1 .. Len(wire') : wire'[i].job # s
    <3>1. PICK h \in Stream, f \in Frames :
            /\ Len(work) \in Nat \ {0} /\ work[1] = h /\ f.job = h
            /\ produced' = [produced EXCEPT ![h] = @ + 1]
            /\ Grown(wire', wire, f)
      BY <1>11, MadeChunk
    <3>2. h # s
      BY <2>1, <3>1 DEF Unused
    <3>3. produced'[s] = 0
      BY <2>1, <3>1, <3>2 DEF Unused, RelayTypeOK
    <3>4. \A i \in 1 .. Len(wire') : wire'[i].job # s
      BY <2>1, <3>1, <3>2 DEF Unused, Grown
    <3> QED  BY <3>3, <3>4
  <2> QED  BY <1>11, <2>1, <2>2, MadeChunk DEF Unused
<1>12. CASE Finish
  <2>1. Unused(s)
    BY <1>12, <1>u, MadeEnd
  <2>2. /\ \A i \in 1 .. Len(wire') : wire'[i].job # s
        /\ \A i \in 1 .. Len(work') : work'[i] # s
    <3>1. PICK h \in Stream, f \in Frames :
            work[1] = h /\ Shrunk(work', work) /\ f.job = h /\ Grown(wire', wire, f)
      BY <1>12, MadeEnd
    <3>2. h # s
      BY <2>1, <3>1 DEF Unused, Shrunk
    <3>3. \A i \in 1 .. Len(wire') : wire'[i].job # s
      BY <2>1, <3>1, <3>2 DEF Unused, Grown
    <3>4. \A i \in 1 .. Len(work') : work'[i] # s
      BY <2>1, <3>1 DEF Unused, Shrunk
    <3> QED  BY <3>3, <3>4
  <2> QED  BY <1>12, <2>1, <2>2, MadeEnd DEF Unused
<1>13. ASSUME NEW t \in Stream, Request(t)  PROVE Unused(s)'
  <2>0. /\ client' = [client EXCEPT ![t] = "open"]
        /\ Accepted(t) \/ Refused(t)
        /\ UNCHANGED <<channel, received, renewed, work, produced, wire>>
    BY <1>13, Requested, Zenon
  <2>1. s # t /\ Unused(s)
    BY <2>0, <1>u DEF RelayTypeOK
  <2>2. CASE Accepted(t)
    BY <2>0, <2>1, <2>2 DEF Accepted, NoFrame, Frame, Unused, RelayTypeOK
  <2>3. CASE Refused(t)
    BY <2>0, <2>1, <2>3 DEF Refused, Unused, RelayTypeOK
  <2> QED  BY <2>0, <2>2, <2>3
<1>14. ASSUME NEW t \in Stream, KernelSends(t)  PROVE Unused(s)'
  <2>1. Unused(s)
    BY <1>14, <1>u DEF KernelSends
  <2>2. s # t
    BY <1>14, <2>1 DEF KernelSends, Unused
  <2>3. ending'[s] = <<>> /\ channel'[s] = <<>>
    BY <1>14, <2>1, <2>2 DEF KernelSends, Push, Unused, RelayTypeOK
  <2> QED  BY <1>14, <2>1, <2>3 DEF KernelSends, handler, worker, Unused
<1>15. ASSUME NEW t \in Stream, Receive(t) \/ EndResponse(t) \/ Leave(t)  PROVE Unused(s)'
  <2>1. Unused(s) /\ s # t
    BY <1>15, <1>u DEF Receive, EndResponse, Leave, RelayTypeOK
  <2>2. channel'[s] = <<>> /\ received'[s] = <<>>
    BY <1>15, <2>1 DEF Receive, EndResponse, Leave, Unused, RelayTypeOK
  <2> QED
    BY <1>15, <2>1, <2>2 DEF Receive, EndResponse, Leave, handler, worker, kernel, Unused
<1>18. CASE UNCHANGED vars
  BY <1>18, <1>u DEF vars, stream, handler, worker, kernel, Unused
<1> QED
  BY <1>1, <1>2, <1>3, <1>4, <1>5, <1>6, <1>7, <1>8, <1>9, <1>10, <1>11, <1>12, <1>13,
     <1>14, <1>15, <1>18 DEF Next, Relay

-----------------------------------------------------------------------------
(* Own frames *)

LEMMA OwnGrows ==
  ASSUME NEW q, NEW x, NEW f, NEW s, Own(q, s), Grown(x, q, f), f.job = s
  PROVE  Own(x, s)
BY DEF Own, Grown

LEMMA OwnShrinks ==
  ASSUME NEW q, NEW x, NEW s, Own(q, s), Shrunk(x, q)
  PROVE  Own(x, s) /\ q[1].job = s
BY DEF Own, Shrunk

LEMMA OwnEndings ==
  ASSUME NEW s \in Stream
  PROVE  Own(Failure(s), s) /\ Own(<<DoneFrame(s)>>, s)
BY DEF Own, Failure, DoneFrame, ErrorFrame, Frame

LEMMA NoElements ==
  ASSUME NEW S, NEW q \in Seq(S)
  PROVE  Len(q) \in Nat /\ (Len(q) = 0 <=> q = <<>>)
BY EmptySeq, LenProperties

LEMMA OwnEndingKept ==
  ASSUME RelayTypeOK, HoldInv, OwnInv, [Next]_vars, NEW s \in Stream
  PROVE  Own(ending'[s], s)
<1>o. Own(ending[s], s)
  BY DEF OwnInv
<1>1. CASE Tick
  BY <1>1, <1>o, Ticked, OwnEndings
<1>2. CASE Report
  <2>1. ending'[s] \in {ending[s], Failure(s), <<DoneFrame(s)>>}
    BY <1>2, Reported, ZenonT(60) DEF RelayTypeOK
  <2> QED  BY <1>o, <2>1, OwnEndings
<1>3. ASSUME NEW t \in Stream, Request(t)  PROVE Own(ending'[s], s)
  <2>1. Accepted(t) \/ Refused(t)
    BY <1>3, Requested, Zenon
  <2> QED  BY <1>o, <2>1, OwnEndings DEF Accepted, Refused, RelayTypeOK
<1>4. ASSUME NEW t \in Stream, KernelSends(t)  PROVE Own(ending'[s], s)
  <2>1. ending'[s] = ending[s] \/ Shrunk(ending'[s], ending[s])
    BY <1>4, KernelSent
  <2> QED  BY <1>o, <2>1, OwnShrinks
<1>5. CASE UNCHANGED ending
  BY <1>o, <1>5
<1> QED
  BY <1>1, <1>2, <1>3, <1>4, <1>5, Started, Read, FrameSent, NotSent, Ignored, MadeChunk, MadeEnd
  DEF Next, Relay, RelayHeartbeat, LoseIdleWorker, LoseWorker, Receive, EndResponse, Leave,
      kernel, vars

\* Who has left has left.
LEMMA LeftForGood ==
  ASSUME RelayTypeOK, HoldInv, [Next]_vars, NobodyLeft'
  PROVE  NobodyLeft
<1>1. ASSUME NEW t \in Stream, Request(t)  PROVE NobodyLeft
  <2>1. client' = [client EXCEPT ![t] = "open"] /\ client[t] = "new"
    BY <1>1, Requested, Zenon
  <2> QED  BY <2>1 DEF NobodyLeft, RelayTypeOK
<1>2. ASSUME NEW t \in Stream, EndResponse(t) \/ Leave(t)  PROVE NobodyLeft
  BY <1>2 DEF EndResponse, Leave, NobodyLeft, RelayTypeOK
<1>3. CASE UNCHANGED client
  BY <1>3 DEF NobodyLeft
<1> QED
  BY <1>1, <1>2, <1>3, Started, Read, FrameSent, NotSent, Ignored, MadeChunk, MadeEnd, Reported, Ticked
  DEF Next, Relay, RelayHeartbeat, LoseIdleWorker, LoseWorker, Receive, KernelSends,
      stream, vars

LEMMA OwnSentKept ==
  ASSUME RelayTypeOK, HoldInv, OwnInv, [Next]_vars, NobodyLeft'
  PROVE  OwnSent'
<1>n. NobodyLeft /\ OwnSent /\ OneAnswer
  BY LeftForGood DEF OwnInv
<1> SUFFICES ASSUME NEW s \in Stream  PROVE Own(channel'[s], s) /\ Own(received'[s], s)
  BY DEF OwnSent
<1>o. Own(channel[s], s) /\ Own(received[s], s) /\ Own(ending[s], s)
  BY <1>n DEF OwnSent, OwnInv
<1>1. CASE SendFrame
  <2>1. /\ relay.phase = "sending" /\ relay.job \in Stream /\ relay.frame \in Frames
        /\ channel' = [channel EXCEPT ![relay.job] = Append(@, relay.frame)]
        /\ received' = received
    BY <1>1, FrameSent
  <2>2. CASE s = relay.job
    <3>1. Grown(channel'[s], channel[s], relay.frame)
      BY <2>1, <2>2, Grows DEF RelayTypeOK
    <3>2. relay.frame.job = s
      BY <1>n, <2>1, <2>2 DEF OneAnswer
    <3> QED  BY <1>o, <2>1, <3>1, <3>2, OwnGrows
  <2>3. CASE s # relay.job
    BY <1>o, <2>1, <2>3 DEF RelayTypeOK
  <2> QED  BY <2>2, <2>3
<1>2. ASSUME NEW t \in Stream, KernelSends(t)
      PROVE  Own(channel'[s], s) /\ Own(received'[s], s)
  <2>1. /\ received' = received
        /\ \/ channel'[s] = channel[s]
           \/ /\ Grown(channel'[s], channel[s], ending[s][1])
              /\ Shrunk(ending'[s], ending[s])
    BY <1>2, KernelSent
  <2> QED  BY <1>o, <2>1, OwnShrinks, OwnGrows
<1>3. ASSUME NEW t \in Stream, Receive(t)
      PROVE  Own(channel'[s], s) /\ Own(received'[s], s)
  <2>1. \/ channel'[s] = channel[s] /\ received'[s] = received[s]
        \/ /\ Shrunk(channel'[s], channel[s])
           /\ \/ received'[s] = received[s]
              \/ Grown(received'[s], received[s], channel[s][1])
    BY <1>3, GotFrame
  <2> QED  BY <1>o, <2>1, OwnShrinks, OwnGrows
<1>4. ASSUME NEW t \in Stream, EndResponse(t) \/ Leave(t)
      PROVE  Own(channel'[s], s) /\ Own(received'[s], s)
  <2>1. \A q \in {<<>>} : Own(q, s)
    BY DEF Own
  <2> QED  BY <1>o, <1>4, <2>1 DEF EndResponse, Leave, RelayTypeOK
<1>5. CASE UNCHANGED <<channel, received>>
  BY <1>o, <1>5
<1>6. ASSUME NEW t \in Stream, Request(t)  PROVE UNCHANGED <<channel, received>>
  BY <1>6, Requested, Zenon
<1> QED
  BY <1>1, <1>2, <1>3, <1>4, <1>5, <1>6, Started, Read, NotSent, Ignored, MadeChunk, MadeEnd,
     Reported, Ticked
  DEF Next, Relay, RelayHeartbeat, LoseIdleWorker, LoseWorker, stream, vars

LEMMA OneAnswerKept ==
  ASSUME RelayTypeOK, RelayTypeOK', HoldInv, OwnInv, [Next]_vars, NobodyLeft'
  PROVE  OneAnswer'
<1>n. NobodyLeft /\ OneAnswer
  BY LeftForGood DEF OwnInv
<1>e. (work = <<>> => Len(work) = 0) /\ (wire = <<>> => Len(wire) = 0)
      /\ (Len(work') = 0 => work' = <<>>) /\ (Len(wire') = 0 => wire' = <<>>)
  BY NoElements DEF RelayTypeOK
<1>1. CASE StartRelay
  <2>1. OneJob'
    <3>1. Grown(work', work, relay.job) /\ wire' = wire /\ relay'.job = relay.job
          /\ NothingLeft
      BY <1>n, <1>1, Started DEF OneAnswer
    <3> QED  BY <1>e, <3>1 DEF Grown, NothingLeft, OneJob
  <2> QED  BY <1>1, <2>1, Started DEF OneAnswer
<1>2. CASE ReadFrame
  <2>1. /\ Shrunk(wire', wire) /\ work' = work /\ relay'.job = relay.job /\ OneJob
        /\ relay'.frame = wire[1]
    BY <1>n, <1>2, Read DEF OneAnswer
  <2>2. OneJob'
    BY <2>1 DEF OneJob, Shrunk
  <2>3. relay'.frame.job = relay'.job
    BY <2>1 DEF OneJob, Shrunk
  <2>4. relay'.frame.kind # "Chunk" => NothingLeft'
    BY <1>e, <2>1 DEF OneJob, Shrunk, NothingLeft
  <2> QED  BY <1>2, <2>2, <2>3, <2>4, Read DEF OneAnswer
<1>3. CASE SendFrame
  BY <1>n, <1>3, FrameSent DEF OneAnswer, AfterSend, NothingLeft, OneJob
<1>4. CASE SendFails
  BY <1>n, <1>4, NotSent DEF NobodyLeft
<1>5. CASE IgnoreFrame
  BY <1>n, <1>5, Ignored DEF OneAnswer, NothingLeft
<1>6. CASE Report
  BY <1>n, <1>6, Reported DEF OneAnswer, NothingLeft, Idle, Gone
<1>7. CASE LoseIdleWorker
  BY <1>7 DEF LoseIdleWorker, Gone, OneAnswer
<1>8. CASE LoseWorker
  <2>1. relay'.phase = "reporting" /\ relay'.frame.kind = "Lost"
    BY <1>8 DEF LoseWorker, Frame, RelayTypeOK
  <2> QED  BY <2>1 DEF OneAnswer
<1>9. CASE Produce
  <2>1. PICK h \in Stream, f \in Frames :
          /\ Len(work) \in Nat \ {0} /\ work[1] = h
          /\ f.kind = "Chunk" /\ f.job = h /\ Grown(wire', wire, f)
    BY <1>9, MadeChunk
  <2>2. UNCHANGED <<relay, work>> /\ ~NothingLeft
    BY <1>9, <1>e, <2>1, MadeChunk DEF NothingLeft
  <2>3. OneJob => OneJob'
    BY <1>e, <2>1, <2>2 DEF OneJob, Grown
  <2> QED  BY <1>n, <2>2, <2>3 DEF OneAnswer
<1>10. CASE Finish
  <2>1. PICK h \in Stream, f \in Frames :
          work[1] = h /\ Shrunk(work', work) /\ f.job = h /\ Grown(wire', wire, f)
    BY <1>10, MadeEnd
  <2>2. UNCHANGED relay /\ ~NothingLeft
    BY <1>10, <1>e, <2>1, MadeEnd DEF NothingLeft, Shrunk
  <2>3. OneJob => OneJob'
    <3> SUFFICES ASSUME OneJob  PROVE OneJob'
      OBVIOUS
    <3>1. h = relay.job /\ Len(work) = 1
      BY <2>1 DEF OneJob, HoldInv, Shrunk
    <3>2. work' = <<>>
      BY <1>e, <2>1, <3>1 DEF Shrunk
    <3>3. \A i \in 1 .. Len(work') : FALSE
      BY <2>1, <3>1 DEF Shrunk
    <3>4. \A i \in 1 .. Len(wire) : wire[i].kind = "Chunk" /\ wire[i].job = relay.job
      BY <1>e, <3>1 DEF OneJob
    <3> QED  BY <2>1, <2>2, <3>1, <3>2, <3>3, <3>4 DEF OneJob, Grown
  <2> QED  BY <1>n, <2>2, <2>3 DEF OneAnswer
<1>11. ASSUME NEW t \in Stream, Request(t)  PROVE OneAnswer'
  <2>1. UNCHANGED <<work, wire>> /\ (Accepted(t) \/ Refused(t))
    BY <1>11, Requested, Zenon
  <2> QED  BY <1>n, <2>1 DEF Accepted, Refused, OneAnswer, NothingLeft, OneJob
<1>12. CASE UNCHANGED <<relay, work, wire>>
  BY <1>n, <1>12 DEF OneAnswer, NothingLeft, OneJob
<1> QED
  BY <1>1, <1>2, <1>3, <1>4, <1>5, <1>6, <1>7, <1>8, <1>9, <1>10, <1>11, <1>12, Ticked,
     KernelSent, GotFrame
  DEF Next, Relay, RelayHeartbeat, EndResponse, Leave, handler, worker, vars

LEMMA OwnKept ==
  ASSUME RelayTypeOK, RelayTypeOK', HoldInv, OwnInv, [Next]_vars
  PROVE  OwnInv'
BY OwnEndingKept, OwnSentKept, OneAnswerKept DEF OwnInv

-----------------------------------------------------------------------------
(* Deadlines *)

LEMMA DeadlineKept ==
  ASSUME RelayTypeOK, HoldInv, DeadlineInv, [Next]_vars
  PROVE  DeadlineInv'
<1> SUFFICES ASSUME NEW s \in renewed', relay'.job = s, relay'.phase \in {"reading", "sending"},
                    heartbeat' > 0, remaining'[s] > 0
             PROVE  remaining'[s] > heartbeat'
  BY DEF DeadlineInv
<1>1. CASE Tick
  <2>1. s \in Stream /\ s \in renewed /\ relay' = relay
    BY <1>1, Ticked DEF RelayTypeOK
  <2>2. /\ remaining[s] \in Nat /\ heartbeat \in Nat
        /\ remaining'[s] = remaining[s] - 1 /\ heartbeat' = heartbeat - 1
    BY <1>1, <2>1, Ticked DEF RelayTypeOK, Relaying
  <2> QED  BY <2>1, <2>2 DEF DeadlineInv
<1>2. CASE StartRelay
  BY <1>2, Started DEF HoldInv
<1>3. CASE RelayHeartbeat
  <2>1. relay' = relay /\ s \in Stream
    BY <1>3, NoStreamAssumption DEF RelayHeartbeat, HoldInv, Holding
  <2>2. remaining'[s] = StreamTTL
    BY <1>3, <2>1 DEF RelayHeartbeat, RelayTypeOK
  <2> QED  BY <1>3, <2>2, PeriodAssumption DEF RelayHeartbeat
<1>4. CASE ReadFrame
  BY <1>4, Read DEF DeadlineInv
<1>5. CASE SendFrame
  BY <1>5, FrameSent DEF DeadlineInv
<1>6. CASE SendFails \/ LoseIdleWorker
  BY <1>6, NotSent DEF LoseIdleWorker, Idle, Gone
<1>10. CASE LoseWorker
  <2>1. relay'.phase = "reporting"
    BY <1>10 DEF LoseWorker, RelayTypeOK
  <2> QED  BY <2>1
<1>7. CASE Report
  BY <1>7, Reported DEF Idle, Gone
<1>8. ASSUME NEW t \in Stream, Request(t)  PROVE remaining'[s] > heartbeat'
  <2>1. UNCHANGED <<renewed, heartbeat>> /\ (Accepted(t) \/ Refused(t))
    BY <1>8, Requested, Zenon
  <2> QED  BY <2>1 DEF Accepted, Refused, DeadlineInv
<1>9. CASE UNCHANGED <<relay, renewed, remaining, heartbeat>>
  BY <1>9 DEF DeadlineInv
<1> QED
  BY <1>1, <1>2, <1>3, <1>4, <1>5, <1>6, <1>7, <1>8, <1>9, <1>10, Ignored, MadeChunk,
     MadeEnd, KernelSent, GotFrame
  DEF Next, Relay, EndResponse, Leave, handler, kernel, vars

LEMMA UnrecordedKept ==
  ASSUME RelayTypeOK, Unrecorded, [Next]_vars
  PROVE  Unrecorded'
<1> SUFFICES ASSUME NEW s \in Stream, ~(Recording /\ client'[s] = "open")
             PROVE  received'[s] = <<>>
  BY DEF Unrecorded
<1>u. ~(Recording /\ client[s] = "open") => received[s] = <<>>
  BY DEF Unrecorded
<1>2. ASSUME NEW t \in Stream, Request(t)  PROVE received'[s] = <<>>
  <2>1. /\ client[t] = "new" /\ client' = [client EXCEPT ![t] = "open"]
        /\ received' = received
    BY <1>2, Requested, Zenon
  <2> QED  BY <1>u, <2>1 DEF RelayTypeOK
<1>3. ASSUME NEW t \in Stream, EndResponse(t) \/ Leave(t)  PROVE received'[s] = <<>>
  BY <1>u, <1>3 DEF EndResponse, Leave, RelayTypeOK
<1>4. ASSUME NEW t \in Stream, Receive(t)  PROVE received'[s] = <<>>
  BY <1>u, <1>4, GotFrame
<1>5. CASE UNCHANGED <<client, received>>
  BY <1>u, <1>5
<1> QED
  BY <1>2, <1>3, <1>4, <1>5
  DEF Next, Relay, Tick, StartRelay, RelayHeartbeat, ReadFrame, SendFrame, SendFails,
      IgnoreFrame, Report, LoseIdleWorker, LoseWorker, Produce, Finish, KernelSends,
      stream, vars

-----------------------------------------------------------------------------
(* Runs of chunks *)

LEMMA EmptyRun ==
  ASSUME NEW q, NEW s, NEW a \in Nat, Len(q) \in Nat,
         \A i \in 1 .. Len(q) : ~IsChunk(q[i], s)
  PROVE  Run(q, s, a, a)
BY DEF Run

LEMMA RunGrowsByOther ==
  ASSUME NEW q, NEW x, NEW f, NEW s, NEW a, NEW b, Run(q, s, a, b), Grown(x, q, f),
         ~IsChunk(f, s)
  PROVE  Run(x, s, a, b)
<1>1. \A i \in 1 .. Len(x) : IsChunk(x[i], s) => i \in 1 .. Len(q) /\ x[i] = q[i]
  BY DEF Grown
<1>2. \A i \in 1 .. Len(q) : i \in 1 .. Len(x) /\ x[i] = q[i]
  BY DEF Grown
<1> QED  BY <1>1, <1>2 DEF Run

LEMMA RunGrowsByOwn ==
  ASSUME NEW q, NEW x, NEW f, NEW s, NEW a, NEW b, Run(q, s, a, b), Grown(x, q, f),
         IsChunk(f, s), f.chunk = b + 1
  PROVE  Run(x, s, a, b + 1)
<1>1. \A i \in 1 .. Len(x) : (i \in 1 .. Len(q) /\ x[i] = q[i]) \/ (i = Len(q) + 1 /\ x[i] = f)
  BY DEF Grown
<1>2. Len(q) \in Nat /\ Len(q) + 1 \in 1 .. Len(x) /\ x[Len(q) + 1] = f
      /\ \A i \in 1 .. Len(q) : i \in 1 .. Len(x) /\ x[i] = q[i]
  BY DEF Grown
<1>3. a \in Nat /\ b \in Nat /\ a <= b
  BY DEF Run
<1>4. \A i \in 1 .. Len(x) : IsChunk(x[i], s) => x[i].chunk \in a + 1 .. b + 1
  BY <1>1, <1>3 DEF Run
<1>5. \A n \in a + 1 .. b + 1 : \E i \in 1 .. Len(x) : IsChunk(x[i], s) /\ x[i].chunk = n
  BY <1>2, <1>3, SMTT(30) DEF Run
<1>6. \A i, j \in 1 .. Len(x) :
        i < j /\ IsChunk(x[i], s) /\ IsChunk(x[j], s) => x[i].chunk < x[j].chunk
  <2> TAKE i, j \in 1 .. Len(x)
  <2> HAVE i < j /\ IsChunk(x[i], s) /\ IsChunk(x[j], s)
  <2>1. i \in 1 .. Len(q) /\ x[i] = q[i]
    BY <1>1, <1>2
  <2>2. CASE j \in 1 .. Len(q) /\ x[j] = q[j]
    BY <2>1, <2>2 DEF Run
  <2>3. CASE x[j] = f
    <3>1. q[i].chunk \in a + 1 .. b
      BY <2>1 DEF Run
    <3> QED  BY <1>3, <2>1, <2>3, <3>1
  <2> QED  BY <1>1, <2>2, <2>3
<1> QED  BY <1>3, <1>4, <1>5, <1>6 DEF Run

LEMMA RunShrinksByOther ==
  ASSUME NEW q, NEW x, NEW s, NEW a, NEW b, Run(q, s, a, b), Shrunk(x, q),
         ~IsChunk(q[1], s)
  PROVE  Run(x, s, a, b)
<1>1. \A i \in 1 .. Len(x) : i + 1 \in 1 .. Len(q) /\ x[i] = q[i + 1]
  BY DEF Shrunk
<1>2. \A i \in 1 .. Len(q) : IsChunk(q[i], s) => i - 1 \in 1 .. Len(x) /\ x[i - 1] = q[i]
  BY DEF Shrunk
<1>3. a \in Nat /\ b \in Nat /\ a <= b
  BY DEF Run
<1>4. \A i \in 1 .. Len(x) : IsChunk(x[i], s) => x[i].chunk \in a + 1 .. b
  BY <1>1 DEF Run
<1>5. \A n \in a + 1 .. b : \E i \in 1 .. Len(x) : IsChunk(x[i], s) /\ x[i].chunk = n
  BY <1>2 DEF Run
<1>6. \A i, j \in 1 .. Len(x) :
        i < j /\ IsChunk(x[i], s) /\ IsChunk(x[j], s) => x[i].chunk < x[j].chunk
  <2> TAKE i, j \in 1 .. Len(x)
  <2>1. /\ i + 1 \in 1 .. Len(q) /\ x[i] = q[i + 1]
        /\ j + 1 \in 1 .. Len(q) /\ x[j] = q[j + 1]
    BY <1>1
  <2>2. i < j => i + 1 < j + 1
    OBVIOUS
  <2> QED  BY <2>1, <2>2 DEF Run
<1> QED  BY <1>3, <1>4, <1>5, <1>6 DEF Run

LEMMA RunShrinksByOwn ==
  ASSUME NEW q, NEW x, NEW s, NEW a, NEW b, Run(q, s, a, b), Shrunk(x, q),
         IsChunk(q[1], s)
  PROVE  q[1].chunk = a + 1 /\ a + 1 <= b /\ Run(x, s, a + 1, b)
<1>1. \A i \in 1 .. Len(x) : i + 1 \in 1 .. Len(q) /\ x[i] = q[i + 1]
  BY DEF Shrunk
<1>2. \A i \in 1 .. Len(q) : i = 1 \/ (i - 1 \in 1 .. Len(x) /\ x[i - 1] = q[i])
  BY DEF Shrunk
<1>3. 1 \in 1 .. Len(q) /\ Len(q) \in Nat /\ Len(x) \in Nat
  BY DEF Shrunk
<1>4. a \in Nat /\ b \in Nat /\ q[1].chunk \in a + 1 .. b
  BY <1>3 DEF Run
<1>5. q[1].chunk = a + 1
  <2>1. PICK i \in 1 .. Len(q) : IsChunk(q[i], s) /\ q[i].chunk = a + 1
    BY <1>4, SMTT(30) DEF Run
  <2>2. CASE i = 1
    BY <2>1, <2>2
  <2>3. CASE 1 < i
    BY <1>3, <1>4, <2>1, <2>3 DEF Run
  <2> QED  BY <2>2, <2>3
<1>6. \A i \in 1 .. Len(x) : IsChunk(x[i], s) => x[i].chunk \in a + 2 .. b
  <2> TAKE i \in 1 .. Len(x)
  <2> HAVE IsChunk(x[i], s)
  <2>1. i + 1 \in 1 .. Len(q) /\ x[i] = q[i + 1] /\ 1 < i + 1
    BY <1>1
  <2>2. q[1].chunk < q[i + 1].chunk /\ q[i + 1].chunk \in a + 1 .. b
    BY <1>3, <2>1 DEF Run
  <2> QED  BY <1>4, <1>5, <2>1, <2>2
<1>7. \A n \in a + 2 .. b : \E i \in 1 .. Len(x) : IsChunk(x[i], s) /\ x[i].chunk = n
  <2> TAKE n \in a + 2 .. b
  <2>1. PICK i \in 1 .. Len(q) : IsChunk(q[i], s) /\ q[i].chunk = n
    BY <1>4 DEF Run
  <2>2. i # 1
    BY <1>4, <1>5, <2>1
  <2> QED  BY <1>2, <2>1, <2>2
<1>8. \A i, j \in 1 .. Len(x) :
        i < j /\ IsChunk(x[i], s) /\ IsChunk(x[j], s) => x[i].chunk < x[j].chunk
  <2> TAKE i, j \in 1 .. Len(x)
  <2>1. /\ i + 1 \in 1 .. Len(q) /\ x[i] = q[i + 1]
        /\ j + 1 \in 1 .. Len(q) /\ x[j] = q[j + 1]
    BY <1>1
  <2>2. i < j => i + 1 < j + 1
    OBVIOUS
  <2> QED  BY <2>1, <2>2 DEF Run
<1> QED  BY <1>4, <1>5, <1>6, <1>7, <1>8 DEF Run

\* A frame goes from the front of one sequence to the end of the other.
LEMMA RunMoves ==
  ASSUME NEW q, NEW q2, NEW r, NEW r2, NEW s, NEW a, NEW b, NEW c,
         Run(q, s, a, b), Run(r, s, b, c), Grown(q2, q, r[1]), Shrunk(r2, r)
  PROVE  \E d \in b .. c : Run(q2, s, a, d) /\ Run(r2, s, d, c)
<1>0. b \in Nat /\ c \in Nat /\ b <= c
  BY DEF Run
<1>1. CASE IsChunk(r[1], s)
  <2>1. r[1].chunk = b + 1 /\ b + 1 <= c /\ Run(r2, s, b + 1, c)
    BY <1>1, RunShrinksByOwn
  <2>2. Run(q2, s, a, b + 1)
    BY <1>1, <2>1, RunGrowsByOwn
  <2>3. b + 1 \in b .. c
    BY <1>0, <2>1
  <2> QED  BY <2>1, <2>2, <2>3, Zenon
<1>2. CASE ~IsChunk(r[1], s)
  <2>1. Run(r2, s, b, c)
    BY <1>2, RunShrinksByOther
  <2>2. Run(q2, s, a, b)
    BY <1>2, RunGrowsByOther
  <2>3. b \in b .. c
    BY <1>0
  <2> QED  BY <2>1, <2>2, <2>3, Zenon
<1> QED  BY <1>1, <1>2

-----------------------------------------------------------------------------
(* Sequences of frames joined *)

LEMMA JoinGrows ==
  ASSUME NEW S, NEW q \in Seq(S), NEW r \in Seq(S), NEW f \in S
  PROVE  Grown(q \o Append(r, f), q \o r, f)
BY Appended, ConcatProperties, LenProperties DEF Grown

LEMMA JoinMoves ==
  ASSUME NEW S, NEW q \in Seq(S), NEW r \in Seq(S), r # <<>>
  PROVE  Append(q, r[1]) \o Tail(r) = q \o r
<1> DEFINE x == Append(q, r[1]) \o Tail(r)
           y == q \o r
<1>1. /\ Tail(r) \in Seq(S) /\ r[1] \in S /\ Len(r) \in Nat \ {0} /\ Len(q) \in Nat
      /\ Len(Tail(r)) = Len(r) - 1 /\ \A i \in 1 .. Len(r) - 1 : Tail(r)[i] = r[i + 1]
  BY Shortened, LenProperties
<1>2. /\ Append(q, r[1]) \in Seq(S) /\ Len(Append(q, r[1])) = Len(q) + 1
      /\ \A i \in 1 .. Len(q) : Append(q, r[1])[i] = q[i]
      /\ Append(q, r[1])[Len(q) + 1] = r[1]
  BY <1>1, Appended
<1>3. /\ x \in Seq(S) /\ y \in Seq(S) /\ Len(x) = Len(q) + Len(r) /\ Len(y) = Len(q) + Len(r)
  BY <1>1, <1>2, ConcatProperties
<1>4. ASSUME NEW i \in 1 .. Len(y)  PROVE x[i] = y[i]
  <2>1. CASE i \in 1 .. Len(q)
    BY <1>1, <1>2, <2>1, ConcatProperties
  <2>2. CASE i = Len(q) + 1
    BY <1>1, <1>2, <1>3, <2>2, ConcatProperties
  <2>3. CASE i > Len(q) + 1
    <3>1. x[i] = Tail(r)[i - (Len(q) + 1)]
      BY <1>1, <1>2, <1>3, <2>3, ConcatProperties
    <3>2. y[i] = r[i - Len(q)]
      BY <1>1, <1>3, <2>3, ConcatProperties
    <3>3. Tail(r)[i - (Len(q) + 1)] = r[i - (Len(q) + 1) + 1]
      BY <1>1, <1>3, <2>3
    <3> QED  BY <1>1, <3>1, <3>2, <3>3, SMTT(30)
  <2> QED  BY <1>1, <1>3, <2>1, <2>2, <2>3
<1> QED  BY <1>3, <1>4, SeqEqual

LEMMA PutBack ==
  ASSUME NEW S, NEW r \in Seq(S), r # <<>>
  PROVE  <<r[1]>> \o Tail(r) = r
<1>1. <<>> \in Seq(S) /\ Append(<<>>, r[1]) = <<r[1]>>
  BY Shortened
<1>2. <<>> \o r = r
  BY ConcatEmptySeq
<1> QED  BY <1>1, <1>2, JoinMoves

LEMMA First ==
  ASSUME NEW S, NEW r \in Seq(S), NEW f \in S
  PROVE  /\ <<f>> \o r \in Seq(S) /\ (<<f>> \o r)[1] = f /\ Shrunk(r, <<f>> \o r)
<1>1. <<f>> \in Seq(S) /\ Len(<<f>>) = 1 /\ <<f>>[1] = f
  OBVIOUS
<1> QED  BY <1>1, ConcatProperties, LenProperties DEF Shrunk

\* What the relay has still to send, step by step.
LEMMA AheadTypes ==
  ASSUME RelayTypeOK
  PROVE  /\ Ahead \in Seq(Frames) /\ \A s \in Stream : Sent(s) \in Seq(Frames)
         /\ relay.phase = "sending" => Shrunk(wire, Ahead) /\ Ahead[1] = relay.frame
         /\ relay.phase # "sending" => Ahead = wire
BY First, ConcatProperties DEF Ahead, Sent, RelayTypeOK

LEMMA AheadRead ==
  ASSUME RelayTypeOK, HoldInv, ReadFrame
  PROVE  Ahead' = Ahead
<1>1. Ahead = wire /\ Ahead' = <<relay'.frame>> \o wire'
  BY Read DEF Ahead
<1>2. wire \in Seq(Frames) /\ wire # <<>> /\ relay'.frame = wire[1] /\ wire' = Tail(wire)
  BY Read DEF RelayTypeOK
<1> QED  BY <1>1, <1>2, PutBack

LEMMA AheadSent ==
  ASSUME RelayTypeOK, HoldInv, SendFrame
  PROVE  Ahead' = wire /\ wire' = wire /\ Shrunk(Ahead', Ahead) /\ Ahead[1] = relay.frame
<1>1. relay.phase = "sending" /\ relay'.phase # "sending" /\ wire' = wire
  BY FrameSent DEF AfterSend
<1>2. Ahead' = wire
  BY <1>1 DEF Ahead
<1> QED  BY <1>1, <1>2, AheadTypes

LEMMA AheadMade ==
  ASSUME RelayTypeOK, NEW f \in Frames, wire' = Append(wire, f), relay' = relay
  PROVE  Grown(Ahead', Ahead, f)
<1>0. wire \in Seq(Frames) /\ relay.frame \in Frames /\ <<relay.frame>> \in Seq(Frames)
  BY DEF RelayTypeOK
<1>1. CASE relay.phase = "sending"
  <2>1. Ahead' = <<relay.frame>> \o Append(wire, f) /\ Ahead = <<relay.frame>> \o wire
    BY <1>1 DEF Ahead
  <2> QED  BY <1>0, <2>1, JoinGrows
<1>2. CASE relay.phase # "sending"
  <2>1. Ahead' = Append(wire, f) /\ Ahead = wire
    BY <1>2 DEF Ahead
  <2> QED  BY <1>0, <2>1, Grows
<1> QED  BY <1>1, <1>2

\* What a client is sent, step by step.
LEMMA SentPushed ==
  ASSUME RelayTypeOK, NEW s \in Stream, NEW f \in Frames,
         received'[s] = received[s], channel'[s] = Append(channel[s], f)
  PROVE  Grown(Sent(s)', Sent(s), f)
BY JoinGrows DEF Sent, RelayTypeOK

LEMMA SentReceived ==
  ASSUME RelayTypeOK, NEW t \in Stream, Receive(t), Recording, NEW s \in Stream
  PROVE  Sent(s)' = Sent(s)
<1>1. CASE s = t
  <2>1. /\ channel[s] \in Seq(Frames) /\ received[s] \in Seq(Frames) /\ channel[s] # <<>>
        /\ channel'[s] = Tail(channel[s]) /\ received'[s] = Append(received[s], channel[s][1])
    BY <1>1, GotFrame DEF RelayTypeOK
  <2> QED  BY <2>1, JoinMoves DEF Sent
<1>2. CASE s # t
  BY <1>2, GotFrame DEF Sent
<1> QED  BY <1>1, <1>2

LEMMA NothingSent ==
  ASSUME NEW s \in Stream, received[s] = <<>>, channel[s] = <<>>
  PROVE  Sent(s) = <<>> /\ Len(Sent(s)) = 0
<1>1. <<>> \in Seq(Frames)
  OBVIOUS
<1>2. <<>> \o <<>> = <<>>
  BY <1>1, ConcatEmptySeq
<1> QED  BY <1>2 DEF Sent

-----------------------------------------------------------------------------
(* The chunks of an answer stay in order *)

Flow(s) ==
  \E b \in 0 .. produced[s] :
    Run(Sent(s), s, 0, b) /\ (Flowing(s) => Run(Ahead, s, b, produced[s]))

LEMMA FlowSame ==
  ASSUME NEW s \in Stream, Flow(s), Sent(s)' = Sent(s), produced'[s] = produced[s],
         Flowing(s)' => Flowing(s) /\ Ahead' = Ahead
  PROVE  Flow(s)'
BY DEF Flow

LEMMA FlowKept ==
  ASSUME RelayTypeOK, RelayTypeOK', NewInv, HoldInv, FlowInv, DoneInv, [Next]_vars
  PROVE  FlowInv'
<1> SUFFICES ASSUME NEW s \in Stream, Recording, client'[s] = "open"
             PROVE  Flow(s)'
  BY DEF FlowInv, Flow
<1>f. client[s] = "open" => Flow(s)
  BY DEF FlowInv, Flow
<1>n. produced[s] \in Nat
  BY DEF RelayTypeOK
<1>1. CASE Tick \/ RelayHeartbeat \/ Report \/ LoseIdleWorker \/ LoseWorker
  <2>1. UNCHANGED <<client, channel, received, produced, wire>>
    BY <1>1, Ticked, Reported
    DEF RelayHeartbeat, LoseIdleWorker, LoseWorker, stream, worker
  <2>2. relay' = relay \/ relay'.phase \notin {"starting", "reading", "sending"}
    <3>1. CASE Tick \/ RelayHeartbeat
      BY <3>1, Ticked DEF RelayHeartbeat
    <3>2. CASE Report \/ LoseIdleWorker
      BY <3>2, Reported DEF LoseIdleWorker, Idle, Gone
    <3>3. CASE LoseWorker
      BY <3>3 DEF LoseWorker, RelayTypeOK
    <3> QED  BY <1>1, <3>1, <3>2, <3>3
  <2> QED  BY <1>f, <2>1, <2>2, FlowSame DEF Sent, Flowing, Ahead
<1>2. CASE StartRelay
  BY <1>2, <1>f, Started, FlowSame DEF Sent, Flowing, Ahead
<1>3. CASE ReadFrame
  <2>1. Ahead' = Ahead
    BY <1>3, AheadRead
  <2> QED  BY <1>3, <1>f, <2>1, Read, FlowSame DEF Sent, Flowing
<1>4. CASE SendFails
  <2>1. client[s] = "open" /\ ~Flowing(s)' /\ UNCHANGED <<channel, received, produced>>
    BY <1>4, NotSent DEF Flowing, Idle
  <2> QED  BY <1>f, <2>1, FlowSame DEF Sent
<1>5. CASE IgnoreFrame
  <2>1. ~Flowing(s)' /\ UNCHANGED <<client, channel, received, produced>>
    BY <1>5, Ignored DEF Flowing
  <2> QED  BY <1>f, <2>1, FlowSame DEF Sent
<1>6. CASE SendFrame
  <2>1. /\ relay.job \in Stream /\ relay.frame \in Frames /\ relay.phase = "sending"
        /\ channel' = [channel EXCEPT ![relay.job] = Append(@, relay.frame)]
        /\ relay'.job = relay.job
        /\ UNCHANGED <<client, received, produced>>
    BY <1>6, FrameSent
  <2>2. CASE s # relay.job
    <3>1. channel'[s] = channel[s] /\ ~Flowing(s)'
      BY <2>1, <2>2 DEF RelayTypeOK, Flowing
    <3> QED  BY <1>f, <2>1, <3>1, FlowSame DEF Sent
  <2>3. CASE s = relay.job
    <3>1. Grown(Sent(s)', Sent(s), Ahead[1]) /\ Shrunk(Ahead', Ahead)
      <4>1. channel'[s] = Append(channel[s], relay.frame) /\ received'[s] = received[s]
        BY <2>1, <2>3 DEF RelayTypeOK
      <4>2. Grown(Sent(s)', Sent(s), relay.frame)
        BY <2>1, <4>1, SentPushed
      <4> QED  BY <1>6, <4>2, AheadSent
    <3>2. PICK b \in 0 .. produced[s] :
            Run(Sent(s), s, 0, b) /\ Run(Ahead, s, b, produced[s])
      BY <1>f, <2>1, <2>3 DEF Flow, Flowing
    <3>3. PICK d \in b .. produced[s] :
            Run(Sent(s)', s, 0, d) /\ Run(Ahead', s, d, produced[s])
      BY <3>1, <3>2, RunMoves
    <3>4. d \in 0 .. produced[s]
      BY <1>n
    <3> QED  BY <2>1, <3>3, <3>4 DEF Flow
  <2> QED  BY <2>2, <2>3
<1>7. CASE Produce
  <2>1. PICK h \in Stream, f \in Frames :
          /\ f.kind = "Chunk" /\ f.job = h /\ f.chunk = produced[h] + 1
          /\ produced' = [produced EXCEPT ![h] = @ + 1] /\ wire' = Append(wire, f)
    BY <1>7, MadeChunk
  <2>2. UNCHANGED <<client, channel, received, relay>>
    BY <1>7, MadeChunk
  <2>3. Grown(Ahead', Ahead, f)
    BY <2>1, <2>2, AheadMade
  <2>4. PICK b \in 0 .. produced[s] :
          Run(Sent(s), s, 0, b) /\ (Flowing(s) => Run(Ahead, s, b, produced[s]))
    BY <1>f, <2>2 DEF Flow
  <2>5. Run(Sent(s)', s, 0, b) /\ Flowing(s)' = Flowing(s)
    BY <2>2, <2>4 DEF Sent, Flowing
  <2>6. CASE h = s
    <3>1. produced'[s] = produced[s] + 1
      BY <2>1, <2>6 DEF RelayTypeOK
    <3>2. Flowing(s) => Run(Ahead', s, b, produced[s] + 1)
      BY <2>1, <2>3, <2>4, <2>6, RunGrowsByOwn DEF IsChunk
    <3>3. b \in 0 .. produced[s] + 1
      BY <1>n
    <3> QED  BY <2>5, <3>1, <3>2, <3>3 DEF Flow
  <2>7. CASE h # s
    <3>1. produced'[s] = produced[s]
      BY <2>1, <2>7 DEF RelayTypeOK
    <3>2. Flowing(s) => Run(Ahead', s, b, produced[s])
      BY <2>1, <2>3, <2>4, <2>7, RunGrowsByOther DEF IsChunk
    <3> QED  BY <2>5, <3>1, <3>2 DEF Flow
  <2> QED  BY <2>6, <2>7
<1>8. CASE Finish
  <2>1. PICK f \in Frames : f.kind \in {"Done", "Error"} /\ wire' = Append(wire, f)
    BY <1>8, MadeEnd
  <2>2. UNCHANGED <<client, channel, received, relay, produced>>
    BY <1>8, MadeEnd
  <2>3. Grown(Ahead', Ahead, f)
    BY <2>1, <2>2, AheadMade
  <2>4. PICK b \in 0 .. produced[s] :
          Run(Sent(s), s, 0, b) /\ (Flowing(s) => Run(Ahead, s, b, produced[s]))
    BY <1>f, <2>2 DEF Flow
  <2>5. Flowing(s) => Run(Ahead', s, b, produced[s])
    BY <2>1, <2>3, <2>4, RunGrowsByOther DEF IsChunk
  <2> QED  BY <2>2, <2>4, <2>5 DEF Flow, Sent, Flowing
<1>9. ASSUME NEW t \in Stream, Request(t)  PROVE Flow(s)'
  <2>0. /\ client[t] = "new" /\ client' = [client EXCEPT ![t] = "open"]
        /\ Accepted(t) \/ Refused(t)
        /\ UNCHANGED <<channel, received, produced, wire>>
    BY <1>9, Requested, Zenon
  <2>1. CASE s = t
    <3>1. Unused(s)
      BY <2>0, <2>1 DEF NewInv, Unused
    <3>2. Len(Sent(s)') = 0 /\ produced'[s] = 0
      BY <2>0, <3>1, NothingSent DEF Unused, Sent
    <3>3. Run(Sent(s)', s, 0, 0)
      BY <3>2, EmptyRun
    <3>4. Flowing(s)' => Run(Ahead', s, 0, 0)
      <4>1. CASE Accepted(t)
        <5>1. Ahead' = wire /\ Len(wire) \in Nat
          BY <2>0, <4>1 DEF Ahead, Accepted, RelayTypeOK
        <5>2. \A i \in 1 .. Len(wire) : ~IsChunk(wire[i], s)
          BY <3>1 DEF Unused, IsChunk
        <5> QED  BY <5>1, <5>2, EmptyRun
      <4>2. CASE Refused(t)
        BY <3>1, <4>2 DEF Flowing, Refused, Unused
      <4> QED  BY <2>0, <4>1, <4>2
    <3>5. 0 \in 0 .. 0
      OBVIOUS
    <3> QED  BY <3>2, <3>3, <3>4, <3>5 DEF Flow
  <2>2. CASE s # t
    <3>1. client[s] = "open"
      BY <2>0, <2>2 DEF RelayTypeOK
    <3>2. Flowing(s)' => Flowing(s) /\ Ahead' = Ahead
      BY <2>0, <2>2 DEF Accepted, Refused, Flowing, Ahead
    <3> QED  BY <1>f, <2>0, <3>1, <3>2, FlowSame DEF Sent
  <2> QED  BY <2>1, <2>2
<1>10. ASSUME NEW t \in Stream, KernelSends(t)  PROVE Flow(s)'
  <2>1. /\ UNCHANGED <<client, received, relay, produced, wire>>
        /\ \/ channel'[s] = channel[s]
           \/ s = t /\ ending[s] # <<>> /\ channel'[s] = Append(channel[s], ending[s][1])
    BY <1>10, KernelSent
  <2>2. CASE channel'[s] = channel[s]
    BY <1>f, <2>1, <2>2, FlowSame DEF Sent, Flowing, Ahead
  <2>3. CASE ending[s] # <<>> /\ channel'[s] = Append(channel[s], ending[s][1])
    <3>1. ending[s][1] \in Frames /\ ~IsChunk(ending[s][1], s)
      <4>1. ending[s] = Failure(s) \/ ending[s] = <<DoneFrame(s)>>
        BY <2>3 DEF DoneInv
      <4>2. ending[s][1] = ErrorFrame(s) \/ ending[s][1] = DoneFrame(s)
        BY <4>1 DEF Failure
      <4>3. ErrorFrame(s).kind = "Error" /\ DoneFrame(s).kind = "Done"
        BY DEF ErrorFrame, DoneFrame, Frame
      <4> QED  BY <4>2, <4>3, FrameTypes DEF IsChunk
    <3>2. Grown(Sent(s)', Sent(s), ending[s][1])
      BY <2>1, <2>3, <3>1, SentPushed
    <3>3. PICK b \in 0 .. produced[s] :
            Run(Sent(s), s, 0, b) /\ (Flowing(s) => Run(Ahead, s, b, produced[s]))
      BY <1>f, <2>1 DEF Flow
    <3>4. Run(Sent(s)', s, 0, b)
      BY <3>1, <3>2, <3>3, RunGrowsByOther
    <3> QED  BY <2>1, <3>3, <3>4 DEF Flow, Flowing, Ahead
  <2> QED  BY <2>1, <2>2, <2>3
<1>11. ASSUME NEW t \in Stream, Receive(t)  PROVE Flow(s)'
  <2>1. Sent(s)' = Sent(s) /\ UNCHANGED <<client, relay, produced, wire>>
    BY <1>11, SentReceived, GotFrame
  <2> QED  BY <1>f, <2>1, FlowSame DEF Flowing, Ahead
<1>12. ASSUME NEW t \in Stream, EndResponse(t) \/ Leave(t)  PROVE Flow(s)'
  <2>1. /\ client[s] = "open" /\ UNCHANGED <<relay, produced, wire>>
        /\ received'[s] = received[s] /\ channel'[s] = channel[s]
    BY <1>12 DEF EndResponse, Leave, handler, worker, RelayTypeOK
  <2> QED  BY <1>f, <2>1, FlowSame DEF Sent, Flowing, Ahead
<1>13. CASE UNCHANGED vars
  BY <1>13, <1>f, FlowSame DEF vars, stream, handler, worker, Sent, Flowing, Ahead
<1> QED
  BY <1>1, <1>2, <1>3, <1>4, <1>5, <1>6, <1>7, <1>8, <1>9, <1>10, <1>11, <1>12, <1>13
  DEF Next, Relay

-----------------------------------------------------------------------------
(* The frame that ends a job is the last of it *)

\* Frames leave what is ahead at the front, and come from the first job of the
\* worker at the end.
LEMMA AheadSteps ==
  ASSUME RelayTypeOK, HoldInv, [Next]_vars
  PROVE  \/ Ahead' = Ahead
         \/ Shrunk(Ahead', Ahead)
         \/ \E f \in Frames :
              /\ Grown(Ahead', Ahead, f) /\ Len(work) \in Nat \ {0} /\ work[1] = f.job
              /\ f.kind # "Chunk" =>
                   Shrunk(work', work) /\ relay' = relay /\ client' = client
<1>1. CASE ReadFrame
  BY <1>1, AheadRead
<1>2. CASE SendFrame
  BY <1>2, AheadSent
<1>3. CASE SendFails
  <2>1. relay.phase = "sending" /\ relay'.phase # "sending" /\ wire' = wire
    BY <1>3, NotSent DEF Idle
  <2> QED  BY <2>1, AheadTypes DEF Ahead
<1>4. CASE IgnoreFrame
  BY <1>4, Ignored DEF Ahead
<1>5. CASE Produce
  <2>1. PICK h \in Stream, f \in Frames :
          /\ Len(work) \in Nat \ {0} /\ work[1] = h
          /\ f.kind = "Chunk" /\ f.job = h /\ wire' = Append(wire, f)
    BY <1>5, MadeChunk
  <2> QED  BY <1>5, <2>1, MadeChunk, AheadMade
<1>6. CASE Finish
  <2>1. PICK h \in Stream, f \in Frames :
          work[1] = h /\ Shrunk(work', work) /\ f.job = h /\ wire' = Append(wire, f)
    BY <1>6, MadeEnd
  <2> QED  BY <1>6, <2>1, MadeEnd, AheadMade DEF Shrunk
<1>7. CASE StartRelay \/ Report \/ LoseIdleWorker \/ LoseWorker
  <2>1. relay.phase # "sending" /\ relay'.phase # "sending" /\ wire' = wire
    <3>1. CASE StartRelay \/ Report \/ LoseIdleWorker
      BY <3>1, Started, Reported DEF LoseIdleWorker, Idle, Gone, worker
    <3>2. CASE LoseWorker
      BY <3>2 DEF LoseWorker, RelayTypeOK, worker
    <3> QED  BY <1>7, <3>1, <3>2
  <2> QED  BY <2>1 DEF Ahead
<1>8. ASSUME NEW t \in Stream, Request(t)  PROVE Ahead' = Ahead
  <2>1. (Accepted(t) \/ Refused(t)) /\ wire' = wire
    BY <1>8, Requested, Zenon
  <2> QED  BY <2>1 DEF Accepted, Refused, Ahead
<1>9. CASE UNCHANGED <<relay, wire>>
  BY <1>9 DEF Ahead
<1> QED
  BY <1>1, <1>2, <1>3, <1>4, <1>5, <1>6, <1>7, <1>8, <1>9, Ticked, KernelSent, GotFrame
  DEF Next, Relay, RelayHeartbeat, EndResponse, Leave, handler, worker, vars

LEMMA FinishedKept ==
  ASSUME RelayTypeOK, HoldInv, [Next]_vars, NEW s \in Stream, Finished(s)
  PROVE  Finished(s)'
<1>f. /\ client[s] # "new" /\ (relay.phase = "starting" => relay.job # s)
      /\ \A i \in 1 .. Len(work) : work[i] # s
  BY DEF Finished
<1>1. CASE StartRelay
  BY <1>1, <1>f, Started DEF Finished, Grown
<1>2. CASE Finish
  <2>1. UNCHANGED <<client, relay>> /\ Shrunk(work', work)
    BY <1>2, MadeEnd
  <2> QED  BY <1>f, <2>1 DEF Finished, Shrunk
<1>3. ASSUME NEW t \in Stream, Request(t)  PROVE Finished(s)'
  <2>1. /\ client[t] = "new" /\ client' = [client EXCEPT ![t] = "open"]
        /\ (Accepted(t) \/ Refused(t)) /\ work' = work
    BY <1>3, Requested, Zenon
  <2> QED  BY <1>f, <2>1 DEF Accepted, Refused, Finished, RelayTypeOK
<1>4. CASE LoseWorker \/ LoseIdleWorker
  <2>1. relay'.phase # "starting"
    <3>1. CASE LoseWorker
      BY <3>1 DEF LoseWorker, RelayTypeOK
    <3>2. CASE LoseIdleWorker
      BY <3>2 DEF LoseIdleWorker, Gone
    <3> QED  BY <1>4, <3>1, <3>2
  <2>2. UNCHANGED <<client, work>>
    BY <1>4 DEF LoseWorker, LoseIdleWorker, stream, worker
  <2> QED  BY <1>f, <2>1, <2>2 DEF Finished
<1>5. CASE Report \/ SendFails
  BY <1>5, <1>f, Reported, NotSent DEF Finished, Idle, Gone
<1>6. CASE SendFrame \/ ReadFrame
  BY <1>6, <1>f, FrameSent, Read DEF Finished, AfterSend
<1>7. ASSUME NEW t \in Stream, EndResponse(t) \/ Leave(t)  PROVE Finished(s)'
  <2>1. UNCHANGED <<relay, work>> /\ client'[s] \in {client[s], "ended", "gone"}
    BY <1>7 DEF EndResponse, Leave, handler, worker, RelayTypeOK
  <2> QED  BY <1>f, <2>1 DEF Finished
<1>8. CASE UNCHANGED <<client, relay, work>>
  BY <1>8, <1>f DEF Finished
<1> QED
  BY <1>1, <1>2, <1>3, <1>4, <1>5, <1>6, <1>7, <1>8, Ticked, Ignored, MadeChunk, KernelSent,
     GotFrame
  DEF Next, Relay, RelayHeartbeat, stream, handler, worker, vars

\* Whether q holds the end of job s; and nothing of s behind it.
Ended(q, s) == \E i \in 1 .. Len(q) : q[i].job = s /\ q[i].kind # "Chunk"
EndsOnce(q, s) ==
  \A i, j \in 1 .. Len(q) : q[i].job = s /\ q[i].kind # "Chunk" /\ i < j => q[j].job # s

LEMMA LastMeans ==
  LastInv <=> \A s \in Stream : (Ended(Ahead, s) => Finished(s)) /\ EndsOnce(Ahead, s)
BY DEF LastInv, Ended, EndsOnce

LEMMA EndShrinks ==
  ASSUME NEW q, NEW x, NEW s, Shrunk(x, q), EndsOnce(q, s)
  PROVE  (Ended(x, s) => Ended(q, s)) /\ EndsOnce(x, s)
<1>1. \A i \in 1 .. Len(x) : i + 1 \in 1 .. Len(q) /\ x[i] = q[i + 1]
  BY DEF Shrunk
<1>2. \A i, j \in 1 .. Len(x) : i < j => i + 1 < j + 1
  OBVIOUS
<1> QED  BY <1>1, <1>2 DEF Ended, EndsOnce

LEMMA EndGrows ==
  ASSUME NEW q, NEW x, NEW f, NEW s, Grown(x, q, f), EndsOnce(q, s),
         f.job = s => ~Ended(q, s)
  PROVE  /\ Ended(x, s) => Ended(q, s) \/ (f.job = s /\ f.kind # "Chunk")
         /\ EndsOnce(x, s)
<1>1. \A i \in 1 .. Len(x) : (i \in 1 .. Len(q) /\ x[i] = q[i]) \/ (i = Len(q) + 1 /\ x[i] = f)
  BY DEF Grown
<1>2. Len(q) \in Nat
  BY DEF Grown
<1>3. EndsOnce(x, s)
  <2> SUFFICES ASSUME NEW i \in 1 .. Len(x), NEW j \in 1 .. Len(x),
                      x[i].job = s, x[i].kind # "Chunk", i < j
               PROVE  x[j].job # s
    BY DEF EndsOnce
  <2>1. i \in 1 .. Len(q) /\ x[i] = q[i]
    BY <1>1, <1>2
  <2>2. Ended(q, s)
    BY <2>1 DEF Ended
  <2> QED  BY <1>1, <2>1, <2>2 DEF EndsOnce
<1> QED  BY <1>1, <1>3 DEF Ended

LEMMA LastKept ==
  ASSUME RelayTypeOK, NewInv, HoldInv, LastInv, [Next]_vars
  PROVE  LastInv'
<1> SUFFICES ASSUME NEW s \in Stream
             PROVE  (Ended(Ahead', s) => Finished(s)') /\ EndsOnce(Ahead', s)
  <2>1. \A s \in Stream : (Ended(Ahead', s) => Finished(s)') /\ EndsOnce(Ahead', s)
    OBVIOUS
  <2> QED  BY <2>1 DEF LastInv, Ended, EndsOnce
<1>l. (Ended(Ahead, s) => Finished(s)) /\ EndsOnce(Ahead, s)
  BY LastMeans
<1>1. CASE Ahead' = Ahead
  BY <1>l, <1>1, FinishedKept
<1>2. CASE Shrunk(Ahead', Ahead)
  BY <1>l, <1>2, EndShrinks, FinishedKept
<1>3. ASSUME NEW f \in Frames, Grown(Ahead', Ahead, f), Len(work) \in Nat \ {0},
             work[1] = f.job,
             f.kind # "Chunk" => Shrunk(work', work) /\ relay' = relay /\ client' = client
      PROVE  (Ended(Ahead', s) => Finished(s)') /\ EndsOnce(Ahead', s)
  <2>1. f.job = s => ~Finished(s)
    BY <1>3 DEF Finished
  <2>2. f.job = s /\ f.kind # "Chunk" => Finished(s)'
    <3> SUFFICES ASSUME f.job = s, f.kind # "Chunk"  PROVE Finished(s)'
      OBVIOUS
    <3>1. work[1] = s /\ 1 \in 1 .. Len(work)
          /\ Shrunk(work', work) /\ relay' = relay /\ client' = client
      BY <1>3
    <3>2. client'[s] # "new"
      BY <3>1 DEF NewInv
    <3>3. relay'.phase = "starting" => relay'.job # s
      BY <3>1 DEF HoldInv
    <3>4. \A i \in 1 .. Len(work') : work'[i] # s
      BY <3>1 DEF HoldInv, Shrunk
    <3> QED  BY <3>2, <3>3, <3>4 DEF Finished
  <2> QED  BY <1>l, <1>3, <2>1, <2>2, EndGrows, FinishedKept
<1> QED  BY <1>1, <1>2, <1>3, AheadSteps

-----------------------------------------------------------------------------
(* An answer that ends well is whole *)

\* Nothing is added to an answer that is finished.
LEMMA NothingAdded ==
  ASSUME RelayTypeOK, HoldInv, [Next]_vars, NEW s \in Stream, Finished(s)
  PROVE  Finished(s)' /\ produced'[s] = produced[s]
<1>1. Finished(s)'
  BY FinishedKept
<1>2. produced'[s] = produced[s]
  <2>1. CASE Produce
    <3>1. PICK h \in Stream :
            /\ Len(work) \in Nat \ {0} /\ work[1] = h
            /\ produced' = [produced EXCEPT ![h] = @ + 1]
      BY <2>1, MadeChunk
    <3>2. h # s
      BY <3>1 DEF Finished
    <3> QED  BY <3>1, <3>2 DEF RelayTypeOK
  <2>2. ASSUME NEW t \in Stream, Request(t)  PROVE produced'[s] = produced[s]
    BY <2>2, Requested, Zenon
  <2>3. CASE UNCHANGED produced
    BY <2>3
  <2> QED
    BY <2>1, <2>2, <2>3, Started, Read, FrameSent, NotSent, Ignored, MadeEnd, Reported,
       Ticked, KernelSent, GotFrame
    DEF Next, Relay, RelayHeartbeat, LoseIdleWorker, LoseWorker, EndResponse, Leave, worker,
        vars
<1> QED  BY <1>1, <1>2

\* What DoneInv says of the kernel's last words, and of what is sent.
Words(s) ==
  /\ ending[s] \in {<<>>, Failure(s), <<DoneFrame(s)>>}
  /\ remaining[s] > 0 => ending[s] = <<>>

ReportsDone(s) == relay.job = s /\ relay.phase = "reporting" /\ relay.frame.kind = "Done"

Judged(s) ==
  /\ \A i \in 1 .. Len(Sent(s)) :
       Sent(s)[i].kind = "Done" => Spoilt(Sent(s), s, i) \/ Whole(Sent(s), s, i)
  /\ ending[s] = <<DoneFrame(s)>> => SpoiltOrWhole(s)
  /\ ReportsDone(s) => SpoiltOrWhole(s)

LEMMA DoneMeans ==
  DoneInv <=> \A s \in Stream : Words(s) /\ (Recording /\ client[s] = "open" => Judged(s))
BY DEF DoneInv, Words, Judged, ReportsDone

LEMMA TwoWords ==
  ASSUME NEW s \in Stream
  PROVE  /\ Failure(s) # <<DoneFrame(s)>> /\ Tail(<<DoneFrame(s)>>) = <<>>
         /\ Tail(Failure(s)) = <<DoneFrame(s)>>
         /\ Failure(s)[1].kind = "Error" /\ <<DoneFrame(s)>>[1].kind = "Done"
BY DEF Failure, DoneFrame, ErrorFrame, Frame

LEMMA WordsKept ==
  ASSUME RelayTypeOK, NewInv, HoldInv, DoneInv, [Next]_vars, NEW s \in Stream
  PROVE  Words(s)'
<1>w. Words(s) /\ remaining[s] \in Nat
  BY DoneMeans DEF RelayTypeOK
<1>1. CASE Tick
  <2>1. /\ remaining'[s] = IF remaining[s] > 0 THEN remaining[s] - 1 ELSE 0
        /\ ending'[s] = IF remaining[s] = 1 THEN Failure(s) ELSE ending[s]
    BY <1>1, Ticked
  <2> QED  BY <1>w, <2>1 DEF Words
<1>2. CASE RelayHeartbeat
  <2>1. ending' = ending /\ (remaining'[s] = remaining[s] \/ remaining[s] > 0 \/ remaining'[s] = 0)
    BY <1>2 DEF RelayHeartbeat, Active, RelayTypeOK
  <2> QED  BY <1>w, <2>1 DEF Words
<1>3. CASE Report
  <2>1. \/ UNCHANGED <<remaining, ending>>
        \/ /\ remaining'[s] = (IF s = relay.job THEN 0 ELSE remaining[s])
           /\ s # relay.job => ending'[s] = ending[s]
           /\ s = relay.job => ending'[s] \in {Failure(s), <<DoneFrame(s)>>}
    BY <1>3, Reported DEF RelayTypeOK
  <2> QED  BY <1>w, <2>1 DEF Words
<1>4. ASSUME NEW t \in Stream, Request(t)  PROVE Words(s)'
  <2>1. client[t] = "new" /\ (Accepted(t) \/ Refused(t))
    BY <1>4, Requested, Zenon
  <2>2. ending[t] = <<>> /\ remaining[t] = 0
    BY <2>1 DEF NewInv
  <2>3. CASE Accepted(t)
    <3>1. ending' = ending /\ (remaining'[s] = remaining[s] \/ s = t)
      BY <2>3 DEF Accepted, RelayTypeOK
    <3> QED  BY <1>w, <2>2, <3>1 DEF Words
  <2>4. CASE Refused(t)
    <3>1. remaining' = remaining /\ ending'[s] = (IF s = t THEN Failure(s) ELSE ending[s])
      BY <2>4 DEF Refused, RelayTypeOK
    <3> QED  BY <1>w, <2>2, <3>1 DEF Words
  <2> QED  BY <2>1, <2>3, <2>4
<1>5. ASSUME NEW t \in Stream, KernelSends(t)  PROVE Words(s)'
  <2>1. remaining' = remaining
        /\ (ending'[s] = ending[s] \/ (ending[s] # <<>> /\ ending'[s] = Tail(ending[s])))
    BY <1>5, KernelSent
  <2>2. ending[s] # <<>> => remaining[s] = 0 /\ Tail(ending[s]) \in {<<>>, <<DoneFrame(s)>>}
    <3>1. /\ Tail(Failure(s)) = <<DoneFrame(s)>> /\ Tail(<<DoneFrame(s)>>) = <<>>
          /\ ending[s] \in {<<>>, Failure(s), <<DoneFrame(s)>>}
      BY <1>w, TwoWords DEF Words
    <3>2. Tail(ending[s]) \in {<<>>, <<DoneFrame(s)>>} \/ ending[s] = <<>>
      BY <3>1, Zenon
    <3>3. ending[s] # <<>> => remaining[s] = 0
      BY <1>w DEF Words
    <3> QED  BY <3>2, <3>3
  <2> QED  BY <1>w, <2>1, <2>2 DEF Words
<1>6. CASE UNCHANGED <<remaining, ending>>
  BY <1>w, <1>6 DEF Words
<1> QED
  BY <1>1, <1>2, <1>3, <1>4, <1>5, <1>6, Started, Read, FrameSent, NotSent, Ignored,
     MadeChunk, MadeEnd, GotFrame
  DEF Next, Relay, LoseIdleWorker, LoseWorker, EndResponse, Leave, kernel, vars

LEMMA JudgedSame ==
  ASSUME RelayTypeOK, HoldInv, [Next]_vars, NEW s \in Stream, Judged(s), Sent(s)' = Sent(s),
         ending'[s] = <<DoneFrame(s)>> => SpoiltOrWhole(s),
         ReportsDone(s)' => SpoiltOrWhole(s)
  PROVE  Judged(s)'
<1>1. ASSUME NEW n, Whole(Sent(s), s, n)  PROVE Whole(Sent(s), s, n)'
  <2>1. Finished(s)' /\ produced'[s] = produced[s]
    BY <1>1, NothingAdded DEF Whole
  <2> QED  BY <1>1, <2>1 DEF Whole, IsChunk
<1>2. ASSUME NEW n, Spoilt(Sent(s), s, n)  PROVE Spoilt(Sent(s), s, n)'
  BY <1>2 DEF Spoilt
<1>3. SpoiltOrWhole(s) => SpoiltOrWhole(s)'
  BY <1>1, <1>2 DEF SpoiltOrWhole
<1>4. \A i \in 1 .. Len(Sent(s)') :
        Sent(s)'[i].kind = "Done" => Spoilt(Sent(s), s, i)' \/ Whole(Sent(s), s, i)'
  BY <1>1, <1>2 DEF Judged
<1> QED  BY <1>3, <1>4 DEF Judged

LEMMA JudgedGrows ==
  ASSUME RelayTypeOK, HoldInv, [Next]_vars, NEW s \in Stream, Judged(s),
         NEW f, Grown(Sent(s)', Sent(s), f)
  PROVE  /\ SpoiltOrWhole(s) => SpoiltOrWhole(s)'
         /\ (f.kind = "Error" \/ f.job # s) => SpoiltOrWhole(s)'
         /\ (/\ f.kind = "Done" => SpoiltOrWhole(s)'
             /\ ending'[s] = <<DoneFrame(s)>> => SpoiltOrWhole(s)'
             /\ ReportsDone(s)' => SpoiltOrWhole(s)')
            => Judged(s)'
<1>m. PICK m : m = Len(Sent(s))
  OBVIOUS
<1>0. m \in Nat /\ Len(Sent(s)') = m + 1 /\ Sent(s)'[m + 1] = f
      /\ \A i \in 1 .. m : Sent(s)'[i] = Sent(s)[i]
  BY <1>m DEF Grown
<1>1. ASSUME NEW n \in 0 .. m, Whole(Sent(s), s, n)
      PROVE  Whole(Sent(s), s, n)' /\ Whole(Sent(s), s, m + 1)'
  <2>1. Finished(s)' /\ produced'[s] = produced[s]
    BY <1>1, NothingAdded DEF Whole
  <2>2. \A i \in 1 .. n : i \in 1 .. m + 1 /\ Sent(s)'[i] = Sent(s)[i]
    BY <1>0
  <2>3. \A k \in 1 .. produced[s] : \E i \in 1 .. n : IsChunk(Sent(s)[i], s) /\ Sent(s)[i].chunk = k
    BY <1>1 DEF Whole
  <2>4. \A k \in 1 .. produced'[s] : \E i \in 1 .. n : IsChunk(Sent(s)'[i], s) /\ Sent(s)'[i].chunk = k
    BY <2>1, <2>2, <2>3
  <2>5. Whole(Sent(s), s, n)'
    BY <2>1, <2>4 DEF Whole, IsChunk
  <2>6. \A k \in 1 .. produced'[s] : \E i \in 1 .. m + 1 : IsChunk(Sent(s)'[i], s) /\ Sent(s)'[i].chunk = k
    BY <2>2, <2>4
  <2>7. Whole(Sent(s), s, m + 1)'
    BY <2>1, <2>6 DEF Whole, IsChunk
  <2> QED  BY <2>5, <2>7
<1>2. ASSUME NEW n \in 0 .. m, Spoilt(Sent(s), s, n)
      PROVE  Spoilt(Sent(s), s, n)' /\ Spoilt(Sent(s), s, m + 1)'
  BY <1>0, <1>2 DEF Spoilt
<1>3. SpoiltOrWhole(s) => SpoiltOrWhole(s)'
  <2>1. m \in 0 .. m
    BY <1>0
  <2>2. /\ Spoilt(Sent(s), s, m) => Spoilt(Sent(s), s, m + 1)'
        /\ Whole(Sent(s), s, m) => Whole(Sent(s), s, m + 1)'
    BY <1>1, <1>2, <2>1
  <2> QED  BY <1>m, <1>0, <2>2 DEF SpoiltOrWhole
<1>4. f.kind = "Error" \/ f.job # s => SpoiltOrWhole(s)'
  BY <1>0 DEF SpoiltOrWhole, Spoilt
<1>5. ASSUME f.kind = "Done" => SpoiltOrWhole(s)', NEW i \in 1 .. Len(Sent(s)'),
             Sent(s)'[i].kind = "Done"
      PROVE  Spoilt(Sent(s), s, i)' \/ Whole(Sent(s), s, i)'
  <2>1. CASE i \in 1 .. m
    <3>1. Spoilt(Sent(s), s, i) \/ Whole(Sent(s), s, i)
      BY <1>m, <1>0, <1>5, <2>1 DEF Judged
    <3> QED  BY <1>0, <1>1, <1>2, <2>1, <3>1
  <2>2. CASE i = m + 1
    BY <1>0, <1>5, <2>2 DEF SpoiltOrWhole
  <2> QED  BY <1>0, <2>1, <2>2
<1> QED  BY <1>3, <1>4, <1>5 DEF Judged

LEMMA JudgedKept ==
  ASSUME RelayTypeOK, NewInv, HoldInv, FlowInv, LastInv, DoneInv, [Next]_vars,
         NEW s \in Stream, Recording, client'[s] = "open"
  PROVE  Judged(s)'
<1>j. client[s] = "open" => Judged(s)
  BY DoneMeans
<1>w. Words(s)
  BY DoneMeans
<1>1. CASE SendFrame
  <2>1. /\ relay.phase = "sending" /\ relay.job \in Stream /\ relay.frame \in Frames
        /\ channel' = [channel EXCEPT ![relay.job] = Append(@, relay.frame)]
        /\ relay'.job = relay.job /\ relay'.frame = relay.frame
        /\ UNCHANGED <<client, received, ending, produced>>
    BY <1>1, FrameSent
  <2>2. Judged(s)
    BY <1>j, <2>1
  <2>3. CASE s # relay.job
    <3>1. Sent(s)' = Sent(s)
      BY <2>1, <2>3 DEF Sent, RelayTypeOK
    <3>2. ending'[s] = <<DoneFrame(s)>> => SpoiltOrWhole(s)
      BY <2>1, <2>2 DEF Judged
    <3>3. ~ReportsDone(s)'
      BY <2>1, <2>3 DEF ReportsDone
    <3> QED  BY <2>2, <3>1, <3>2, <3>3, JudgedSame
  <2>4. CASE s = relay.job
    <3>1. Grown(Sent(s)', Sent(s), relay.frame)
      <4>1. received'[s] = received[s] /\ channel'[s] = Append(channel[s], relay.frame)
        BY <2>1, <2>4 DEF RelayTypeOK
      <4> QED  BY <2>1, <4>1, SentPushed
    <3>2. relay.frame.kind = "Done" /\ relay.frame.job = s => SpoiltOrWhole(s)'
      <4> SUFFICES ASSUME relay.frame.kind = "Done", relay.frame.job = s
                   PROVE  SpoiltOrWhole(s)'
        OBVIOUS
      <4>1. Ahead[1] = relay.frame /\ Len(Ahead) \in Nat \ {0}
        BY <2>1, AheadTypes DEF Shrunk
      <4>2. Ended(Ahead, s) /\ \A j \in 1 .. Len(Ahead) : ~IsChunk(Ahead[j], s)
        BY <4>1, LastMeans DEF Ended, EndsOnce, IsChunk
      <4>3. Finished(s) /\ produced[s] \in Nat
        BY <4>2, LastMeans DEF RelayTypeOK
      <4>4. Run(Sent(s), s, 0, produced[s])
        <5>1. PICK b \in 0 .. produced[s] :
                Run(Sent(s), s, 0, b) /\ Run(Ahead, s, b, produced[s])
          BY <2>1, <2>4 DEF FlowInv, Flowing
        <5>2. \A n \in b + 1 .. produced[s] : FALSE
          BY <4>2, <5>1 DEF Run
        <5>3. b = produced[s]
          BY <4>3, <5>2
        <5> QED  BY <5>1, <5>3
      <4>5. Whole(Sent(s), s, Len(Sent(s)))
        BY <4>3, <4>4 DEF Whole, Run
      <4> QED  BY <2>2, <3>1, <4>5, JudgedGrows DEF SpoiltOrWhole
    <3>3. /\ SpoiltOrWhole(s) => SpoiltOrWhole(s)'
          /\ relay.frame.kind = "Done" => SpoiltOrWhole(s)'
      BY <2>2, <3>1, <3>2, JudgedGrows
    <3>4. ending'[s] = <<DoneFrame(s)>> => SpoiltOrWhole(s)'
      BY <2>1, <2>2, <3>3 DEF Judged
    <3>5. ReportsDone(s)' => SpoiltOrWhole(s)'
      BY <2>1, <3>3 DEF ReportsDone
    <3> QED  BY <2>2, <3>1, <3>3, <3>4, <3>5, JudgedGrows
  <2> QED  BY <2>3, <2>4
<1>2. ASSUME NEW t \in Stream, KernelSends(t)  PROVE Judged(s)'
  <2>1. /\ UNCHANGED <<client, received, relay>>
        /\ \/ channel'[s] = channel[s] /\ ending'[s] = ending[s]
           \/ /\ ending[s] # <<>> /\ ending'[s] = Tail(ending[s])
              /\ channel'[s] = Append(channel[s], ending[s][1])
    <3>1. UNCHANGED <<client, received, relay>>
      BY <1>2, KernelSent
    <3>2. CASE s # t
      BY <1>2, <3>1, <3>2, KernelSent
    <3>3. CASE s = t
      <4>1. ending[s] # <<>> /\ ending'[s] = Tail(ending[s])
        BY <1>2, <3>3, KernelSent
      <4>2. channel'[s] = Append(channel[s], ending[s][1])
        <5>1. CASE HasRoom(t) /\ Push(t, Head(ending[t]))
          BY <1>2, <3>3, <5>1, KernelSent DEF Push, RelayTypeOK
        <5>2. CASE Closed(t)
          BY <3>1, <3>3, <5>2 DEF Closed
        <5> QED  BY <1>2, <5>1, <5>2 DEF KernelSends
      <4> QED  BY <3>1, <4>1, <4>2
    <3> QED  BY <3>2, <3>3
  <2>2. Judged(s)
    BY <1>j, <2>1
  <2>3. CASE channel'[s] = channel[s] /\ ending'[s] = ending[s]
    <3>1. Sent(s)' = Sent(s)
      BY <2>1, <2>3 DEF Sent
    <3> QED  BY <2>1, <2>2, <2>3, <3>1, JudgedSame DEF Judged, ReportsDone
  <2>4. CASE /\ ending[s] # <<>> /\ ending'[s] = Tail(ending[s])
             /\ channel'[s] = Append(channel[s], ending[s][1])
    <3>1. /\ ending[s][1] \in Frames
          /\ \/ ending[s][1].kind = "Error"
             \/ ending[s] = <<DoneFrame(s)>> /\ ending'[s] = <<>>
      <4>1. CASE ending[s] = Failure(s)
        <5>1. ending[s][1] = ErrorFrame(s) /\ ErrorFrame(s).kind = "Error"
          BY <4>1 DEF Failure, ErrorFrame, Frame
        <5> QED  BY <5>1, FrameTypes
      <4>2. CASE ending[s] = <<DoneFrame(s)>>
        <5>1. ending[s][1] = DoneFrame(s) /\ ending'[s] = <<>>
          BY <2>4, <4>2, TwoWords
        <5> QED  BY <4>2, <5>1, FrameTypes
      <4> QED  BY <2>4, <1>w, <4>1, <4>2 DEF Words
    <3>2. Grown(Sent(s)', Sent(s), ending[s][1])
      BY <2>1, <2>4, <3>1, SentPushed
    <3>3. ending[s][1].kind = "Error" \/ ending[s] = <<DoneFrame(s)>> => SpoiltOrWhole(s)'
      BY <2>2, <3>2, JudgedGrows DEF Judged
    <3> QED  BY <2>2, <3>1, <3>2, <3>3, JudgedGrows
  <2> QED  BY <2>1, <2>3, <2>4
<1>3. ASSUME NEW t \in Stream, Request(t)  PROVE Judged(s)'
  <2>1. /\ client[t] = "new" /\ client' = [client EXCEPT ![t] = "open"]
        /\ (Accepted(t) \/ Refused(t)) /\ UNCHANGED <<received, channel>>
    BY <1>3, Requested, Zenon
  <2>2. Sent(s)' = Sent(s)
    BY <2>1 DEF Sent
  <2>3. CASE s = t
    <3>1. Unused(s)
      BY <2>1, <2>3 DEF NewInv, Unused
    <3>2. Len(Sent(s)') = 0
      BY <2>2, <3>1, NothingSent DEF Unused
    <3>3. ending'[s] # <<DoneFrame(s)>>
      <4>1. ending'[s] \in {ending[s], Failure(s)}
        BY <2>1, <2>3 DEF Accepted, Refused, RelayTypeOK
      <4>2. <<>> # <<DoneFrame(s)>>
        OBVIOUS
      <4> QED  BY <3>1, <4>1, <4>2, TwoWords DEF Unused
    <3>4. ~ReportsDone(s)'
      BY <2>1, <3>1 DEF Accepted, Refused, ReportsDone, Unused
    <3> QED  BY <3>2, <3>3, <3>4 DEF Judged
  <2>4. CASE s # t
    <3>1. Judged(s)
      BY <1>j, <2>1, <2>4 DEF RelayTypeOK
    <3>2. ending'[s] = ending[s]
      BY <2>1, <2>4 DEF Accepted, Refused, RelayTypeOK
    <3>3. ReportsDone(s)' => ReportsDone(s)
      BY <2>1 DEF Accepted, Refused, ReportsDone
    <3> QED  BY <2>2, <3>1, <3>2, <3>3, JudgedSame DEF Judged
  <2> QED  BY <2>3, <2>4
<1>4. CASE Report
  <2>1. UNCHANGED <<client, received, channel>> /\ relay.phase = "reporting" /\ relay.job \in Stream
    BY <1>4, Reported
  <2>2. Judged(s) /\ Sent(s)' = Sent(s)
    BY <1>j, <2>1 DEF Sent
  <2>3. ending'[s] = <<DoneFrame(s)>> => ending[s] = <<DoneFrame(s)>> \/ ReportsDone(s)
    <3>1. ending'[s] = ending[s]
          \/ (s = relay.job /\ ending'[s] = IF relay.frame.kind = "Done" THEN <<DoneFrame(s)>>
                                                                       ELSE Failure(s))
      BY <1>4, Reported DEF RelayTypeOK
    <3> QED  BY <2>1, <3>1, TwoWords DEF ReportsDone
  <2>4. ~ReportsDone(s)'
    BY <1>4, Reported, NoStreamAssumption DEF ReportsDone, Idle, Gone
  <2> QED  BY <2>2, <2>3, <2>4, JudgedSame DEF Judged
<1>5. CASE Tick
  <2>1. UNCHANGED <<client, received, channel, relay>>
        /\ ending'[s] \in {ending[s], Failure(s)}
    BY <1>5, Ticked
  <2>2. Judged(s) /\ Sent(s)' = Sent(s)
    BY <1>j, <2>1 DEF Sent
  <2>3. ending'[s] = <<DoneFrame(s)>> => ending[s] = <<DoneFrame(s)>>
    BY <2>1, TwoWords
  <2> QED  BY <2>1, <2>2, <2>3, JudgedSame DEF Judged, ReportsDone
<1>6. CASE SendFails
  <2>1. UNCHANGED <<client, received, channel, ending>>
    BY <1>6, NotSent
  <2>2. Judged(s) /\ Sent(s)' = Sent(s)
    BY <1>j, <2>1 DEF Sent
  <2>3. ~ReportsDone(s)'
    BY <1>6, NotSent DEF ReportsDone, Idle
  <2> QED  BY <2>1, <2>2, <2>3, JudgedSame DEF Judged
<1>7. ASSUME NEW t \in Stream, Receive(t)  PROVE Judged(s)'
  <2>1. Sent(s)' = Sent(s) /\ UNCHANGED <<client, relay, ending>>
    BY <1>7, SentReceived, GotFrame
  <2> QED  BY <1>j, <2>1, JudgedSame DEF Judged, ReportsDone
<1>8. ASSUME NEW t \in Stream, EndResponse(t) \/ Leave(t)  PROVE Judged(s)'
  <2>1. /\ client[s] = "open" /\ UNCHANGED <<relay, ending>>
        /\ received'[s] = received[s] /\ channel'[s] = channel[s]
    BY <1>8 DEF EndResponse, Leave, handler, kernel, RelayTypeOK
  <2> QED  BY <1>j, <2>1, JudgedSame DEF Judged, ReportsDone, Sent
<1>9. CASE LoseWorker \/ LoseIdleWorker
  <2>1. ~ReportsDone(s)'
    <3>1. CASE LoseWorker
      BY <3>1 DEF LoseWorker, ReportsDone, Frame, RelayTypeOK
    <3>2. CASE LoseIdleWorker
      BY <3>2 DEF LoseIdleWorker, ReportsDone, Gone
    <3> QED  BY <1>9, <3>1, <3>2
  <2>2. UNCHANGED <<client, received, channel, ending>>
    BY <1>9 DEF LoseWorker, LoseIdleWorker, stream, kernel
  <2> QED  BY <1>j, <2>1, <2>2, JudgedSame DEF Judged, Sent
<1>10. CASE StartRelay \/ ReadFrame \/ IgnoreFrame \/ Produce \/ Finish \/ RelayHeartbeat
            \/ UNCHANGED vars
  <2>1. /\ UNCHANGED <<client, received, channel, ending>>
        /\ relay' = relay \/ relay'.phase # "reporting"
    BY <1>10, Started, Read, Ignored, MadeChunk, MadeEnd
    DEF RelayHeartbeat, stream, handler, kernel, vars
  <2> QED  BY <1>j, <2>1, JudgedSame DEF Judged, ReportsDone, Sent
<1> QED
  BY <1>1, <1>2, <1>3, <1>4, <1>5, <1>6, <1>7, <1>8, <1>9, <1>10 DEF Next, Relay

-----------------------------------------------------------------------------
LEMMA RelayInvStep == RelayInv /\ [Next]_vars => RelayInv'
<1> SUFFICES ASSUME RelayInv, [Next]_vars  PROVE RelayInv'
  OBVIOUS
<1>1. /\ RelayTypeOK /\ NewInv /\ HoldInv /\ OwnInv /\ DeadlineInv /\ FlowInv
      /\ LastInv /\ DoneInv /\ Unrecorded
  BY DEF RelayInv
<1>2. RelayTypeOK'
  BY <1>1, Typed
<1>3. NewInv' /\ HoldInv'
  BY <1>1, NewKept, HoldKept
<1>4. OwnInv' /\ DeadlineInv'
  BY <1>1, <1>2, OwnKept, DeadlineKept
<1>5. FlowInv' /\ LastInv'
  BY <1>1, <1>2, FlowKept, LastKept
<1>6. DoneInv'
  <2>1. \A s \in Stream : Words(s)' /\ (Recording /\ client'[s] = "open" => Judged(s)')
    BY <1>1, WordsKept, JudgedKept
  <2> QED  BY <2>1 DEF DoneInv, Words, Judged, ReportsDone
<1>7. Unrecorded'
  BY <1>1, UnrecordedKept
<1> QED  BY <1>2, <1>3, <1>4, <1>5, <1>6, <1>7 DEF RelayInv

LEMMA RelayInvInit == Init => RelayInv
<1> SUFFICES ASSUME Init  PROVE RelayInv
  OBVIOUS
<1> USE DEF Init, Idle, NoFrame, Frame
<1>1. RelayTypeOK
  BY DEF RelayTypeOK, Phases, Frames, Kinds
<1>2. NewInv
  BY NoStreamAssumption DEF NewInv
<1>3. HoldInv
  BY NoStreamAssumption DEF HoldInv, Holding
<1>4. OwnInv
  BY DEF OwnInv, Own, OwnSent, OneAnswer, NothingLeft
<1>5. DeadlineInv /\ Unrecorded
  BY DEF DeadlineInv, Unrecorded
<1>6. FlowInv /\ DoneInv
  BY DEF FlowInv, DoneInv
<1>7. LastInv
  BY DEF LastInv, Ahead
<1> QED  BY <1>1, <1>2, <1>3, <1>4, <1>5, <1>6, <1>7 DEF RelayInv

\* What the state of a relay, its worker and its clients always satisfies: one
\* job at a time as long as nobody has left, chunks in order along the whole
\* way, and no deadline behind the timer that renews it.
THEOREM RelayInvariance == Spec => []RelayInv
BY RelayInvInit, RelayInvStep, PTL DEF Spec

\* As long as no client has left in the middle of its answer, every client is
\* sent frames of its own only (relay_to_client forwards whatever the worker
\* sends next to whoever it serves).
THEOREM NothingMixedBeforeLeave == Spec => []MixedOnlyAfterLeave
<1>1. RelayInv => MixedOnlyAfterLeave
  <2> SUFFICES ASSUME RelayInv, NobodyLeft, NEW s \in Stream  PROVE Foreign(s) = {}
    BY DEF MixedOnlyAfterLeave, NobodyLeft
  <2>1. Own(received[s], s) /\ received[s] \in Seq(Frames)
    BY DEF RelayInv, OwnInv, OwnSent, RelayTypeOK
  <2>2. DOMAIN received[s] = 1 .. Len(received[s])
    BY <2>1
  <2> QED  BY <2>1, <2>2 DEF Own, Foreign
<1> QED  BY <1>1, RelayInvariance, PTL

LEMMA ReceivedFirst ==
  ASSUME RelayTypeOK, NEW s \in Stream
  PROVE  /\ DOMAIN received[s] = 1 .. Len(received[s]) /\ Len(received[s]) \in Nat
         /\ Len(Sent(s)) \in Nat /\ Len(received[s]) <= Len(Sent(s))
         /\ \A i \in 1 .. Len(received[s]) : Sent(s)[i] = received[s][i]
BY ConcatProperties, LenProperties DEF Sent, RelayTypeOK

\* The chunks of an answer reach its client in order, each once and without a
\* gap (through the wire, the relay and the bounded channel of the stream).
THEOREM ChunksStayInOrder == Spec => []ChunksInOrder
<1>1. RelayInv => ChunksInOrder
  <2> SUFFICES ASSUME RelayInv, NEW s \in Stream, NEW i \in OwnChunks(s)
               PROVE  Numbers(s, {j \in OwnChunks(s) : j < i}) = 1 .. received[s][i].chunk - 1
    BY DEF ChunksInOrder
  <2>1. RelayTypeOK /\ FlowInv /\ Unrecorded
    BY DEF RelayInv
  <2>2. /\ \A j : j \in OwnChunks(s) <=>
               j \in 1 .. Len(received[s]) /\ IsChunk(received[s][j], s)
        /\ Len(received[s]) \in Nat /\ Len(received[s]) <= Len(Sent(s)) /\ Len(Sent(s)) \in Nat
        /\ \A j \in 1 .. Len(received[s]) : Sent(s)[j] = received[s][j]
    BY <2>1, ReceivedFirst DEF OwnChunks, IsChunk
  <2>3. Recording /\ client[s] = "open"
    BY <2>1, <2>2 DEF Unrecorded
  <2>4. PICK b \in 0 .. produced[s] : Run(Sent(s), s, 0, b)
    BY <2>1, <2>3 DEF FlowInv
  <2>5. b \in Nat /\ received[s][i].chunk \in 1 .. b
    BY <2>2, <2>4 DEF Run
  <2>i. i \in 1 .. Len(Sent(s)) /\ IsChunk(Sent(s)[i], s) /\ Sent(s)[i].chunk = received[s][i].chunk
    BY <2>2
  <2>6. \A j \in OwnChunks(s) : j < i => received[s][j].chunk \in 1 .. received[s][i].chunk - 1
    <3> TAKE j \in OwnChunks(s)
    <3>1. j \in 1 .. Len(Sent(s)) /\ IsChunk(Sent(s)[j], s) /\ Sent(s)[j].chunk = received[s][j].chunk
      BY <2>2
    <3>2. received[s][j].chunk \in 1 .. b
      BY <2>4, <3>1 DEF Run
    <3>3. j < i => received[s][j].chunk < received[s][i].chunk
      BY <2>4, <2>i, <3>1 DEF Run
    <3> QED  BY <2>5, <3>2, <3>3
  <2>7. \A n \in 1 .. received[s][i].chunk - 1 :
          \E j \in OwnChunks(s) : j < i /\ received[s][j].chunk = n
    <3> TAKE n \in 1 .. received[s][i].chunk - 1
    <3>1. PICK k \in 1 .. Len(Sent(s)) : IsChunk(Sent(s)[k], s) /\ Sent(s)[k].chunk = n
      BY <2>4, <2>5 DEF Run
    <3>2. k < i
      <4>1. i < k => received[s][i].chunk < n
        BY <2>4, <2>i, <3>1 DEF Run
      <4>2. k # i /\ ~(i < k)
        BY <2>5, <2>i, <3>1, <4>1
      <4> QED  BY <2>i, <3>1, <4>2
    <3>3. k \in OwnChunks(s) /\ received[s][k].chunk = n
      BY <2>2, <3>1, <3>2
    <3> QED  BY <3>2, <3>3
  <2> QED  BY <2>6, <2>7 DEF Numbers
<1> QED  BY <1>1, RelayInvariance, PTL

\* An answer that ends in [DONE], without an error or a foreign frame before it,
\* is all the worker made of it (RelayOutcome::Completed and nothing else).
THEOREM DoneIsComplete == Spec => []DoneMeansComplete
<1>1. RelayInv => DoneMeansComplete
  <2> SUFFICES ASSUME RelayInv, NEW s \in Stream, NEW i \in DOMAIN received[s],
                      received[s][i].kind = "Done", Foreign(s) = {},
                      \A j \in 1 .. i : received[s][j].kind # "Error"
               PROVE  Numbers(s, OwnChunks(s)) = 1 .. produced[s]
    BY DEF DoneMeansComplete
  <2>1. RelayTypeOK /\ FlowInv /\ DoneInv /\ Unrecorded
    BY DEF RelayInv
  <2>2. /\ \A j : j \in OwnChunks(s) <=>
               j \in 1 .. Len(received[s]) /\ IsChunk(received[s][j], s)
        /\ i \in 1 .. Len(received[s])
        /\ Len(received[s]) \in Nat /\ Len(received[s]) <= Len(Sent(s)) /\ Len(Sent(s)) \in Nat
        /\ \A j \in 1 .. Len(received[s]) : Sent(s)[j] = received[s][j]
        /\ \A j \in 1 .. Len(received[s]) : received[s][j].job = s
    BY <2>1, ReceivedFirst DEF OwnChunks, IsChunk, Foreign
  <2>3. Recording /\ client[s] = "open"
    BY <2>1, <2>2 DEF Unrecorded
  <2>4. PICK b \in 0 .. produced[s] : Run(Sent(s), s, 0, b)
    BY <2>1, <2>3 DEF FlowInv
  <2>5. Whole(Sent(s), s, i)
    <3>1. Spoilt(Sent(s), s, i) \/ Whole(Sent(s), s, i)
      BY <2>1, <2>2, <2>3 DEF DoneInv
    <3>2. ~Spoilt(Sent(s), s, i)
      BY <2>2 DEF Spoilt
    <3> QED  BY <3>1, <3>2
  <2>6. produced[s] \in Nat
    BY <2>1 DEF RelayTypeOK
  <2>7. \A j \in OwnChunks(s) : received[s][j].chunk \in 1 .. produced[s]
    BY <2>2, <2>4, <2>6, SMTT(30) DEF Run
  <2>8. \A n \in 1 .. produced[s] : \E j \in OwnChunks(s) : received[s][j].chunk = n
    <3> TAKE n \in 1 .. produced[s]
    <3>1. PICK k \in 1 .. i : IsChunk(Sent(s)[k], s) /\ Sent(s)[k].chunk = n
      BY <2>5 DEF Whole
    <3>2. k \in OwnChunks(s) /\ received[s][k].chunk = n
      BY <2>2, <3>1
    <3> QED  BY <3>2
  <2> QED  BY <2>7, <2>8 DEF Numbers
<1> QED  BY <1>1, RelayInvariance, PTL

\* A relay that has begun to renew the deadline of its stream does not lose it
\* to the clock (HEARTBEAT_INTERVAL against STREAM_TTL).
THEOREM LiveStreamKept == Spec => LiveStreamNotTimedOut
<1>1. RelayInv /\ [Next]_vars => [\A s \in Stream : TimesOut(s) => ~KeptAlive(s)]_vars
  <2> SUFFICES ASSUME RelayInv, [Next]_vars, NEW s \in Stream, TimesOut(s), KeptAlive(s)
               PROVE  FALSE
    OBVIOUS
  <2>1. RelayTypeOK /\ HoldInv /\ DeadlineInv
    BY DEF RelayInv
  <2>2. /\ remaining[s] = 1 /\ remaining'[s] = 0 /\ relay' = relay
        /\ relay.job = s /\ relay.phase = "reading" /\ s \in renewed
    BY DEF TimesOut, KeptAlive
  <2>3. CASE Tick
    BY <2>1, <2>2, <2>3, Ticked DEF Due, DeadlineInv, RelayTypeOK
  <2>4. CASE RelayHeartbeat
    BY <2>1, <2>2, <2>4, PeriodAssumption DEF RelayHeartbeat, Active, RelayTypeOK
  <2>5. CASE Report
    BY <2>1, <2>2, <2>5, Reported
  <2>6. ASSUME NEW t \in Stream, Request(t)  PROVE FALSE
    <3>1. Accepted(t) \/ Refused(t)
      BY <2>6, Requested, Zenon
    <3> QED  BY <2>2, <3>1 DEF Accepted, Refused
  <2>7. CASE UNCHANGED remaining
    BY <2>2, <2>7
  <2> QED
    BY <2>1, <2>3, <2>4, <2>5, <2>6, <2>7, Started, Read, FrameSent, NotSent, Ignored,
       MadeChunk, MadeEnd, KernelSent, GotFrame
    DEF Next, Relay, LoseIdleWorker, LoseWorker, EndResponse, Leave, kernel, vars
<1> QED  BY <1>1, RelayInvariance, PTL DEF Spec, LiveStreamNotTimedOut
=============================================================================
