---------------------------- MODULE AnswerStream ----------------------------
(***************************************************************************)
(* How an answer comes to a terminal client (the programs of Turns): the   *)
(* inference server streams it, the worker reads the lines of the body and *)
(* sends a frame for each, the gateway makes a body of its own of them,    *)
(* the client reads that and puts the chunks together.  Either body comes  *)
(* in pieces that begin and end anywhere, and may stop before its end.     *)
(*                                                                         *)
(* A body is a sequence of symbols.  A JSON text is its two ends and, in   *)
(* the middle, the two bytes of the one wide character it may have.        *)
(***************************************************************************)
EXTENDS Turns

CONSTANTS
  Streamed,   \* bound: a message, and the chunks a server may stream it in
  BodyForms   \* bound: how a server may write its body

Absent == << >>
Present(v) == <<v>>

LineFeed == <<"lf">>
Return == <<"cr">>
Colon == <<":">>
DataTag == <<"data:">>     \* with a space after it or without
EventTag == <<"event:">>
DoneMark == <<"[DONE]">>
Replaced == <<"replaced">> \* U+FFFD

-----------------------------------------------------------------------------
(* JSON texts *)

\* A chunk has a model and choices, a choice a delta and a finish_reason, a
\* delta a role, content and calls, each of them there or not.
Chunk(delta, finish) ==
  [model |-> Present("real"), choices |-> Present(<<[delta |-> delta, finish |-> finish]>>)]
ErrorBody == [model |-> Absent, choices |-> Absent]

ContentOf(chunk) ==
  IF chunk.choices = Absent \/ chunk.choices[1] = << >> \/ chunk.choices[1][1].delta = Absent
    THEN Absent ELSE chunk.choices[1][1].delta[1].content
IsWide(chunk) == ContentOf(chunk) # Absent /\ "wide" \in Range(ContentOf(chunk)[1])
Damaged(content) == [i \in DOMAIN content |-> IF content[i] = "wide" THEN "replaced" ELSE content[i]]
WithDamage(chunk) == [chunk EXCEPT !.choices[1][1].delta[1].content[1] = Damaged(@)]

Middle(chunk) == IF IsWide(chunk) THEN <<<<"lead", chunk>>, <<"trail", chunk>>>> ELSE << >>
Text(chunk) == <<<<"open", chunk>>>> \o Middle(chunk) \o <<<<"close", chunk>>>>
TornText(chunk) == <<<<"open", chunk>>, Replaced, Replaced, <<"close", chunk>>>>

IsJson(data) ==
  /\ data # << >> /\ Head(data)[1] = "open"
  /\ LET chunk == Head(data)[2] IN data = Text(chunk) \/ (IsWide(chunk) /\ data = TornText(chunk))
Value(data) ==
  LET chunk == Head(data)[2] IN IF data = Text(chunk) THEN chunk ELSE WithDamage(chunk)

-----------------------------------------------------------------------------
(* Reading the lines of a body *)

\* from_utf8_lossy of one piece: half a character is replaced.
IsHalf(piece, i) ==
  \/ piece[i][1] = "lead" /\ (i = Len(piece) \/ piece[i + 1][1] # "trail")
  \/ piece[i][1] = "trail" /\ (i = 1 \/ piece[i - 1][1] # "lead")
Lossy(piece) == [i \in DOMAIN piece |-> IF IsHalf(piece, i) THEN Replaced ELSE piece[i]]

WithoutReturns(line) == SelectSeq(line, LAMBDA symbol : symbol # Return)

\* An empty line, a comment, data, or a field that is not read.
ReadLine(reader, raw) ==
  LET line == WithoutReturns(raw)
      data == Tail(line)
  IN  IF reader.state # "reading" \/ line = << >> \/ Head(line) # DataTag THEN reader
      ELSE IF data = <<DoneMark>> THEN [reader EXCEPT !.state = "ended"]
      ELSE IF IsJson(data) THEN [reader EXCEPT !.values = Append(@, Value(data))]
      ELSE [reader EXCEPT !.state = "failed"]

\* The lines that are complete are read, the rest is kept.
ReadSymbol(reader, symbol) ==
  IF symbol = LineFeed THEN [ReadLine(reader, reader.buffer) EXCEPT !.buffer = << >>]
  ELSE [reader EXCEPT !.buffer = Append(@, symbol)]
ReadPiece(reader, piece) == FoldLeft(ReadSymbol, reader, Lossy(piece))

\* Mutant of ReadRest: a last line that is not ended is left.
LeaveRest(reader) == [reader EXCEPT !.state = "ended"]

\* The body has ended: a last line that is not ended is read too.
ReadRest(reader) ==
  LET last == ReadLine(reader, reader.buffer)
  IN  IF last.state = "reading" THEN [last EXCEPT !.state = "ended"] ELSE last

NewReader == [buffer |-> << >>, values |-> << >>, state |-> "reading"]

\* The end comes as the end of the body, or as an error of the connection.
ReadBody(pieces, end) ==
  LET reader == FoldLeft(ReadPiece, NewReader, pieces)
  IN  IF reader.state # "reading" THEN reader
      ELSE IF end = "closed" THEN ReadRest(reader)
      ELSE [reader EXCEPT !.state = "failed"]

-----------------------------------------------------------------------------
(* worker/inference.rs and the frames of a chat job *)

\* scrub_model_from_chunk
Scrub(chunk) ==
  IF chunk.model = Absent THEN chunk ELSE [chunk EXCEPT !.model = Present("mystery_model")]

StreamCompletion(status, pieces, end, override) ==
  IF status # 200 THEN [values |-> << >>, state |-> "failed"]
  ELSE LET reader == ReadBody(pieces, end)
       IN  [values |-> IF override THEN [i \in DOMAIN reader.values |-> Scrub(reader.values[i])]
                       ELSE reader.values,
            state |-> reader.state]

ChunkFrame(chunk) == [type |-> "chunk", data |-> chunk]
DoneFrame == [type |-> "done", data |-> ErrorBody]
ErrorFrame == [type |-> "error", data |-> ErrorBody]

\* What was read before an error is sent before it.
ProcessChatJob(completion) ==
  Append([i \in DOMAIN completion.values |-> ChunkFrame(completion.values[i])],
         IF completion.state = "failed" THEN ErrorFrame ELSE DoneFrame)

-----------------------------------------------------------------------------
(* The gateway's body: an event for each frame, and comments between them *)

EventOf(frame) ==
  <<DataTag>> \o (IF frame.type = "done" THEN <<DoneMark>> ELSE Text(frame.data))
    \o <<LineFeed, LineFeed>>
KeepAlive == <<Colon, LineFeed, LineFeed>>
SseBody(frames) == KeepAlive \o FlattenSeq([i \in DOMAIN frames |-> EventOf(frames[i])])

\* collect_sse_chunks
CollectSseChunks(pieces, end) ==
  LET reader == ReadBody(pieces, end) IN [ok |-> reader.state # "failed", chunks |-> reader.values]

-----------------------------------------------------------------------------
(* response.rs: chunks are put together *)

FirstOf(old, new) == IF old = "" THEN new ELSE old

NoCall == [id |-> "", type |-> "", name |-> "", args |-> << >>]

\* A call's fields are its first ones that are not empty, its arguments are all
\* of them one after the other; a call without an index has index 0.
AddCall(calls, fragment) ==
  LET index == IF fragment.index = Absent THEN 0 ELSE fragment.index[1]
      call == IF index \in DOMAIN calls THEN calls[index] ELSE NoCall
  IN  (index :> [id |-> FirstOf(call.id, fragment.id), type |-> FirstOf(call.type, fragment.type),
                 name |-> FirstOf(call.name, fragment.name), args |-> call.args \o fragment.args])
      @@ calls

AddContent(content, more) ==
  IF more = Absent THEN content
  ELSE Present((IF content = Absent THEN << >> ELSE content[1]) \o more[1])

FinishReasons == {"stop", "length", "content_filter", "tool_calls", "function_call"}
ParseFinishReason(reason) == [known |-> reason \in FinishReasons, reason |-> reason]

\* A choice without a delta is passed over, with its finish reason.
AddChunk(answer, chunk) ==
  IF chunk.choices = Absent \/ chunk.choices[1] = << >> THEN [answer EXCEPT !.ok = FALSE]
  ELSE LET choice == chunk.choices[1][1]
       IN  IF choice.delta = Absent THEN answer
           ELSE LET delta == choice.delta[1]
                IN  [answer EXCEPT
                       !.role = FirstOf(@, IF delta.role = Absent THEN "" ELSE delta.role[1]),
                       !.content = AddContent(@, delta.content),
                       !.calls = FoldLeft(AddCall, @, delta.calls),
                       !.finish = IF choice.finish = Absent THEN @
                                  ELSE Present(ParseFinishReason(choice.finish[1]))]

NoMessage == [content |-> Absent, calls |-> << >>, finish |-> Absent]

Assemble(chunks) ==
  LET start == [ok |-> TRUE, role |-> "", content |-> Absent, calls |-> << >>, finish |-> Absent]
      answer == FoldLeft(AddChunk, start, chunks)
      order == SetToSortSeq(DOMAIN answer.calls, <)
  IN  IF chunks = << >> \/ ~answer.ok \/ answer.role \notin {"", "assistant"}
        THEN [ok |-> FALSE, message |-> NoMessage]
        ELSE [ok |-> TRUE,
              message |-> [content |-> answer.content, finish |-> answer.finish,
                           calls |-> [i \in DOMAIN order |-> answer.calls[order[i]]]]]

\* assistant_message_value: what goes into the history.
AssistantMessageValue(message) ==
  [role |-> "assistant", tool_calls |-> message.calls,
   content |-> IF message.calls = << >> /\ message.content = Absent THEN Present(<< >>)
               ELSE message.content]

\* The turn's answer, or an error.
ChatAnswer(status, pieces, end) ==
  LET collected == CollectSseChunks(pieces, end)
  IN  IF status # 200 \/ ~collected.ok THEN [ok |-> FALSE, message |-> NoMessage]
      ELSE Assemble(collected.chunks)

-----------------------------------------------------------------------------
(* Properties *)

\* The ways a text may come: in two pieces, and not all of it.
Deliveries(text) ==
  {[pieces |-> <<SubSeq(text, 1, cut.at), SubSeq(text, cut.at + 1, cut.stop)>>, end |-> end,
    whole |-> cut.stop = Len(text) /\ end = "closed",
    splits |-> cut.at \in 1 .. cut.stop - 1 /\ text[cut.at][1] = "lead"] :
     cut \in {c \in [at : 0 .. Len(text), stop : 0 .. Len(text)] : c.at <= c.stop},
     end \in {"closed", "lost"}}

\* The body of a server, in one of its forms: its last newline may be missing.
ServerBody(chunks, form) ==
  LET body == FlattenSeq([i \in DOMAIN chunks |->
                <<DataTag>> \o Text(chunks[i]) \o form.newline \o form.between]) \o form.last
  IN  IF form.unended THEN Front(body) ELSE body

ContentBegins(c, d) ==
  c = Absent \/ /\ d # Absent /\ DOMAIN c[1] \subseteq DOMAIN d[1]
                /\ \A i \in DOMAIN c[1] : c[1][i] \in {d[1][i], "replaced"}
CallBegins(c, d) ==
  /\ c.id \in {"", d.id} /\ c.type \in {"", d.type} /\ c.name \in {"", d.name}
  /\ IsPrefix(c.args, d.args)
MessageBegins(m, n) ==
  /\ ContentBegins(m.content, n.content) /\ m.finish \in {Absent, n.finish}
  /\ DOMAIN m.calls \subseteq DOMAIN n.calls
  /\ \A i \in DOMAIN m.calls : CallBegins(m.calls[i], n.calls[i])

\* What the worker makes of a body, whether the body was whole, whether a
\* character was split.
ChatJobs(body, override) ==
  {[frames |-> ProcessChatJob(StreamCompletion(200, d.pieces, d.end, override)),
    whole |-> d.whole, splits |-> d.splits] : d \in Deliveries(body)}

\* A terminal client waits for its first answer.
AwaitsAnswer == host = "cli" /\ requests = 1 /\ prompts = 1 /\ round = 0

\* The answer a client has is what the server meant, whatever way the server
\* streamed and wrote it and wherever the pieces of both bodies end, save that a
\* wide character of which a piece has only half is replaced.  Of a body that
\* stops before its end the client has an error or the beginning of the answer,
\* and it never takes for an answer what the worker or the gateway ended with an
\* error.  Where the worker overrides the model, its name does not get out.
AnswersWhole ==
  AwaitsAnswer =>
    \A streamed \in Streamed, form \in BodyForms, override \in BOOLEAN :
      \A sent \in ChatJobs(ServerBody(streamed.chunks, form), override) :
        /\ override => \A i \in DOMAIN sent.frames : sent.frames[i].data.model # Present("real")
        /\ \A d \in Deliveries(SseBody(sent.frames)) :
             LET answer == ChatAnswer(200, d.pieces, d.end)
             IN  /\ answer.ok => MessageBegins(answer.message, streamed.message)
                 /\ sent.whole /\ d.whole => answer.ok
                 /\ sent.whole /\ d.whole /\ ~sent.splits /\ ~d.splits =>
                      answer.message = streamed.message
                 /\ Last(sent.frames).type = "error" /\ d.whole => ~answer.ok
=============================================================================
