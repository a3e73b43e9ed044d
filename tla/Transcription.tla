---------------------------- MODULE Transcription ----------------------------
(***************************************************************************)
(* A recording on its way to the whisper server and its text on the way    *)
(* back: the page makes a form, the endpoint reads it and makes a payload, *)
(* the worker makes a request of the payload and frames of the answer, the *)
(* endpoint makes a response of the frames.                                *)
(*                                                                         *)
(* A part of a form has a name, a value and a file name, each there or     *)
(* not: a value that is not there cannot be read.  A file name is its      *)
(* parts between dots; audio is "" when it is empty, "large" beyond the    *)
(* endpoint's limit.                                                       *)
(***************************************************************************)
EXTENDS AnswerStream

CONSTANTS
  Parts,      \* bound: parts a form may be made of
  MaxParts    \* bound: parts of a form

\* "null" is no text: it stands for what JSON has for no number.
ASSUME PartsAssumption ==
  /\ MaxParts \in Nat
  /\ \A part \in Parts : /\ part.name = Absent \/ part.name = Present(part.name[1])
                         /\ part.value = Absent \/ part.value = Present(part.value[1])
                         /\ part.value # Present("null")

Part(name, value, file_name) == [name |-> name, value |-> value, file_name |-> file_name]

\* sendAudio
ExtMap ==
  [base \in {"audio/webm", "audio/ogg", "audio/mp4", "audio/mpeg", "audio/wav"} |->
     CASE base = "audio/webm" -> "webm" [] base = "audio/ogg" -> "ogg" [] base = "audio/mp4" -> "mp4"
       [] base = "audio/mpeg" -> "mp3" [] base = "audio/wav" -> "wav"]
ExtForMime(base) == IF base \in DOMAIN ExtMap THEN ExtMap[base] ELSE "bin"
SendAudio(blob, base, model, language) ==
  <<Part(Present("file"), Present(blob), Present(<<"recording", ExtForMime(base)>>)),
    Part(Present("model"), Present(IF model = "" THEN "whisper-1" ELSE model), Absent)>>
  \o (IF language = "" THEN << >> ELSE <<Part(Present("language"), Present(language), Absent)>>)

-----------------------------------------------------------------------------
(* The endpoint reads the form *)

TextFields == {"model", "language", "prompt", "response_format"}

ParseNumber(text) == IF text = "word" THEN Absent ELSE Present(text)

\* The last part of a name that can be read stays; a file that cannot be read
\* or is too large ends it.
ReadField(form, part) ==
  LET name == part.name[1]
  IN  IF form.refused \/ part.name = Absent THEN form
      ELSE CASE name = "file" ->
                  IF part.value \in {Absent, Present("large")} THEN [form EXCEPT !.refused = TRUE]
                  ELSE [form EXCEPT !.file = part.value,
                          !.file_name = IF part.file_name = Absent THEN Present(<<"audio", "wav">>)
                                        ELSE part.file_name]
             [] name \in TextFields /\ part.value # Absent -> [form EXCEPT ![name] = part.value]
             [] name = "temperature" /\ part.value # Absent ->
                  [form EXCEPT !.temperature = ParseNumber(part.value[1])]
             [] OTHER -> form

NewForm ==
  [refused |-> FALSE, file |-> Absent, file_name |-> Absent, model |-> Absent, language |-> Absent,
   prompt |-> Absent, response_format |-> Absent, temperature |-> Absent]
ReadForm(parts) ==
  LET read[n \in 0 .. Len(parts)] == IF n = 0 THEN NewForm ELSE ReadField(read[n - 1], parts[n])
  IN  read[Len(parts)]
Accepted(form) == ~form.refused /\ form.file # Absent /\ form.model # Absent

\* JSON has no number for NaN.
PayloadOf(form) ==
  [audio_base64 |-> form.file, model |-> form.model, file_name |-> form.file_name,
   language |-> form.language, prompt |-> form.prompt, response_format |-> form.response_format,
   temperature |-> IF form.temperature = Present("NaN") THEN Present("null") ELSE form.temperature]

-----------------------------------------------------------------------------
(* worker/whisper.rs and the frames of a transcription job *)

MimeTypeForFilename(name) ==
  CASE Last(name) = "wav" -> "audio/wav"
    [] Last(name) = "webm" -> "audio/webm"
    [] Last(name) \in {"mp4", "m4a"} -> "audio/mp4"
    [] Last(name) \in {"ogg", "oga"} -> "audio/ogg"
    [] Last(name) = "flac" -> "audio/flac"
    [] Last(name) = "mp3" -> "audio/mpeg"
    [] OTHER -> "application/octet-stream"

\* parse_request of a payload of the endpoint
ParseRequest(payload) ==
  [ok |-> payload.audio_base64 # Present(""),
   audio |-> payload.audio_base64[1], file_name |-> payload.file_name[1],
   mime_type |-> MimeTypeForFilename(payload.file_name[1]), model |-> payload.model[1],
   language |-> payload.language, prompt |-> payload.prompt,
   response_format |-> payload.response_format,
   temperature |-> IF payload.temperature = Present("null") THEN Absent ELSE payload.temperature]

\* The form the whisper server gets.
WhisperForm(asked) ==
  LET If(name, value) == IF value = Absent THEN << >> ELSE <<[name |-> name, value |-> value[1]]>>
  IN  <<[name |-> "file", value |-> <<asked.audio, asked.file_name, asked.mime_type>>],
        [name |-> "model", value |-> asked.model]>>
      \o If("language", asked.language) \o If("prompt", asked.prompt)
      \o If("response_format", asked.response_format) \o If("temperature", asked.temperature)

\* parse_response: the body of the answer, if there is one and it is JSON.
ParseResponse(answer) == answer.status = 200 /\ answer.json

\* Frames carry what the server has answered to the form.
ProcessTranscriptionJob(configured, payload, answer) ==
  LET asked == ParseRequest(payload)
  IN  IF configured /\ asked.ok /\ ParseResponse(answer)
        THEN <<[type |-> "chunk", data |-> WhisperForm(asked)], [type |-> "done", data |-> << >>]>>
        ELSE <<[type |-> "error", data |-> << >>]>>

-----------------------------------------------------------------------------
(* The endpoint's response *)

Response(status, data) == [status |-> status, data |-> data]

\* collect_response: the last chunk counts, with done or when the channel is
\* closed.
CollectResponse(frames) ==
  LET chunks == {i \in DOMAIN frames : frames[i].type = "chunk"}
  IN  IF chunks = {} \/ \E i \in DOMAIN frames : frames[i].type = "error"
        THEN Response(500, << >>) ELSE Response(200, frames[Max(chunks)].data)

\* The frames that come, and whether the channel is closed after them.
Respond(frames, closed) ==
  IF (frames # << >> /\ Last(frames).type \in {"done", "error"}) \/ closed
    THEN CollectResponse(frames) ELSE Response(504, << >>)

-----------------------------------------------------------------------------
(* Properties *)

\* Forms of which only the last part may be torn.
Forms ==
  {parts \in UNION {[1 .. n -> Parts] : n \in 0 .. MaxParts} :
     \A i \in DOMAIN parts : parts[i].value = Absent => i = Len(parts)}

\* The last value of a name that can be read.
LastOf(parts, name) ==
  LET at == {i \in DOMAIN parts : parts[i].name = Present(name) /\ parts[i].value # Absent}
  IN  IF at = {} THEN Absent ELSE parts[Max(at)].value

Asked(parts) ==
  [name \in TextFields \union {"temperature"} |->
     IF name = "temperature" /\ LastOf(parts, name) \in {Present("word"), Present("NaN")} THEN Absent
     ELSE LastOf(parts, name)]

\* What the whisper server was asked, read back from the form it got.
FieldOf(form, name) ==
  LET at == {i \in DOMAIN form : form[i].name = name}
  IN  IF at = {} THEN Absent ELSE Present(form[Max(at)].value)

\* A response is what the whisper server answered, and it was asked what the
\* form's last readable parts say, of the last file and under its media type;
\* every other outcome is an error, and a form without its file, its model or
\* any sound is never answered.  However the frames are cut off or late, no
\* response is made up.
TranscriptionFaithful ==
  AwaitsAnswer =>
    /\ \A parts \in Forms, json, configured \in BOOLEAN, status \in {200, 500} :
         LET form == ReadForm(parts)
             frames == ProcessTranscriptionJob(configured, PayloadOf(form),
                                               [status |-> status, json |-> json])
             served == configured /\ status = 200 /\ json
                         /\ LastOf(parts, "file") \notin {Absent, Present("")}
         IN  Accepted(form) =>
               \A n \in 0 .. Len(frames), closed \in BOOLEAN :
                 LET response == Respond(SubSeq(frames, 1, n), closed)
                 IN  /\ response.status = 200 =>
                          /\ served
                          /\ FieldOf(response.data, "file")[1][1] = LastOf(parts, "file")[1]
                          /\ \A name \in DOMAIN Asked(parts) :
                               FieldOf(response.data, name) = Asked(parts)[name]
                     /\ n = Len(frames) /\ served => response.status = 200
    /\ \A base \in DOMAIN ExtMap, language \in {"", "en"} :
         LET form == ReadForm(SendAudio("sound", base, "", language))
         IN  /\ Accepted(form)
             /\ MimeTypeForFilename(form.file_name[1]) = base
=============================================================================
