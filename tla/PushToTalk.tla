----------------------------- MODULE PushToTalk -----------------------------
(***************************************************************************)
(* The transcription page: a button and the space bar to hold while one    *)
(* speaks, the browser's recorder, and the upload of a recording (its form *)
(* is in Transcription).  The page's script runs a handler at a time.  A   *)
(* recorder that is stopped hands over what it has in a task of its own,   *)
(* before which any key may be pressed again.  A disabled button may or    *)
(* may not deliver its events.                                             *)
(*                                                                         *)
(* A recording is the number of the press that began it.                   *)
(***************************************************************************)
EXTENDS Transcription

CONSTANT MaxPresses   \* bound: recordings begun

VARIABLES
  mic,        \* of the browser: closed (no page), asking, denied, on, or gone
  supported,  \* of the browser: it has a MediaRecorder
  page,       \* the script's variables
  recorder,   \* the recording of its recorder, 0 without one
  active,     \* the recorder records
  stopping,   \* recordings that have stopped and are not handed over yet
  uploads     \* on their way
VARIABLES
  presses,    \* history variable: recordings begun so far
  silent,     \* history variable: recordings with nothing on them
  sent        \* history variable: blobs that were uploaded
pageVars == <<mic, supported, page, recorder, active, stopping, uploads, presses, silent, sent>>

NewPage ==
  [mediaStream |-> FALSE, recording |-> FALSE, sending |-> FALSE, chunks |-> << >>, spaceHeld |-> FALSE]

\* One of the programs of Turns, or the page.
PageInit ==
  /\ Init
  /\ mic \in (IF host = "browser" THEN {"closed", "asking"} ELSE {"closed"})
  /\ supported \in (IF mic = "closed" THEN {TRUE} ELSE BOOLEAN)
  /\ page = NewPage
  /\ recorder = 0 /\ active = FALSE /\ stopping = << >> /\ uploads = {}
  /\ presses = 0 /\ silent = {} /\ sent = << >>

-----------------------------------------------------------------------------
(* The browser *)

InitMic(answer) ==
  /\ mic = "asking"
  /\ mic' = answer
  /\ page' = [page EXCEPT !.mediaStream = (answer = "on")]
  /\ UNCHANGED <<supported, recorder, active, stopping, uploads, presses, silent, sent>>

\* The microphone goes; a recorder stops with it.
MicGoes ==
  /\ mic = "on"
  /\ mic' = "gone"
  /\ active' = FALSE
  /\ stopping' = IF active THEN Append(stopping, recorder) ELSE stopping
  /\ UNCHANGED <<supported, page, recorder, uploads, presses, silent, sent>>

-----------------------------------------------------------------------------
(* Pressing and releasing *)

\* A browser without recorders throws before there is one, and one whose
\* microphone is gone throws when it is to start.
StartRecording(p) ==
  IF p.recording \/ p.sending \/ ~p.mediaStream
    THEN page' = p /\ UNCHANGED <<recorder, active, presses, silent>>
    ELSE /\ page' = [p EXCEPT !.recording = TRUE, !.chunks = << >>]
         /\ IF ~supported THEN UNCHANGED <<recorder, active, presses, silent>>
            ELSE /\ recorder' = presses + 1 /\ presses' = presses + 1
                 /\ active' = (mic = "on")
                 /\ silent' = IF mic = "on" THEN silent ELSE silent \union {presses + 1}

\* A recorder that has stopped by itself ignores it.
StopRecording(p) ==
  IF ~p.recording \/ recorder = 0
    THEN page' = p /\ UNCHANGED <<active, stopping>>
    ELSE /\ page' = [p EXCEPT !.recording = FALSE]
         /\ active' = FALSE
         /\ stopping' = IF active THEN Append(stopping, recorder) ELSE stopping

Press ==
  /\ presses < MaxPresses
  /\ \/ StartRecording(page)
     \/ ~page.spaceHeld /\ StartRecording([page EXCEPT !.spaceHeld = TRUE])
  /\ UNCHANGED <<mic, supported, stopping, uploads, sent>>

\* The button is left or released, or the space bar is.
Release ==
  /\ \/ StopRecording(page)
     \/ page.spaceHeld /\ StopRecording([page EXCEPT !.spaceHeld = FALSE])
  /\ UNCHANGED <<mic, supported, recorder, uploads, presses, silent, sent>>

-----------------------------------------------------------------------------
(* The recorder's handlers, and the upload *)

\* onstop: all that was collected.
Blob(chunks) == [blob |-> chunks, left |-> << >>]

\* ondataavailable and onstop; sendAudio up to its fetch.
HandOver(sound) ==
  /\ stopping # << >>
  /\ stopping' = Tail(stopping)
  /\ LET made == Blob(IF sound THEN Append(page.chunks, Head(stopping)) ELSE page.chunks)
     IN  IF made.blob # << >>
           THEN /\ sent' = Append(sent, made.blob) /\ uploads' = uploads \union {Len(sent')}
                /\ page' = [page EXCEPT !.chunks = made.left, !.sending = TRUE]
           ELSE /\ page' = [page EXCEPT !.chunks = made.left]
                /\ UNCHANGED <<sent, uploads>>
  /\ silent' = IF sound THEN silent ELSE silent \union {Head(stopping)}
  /\ UNCHANGED <<mic, supported, recorder, active, presses>>

\* An answer of any status, or none.
UploadEnds(i) ==
  /\ uploads' = uploads \ {i}
  /\ page' = [page EXCEPT !.sending = FALSE]
  /\ UNCHANGED <<mic, supported, recorder, active, stopping, presses, silent, sent>>

PageStep ==
  \/ \E answer \in {"on", "denied"} : InitMic(answer)
  \/ MicGoes
  \/ Press \/ Release
  \/ \E sound \in BOOLEAN : HandOver(sound)
  \/ \E i \in uploads : UploadEnds(i)

PageNext ==
  \/ mic = "closed" /\ Next /\ UNCHANGED pageVars
  \/ mic # "closed" /\ PageStep /\ UNCHANGED vars

PageSpec == PageInit /\ [][PageNext]_<<vars, pageVars>>

-----------------------------------------------------------------------------
(* Properties *)

\* Every upload is the recording of one press, in the order of the presses, and
\* every recording that was made is uploaded once it is handed over, unless
\* there is nothing on it: however quickly the next is begun, though the script
\* collects all of them in one list.  And nobody is kept from recording by an
\* upload that has ended.
RecordingsSent ==
  /\ \A i \in DOMAIN sent :
       /\ Len(sent[i]) = 1
       /\ i > 1 => sent[i - 1][1] < sent[i][1]
  /\ \A p \in 1 .. presses :
       \/ p = recorder /\ active
       \/ p \in Range(stopping) \union silent
       \/ <<p>> \in Range(sent)
  /\ page.sending => uploads # {}
=============================================================================
