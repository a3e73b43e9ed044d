------------------------------- MODULE Answers -------------------------------
(* All the ways in which a user gets an answer, together. *)
EXTENDS PushToTalk, ClientTools, WorkerOffer

\* What a user gets for an answer is one: of a chat, whole and unchanged or an
\* error or its beginning; of a tool of the chat client, what the tool did; of a
\* recording, the text of that recording; and of a worker that can answer.
AnswersArrive ==
  AnswersWhole /\ ResultsTrue /\ DatesRight /\ TranscriptionFaithful /\ RecordingsSent /\ OfferKept
=============================================================================
