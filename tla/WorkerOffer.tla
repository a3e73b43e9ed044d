----------------------------- MODULE WorkerOffer -----------------------------
(***************************************************************************)
(* How the gateway knows which jobs a worker can do: pc-worker has an      *)
(* inference server, a whisper server or both, says so in the URL that it  *)
(* connects to, and the gateway reads it there.                            *)
(*                                                                         *)
(* The query of a URL is its pairs; the value of a pair is its tokens      *)
(* between commas, and a token "" may have spaces.                         *)
(***************************************************************************)
EXTENDS AnswerStream

CONSTANT Queries   \* bound: of the URL that pc-worker is given, Absent without a question mark

ASSUME QueriesAssumption ==
  \A query \in Queries \ {Absent} : query = Present(query[1]) /\ query[1] \in Seq(Range(query[1]))

Capabilities == {"chat", "transcription"}

Pair(key, value) == [key |-> Present(key), value |-> value]
NoPair == [key |-> Absent, value |-> << >>]   \* without an equals sign

\* main of pc-worker
Starts(inference, whisper) == inference \/ whisper
Offered(inference, whisper) ==
  (IF inference THEN {"chat"} ELSE {}) \union (IF whisper THEN {"transcription"} ELSE {})

\* The pairs of the URL are kept; the offer comes in the order of the enum.
BuildRequest(query, offered) ==
  LET If(c) == IF c \in offered THEN <<c>> ELSE << >>
  IN  (IF query = Absent THEN << >> ELSE query[1])
      \o <<Pair("capabilities", If("chat") \o If("transcription"))>>

-----------------------------------------------------------------------------
(* The gateway *)

\* Of more than one the first.
ExtractCapabilitiesParam(query) ==
  LET at == {i \in DOMAIN query : query[i].key = Present("capabilities")}
  IN  IF at = {} THEN Absent ELSE Present(query[Min(at)].value)

Refused == [ok |-> FALSE, capabilities |-> {}]

\* A token that is unknown, or no token at all, is an error.
ParseCapabilities(value) ==
  LET tokens == ToSet(value) \ {""}
  IN  IF tokens = {} \/ ~(tokens \subseteq Capabilities) THEN Refused
      ELSE [ok |-> TRUE, capabilities |-> tokens]

WorkerWsUpgrade(query) ==
  LET param == ExtractCapabilitiesParam(query)
  IN  IF param = Absent THEN Refused ELSE ParseCapabilities(param[1])

-----------------------------------------------------------------------------
(* Properties *)

\* A worker that starts is registered for what it has a server for and nothing
\* else, whatever its URL has besides: so no job waits for it that it cannot do,
\* and none that it can do is kept from it.  Only a URL that names capabilities
\* itself decides in its place, or is refused.
OfferKept ==
  AwaitsAnswer =>
    \A inference, whisper \in BOOLEAN, query \in Queries :
      Starts(inference, whisper) =>
        LET offered == Offered(inference, whisper)
            upgraded == WorkerWsUpgrade(BuildRequest(query, offered))
            own == IF query = Absent THEN Absent ELSE ExtractCapabilitiesParam(query[1])
        IN  /\ own = Absent => upgraded.ok /\ upgraded.capabilities = offered
            /\ own # Absent /\ upgraded.ok => upgraded.capabilities \subseteq ToSet(own[1])
            /\ upgraded.ok => upgraded.capabilities # {}
=============================================================================
