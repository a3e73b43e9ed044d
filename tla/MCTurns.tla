------------------------------ MODULE MCTurns ------------------------------
(* A small instance of Turns, of the bodies an answer comes in, of the tools *)
(* of the chat client, of the page that uploads recordings, and of the URLs *)
(* a worker may be given.                                                   *)
EXTENDS Answers

Delta(role, content, calls) == Present([role |-> role, content |-> content, calls |-> calls])
Fragment(index, id, name, args) ==
  [index |-> index, id |-> id, type |-> IF id = "" THEN "" ELSE "function",
   name |-> name, args |-> args]
NoCalls == << >>
Assistants == Present("assistant")

Says(content, finish) ==
  [content |-> Present(content), calls |-> NoCalls, finish |-> Present(ParseFinishReason(finish))]
Asks(calls) ==
  [content |-> Absent, finish |-> Present(ParseFinishReason("tool_calls")),
   calls |-> [i \in DOMAIN calls |-> [id |-> calls[i], type |-> "function", name |-> "look",
                                      args |-> <<"{", "}">>]]]

\* A text, in one chunk or in fragments, with a choice that has no delta;
\* two calls, whole or in fragments between each other.
MCStreamed ==
  {[message |-> Says(<<"a", "wide">>, "stop"),
    chunks |-> <<Chunk(Delta(Assistants, Present(<<"a", "wide">>), NoCalls), Present("stop"))>>],
   [message |-> Says(<<"a", "wide">>, "other"),
    chunks |-> <<Chunk(Delta(Assistants, Present(<< >>), NoCalls), Absent),
                 Chunk(Delta(Present(""), Present(<<"a">>), NoCalls), Absent),
                 Chunk(Delta(Absent, Present(<<"wide">>), NoCalls), Present("other")),
                 Chunk(Absent, Present("stop"))>>],
   [message |-> Asks(<<"one", "two">>),
    chunks |-> <<Chunk(Delta(Assistants, Absent,
                             <<Fragment(Absent, "one", "look", <<"{", "}">>),
                               Fragment(Present(1), "two", "look", <<"{", "}">>)>>),
                       Present("tool_calls"))>>],
   [message |-> Asks(<<"one", "two">>),
    chunks |-> <<Chunk(Delta(Assistants, Absent, <<Fragment(Present(0), "one", "look", <<"{">>)>>), Absent),
                 Chunk(Delta(Absent, Absent, <<Fragment(Present(1), "two", "look", <<"{">>),
                                               Fragment(Present(0), "", "", <<"}">>)>>), Absent),
                 Chunk(Delta(Absent, Absent, <<Fragment(Present(1), "", "", <<"}">>)>>),
                       Present("tool_calls"))>>]}

\* As the gateway writes; with carriage returns, events and comments; without
\* the end mark and the last newline.
MCBodyForms ==
  {[newline |-> <<LineFeed>>, between |-> <<LineFeed>>, unended |-> FALSE,
    last |-> <<DataTag, DoneMark, LineFeed, LineFeed>>],
   [newline |-> <<Return, LineFeed>>, between |-> <<EventTag, LineFeed, Colon, LineFeed>>,
    unended |-> TRUE, last |-> <<DataTag, DoneMark, LineFeed>>],
   [newline |-> <<LineFeed>>, between |-> << >>, unended |-> TRUE, last |-> << >>]}

Named(name, value) == Part(Present(name), Present(value), Absent)
Torn(name) == Part(Present(name), Absent, Absent)
MCParts ==
  {Part(Present("file"), Present(audio), Present(<<"recording", "webm">>)) :
     audio \in {"", "sound", "large"}}
  \union {Named("file", "sound"), Torn("file"), Torn("temperature")}
  \union {Named("model", value) : value \in {"one", "two"}}
  \union {Named("temperature", value) : value \in {"word", "NaN", "0.5"}}
  \union {Named("language", "one"), Named("other", "one"), Part(Absent, Present("one"), Absent)}

MCOutputs == {<< >>, <<<<"a">>, <<"lead">>, <<"trail">>>>, <<<<"lead">>, <<"trail">>>>}

MCQueries ==
  {Absent} \union
  {Present(pairs) : pairs \in UNION {[1 .. n -> {NoPair, Pair("token", <<"chat">>),
                                              Pair("capabilities", <<"", "chat">>),
                                              Pair("capabilities", <<"other">>),
                                              Pair("capabilities", <<"">>)}] : n \in 0 .. 2}}
=============================================================================
