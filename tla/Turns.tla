------------------------------- MODULE Turns -------------------------------
(***************************************************************************)
(* A conversation with the model: prompts, completions, the tool calls a   *)
(* completion asks for, and the history every request is made from.  Three *)
(* programs run it.  The browser's application reduces events and asks its *)
(* host for completions, any number of them at a time.  The terminal       *)
(* client of a session (cli) runs one turn at a time, and cuts the history *)
(* itself.  The chat client (chat) has tools of its own and a history that *)
(* is never cut, with the system message first that it may have been       *)
(* given.  The last two take one message back when a turn fails.           *)
(*                                                                         *)
(* A message is its role and, for an assistant, the number of calls it     *)
(* makes.  A call is what it comes to: a look, a draft made, a draft       *)
(* removed, an error, or one of the two tools that are dispatched though   *)
(* the model is not told of them; the chat client's come to a look or to   *)
(* an error.  Drafts are counted (Deliberation has them in full).          *)
(***************************************************************************)
EXTENDS Integers, SequencesExt

CONSTANTS
  MaxHistory,   \* max_history
  MaxRounds,    \* MAX_TOOL_ROUNDS
  MaxPrompts,   \* bound: prompts of a conversation
  MaxCalls,     \* bound: calls of one completion
  MaxMessages,  \* bound: length of the history when a completion arrives
  MaxDrafts     \* bound: drafts

ASSUME LimitsAssumption ==
  {MaxHistory, MaxRounds, MaxPrompts, MaxCalls, MaxMessages, MaxDrafts} \subseteq Nat

VARIABLES
  host,      \* browser, cli or chat
  history,
  drafts,
  prompts,   \* history variable: prompts so far
  requests,  \* completions asked for and not yet arrived
  round,     \* of the turn, in a terminal
  request    \* the messages of the last request built
VARIABLES
  spoiled,   \* history variable: a turn has failed in a way that may leave calls
             \* without their results: after its first round, or (chat) among
             \* the calls of a completion
  overlapped \* history variable: a prompt has come with a completion on its way
vars == <<host, history, drafts, prompts, requests, round, request, spoiled, overlapped>>

User(n) == [role |-> "user", prompt |-> n]
Assistant(n) == [role |-> "assistant", calls |-> n]
Bare == Assistant(0)
ToolResult(i) == [role |-> "tool", call |-> i]
SystemMessage == [role |-> "system"]
Message ==
  [role : {"user"}, prompt : Nat] \union [role : {"assistant"}, calls : Nat]
    \union [role : {"tool"}, call : Nat] \union {SystemMessage}

CallKinds == {"look", "draft", "remove", "error", "hidden"}
Completions == UNION {[1 .. n -> CallKinds] : n \in 0 .. MaxCalls}

-----------------------------------------------------------------------------
(* The history *)

\* Where a history may begin.
Boundary(m) == m.role = "user" \/ m = Bare

\* Mutant of Cuts: any place will do.
AnyCut(h) == Len(h) - MaxHistory + 1 .. Len(h)
Cuts(h) == {c \in Len(h) - MaxHistory + 1 .. Len(h) : Boundary(h[c])}

Truncate(h) ==
  IF Len(h) <= MaxHistory \/ Cuts(h) = {} THEN h
  ELSE SubSeq(h, CHOOSE c \in Cuts(h) : \A d \in Cuts(h) : c <= d, Len(h))

Init ==
  /\ host \in {"browser", "cli", "chat"}
  /\ history = << >> \/ (host = "chat" /\ history = <<SystemMessage>>)
  /\ request = << >>
  /\ drafts = 0 /\ prompts = 0 /\ requests = 0 /\ round = 0
  /\ spoiled = FALSE /\ overlapped = FALSE

-----------------------------------------------------------------------------
(* Tool calls *)

\* The browser's application decodes only the tools it advertises.
Succeeds(kind, n) ==
  \/ kind \in {"look", "draft"}
  \/ kind = "remove" /\ n > 0
  \/ kind = "hidden" /\ host = "cli"

DraftsAfter(kind, n) ==
  IF ~Succeeds(kind, n) THEN n
  ELSE CASE kind = "draft" -> n + 1
         [] kind = "remove" -> n - 1
         [] kind = "hidden" -> 0
         [] OTHER -> n

\* The calls run in order, on the drafts the one before has left.
Execute(calls) ==
  FoldLeft(LAMBDA done, kind :
             [drafts |-> DraftsAfter(kind, done.drafts),
              mutated |-> \/ done.mutated
                          \/ kind \in {"draft", "remove"} /\ Succeeds(kind, done.drafts)],
           [drafts |-> drafts, mutated |-> FALSE], calls)

\* Mutant of Results: a call that fails has no result.
ResultsOfSuccesses(calls) ==
  [i \in 1 .. Cardinality({j \in DOMAIN calls : calls[j] # "error"}) |-> ToolResult(i)]

\* Every call has its result, an error too.
Results(calls) == [i \in DOMAIN calls |-> ToolResult(i)]

-----------------------------------------------------------------------------
(* The browser's application *)

\* UserPromptReceived
BrowserPrompt ==
  /\ host = "browser" /\ prompts < MaxPrompts
  /\ history' = Append(history, User(prompts + 1))
  /\ prompts' = prompts + 1
  /\ request' = Truncate(history')
  /\ requests' = requests + 1
  /\ overlapped' = (overlapped \/ requests > 0)
  /\ UNCHANGED <<host, drafts, round, spoiled>>

\* ChatCompletionReceived; with calls, a request follows unless they have
\* changed the drafts.
BrowserCompletion(calls) ==
  /\ host = "browser" /\ requests > 0
  /\ Len(history) + Len(calls) < MaxMessages /\ Execute(calls).drafts <= MaxDrafts
  /\ history' = history \o <<Assistant(Len(calls))>> \o Results(calls)
  /\ drafts' = Execute(calls).drafts
  /\ IF calls = << >> \/ Execute(calls).mutated
       THEN requests' = requests - 1 /\ UNCHANGED request
       ELSE request' = Truncate(history') /\ UNCHANGED requests
  /\ UNCHANGED <<host, prompts, round, spoiled, overlapped>>

\* ChatCompletionDecodeFailed, or the host has no answer.
BrowserFailure ==
  /\ host = "browser" /\ requests > 0
  /\ requests' = requests - 1
  /\ UNCHANGED <<host, history, drafts, prompts, round, request, spoiled, overlapped>>

-----------------------------------------------------------------------------
(* Both terminals: one turn at a time *)

Terminal == host \in {"cli", "chat"}

TurnBegins ==
  /\ requests = 0 /\ prompts < MaxPrompts
  /\ prompts' = prompts + 1
  /\ request' = history'
  /\ requests' = 1 /\ round' = 0
  /\ UNCHANGED <<host, drafts, spoiled, overlapped>>

TurnEnds == requests' = 0

\* The answer, which makes no calls.
FinalAnswer ==
  /\ Terminal /\ requests = 1
  /\ history' = Append(history, Bare)
  /\ TurnEnds
  /\ UNCHANGED <<host, drafts, prompts, round, request, spoiled, overlapped>>

\* Too many rounds: the message has been pushed, and is popped again.
OutOfRounds(calls) ==
  /\ Terminal /\ requests = 1 /\ calls # << >> /\ round >= MaxRounds
  /\ TurnEnds
  /\ UNCHANGED <<host, history, drafts, prompts, round, request, spoiled, overlapped>>

\* No answer, or one that does not assemble: one message is popped.
TurnFails ==
  /\ Terminal /\ requests = 1
  /\ history' = Front(history)
  /\ TurnEnds
  /\ spoiled' = (spoiled \/ round > 0)
  /\ UNCHANGED <<host, drafts, prompts, round, request, overlapped>>

-----------------------------------------------------------------------------
(* The terminal client of a session *)

\* handle_input and the first request of run_turn
CliPrompt ==
  /\ host = "cli"
  /\ history' = Truncate(Append(history, User(prompts + 1)))
  /\ TurnBegins

\* The calls run.  Once drafts have changed the client words the answer itself.
CliCalls(calls) ==
  /\ host = "cli" /\ requests = 1 /\ calls # << >> /\ round < MaxRounds
  /\ Len(history) + Len(calls) < MaxMessages /\ Execute(calls).drafts <= MaxDrafts
  /\ drafts' = Execute(calls).drafts
  /\ LET called == history \o <<Assistant(Len(calls))>> \o Results(calls)
     IN IF Execute(calls).mutated
        THEN /\ history' = Append(called, Bare)
             /\ TurnEnds
             /\ UNCHANGED <<round, request>>
        ELSE /\ history' = Truncate(called)
             /\ request' = history' /\ round' = round + 1
             /\ UNCHANGED requests
  /\ UNCHANGED <<host, prompts, spoiled, overlapped>>

\* The user submits or clears the drafts, between turns.
CliDraftsGone ==
  /\ host = "cli" /\ requests = 0 /\ drafts > 0
  /\ drafts' = 0
  /\ UNCHANGED <<host, history, prompts, requests, round, request, spoiled, overlapped>>

-----------------------------------------------------------------------------
(* The chat client *)

ChatPrompt ==
  /\ host = "chat"
  /\ history' = Append(history, User(prompts + 1))
  /\ TurnBegins

Runs(calls) == calls # << >> /\ round < MaxRounds /\ Len(history) + Len(calls) < MaxMessages

\* Every call has a result, and the next request has them all.
ChatCalls(calls) ==
  /\ host = "chat" /\ requests = 1 /\ Runs(calls)
  /\ \A i \in DOMAIN calls : calls[i] = "look"
  /\ history' = history \o <<Assistant(Len(calls))>> \o Results(calls)
  /\ request' = history' /\ round' = round + 1
  /\ UNCHANGED <<host, drafts, prompts, requests, spoiled, overlapped>>

\* A tool that is unknown or fails ends the turn with the results before it in
\* the history, and the last message is popped: the one with the calls, or a
\* result.
ChatToolFails(calls) ==
  /\ host = "chat" /\ requests = 1 /\ Runs(calls)
  /\ \E i \in DOMAIN calls :
       /\ calls[i] = "error" /\ \A j \in 1 .. i - 1 : calls[j] = "look"
       /\ history' =
            IF i = 1 THEN history
            ELSE history \o <<Assistant(Len(calls))>> \o SubSeq(Results(calls), 1, i - 2)
       /\ spoiled' = (spoiled \/ i > 1)
  /\ TurnEnds
  /\ UNCHANGED <<host, drafts, prompts, round, request, overlapped>>

-----------------------------------------------------------------------------
Next ==
  \/ BrowserPrompt \/ BrowserFailure
  \/ CliPrompt \/ CliDraftsGone \/ ChatPrompt
  \/ FinalAnswer \/ TurnFails
  \/ \E calls \in Completions :
       \/ BrowserCompletion(calls) \/ OutOfRounds(calls)
       \/ CliCalls(calls) \/ ChatCalls(calls) \/ ChatToolFails(calls)

Spec == Init /\ [][Next]_vars

-----------------------------------------------------------------------------
(* Properties *)

TypeOK ==
  /\ host \in {"browser", "cli", "chat"}
  /\ history \in Seq(Message) /\ request \in Seq(Message)
  /\ {drafts, prompts, requests, round} \subseteq Nat
  /\ {spoiled, overlapped} \subseteq BOOLEAN
  /\ Terminal => requests <= 1

\* The calls of a message are followed by their results, and a result follows
\* its call.
CallsAnswered(h) ==
  \A i \in DOMAIN h : h[i].role = "assistant" =>
    \A j \in 1 .. h[i].calls : i + j \in DOMAIN h /\ h[i + j] = ToolResult(j)
ResultsAsked(h) ==
  \A k \in DOMAIN h : h[k].role = "tool" =>
    /\ k > h[k].call
    /\ h[k - h[k].call].role = "assistant" /\ h[k].call <= h[k - h[k].call].calls
Paired(h) == CallsAnswered(h) /\ ResultsAsked(h)

\* Every call in the history is followed by its result, an error as well as a
\* success, and every result answers a call, however prompts, completions and
\* failures come: except once a turn in a terminal has failed after its first
\* round or among its calls, for it then takes a result back and not the prompt.
HistoryPaired == spoiled \/ Paired(history)

\* A request begins with a prompt or an answer, or with the system message of
\* the chat client, never between a call and its result, and has the prompt it
\* is to answer, however far the history is cut: unless the browser's host let a
\* prompt in while a completion was on its way.
RequestAnswersPrompt ==
  request # << >> =>
    /\ Boundary(Head(request)) \/ Head(request) = SystemMessage
    /\ requests > 0 /\ ~overlapped => \E i \in DOMAIN request : request[i] = User(prompts)
=============================================================================
