---------------------------- MODULE TurnsProofs ----------------------------
(***************************************************************************)
(* The history of a conversation keeps every call with its result, for     *)
(* every limit and however prompts, completions and failures come.  And of *)
(* the ways in which a user gets an answer: recordings are sent whole and  *)
(* once, the results of the chat client's tools are what the tools did, a  *)
(* worker's offer is kept, and a transcription is of the form it answers.  *)
(***************************************************************************)
EXTENDS Answers, SequenceTheorems, WellFoundedInduction, TLAPS

\* A non-empty set of naturals has a least element.
LEMMA LeastNat ==
  ASSUME NEW T, T \subseteq Nat, T # {}
  PROVE  \E m \in T : \A n \in T : m <= n
<1> DEFINE Less == {ss \in Nat \X Nat : ss[1] < ss[2]}
<1>1. IsWellFoundedOn(Less, Nat)
  BY NatLessThanWellFounded DEF OpToRel
<1>2. \A m, n \in Nat : n < m => <<n, m>> \in Less
  OBVIOUS
<1> HIDE DEF Less
<1>3. PICK m \in T : \A n \in T : <<n, m>> \notin Less
  BY <1>1, WFMin
<1>4. \A n \in T : ~ (n < m)
  BY <1>2, <1>3
<1> QED
  BY <1>4

\* What a terminal takes back, while it is in the first round of a turn.
PromptIsLast ==
  Terminal /\ requests = 1 /\ round = 0 =>
    Len(history) > 0 /\ history[Len(history)].role = "user"

HistoryInv ==
  /\ history \in Seq(Message)
  /\ prompts \in Nat /\ round \in Nat /\ requests \in Nat /\ spoiled \in BOOLEAN
  /\ PromptIsLast
  /\ HistoryPaired

\* A message has one role, and what goes with it.
LEMMA MessageRoles ==
  /\ \A n \in Nat : User(n) \in Message /\ User(n).role = "user"
  /\ \A n \in Nat : /\ Assistant(n) \in Message /\ Assistant(n).role = "assistant"
                    /\ Assistant(n).calls = n
  /\ \A n \in Nat : /\ ToolResult(n) \in Message /\ ToolResult(n).role = "tool"
                    /\ ToolResult(n).call = n
  /\ SystemMessage \in Message /\ SystemMessage.role = "system"
  /\ \A m \in Message : Boundary(m) => m.role # "tool"
  /\ \A m \in Message : m.role = "assistant" => m.calls \in Nat
  /\ \A m \in Message : m.role = "tool" => m.call \in Nat
BY DEF User, Assistant, ToolResult, SystemMessage, Message, Boundary, Bare

\* Positions in a history and in the part of it that begins at c.
LEMMA CutShifts ==
  ASSUME NEW c \in Int, NEW k \in Int, NEW n \in Nat, NEW p \in Int, NEW q \in Int,
         NEW l \in Int, p = c + k - 1, q = p - n, k <= l, q >= c
  PROVE  k - n \in 1 .. l /\ c + (k - n) - 1 = q
OBVIOUS

\* t is what h, of length m, has from c on.
IsRest(t, h, c, m, l) ==
  /\ c \in Int /\ m \in Int /\ l \in Int /\ l = m - c + 1 /\ 1 <= c /\ c <= m
  /\ DOMAIN h = 1 .. m /\ DOMAIN t = 1 .. l
  /\ \A i \in 1 .. m : h[i] \in Message
  /\ \A i \in 1 .. l : t[i] = h[c + i - 1]

LEMMA RestCallsAnswered ==
  ASSUME NEW h, CallsAnswered(h), NEW m, NEW c, NEW t, NEW l, IsRest(t, h, c, m, l)
  PROVE  CallsAnswered(t)
<1> SUFFICES ASSUME NEW i \in 1 .. l, t[i].role = "assistant", NEW j \in 1 .. t[i].calls
             PROVE  i + j \in 1 .. l /\ t[i + j] = ToolResult(j)
  BY DEF CallsAnswered, IsRest
<1>1. PICK p \in 1 .. m : p = c + i - 1 /\ t[i] = h[p]
  BY DEF IsRest
<1>2. p + j \in 1 .. m /\ h[p + j] = ToolResult(j)
  BY <1>1 DEF CallsAnswered, IsRest
<1>3. j \in Nat
  OBVIOUS
<1>4. i + j \in 1 .. l /\ c + (i + j) - 1 = p + j
  BY <1>1, <1>2, <1>3 DEF IsRest
<1>5. t[i + j] = h[c + (i + j) - 1]
  BY <1>4 DEF IsRest
<1> QED  BY <1>2, <1>4, <1>5

\* No call is between a boundary and its result.
LEMMA BoundaryBeforeCall ==
  ASSUME NEW h, CallsAnswered(h), NEW m \in Int, DOMAIN h = 1 .. m,
         NEW q \in 1 .. m, h[q].role = "assistant", h[q].calls \in Nat,
         NEW n \in Nat, n <= h[q].calls, NEW c \in Int, c <= q + n,
         h[c].role # "tool"
  PROVE  q >= c
<1> SUFFICES ASSUME q < c  PROVE FALSE
  OBVIOUS
<1>1. PICK j \in Int : j = c - q
  OBVIOUS
<1>2. j \in 1 .. n /\ q + j = c
  BY <1>1
<1>3. j \in 1 .. h[q].calls
  <2>1. PICK x \in Nat : x = h[q].calls
    OBVIOUS
  <2>2. j \in 1 .. x
    BY <1>2, <2>1
  <2> QED  BY <2>1, <2>2
<1>4. h[q + j] = ToolResult(j)
  BY <1>3 DEF CallsAnswered
<1>5. h[c] = ToolResult(j) /\ j \in Nat
  BY <1>2, <1>4
<1> QED  BY <1>5, MessageRoles

LEMMA RestResultsAsked ==
  ASSUME NEW h, Paired(h), NEW m, NEW c, Boundary(h[c]), NEW t, NEW l, IsRest(t, h, c, m, l)
  PROVE  ResultsAsked(t)
<1> SUFFICES ASSUME NEW k \in 1 .. l, t[k].role = "tool"
             PROVE  /\ k > t[k].call
                    /\ t[k - t[k].call].role = "assistant"
                    /\ t[k].call <= t[k - t[k].call].calls
  BY DEF ResultsAsked, IsRest
<1>1. PICK p \in 1 .. m : p = c + k - 1 /\ t[k] = h[p] /\ h[p] \in Message
  BY DEF IsRest
<1>2. t[k].call \in Nat
  BY <1>1, MessageRoles
<1>3. PICK n \in Nat : n = t[k].call
  BY <1>2
<1>4. p > n /\ h[p - n].role = "assistant" /\ n <= h[p - n].calls
  BY <1>1, <1>3 DEF Paired, ResultsAsked, IsRest
<1>5. PICK q \in 1 .. m : q = p - n
  <2>1. m \in Int /\ p \in Int /\ p <= m
    BY DEF IsRest
  <2> QED  BY <1>4, <2>1
<1>6. h[q].role = "assistant" /\ n <= h[q].calls /\ h[q].calls \in Nat
  <2>1. h[q] \in Message
    BY DEF IsRest
  <2> QED  BY <1>4, <1>5, <2>1, MessageRoles
<1>7. h[c].role # "tool" /\ c \in Int /\ m \in Int /\ DOMAIN h = 1 .. m
  <2>1. h[c] \in Message
    BY DEF IsRest
  <2> QED  BY <2>1, MessageRoles DEF IsRest
<1>8. k \in Int /\ p \in Int /\ q \in Int /\ l \in Int /\ k <= l /\ 1 <= k
  BY DEF IsRest
<1>9. c <= q + n
  BY <1>1, <1>5, <1>7, <1>8
<1>10. q >= c
  BY <1>6, <1>7, <1>9, BoundaryBeforeCall DEF Paired
<1>11. k - n \in 1 .. l /\ c + (k - n) - 1 = q
  BY <1>1, <1>5, <1>7, <1>8, <1>10, CutShifts
<1>12. t[k - n] = h[c + (k - n) - 1]
  BY <1>11 DEF IsRest
<1>13. t[k - n] = h[q]
  BY <1>11, <1>12
<1>14. k > n
  BY <1>8, <1>11
<1> QED  BY <1>3, <1>4, <1>5, <1>13, <1>14

\* A history cut at a boundary keeps the pairs that remain, and what is last.
LEMMA TruncateKeepsPairs ==
  ASSUME NEW h \in Seq(Message)
  PROVE  /\ Truncate(h) \in Seq(Message) /\ (Paired(h) => Paired(Truncate(h)))
         /\ Len(h) > 0 => /\ Len(Truncate(h)) > 0
                          /\ Truncate(h)[Len(Truncate(h))] = h[Len(h)]
<1>1. CASE Len(h) <= MaxHistory \/ Cuts(h) = {}
  BY <1>1 DEF Truncate
<1>2. CASE ~(Len(h) <= MaxHistory \/ Cuts(h) = {})
  <2>1. MaxHistory \in Nat
    BY LimitsAssumption
  <2>2. Cuts(h) \subseteq Nat
    BY <1>2, <2>1 DEF Cuts
  <2>3. \E x \in Cuts(h) : \A d \in Cuts(h) : x <= d
    BY <1>2, <2>2, LeastNat
  <2>4. PICK c \in Cuts(h) : Truncate(h) = SubSeq(h, c, Len(h))
    BY <1>2, <2>3 DEF Truncate
  <2>5. c \in 1 .. Len(h) /\ Boundary(h[c])
    BY <1>2, <2>1, <2>4 DEF Cuts
  <2>6. PICK t : t = Truncate(h)
    OBVIOUS
  <2>7. PICK m \in Nat : m = Len(h)
    OBVIOUS
  <2>8. /\ t \in Seq(Message) /\ Len(t) = m - c + 1
        /\ \A i \in 1 .. m - c + 1 : t[i] = h[c + i - 1]
    BY <2>4, <2>5, <2>6, <2>7
  <2>9. PICK l \in Nat : l = m - c + 1
    BY <2>5, <2>7
  <2>10. Paired(h) => Paired(t)
    <3>1. IsRest(t, h, c, m, l)
      BY <2>5, <2>7, <2>8, <2>9 DEF IsRest
    <3> QED  BY <2>5, <3>1, RestCallsAnswered, RestResultsAsked DEF Paired
  <2>11. l \in 1 .. m - c + 1 /\ c + l - 1 = m
    BY <2>5, <2>7, <2>9
  <2>12. t[l] = h[m]
    BY <2>8, <2>11
  <2> QED  BY <2>6, <2>7, <2>8, <2>9, <2>10, <2>11, <2>12
<1> QED  BY <1>1, <1>2

\* A message that makes no calls and is no result can be added.
LEMMA AppendKeepsPairs ==
  ASSUME NEW h \in Seq(Message), NEW m \in Message, Boundary(m)
  PROVE  /\ Append(h, m) \in Seq(Message) /\ (Paired(h) => Paired(Append(h, m)))
         /\ Len(Append(h, m)) = Len(h) + 1 /\ Append(h, m)[Len(h) + 1] = m
<1> DEFINE t == Append(h, m)
<1>1. /\ t \in Seq(Message) /\ Len(t) = Len(h) + 1 /\ t[Len(h) + 1] = m
      /\ \A i \in 1 .. Len(h) : t[i] = h[i] /\ i \in 1 .. Len(t)
  OBVIOUS
<1>2. m.role # "tool" /\ (m.role = "assistant" => m.calls = 0)
  BY MessageRoles DEF Boundary, Bare
<1> HIDE DEF t
<1>3. Paired(h) => CallsAnswered(t)
  <2> SUFFICES ASSUME Paired(h), NEW i \in DOMAIN t, t[i].role = "assistant",
                      NEW j \in 1 .. t[i].calls
               PROVE  i + j \in DOMAIN t /\ t[i + j] = ToolResult(j)
    BY DEF CallsAnswered
  <2>1. i \in 1 .. Len(h)
    BY <1>1, <1>2
  <2>2. i + j \in 1 .. Len(h) /\ h[i + j] = ToolResult(j)
    BY <1>1, <2>1 DEF Paired, CallsAnswered
  <2> QED  BY <1>1, <2>2
<1>4. Paired(h) => ResultsAsked(t)
  <2> SUFFICES ASSUME Paired(h), NEW k \in DOMAIN t, t[k].role = "tool"
               PROVE  /\ k > t[k].call
                      /\ t[k - t[k].call].role = "assistant"
                      /\ t[k].call <= t[k - t[k].call].calls
    BY DEF ResultsAsked
  <2>1. k \in 1 .. Len(h) /\ t[k] = h[k]
    BY <1>1, <1>2
  <2>2. h[k].call \in Nat
    BY <2>1, MessageRoles
  <2>3. /\ k > h[k].call /\ h[k - h[k].call].role = "assistant"
        /\ h[k].call <= h[k - h[k].call].calls
    BY <2>1 DEF Paired, ResultsAsked
  <2>4. k - h[k].call \in 1 .. Len(h)
    BY <2>1, <2>2, <2>3
  <2> QED  BY <1>1, <2>1, <2>3, <2>4
<1> QED  BY <1>1, <1>3, <1>4 DEF Paired, t

\* So can a message with calls, when a result for each comes with it.
LEMMA CallsKeepPairs ==
  ASSUME NEW h \in Seq(Message), NEW calls \in Completions
  PROVE  LET t == h \o <<Assistant(Len(calls))>> \o Results(calls)
         IN  t \in Seq(Message) /\ (Paired(h) => Paired(t))
<1> DEFINE n == Len(calls)
           a == h \o <<Assistant(n)>>
           t == a \o Results(calls)
<1>1. n \in Nat /\ DOMAIN calls = 1 .. n
  <2>1. PICK k \in 0 .. MaxCalls : calls \in [1 .. k -> CallKinds]
    BY DEF Completions
  <2>2. MaxCalls \in Nat
    BY LimitsAssumption
  <2> QED  BY <2>1, <2>2
<1>2. Results(calls) \in Seq(Message) /\ Len(Results(calls)) = n
  BY <1>1, MessageRoles DEF Results
<1>3. \A j \in 1 .. n : Results(calls)[j] = ToolResult(j)
  BY <1>1 DEF Results
<1>4. /\ a \in Seq(Message) /\ Len(a) = Len(h) + 1 /\ a[Len(h) + 1] = Assistant(n)
      /\ \A i \in 1 .. Len(h) : a[i] = h[i]
  BY <1>1, MessageRoles
<1> HIDE DEF a
<1>5. t \in Seq(Message) /\ Len(t) = Len(h) + 1 + n
  BY <1>1, <1>2, <1>4, ConcatProperties
<1>6. /\ \A i \in 1 .. Len(h) : t[i] = h[i]
      /\ t[Len(h) + 1] = Assistant(n)
  BY <1>1, <1>2, <1>4, ConcatProperties
<1>7. \A j \in 1 .. n : t[Len(h) + 1 + j] = ToolResult(j)
  <2> TAKE j \in 1 .. n
  <2>1. t[Len(a) + j] = Results(calls)[j]
    BY <1>1, <1>2, <1>4, ConcatProperties
  <2> QED  BY <1>3, <1>4, <2>1
<1> HIDE DEF t, n
<1>8. Paired(h) => CallsAnswered(t)
  <2> SUFFICES ASSUME Paired(h), NEW i \in DOMAIN t, t[i].role = "assistant",
                      NEW j \in 1 .. t[i].calls
               PROVE  i + j \in DOMAIN t /\ t[i + j] = ToolResult(j)
    BY DEF CallsAnswered
  <2>0. i \in 1 .. Len(h) + 1 + n
    BY <1>5
  <2>1. CASE i \in 1 .. Len(h)
    <3>1. i + j \in 1 .. Len(h) /\ h[i + j] = ToolResult(j)
      BY <1>6, <2>1 DEF Paired, CallsAnswered
    <3> QED  BY <1>1, <1>5, <1>6, <3>1
  <2>2. CASE i = Len(h) + 1
    BY <1>1, <1>5, <1>6, <1>7, <2>2, MessageRoles
  <2>3. CASE i > Len(h) + 1
    <3>1. i - (Len(h) + 1) \in 1 .. n
      BY <1>1, <2>0, <2>3
    <3>2. t[Len(h) + 1 + (i - (Len(h) + 1))] = ToolResult(i - (Len(h) + 1))
      BY <1>7, <3>1
    <3>3. t[i].role = "tool"
      BY <1>1, <2>0, <3>1, <3>2, MessageRoles
    <3> QED  BY <3>3
  <2> QED  BY <1>1, <2>0, <2>1, <2>2, <2>3
<1>9. Paired(h) => ResultsAsked(t)
  <2> SUFFICES ASSUME Paired(h), NEW k \in DOMAIN t, t[k].role = "tool"
               PROVE  /\ k > t[k].call
                      /\ t[k - t[k].call].role = "assistant"
                      /\ t[k].call <= t[k - t[k].call].calls
    BY DEF ResultsAsked
  <2>0. k \in 1 .. Len(h) + 1 + n
    BY <1>5
  <2>1. CASE k \in 1 .. Len(h)
    <3>1. t[k] = h[k] /\ h[k].call \in Nat
      BY <1>6, <2>1, MessageRoles
    <3>2. /\ k > h[k].call /\ h[k - h[k].call].role = "assistant"
          /\ h[k].call <= h[k - h[k].call].calls
      BY <2>1, <3>1 DEF Paired, ResultsAsked
    <3>3. k - h[k].call \in 1 .. Len(h)
      BY <2>1, <3>1, <3>2
    <3> QED  BY <1>6, <3>1, <3>2, <3>3
  <2>2. CASE k = Len(h) + 1
    BY <1>1, <1>6, <2>2, MessageRoles
  <2>3. CASE k > Len(h) + 1
    <3> DEFINE j == k - (Len(h) + 1)
    <3>1. j \in 1 .. n /\ Len(h) + 1 + j = k /\ k - j = Len(h) + 1
      BY <1>1, <2>0, <2>3
    <3>2. t[k] = ToolResult(j)
      BY <1>7, <3>1
    <3>3. t[k].call = j
      BY <1>1, <3>1, <3>2, MessageRoles
    <3> QED  BY <1>1, <1>6, <3>1, <3>3, MessageRoles
  <2> QED  BY <1>1, <2>0, <2>1, <2>2, <2>3
<1> QED  BY <1>5, <1>8, <1>9 DEF Paired, t, n, a

LEMMA FrontIsSeq ==
  ASSUME NEW S, NEW h \in Seq(S)
  PROVE  Front(h) \in Seq(S)
BY DEF Front

LEMMA FrontFacts ==
  ASSUME NEW S, NEW h \in Seq(S), Len(h) > 0
  PROVE  /\ Front(h) \in Seq(S) /\ Len(Front(h)) = Len(h) - 1
         /\ \A i \in 1 .. Len(h) - 1 : Front(h)[i] = h[i]
<1>1. Front(h) = SubSeq(h, 1, Len(h) - 1)
  BY DEF Front
<1>2. Len(h) \in Nat /\ 1 \in Int /\ Len(h) - 1 \in Int
  OBVIOUS
<1>3. \A i \in 1 .. Len(h) - 1 : h[i] \in S
  OBVIOUS
<1>4. /\ Front(h) \in Seq(S)
      /\ Len(Front(h)) = IF 1 <= Len(h) - 1 THEN Len(h) - 1 - 1 + 1 ELSE 0
      /\ \A i \in 1 .. Len(h) - 1 - 1 + 1 : Front(h)[i] = h[1 + i - 1]
  BY <1>1, <1>2, <1>3, SubSeqProperties
<1>5. Len(Front(h)) = Len(h) - 1
  <2>1. PICK m \in Nat : m = Len(h) /\ m > 0
    BY <1>2
  <2>2. PICK l : l = Len(Front(h))
    OBVIOUS
  <2>3. l = IF 1 <= m - 1 THEN m - 1 - 1 + 1 ELSE 0
    BY <1>4, <2>1, <2>2
  <2> QED  BY <2>1, <2>2, <2>3
<1>6. \A i \in 1 .. Len(h) - 1 : i \in 1 .. Len(h) - 1 - 1 + 1 /\ 1 + i - 1 = i
  BY <1>2
<1> QED  BY <1>4, <1>5, <1>6

\* The prompt just added can be taken back.
LEMMA FrontKeepsPairs ==
  ASSUME NEW h \in Seq(Message), Len(h) > 0, h[Len(h)].role = "user", Paired(h)
  PROVE  Front(h) \in Seq(Message) /\ Paired(Front(h))
<1> SUFFICES ASSUME NEW t \in Seq(Message), Len(t) = Len(h) - 1,
                    \A i \in 1 .. Len(h) - 1 : t[i] = h[i]
             PROVE  Paired(t)
  BY FrontFacts
<1>1. /\ DOMAIN t = 1 .. Len(h) - 1 /\ DOMAIN h = 1 .. Len(h) /\ Len(h) \in Nat
      /\ \A i \in DOMAIN t : t[i] = h[i] /\ i \in DOMAIN h
  OBVIOUS
<1>2. CallsAnswered(t)
  <2> SUFFICES ASSUME NEW i \in DOMAIN t, t[i].role = "assistant", NEW j \in 1 .. t[i].calls
               PROVE  i + j \in DOMAIN t /\ t[i + j] = ToolResult(j)
    BY DEF CallsAnswered
  <2>1. i \in DOMAIN h /\ t[i] = h[i]
    BY <1>1
  <2>2. i + j \in DOMAIN h /\ h[i + j] = ToolResult(j)
    BY <2>1 DEF Paired, CallsAnswered
  <2>3. j \in Nat
    OBVIOUS
  <2>4. i + j # Len(h)
    BY <2>2, <2>3, MessageRoles
  <2>5. i + j \in DOMAIN t
    BY <1>1, <2>2, <2>4
  <2> QED  BY <1>1, <2>2, <2>5
<1>3. ResultsAsked(t)
  <2> SUFFICES ASSUME NEW k \in DOMAIN t, t[k].role = "tool"
               PROVE  /\ k > t[k].call
                      /\ t[k - t[k].call].role = "assistant"
                      /\ t[k].call <= t[k - t[k].call].calls
    BY DEF ResultsAsked
  <2>1. k \in DOMAIN h /\ t[k] = h[k] /\ h[k] \in Message
    BY <1>1
  <2>2. PICK n \in Nat : n = h[k].call
    BY <2>1, MessageRoles
  <2>3. k > n /\ h[k - n].role = "assistant" /\ n <= h[k - n].calls
    BY <2>1, <2>2 DEF Paired, ResultsAsked
  <2>4. k - n \in DOMAIN t
    BY <1>1, <2>2, <2>3
  <2> QED  BY <1>1, <2>1, <2>2, <2>3, <2>4
<1> QED  BY <1>2, <1>3 DEF Paired

-----------------------------------------------------------------------------
(* The invariant *)

\* A completion of n calls has n results, and its calls are numbered from 1.
LEMMA CompletionResults ==
  ASSUME NEW calls \in Completions
  PROVE  /\ Len(calls) \in Nat /\ DOMAIN calls = 1 .. Len(calls)
         /\ Results(calls) \in Seq(Message) /\ Len(Results(calls)) = Len(calls)
<1>1. Len(calls) \in Nat /\ DOMAIN calls = 1 .. Len(calls)
  <2>1. PICK k \in 0 .. MaxCalls : calls \in [1 .. k -> CallKinds]
    BY DEF Completions
  <2>2. MaxCalls \in Nat
    BY LimitsAssumption
  <2> QED  BY <2>1, <2>2
<1> QED  BY <1>1, MessageRoles DEF Results

\* What a history is at first: nothing, or a system message.
LEMMA FirstHistory ==
  Init => /\ history \in Seq(Message)
          /\ \A i \in DOMAIN history : history[i] = SystemMessage
<1> SUFFICES ASSUME Init
             PROVE  /\ history \in Seq(Message)
                    /\ \A i \in DOMAIN history : history[i] = SystemMessage
  OBVIOUS
<1>1. history = << >> \/ history = <<SystemMessage>>
  BY DEF Init
<1>2. CASE history = << >>
  BY <1>2
<1>3. CASE history = <<SystemMessage>>
  <2>1. SystemMessage \in Message
    BY MessageRoles
  <2> QED  BY <1>3, <2>1
<1> QED  BY <1>1, <1>2, <1>3

LEMMA InitHistory == Init => HistoryInv
<1> SUFFICES ASSUME Init  PROVE HistoryInv
  OBVIOUS
<1>2. Paired(history)
  <2>1. \A i \in DOMAIN history : history[i].role = "system"
    BY FirstHistory, MessageRoles
  <2> QED  BY <2>1 DEF Paired, CallsAnswered, ResultsAsked
<1>3. history \in Seq(Message)
  BY FirstHistory
<1>5. spoiled \in BOOLEAN
  BY Zenon DEF Init
<1>4. prompts \in Nat /\ round \in Nat /\ requests \in Nat /\ requests # 1
  BY DEF Init
<1> QED  BY <1>2, <1>3, <1>4, <1>5 DEF HistoryInv, HistoryPaired, PromptIsLast

LEMMA NextHistory == HistoryInv /\ [Next]_vars => HistoryInv'
<1> SUFFICES ASSUME HistoryInv, [Next]_vars  PROVE HistoryInv'
  OBVIOUS
<1> USE DEF HistoryInv
<1>1. CASE BrowserPrompt
  <2>1. Boundary(User(prompts + 1)) /\ User(prompts + 1) \in Message
    BY MessageRoles DEF Boundary
  <2>2. history' \in Seq(Message) /\ (Paired(history) => Paired(history'))
    BY <1>1, <2>1, AppendKeepsPairs DEF BrowserPrompt
  <2> QED  BY <1>1, <2>2 DEF BrowserPrompt, PromptIsLast, HistoryPaired, Terminal
<1>2. CASE BrowserFailure
  BY <1>2 DEF BrowserFailure, PromptIsLast, HistoryPaired, Terminal
<1>3. CASE CliPrompt
  <2> DEFINE h == Append(history, User(prompts + 1))
  <2>1. Boundary(User(prompts + 1)) /\ User(prompts + 1) \in Message
        /\ User(prompts + 1).role = "user"
    BY MessageRoles DEF Boundary
  <2>2. /\ h \in Seq(Message) /\ (Paired(history) => Paired(h))
        /\ Len(h) > 0 /\ h[Len(h)] = User(prompts + 1)
    BY <2>1, AppendKeepsPairs
  <2> HIDE DEF h
  <2>3. /\ history' \in Seq(Message) /\ (Paired(h) => Paired(history'))
        /\ Len(history') > 0 /\ history'[Len(history')] = User(prompts + 1)
    BY <1>3, <2>2, TruncateKeepsPairs DEF CliPrompt, h
  <2> QED
    BY <1>3, <2>1, <2>2, <2>3 DEF CliPrompt, TurnBegins, PromptIsLast, HistoryPaired
<1>4. CASE FinalAnswer
  <2>1. Boundary(Bare) /\ Bare \in Message
    BY MessageRoles DEF Boundary, Bare
  <2>2. history' \in Seq(Message) /\ (Paired(history) => Paired(history'))
    BY <1>4, <2>1, AppendKeepsPairs DEF FinalAnswer
  <2> QED  BY <1>4, <2>2 DEF FinalAnswer, TurnEnds, PromptIsLast, HistoryPaired
<1>5. CASE TurnFails
  <2>1. history' = Front(history) /\ requests' = 0 /\ spoiled' = (spoiled \/ round > 0)
        /\ UNCHANGED <<prompts, round>> /\ Terminal /\ requests = 1
    BY <1>5 DEF TurnFails, TurnEnds
  <2>2. history' \in Seq(Message)
    BY <2>1, FrontIsSeq
  <2>3. HistoryPaired'
    <3>1. CASE spoiled'
      BY <3>1 DEF HistoryPaired
    <3>2. CASE ~spoiled'
      <4>1. ~spoiled /\ ~(round > 0)
        BY <2>1, <3>2, Zenon
      <4>3. round = 0
        BY <4>1
      <4>2. Len(history) > 0 /\ history[Len(history)].role = "user" /\ Paired(history)
        BY <2>1, <4>1, <4>3 DEF PromptIsLast, HistoryPaired
      <4> QED  BY <2>1, <4>2, FrontKeepsPairs DEF HistoryPaired
    <3> QED  BY <3>1, <3>2
  <2> QED  BY <2>1, <2>2, <2>3 DEF PromptIsLast
<1>6. CASE CliDraftsGone
  BY <1>6 DEF CliDraftsGone, PromptIsLast, HistoryPaired, Terminal
<1>7. ASSUME NEW calls \in Completions, BrowserCompletion(calls)
      PROVE  HistoryInv'
  <2>1. history' \in Seq(Message) /\ (Paired(history) => Paired(history'))
    BY <1>7, CallsKeepPairs DEF BrowserCompletion
  <2>2. requests' \in Nat
    BY <1>7 DEF BrowserCompletion
  <2> QED  BY <1>7, <2>1, <2>2 DEF BrowserCompletion, PromptIsLast, HistoryPaired, Terminal
<1>8. ASSUME NEW calls \in Completions, OutOfRounds(calls)
      PROVE  HistoryInv'
  BY <1>8 DEF OutOfRounds, TurnEnds, PromptIsLast, HistoryPaired
<1>9. ASSUME NEW calls \in Completions, CliCalls(calls)
      PROVE  HistoryInv'
  <2> DEFINE called == history \o <<Assistant(Len(calls))>> \o Results(calls)
  <2>1. called \in Seq(Message) /\ (Paired(history) => Paired(called))
    BY CallsKeepPairs
  <2>2. Boundary(Bare) /\ Bare \in Message
    BY MessageRoles DEF Boundary, Bare
  <2>3. CASE Execute(calls).mutated
    <3>1. history' = Append(called, Bare) /\ requests' = 0
          /\ UNCHANGED <<prompts, round, spoiled, host>>
      BY <1>9, <2>3 DEF CliCalls, TurnEnds
    <3> HIDE DEF called
    <3>2. history' \in Seq(Message) /\ (Paired(called) => Paired(history'))
      BY <2>1, <2>2, <3>1, AppendKeepsPairs
    <3> QED  BY <2>1, <3>1, <3>2 DEF PromptIsLast, HistoryPaired
  <2>4. CASE ~Execute(calls).mutated
    <3>1. history' = Truncate(called) /\ round' = round + 1
          /\ UNCHANGED <<prompts, requests, spoiled, host>>
      BY <1>9, <2>4 DEF CliCalls
    <3> HIDE DEF called
    <3>2. history' \in Seq(Message) /\ (Paired(called) => Paired(history'))
      BY <2>1, <3>1, TruncateKeepsPairs
    <3> QED  BY <2>1, <3>1, <3>2 DEF PromptIsLast, HistoryPaired
  <2> QED  BY <2>3, <2>4
<1>10. CASE ChatPrompt
  <2>1. Boundary(User(prompts + 1)) /\ User(prompts + 1) \in Message
        /\ User(prompts + 1).role = "user"
    BY MessageRoles DEF Boundary
  <2>2. /\ history' \in Seq(Message) /\ (Paired(history) => Paired(history'))
        /\ Len(history') > 0 /\ history'[Len(history')] = User(prompts + 1)
    BY <1>10, <2>1, AppendKeepsPairs DEF ChatPrompt
  <2> QED  BY <1>10, <2>1, <2>2 DEF ChatPrompt, TurnBegins, PromptIsLast, HistoryPaired
<1>11. ASSUME NEW calls \in Completions, ChatCalls(calls)
       PROVE  HistoryInv'
  <2>1. history' \in Seq(Message) /\ (Paired(history) => Paired(history'))
    BY <1>11, CallsKeepPairs DEF ChatCalls
  <2> QED  BY <1>11, <2>1 DEF ChatCalls, PromptIsLast, HistoryPaired
<1>12. ASSUME NEW calls \in Completions, ChatToolFails(calls)
       PROVE  HistoryInv'
  <2>1. requests' = 0 /\ UNCHANGED <<prompts, round, host>>
    BY <1>12 DEF ChatToolFails, TurnEnds
  <2>2. PICK i \in DOMAIN calls :
          /\ history' = IF i = 1 THEN history
                        ELSE history \o <<Assistant(Len(calls))>>
                                     \o SubSeq(Results(calls), 1, i - 2)
          /\ spoiled' = (spoiled \/ i > 1)
    BY <1>12 DEF ChatToolFails
  <2>3. i \in Nat /\ i > 0 /\ i <= Len(calls) /\ Len(calls) \in Nat
        /\ Results(calls) \in Seq(Message) /\ Len(Results(calls)) = Len(calls)
    BY CompletionResults
  <2>4. CASE i = 1
    BY <2>1, <2>2, <2>4 DEF PromptIsLast, HistoryPaired
  <2>5. CASE i # 1
    <3>1. i > 1
      BY <2>3, <2>5
    <3>2. spoiled'
      BY <2>2, <3>1
    <3>3. SubSeq(Results(calls), 1, i - 2) \in Seq(Message)
      BY <2>3, <3>1
    <3>4. Assistant(Len(calls)) \in Message
      BY <2>3, MessageRoles
    <3>5. history' \in Seq(Message)
      BY <2>2, <2>5, <3>3, <3>4
    <3> QED  BY <2>1, <3>2, <3>5 DEF PromptIsLast, HistoryPaired
  <2> QED  BY <2>4, <2>5
<1>13. CASE UNCHANGED vars
  BY <1>13 DEF vars, PromptIsLast, HistoryPaired, Terminal
<1> QED
  BY <1>1, <1>2, <1>3, <1>4, <1>5, <1>6, <1>7, <1>8, <1>9, <1>10, <1>11, <1>12, <1>13 DEF Next

\* Every call in the history keeps its result next to it, for every limit on
\* history, rounds, prompts and calls, until a turn in a terminal fails after
\* its first round or among its calls.
THEOREM HistoryStaysPaired == Spec => []HistoryPaired
<1>1. HistoryInv => HistoryPaired
  BY DEF HistoryInv
<1> QED
  BY InitHistory, NextHistory, <1>1, PTL DEF Spec

-----------------------------------------------------------------------------
(* What a request holds *)

\* The message m is in h, and no place after it may begin a history.
Waits(h, m) ==
  \E i \in 1 .. Len(h) :
    h[i] = m /\ \A j \in 1 .. Len(h) : j > i => ~Boundary(h[j])

BeginsWell(h) == Len(h) > 0 /\ (Boundary(h[1]) \/ h[1] = SystemMessage)

\* A cut leaves what is after the last place that may begin a history.
LEMMA TruncateKeepsPrompt ==
  ASSUME NEW h \in Seq(Message), BeginsWell(h)
  PROVE  /\ Truncate(h) \in Seq(Message) /\ BeginsWell(Truncate(h))
         /\ \A m : Boundary(m) /\ Waits(h, m) => Waits(Truncate(h), m)
<1>1. CASE Len(h) <= MaxHistory \/ Cuts(h) = {}
  BY <1>1 DEF Truncate
<1>2. CASE ~(Len(h) <= MaxHistory \/ Cuts(h) = {})
  <2>1. MaxHistory \in Nat
    BY LimitsAssumption
  <2>2. Cuts(h) \subseteq Nat
    BY <1>2, <2>1 DEF Cuts
  <2>3. \E x \in Cuts(h) : \A d \in Cuts(h) : x <= d
    BY <1>2, <2>2, LeastNat
  <2>4. PICK c \in Cuts(h) :
          Truncate(h) = SubSeq(h, c, Len(h)) /\ \A d \in Cuts(h) : c <= d
    BY <1>2, <2>3 DEF Truncate
  <2>5. c \in 1 .. Len(h) /\ Boundary(h[c])
    BY <1>2, <2>1, <2>4 DEF Cuts
  <2>6. PICK t : t = Truncate(h)
    OBVIOUS
  <2>7. PICK l \in Nat : l = Len(h)
    OBVIOUS
  <2>8. /\ t \in Seq(Message) /\ Len(t) = l - c + 1
        /\ \A i \in 1 .. l - c + 1 : t[i] = h[c + i - 1]
    BY <2>4, <2>5, <2>6, <2>7
  <2>9. BeginsWell(t)
    <3>1. 1 \in 1 .. l - c + 1 /\ c + 1 - 1 = c
      BY <2>5, <2>7
    <3>2. t[1] = h[c]
      BY <2>8, <3>1
    <3> QED  BY <2>5, <2>7, <2>8, <3>2 DEF BeginsWell
  <2>10. ASSUME NEW m, Boundary(m), Waits(h, m)  PROVE Waits(t, m)
    <3>1. PICK i \in 1 .. l : h[i] = m /\ \A j \in 1 .. l : j > i => ~Boundary(h[j])
      BY <2>7, <2>10 DEF Waits
    <3>2. c <= i
      BY <2>5, <2>7, <3>1
    <3>3. i - c + 1 \in 1 .. l - c + 1 /\ c + (i - c + 1) - 1 = i
      BY <2>5, <2>7, <3>1, <3>2
    <3>4. t[i - c + 1] = m
      BY <2>8, <3>1, <3>3
    <3>5. \A j \in 1 .. l - c + 1 : j > i - c + 1 => ~Boundary(t[j])
      <4> TAKE j \in 1 .. l - c + 1
      <4>1. HAVE j > i - c + 1
      <4>2. c + j - 1 \in 1 .. l /\ c + j - 1 > i
        BY <2>5, <2>7, <3>1, <4>1
      <4> QED  BY <2>8, <3>1, <4>2
    <3> QED  BY <2>8, <3>3, <3>4, <3>5 DEF Waits
  <2> QED  BY <2>6, <2>8, <2>9, <2>10
<1> QED  BY <1>1, <1>2

\* Calls and their results add no place that may begin a history.
LEMMA CallsKeepPrompt ==
  ASSUME NEW h \in Seq(Message), BeginsWell(h), NEW calls \in Completions
  PROVE  LET t == h \o <<Assistant(Len(calls))>> \o Results(calls)
         IN  /\ t \in Seq(Message) /\ BeginsWell(t)
             /\ calls # << >> => \A m : Waits(h, m) => Waits(t, m)
<1> DEFINE n == Len(calls)
           a == h \o <<Assistant(n)>>
           t == a \o Results(calls)
<1>1. /\ n \in Nat /\ DOMAIN calls = 1 .. n
      /\ Results(calls) \in Seq(Message) /\ Len(Results(calls)) = n
  BY CompletionResults
<1>2. \A j \in 1 .. n : Results(calls)[j] = ToolResult(j)
  BY <1>1 DEF Results
<1>3. /\ a \in Seq(Message) /\ Len(a) = Len(h) + 1 /\ a[Len(h) + 1] = Assistant(n)
      /\ \A i \in 1 .. Len(h) : a[i] = h[i]
  BY <1>1, MessageRoles
<1> HIDE DEF a
<1>4. t \in Seq(Message) /\ Len(t) = Len(h) + 1 + n
  BY <1>1, <1>3, ConcatProperties
<1>5. /\ \A i \in 1 .. Len(h) : t[i] = h[i]
      /\ t[Len(h) + 1] = Assistant(n)
  BY <1>1, <1>3, ConcatProperties
<1>6. \A j \in 1 .. n : t[Len(h) + 1 + j] = ToolResult(j)
  <2> TAKE j \in 1 .. n
  <2>1. t[Len(a) + j] = Results(calls)[j]
    BY <1>1, <1>3, ConcatProperties
  <2> QED  BY <1>2, <1>3, <2>1
<1>7. calls # << >> => n > 0
  <2>1. calls \in Seq(CallKinds)
    BY <1>1 DEF Completions
  <2> QED  BY <1>1, <2>1
<1> HIDE DEF t, n
<1>8. BeginsWell(t)
  BY <1>1, <1>4, <1>5 DEF BeginsWell
<1>9. ASSUME calls # << >>, NEW m, Waits(h, m)  PROVE Waits(t, m)
  <2>1. PICK i \in 1 .. Len(h) :
          h[i] = m /\ \A j \in 1 .. Len(h) : j > i => ~Boundary(h[j])
    BY <1>9 DEF Waits
  <2>2. \A j \in 1 .. Len(t) : j > i => ~Boundary(t[j])
    <3> TAKE j \in 1 .. Len(t)
    <3> HAVE j > i
    <3>0. j \in 1 .. Len(h) + 1 + n
      BY <1>4
    <3>1. CASE j \in 1 .. Len(h)
      BY <1>5, <2>1, <3>1
    <3>2. CASE j = Len(h) + 1
      <4>1. Assistant(n).role = "assistant" /\ Assistant(n) # Bare
        BY <1>1, <1>7, <1>9, MessageRoles DEF Bare
      <4> QED  BY <1>5, <3>2, <4>1 DEF Boundary
    <3>3. CASE j > Len(h) + 1
      <4> DEFINE k == j - (Len(h) + 1)
      <4>1. k \in 1 .. n /\ Len(h) + 1 + k = j
        BY <1>1, <3>0, <3>3
      <4>2. t[j] = ToolResult(k) /\ k \in Nat
        BY <1>1, <1>6, <4>1
      <4> HIDE DEF k
      <4>3. t[j] \in Message /\ t[j].role = "tool"
        BY <4>2, MessageRoles
      <4> QED  BY <4>3, MessageRoles
    <3> QED  BY <1>1, <3>0, <3>1, <3>2, <3>3
  <2>3. i \in 1 .. Len(t) /\ t[i] = m
    BY <1>1, <1>4, <1>5, <2>1
  <2> QED  BY <2>2, <2>3 DEF Waits
<1> QED  BY <1>4, <1>8, <1>9 DEF t, n, a

\* A message added last that may begin a history is the one to wait for.
LEMMA AppendBegins ==
  ASSUME NEW h \in Seq(Message), NEW m \in Message, Boundary(m), Len(h) > 0 => BeginsWell(h)
  PROVE  /\ Append(h, m) \in Seq(Message) /\ BeginsWell(Append(h, m))
         /\ Waits(Append(h, m), m)
<1> DEFINE t == Append(h, m)
<1>1. /\ t \in Seq(Message) /\ Len(t) = Len(h) + 1 /\ t[Len(h) + 1] = m
      /\ \A i \in 1 .. Len(h) : t[i] = h[i]
  OBVIOUS
<1> HIDE DEF t
<1>2. BeginsWell(t)
  BY <1>1 DEF BeginsWell
<1>3. Len(h) + 1 \in 1 .. Len(t) /\ \A j \in 1 .. Len(t) : ~ (j > Len(h) + 1)
  BY <1>1
<1>4. Waits(t, m)
  BY <1>1, <1>3 DEF Waits
<1> QED  BY <1>1, <1>2, <1>4 DEF t

\* The history begins at a boundary or with a system message, and is empty only
\* between turns; while the
\* one request on its way is for the last prompt, nothing after that prompt in
\* the history is a boundary, so that no cut can lose it.
AskedInv ==
  /\ history \in Seq(Message) /\ request \in Seq(Message)
  /\ host \in {"browser", "cli", "chat"} /\ overlapped \in BOOLEAN
  /\ prompts \in Nat /\ requests \in Nat
  /\ Len(history) > 0 => BeginsWell(history)
  /\ requests > 0 => Len(history) > 0
  /\ overlapped \/ requests <= 1
  /\ Len(request) > 0 => BeginsWell(request)
  /\ requests > 0 /\ ~overlapped =>
       Waits(history, User(prompts)) /\ Waits(request, User(prompts))

LEMMA InitAsked == Init => AskedInv
<1> SUFFICES ASSUME Init  PROVE AskedInv
  OBVIOUS
<1>1. request = << >> /\ requests = 0 /\ prompts = 0 /\ host \in {"browser", "cli", "chat"}
  BY DEF Init
<1>2. overlapped \in BOOLEAN
  BY Zenon DEF Init
<1>3. Len(request) = 0 /\ request \in Seq(Message)
  BY <1>1
<1>4. history \in Seq(Message) /\ (Len(history) > 0 => BeginsWell(history))
  BY FirstHistory DEF BeginsWell
<1> QED  BY <1>1, <1>2, <1>3, <1>4 DEF AskedInv

\* A prompt is a boundary.
LEMMA PromptIsBoundary ==
  \A n \in Nat : User(n) \in Message /\ Boundary(User(n))
BY MessageRoles DEF Boundary

LEMMA NextAsked == AskedInv /\ [Next]_vars => AskedInv'
<1> SUFFICES ASSUME AskedInv, [Next]_vars  PROVE AskedInv'
  OBVIOUS
<1>0. User(prompts + 1) \in Message /\ Boundary(User(prompts + 1))
  BY PromptIsBoundary DEF AskedInv
<1>1. CASE BrowserPrompt
  <2>1. /\ history' \in Seq(Message) /\ BeginsWell(history')
        /\ Waits(history', User(prompts + 1))
    BY <1>1, PromptIsBoundary, AppendBegins DEF AskedInv, BrowserPrompt
  <2>2. /\ request' \in Seq(Message) /\ BeginsWell(request')
        /\ Waits(request', User(prompts + 1))
    <3>1. request' = Truncate(history')
      BY <1>1 DEF BrowserPrompt
    <3> QED  BY <1>0, <2>1, <3>1, TruncateKeepsPrompt
  <2>3. overlapped' \in BOOLEAN /\ (overlapped' \/ requests' <= 1)
    <3>1. overlapped' = (overlapped \/ requests > 0) /\ requests' = requests + 1
      BY <1>1 DEF BrowserPrompt
    <3>2. CASE requests > 0
      BY <3>1, <3>2
    <3>3. CASE ~(requests > 0)
      BY <3>1, <3>3 DEF AskedInv
    <3> QED  BY <3>2, <3>3
  <2>4. /\ prompts' = prompts + 1 /\ requests' = requests + 1 /\ host' = host
        /\ Len(history') > 0
    BY <1>1, <2>1 DEF BrowserPrompt, BeginsWell
  <2> QED  BY <2>1, <2>2, <2>3, <2>4 DEF AskedInv
<1>2. CASE BrowserFailure
  BY <1>2 DEF AskedInv, BrowserFailure
<1>3. ASSUME NEW h \in Seq(Message), BeginsWell(h), Waits(h, User(prompts + 1)),
             history' = h, TurnBegins
      PROVE  AskedInv'
  <2>1. /\ request' = h /\ requests' = 1 /\ prompts' = prompts + 1
        /\ UNCHANGED <<host, overlapped>>
    BY <1>3 DEF TurnBegins
  <2> QED  BY <1>3, <2>1 DEF AskedInv, BeginsWell
<1>4. /\ Append(history, User(prompts + 1)) \in Seq(Message)
      /\ BeginsWell(Append(history, User(prompts + 1)))
      /\ Waits(Append(history, User(prompts + 1)), User(prompts + 1))
  BY PromptIsBoundary, AppendBegins DEF AskedInv
<1>5. CASE CliPrompt
  <2>1. history' = Truncate(Append(history, User(prompts + 1))) /\ TurnBegins
    BY <1>5 DEF CliPrompt
  <2>2. /\ history' \in Seq(Message) /\ BeginsWell(history')
        /\ Waits(history', User(prompts + 1))
    BY <1>0, <1>4, <2>1, TruncateKeepsPrompt
  <2> QED  BY <1>3, <2>1, <2>2
<1>6. CASE ChatPrompt
  BY <1>3, <1>4, <1>6 DEF ChatPrompt
<1>7. ASSUME NEW h \in Seq(Message), Len(h) > 0 => BeginsWell(h), history' = h,
             requests' = 0, UNCHANGED <<host, prompts, request, overlapped>>
      PROVE  AskedInv'
  BY <1>7 DEF AskedInv
<1>8. Boundary(Bare) /\ Bare \in Message
  BY MessageRoles DEF Boundary, Bare
<1>9. CASE FinalAnswer
  <2>1. /\ history' = Append(history, Bare) /\ requests' = 0
        /\ UNCHANGED <<host, prompts, request, overlapped>>
    BY <1>9 DEF FinalAnswer, TurnEnds
  <2>2. Append(history, Bare) \in Seq(Message) /\ BeginsWell(Append(history, Bare))
    BY <1>8, AppendBegins DEF AskedInv
  <2> QED  BY <1>7, <2>1, <2>2
<1>10. CASE TurnFails
  <2>1. /\ history' = Front(history) /\ requests' = 0 /\ requests = 1
        /\ UNCHANGED <<host, prompts, request, overlapped>>
    BY <1>10 DEF TurnFails, TurnEnds
  <2>2. /\ Front(history) \in Seq(Message) /\ Len(Front(history)) = Len(history) - 1
        /\ \A i \in 1 .. Len(history) - 1 : Front(history)[i] = history[i]
    BY <2>1, FrontFacts DEF AskedInv
  <2>3. Len(Front(history)) > 0 => BeginsWell(Front(history))
    BY <2>1, <2>2 DEF AskedInv, BeginsWell
  <2> QED  BY <1>7, <2>1, <2>2, <2>3
<1>11. CASE CliDraftsGone
  BY <1>11 DEF AskedInv, CliDraftsGone
<1>12. ASSUME NEW calls \in Completions, requests > 0
       PROVE  LET t == history \o <<Assistant(Len(calls))>> \o Results(calls)
              IN  /\ t \in Seq(Message) /\ BeginsWell(t)
                  /\ calls # << >> /\ ~overlapped => Waits(t, User(prompts))
  BY <1>12, CallsKeepPrompt DEF AskedInv
<1>13. ASSUME NEW calls \in Completions, BrowserCompletion(calls)
       PROVE  AskedInv'
  <2>1. /\ requests > 0 /\ UNCHANGED <<host, prompts, overlapped>>
        /\ history' = history \o <<Assistant(Len(calls))>> \o Results(calls)
    BY <1>13 DEF BrowserCompletion
  <2>2. /\ history' \in Seq(Message) /\ BeginsWell(history')
        /\ calls # << >> /\ ~overlapped => Waits(history', User(prompts))
    BY <1>12, <2>1
  <2>3. CASE calls = << >> \/ Execute(calls).mutated
    <3>1. requests' = requests - 1 /\ request' = request
      BY <1>13, <2>3 DEF BrowserCompletion
    <3> QED  BY <2>1, <2>2, <3>1 DEF AskedInv, BeginsWell
  <2>4. CASE ~(calls = << >> \/ Execute(calls).mutated)
    <3>1. request' = Truncate(history') /\ requests' = requests
      BY <1>13, <2>4 DEF BrowserCompletion
    <3>2. /\ request' \in Seq(Message) /\ BeginsWell(request')
          /\ ~overlapped => Waits(request', User(prompts))
      BY <2>2, <2>4, <3>1, PromptIsBoundary, TruncateKeepsPrompt DEF AskedInv
    <3> QED  BY <2>1, <2>2, <2>4, <3>1, <3>2 DEF AskedInv, BeginsWell
  <2> QED  BY <2>3, <2>4
<1>14. ASSUME NEW calls \in Completions, OutOfRounds(calls)
       PROVE  AskedInv'
  BY <1>14 DEF AskedInv, OutOfRounds, TurnEnds
<1>15. ASSUME NEW calls \in Completions, CliCalls(calls)
       PROVE  AskedInv'
  <2> DEFINE called == history \o <<Assistant(Len(calls))>> \o Results(calls)
  <2>1. requests = 1 /\ calls # << >> /\ UNCHANGED <<host, prompts, overlapped>>
    BY <1>15 DEF CliCalls
  <2>2. /\ called \in Seq(Message) /\ BeginsWell(called)
        /\ ~overlapped => Waits(called, User(prompts))
    BY <1>12, <2>1
  <2>3. CASE Execute(calls).mutated
    <3>1. history' = Append(called, Bare) /\ requests' = 0 /\ request' = request
      BY <1>15, <2>3 DEF CliCalls, TurnEnds
    <3> HIDE DEF called
    <3>2. Append(called, Bare) \in Seq(Message) /\ BeginsWell(Append(called, Bare))
      BY <1>8, <2>2, AppendBegins
    <3> QED  BY <1>7, <2>1, <3>1, <3>2
  <2>4. CASE ~Execute(calls).mutated
    <3>1. history' = Truncate(called) /\ request' = history' /\ requests' = requests
      BY <1>15, <2>4 DEF CliCalls
    <3> HIDE DEF called
    <3>2. /\ history' \in Seq(Message) /\ BeginsWell(history')
          /\ ~overlapped => Waits(history', User(prompts))
      BY <2>2, <3>1, PromptIsBoundary, TruncateKeepsPrompt DEF AskedInv
    <3> QED  BY <2>1, <3>1, <3>2 DEF AskedInv, BeginsWell
  <2> QED  BY <2>3, <2>4
<1>16. ASSUME NEW calls \in Completions, ChatCalls(calls)
       PROVE  AskedInv'
  <2>1. /\ requests = 1 /\ calls # << >> /\ request' = history'
        /\ UNCHANGED <<host, prompts, requests, overlapped>>
        /\ history' = history \o <<Assistant(Len(calls))>> \o Results(calls)
    BY <1>16 DEF ChatCalls, Runs
  <2>2. /\ history' \in Seq(Message) /\ BeginsWell(history')
        /\ ~overlapped => Waits(history', User(prompts))
    BY <1>12, <2>1
  <2> QED  BY <2>1, <2>2 DEF AskedInv, BeginsWell
<1>17. ASSUME NEW calls \in Completions, ChatToolFails(calls)
       PROVE  AskedInv'
  <2>1. /\ requests = 1 /\ requests' = 0 /\ UNCHANGED <<host, prompts, request, overlapped>>
    BY <1>17 DEF ChatToolFails, TurnEnds
  <2>2. PICK i \in DOMAIN calls :
          history' = IF i = 1 THEN history
                     ELSE history \o <<Assistant(Len(calls))>>
                                  \o SubSeq(Results(calls), 1, i - 2)
    BY <1>17 DEF ChatToolFails
  <2>3. i \in Nat /\ i > 0 /\ i <= Len(calls) /\ Len(calls) \in Nat
        /\ Results(calls) \in Seq(Message) /\ Len(Results(calls)) = Len(calls)
    BY CompletionResults
  <2>4. CASE i = 1
    BY <1>7, <2>1, <2>2, <2>4 DEF AskedInv
  <2>5. CASE i # 1
    <3> DEFINE a == history \o <<Assistant(Len(calls))>>
               r == SubSeq(Results(calls), 1, i - 2)
    <3>1. r \in Seq(Message)
      BY <2>3, <2>5
    <3>2. Assistant(Len(calls)) \in Message
      BY <2>3, MessageRoles
    <3>3. /\ a \in Seq(Message) /\ Len(a) = Len(history) + 1
          /\ \A j \in 1 .. Len(history) : a[j] = history[j]
      BY <3>2 DEF AskedInv
    <3>4. history' = a \o r
      BY <2>2, <2>5
    <3> HIDE DEF a, r
    <3>5. /\ history' \in Seq(Message) /\ Len(history') = Len(a) + Len(r)
          /\ \A j \in 1 .. Len(a) : history'[j] = a[j]
      <4>1. PICK b \in Seq(Message) : b = a
        BY <3>3
      <4>2. PICK e \in Seq(Message) : e = r
        BY <3>1
      <4>3. /\ b \o e \in Seq(Message) /\ Len(b \o e) = Len(b) + Len(e)
            /\ \A j \in 1 .. Len(b) : (b \o e)[j] = b[j]
        OBVIOUS
      <4> QED  BY <3>4, <4>1, <4>2, <4>3
    <3>6. BeginsWell(history')
      <4>1. Len(history) > 0 /\ (Boundary(history[1]) \/ history[1] = SystemMessage)
        BY <2>1 DEF AskedInv, BeginsWell
      <4>2. 1 \in 1 .. Len(history) /\ 1 \in 1 .. Len(a) /\ Len(history') > 0
        BY <3>1, <3>3, <3>5, <4>1 DEF AskedInv
      <4>3. history'[1] = history[1]
        BY <3>3, <3>5, <4>2
      <4> QED  BY <4>1, <4>2, <4>3 DEF BeginsWell
    <3> QED  BY <1>7, <2>1, <3>5, <3>6
  <2> QED  BY <2>4, <2>5
<1>18. CASE UNCHANGED vars
  BY <1>18 DEF vars, AskedInv
<1> QED
  BY <1>1, <1>2, <1>5, <1>6, <1>9, <1>10, <1>11, <1>13, <1>14, <1>15, <1>16, <1>17, <1>18
  DEF Next

\* A request begins with a prompt, an answer or the system message and has the
\* prompt it is to answer, for every limit on history, rounds and calls, and however often the
\* history is cut: unless a prompt has come with a completion on its way.
THEOREM RequestsAnswerPrompts == Spec => []RequestAnswersPrompt
<1>1. AskedInv => RequestAnswersPrompt
  <2> SUFFICES ASSUME AskedInv, request # << >>
               PROVE  /\ Boundary(Head(request)) \/ Head(request) = SystemMessage
                      /\ requests > 0 /\ ~overlapped =>
                           \E i \in DOMAIN request : request[i] = User(prompts)
    BY DEF RequestAnswersPrompt
  <2>1. request \in Seq(Message) /\ Len(request) > 0 /\ Head(request) = request[1]
    BY DEF AskedInv
  <2>2. Boundary(Head(request)) \/ Head(request) = SystemMessage
    BY <2>1 DEF AskedInv, BeginsWell
  <2>3. requests > 0 /\ ~overlapped => \E i \in DOMAIN request : request[i] = User(prompts)
    BY <2>1 DEF AskedInv, Waits
  <2> QED  BY <2>2, <2>3
<1> QED
  BY InitAsked, NextAsked, <1>1, PTL DEF Spec

-----------------------------------------------------------------------------
(* The page that uploads recordings *)

\* Nothing is ever left of a recording that has been handed over; the recorder
\* has the newest one; and those that have stopped come after those that were
\* uploaded, in the order of their presses, and before one that goes on.
PageInv ==
  /\ page \in [mediaStream : BOOLEAN, recording : BOOLEAN, sending : BOOLEAN,
               chunks : {<< >>}, spaceHeld : BOOLEAN]
  /\ active \in BOOLEAN /\ presses \in Nat /\ recorder = presses
  /\ active => page.recording /\ presses > 0
  /\ stopping \in Seq(1 .. presses) /\ sent \in Seq(Seq(1 .. presses))
  /\ silent \subseteq 1 .. presses
  /\ \A i, j \in DOMAIN stopping : i < j => stopping[i] < stopping[j]
  /\ \A i \in DOMAIN sent : Len(sent[i]) = 1
  /\ \A i, j \in DOMAIN sent : i < j => sent[i][1] < sent[j][1]
  /\ \A i \in DOMAIN sent, j \in DOMAIN stopping : sent[i][1] < stopping[j]
  /\ active => /\ \A i \in DOMAIN sent : sent[i][1] < recorder
               /\ \A j \in DOMAIN stopping : stopping[j] < recorder
  /\ \A p \in 1 .. presses :
       \/ p = recorder /\ active
       \/ p \in Range(stopping) \union silent
       \/ <<p>> \in Range(sent)
  /\ page.sending => uploads # {}

\* It holds of a page that has just been loaded.
LEMMA PageInvInit == PageInit => PageInv
<1> SUFFICES ASSUME PageInit
             PROVE  PageInv
  OBVIOUS
<1>1. /\ page.chunks = << >> /\ ~page.sending /\ ~page.recording
      /\ page \in [mediaStream : BOOLEAN, recording : BOOLEAN, sending : BOOLEAN,
                   chunks : {<< >>}, spaceHeld : BOOLEAN]
  BY DEF PageInit, NewPage
<1>2. /\ recorder = 0 /\ active = FALSE /\ stopping = << >> /\ uploads = {}
      /\ presses = 0 /\ silent = {} /\ sent = << >>
  BY DEF PageInit
<1>3. DOMAIN stopping = {} /\ DOMAIN sent = {} /\ 1 .. presses = {}
  BY <1>2
<1>4. stopping \in Seq(1 .. presses) /\ sent \in Seq(Seq(1 .. presses))
  BY <1>2, EmptySeq
<1> QED
  BY <1>1, <1>2, <1>3, <1>4 DEF PageInv

\* Adding to a sequence, and taking its first element.
LEMMA RangeOfAppend ==
  ASSUME NEW S, NEW s \in Seq(S), NEW x
  PROVE  Range(Append(s, x)) = Range(s) \union {x}
<1>1. DOMAIN Append(s, x) = 1 .. Len(s) + 1 /\ Len(s) \in Nat /\ DOMAIN s = 1 .. Len(s)
  OBVIOUS
<1>2. \A i \in 1 .. Len(s) + 1 : Append(s, x)[i] = IF i = Len(s) + 1 THEN x ELSE s[i]
  OBVIOUS
<1>3. \A y \in Range(Append(s, x)) : y \in Range(s) \union {x}
  BY <1>1, <1>2 DEF Range
<1>4. \A y \in Range(s) : y \in Range(Append(s, x))
  BY <1>1, <1>2 DEF Range
<1>5. x \in Range(Append(s, x))
  <2>1. Len(s) + 1 \in 1 .. Len(s) + 1
    BY <1>1
  <2> QED
    BY <1>1, <1>2, <2>1 DEF Range
<1> QED
  BY <1>3, <1>4, <1>5

\* The head of a sequence and the rest of it.
LEMMA RangeOfTail ==
  ASSUME NEW S, NEW s \in Seq(S), s # << >>
  PROVE  /\ Range(s) = Range(Tail(s)) \union {Head(s)}
         /\ Tail(s) \in Seq(S) /\ DOMAIN Tail(s) = 1 .. Len(s) - 1
         /\ \A i \in 1 .. Len(s) - 1 : Tail(s)[i] = s[i + 1]
         /\ Head(s) = s[1] /\ 1 \in DOMAIN s /\ Len(s) \in Nat \ {0}
<1>1. /\ Tail(s) \in Seq(S) /\ DOMAIN Tail(s) = 1 .. Len(s) - 1
      /\ \A i \in 1 .. Len(s) - 1 : Tail(s)[i] = s[i + 1]
      /\ Head(s) = s[1] /\ 1 \in DOMAIN s /\ Len(s) \in Nat \ {0} /\ DOMAIN s = 1 .. Len(s)
  OBVIOUS
<1>2. \A i \in DOMAIN s : i = 1 \/ (i - 1 \in DOMAIN Tail(s) /\ Tail(s)[i - 1] = s[i])
  BY <1>1
<1>3. \A y \in Range(s) : y \in Range(Tail(s)) \union {Head(s)}
  BY <1>1, <1>2 DEF Range
<1>4. \A i \in DOMAIN Tail(s) : i + 1 \in DOMAIN s
  BY <1>1
<1>5. \A y \in Range(Tail(s)) \union {Head(s)} : y \in Range(s)
  BY <1>1, <1>4 DEF Range
<1> QED
  BY <1>1, <1>3, <1>5

\* Before the page is used, and where a microphone is given or refused.
LEMMA InitMicKeeps ==
  ASSUME PageInv, NEW answer, InitMic(answer)
  PROVE  PageInv'
BY DEF PageInv, InitMic

\* What was recorded until now stops.
LEMMA StoppingKeeps ==
  ASSUME PageInv,
         UNCHANGED <<recorder, presses, silent, sent, uploads>>,
         page' \in [mediaStream : BOOLEAN, recording : BOOLEAN, sending : BOOLEAN,
                    chunks : {<< >>}, spaceHeld : BOOLEAN],
         page'.sending = page.sending,
         active' = FALSE,
         stopping' = IF active THEN Append(stopping, recorder) ELSE stopping
  PROVE  PageInv'
<1>1. CASE active
  <2>1. stopping' = Append(stopping, presses) /\ presses \in 1 .. presses
    BY <1>1 DEF PageInv
  <2>2. stopping' \in Seq(1 .. presses) /\ Range(stopping') = Range(stopping) \union {presses}
    <3>1. stopping \in Seq(1 .. presses)
      BY DEF PageInv
    <3>2. Append(stopping, presses) \in Seq(1 .. presses)
      BY <2>1, <3>1
    <3>3. Range(Append(stopping, presses)) = Range(stopping) \union {presses}
      BY <3>1, RangeOfAppend
    <3> QED
      BY <2>1, <3>2, <3>3
  <2>3. /\ DOMAIN stopping' = 1 .. Len(stopping) + 1 /\ Len(stopping) \in Nat
        /\ \A i \in 1 .. Len(stopping) + 1 :
             stopping'[i] = IF i = Len(stopping) + 1 THEN presses ELSE stopping[i]
        /\ DOMAIN stopping = 1 .. Len(stopping)
    BY <2>1 DEF PageInv
  <2>4. \A i, j \in DOMAIN stopping' : i < j => stopping'[i] < stopping'[j]
    BY <1>1, <2>3 DEF PageInv
  <2>5. \A i \in DOMAIN sent, j \in DOMAIN stopping' : sent[i][1] < stopping'[j]
    BY <1>1, <2>3 DEF PageInv
  <2>6. \A p \in 1 .. presses :
          \/ p \in Range(stopping') \union silent
          \/ <<p>> \in Range(sent)
    BY <2>2 DEF PageInv
  <2> QED
    BY <2>2, <2>4, <2>5, <2>6 DEF PageInv
<1>2. CASE ~active
  BY <1>2 DEF PageInv
<1> QED
  BY <1>1, <1>2 DEF PageInv

\* The microphone is taken away.
LEMMA MicGoesKeeps ==
  ASSUME PageInv, MicGoes
  PROVE  PageInv'
BY StoppingKeeps DEF MicGoes, PageInv

\* A recording begins where none goes on.
LEMMA StartKeeps ==
  ASSUME PageInv, NEW b \in BOOLEAN, NEW p, p = [page EXCEPT !.spaceHeld = b] \/ p = page,
         StartRecording(p), UNCHANGED <<mic, supported, stopping, uploads, sent>>
  PROVE  PageInv'
<1> DEFINE Page == [mediaStream : BOOLEAN, recording : BOOLEAN, sending : BOOLEAN,
                    chunks : {<< >>}, spaceHeld : BOOLEAN]
<1>1. /\ p \in Page /\ p.recording = page.recording /\ p.sending = page.sending
      /\ [p EXCEPT !.recording = TRUE, !.chunks = << >>] \in Page
      /\ [p EXCEPT !.recording = TRUE, !.chunks = << >>].recording = TRUE
      /\ [p EXCEPT !.recording = TRUE, !.chunks = << >>].sending = page.sending
  BY DEF PageInv
<1> HIDE DEF Page
<1>2. CASE UNCHANGED <<recorder, active, presses, silent>> /\ page' = p
  BY <1>1, <1>2 DEF PageInv, Page
<1>3. CASE /\ ~page.recording /\ page' = [p EXCEPT !.recording = TRUE, !.chunks = << >>]
           /\ UNCHANGED <<recorder, active, presses, silent>>
  BY <1>1, <1>3 DEF PageInv, Page
<1>4. CASE /\ ~page.recording /\ page' = [p EXCEPT !.recording = TRUE, !.chunks = << >>]
           /\ recorder' = presses + 1 /\ presses' = presses + 1
           /\ active' = (mic = "on")
           /\ silent' = IF mic = "on" THEN silent ELSE silent \union {presses + 1}
  <2>1. ~active /\ presses \in Nat /\ page'.recording /\ page' \in Page
    BY <1>1, <1>4 DEF PageInv
  <2>2. /\ stopping' \in Seq(1 .. presses') /\ sent' \in Seq(Seq(1 .. presses'))
        /\ silent' \subseteq 1 .. presses'
    <3>1. 1 .. presses \subseteq 1 .. presses' /\ presses + 1 \in 1 .. presses'
      BY <1>4, <2>1
    <3>2. stopping \in Seq(1 .. presses')
      BY <3>1, SeqMonotonic DEF PageInv
    <3>3. Seq(1 .. presses) \subseteq Seq(1 .. presses')
      BY <3>1, SeqMonotonic
    <3>4. sent \in Seq(Seq(1 .. presses'))
      BY <3>3, SeqMonotonic DEF PageInv
    <3> QED
      BY <1>4, <3>1, <3>2, <3>4 DEF PageInv
  <2>3. /\ \A i \in DOMAIN sent : sent[i][1] < presses + 1
        /\ \A j \in DOMAIN stopping : stopping[j] < presses + 1
    <3>1. \A i \in DOMAIN sent : sent[i] \in Seq(1 .. presses) /\ Len(sent[i]) = 1
      BY ElementOfSeq DEF PageInv
    <3>2. \A i \in DOMAIN sent : sent[i][1] \in 1 .. presses
      <4> SUFFICES ASSUME NEW i \in DOMAIN sent
                   PROVE  sent[i][1] \in 1 .. presses
        OBVIOUS
      <4>1. 1 \in 1 .. Len(sent[i])
        BY <3>1
      <4> QED
        BY <3>1, <4>1, ElementOfSeq
    <3>3. \A j \in DOMAIN stopping : stopping[j] \in 1 .. presses
      BY DEF PageInv
    <3> QED
      BY <2>1, <3>2, <3>3
  <2>4. \A q \in 1 .. presses' :
          \/ q = recorder' /\ active'
          \/ q \in Range(stopping') \union silent'
          \/ <<q>> \in Range(sent')
    <3>1. \A q \in 1 .. presses' : q \in 1 .. presses \/ q = presses + 1
      BY <1>4, <2>1
    <3>2. \A q \in 1 .. presses : q \in Range(stopping) \union silent \/ <<q>> \in Range(sent)
      BY <2>1 DEF PageInv
    <3>3. silent \subseteq silent' /\ ((presses + 1 = recorder' /\ active') \/ presses + 1 \in silent')
      BY <1>4
    <3> QED
      BY <3>1, <3>2, <3>3
  <2> QED
    BY <1>1, <1>4, <2>1, <2>2, <2>3, <2>4 DEF PageInv, Page
<1>5. ~page.recording \/ (UNCHANGED <<recorder, active, presses, silent>> /\ page' = p)
  BY <1>1 DEF StartRecording
<1> QED
  BY <1>2, <1>3, <1>4, <1>5 DEF StartRecording

\* Recording is stopped, by whatever asks for it.
LEMMA StopKeeps ==
  ASSUME PageInv, NEW b \in BOOLEAN, NEW p, p = [page EXCEPT !.spaceHeld = b] \/ p = page,
         StopRecording(p), UNCHANGED <<mic, supported, recorder, uploads, presses, silent, sent>>
  PROVE  PageInv'
<1>1. /\ p \in [mediaStream : BOOLEAN, recording : BOOLEAN, sending : BOOLEAN,
                chunks : {<< >>}, spaceHeld : BOOLEAN]
      /\ p.recording = page.recording /\ p.sending = page.sending
      /\ [p EXCEPT !.recording = FALSE] \in [mediaStream : BOOLEAN, recording : BOOLEAN,
            sending : BOOLEAN, chunks : {<< >>}, spaceHeld : BOOLEAN]
      /\ [p EXCEPT !.recording = FALSE].sending = page.sending
  BY DEF PageInv
<1>2. CASE page' = p /\ UNCHANGED <<active, stopping>>
  BY <1>1, <1>2 DEF PageInv
<1>3. CASE /\ page' = [p EXCEPT !.recording = FALSE] /\ active' = FALSE
           /\ stopping' = IF active THEN Append(stopping, recorder) ELSE stopping
  BY <1>1, <1>3, StoppingKeeps
<1> QED
  BY <1>2, <1>3 DEF StopRecording

\* The button or the space bar is pressed.
LEMMA PressKeeps ==
  ASSUME PageInv, Press
  PROVE  PageInv'
BY StartKeeps DEF Press

\* It is let go.
LEMMA ReleaseKeeps ==
  ASSUME PageInv, Release
  PROVE  PageInv'
BY StopKeeps DEF Release

\* A recording is handed over, and uploaded if there is something on it.
LEMMA HandOverKeeps ==
  ASSUME PageInv, NEW sound \in BOOLEAN, HandOver(sound)
  PROVE  PageInv'
<1> DEFINE first == Head(stopping)
<1>1. /\ Range(stopping) = Range(stopping') \union {first}
      /\ stopping' \in Seq(1 .. presses) /\ DOMAIN stopping' = 1 .. Len(stopping) - 1
      /\ \A i \in 1 .. Len(stopping) - 1 : stopping'[i] = stopping[i + 1]
      /\ first = stopping[1] /\ 1 \in DOMAIN stopping /\ Len(stopping) \in Nat \ {0}
      /\ DOMAIN stopping = 1 .. Len(stopping)
  BY RangeOfTail DEF PageInv, HandOver
<1> HIDE DEF first
<1>0. \A i \in DOMAIN stopping' :
        /\ i + 1 \in DOMAIN stopping /\ stopping'[i] = stopping[i + 1] /\ 1 < i + 1
        /\ i \in Int
  BY <1>1
<1>2. first \in 1 .. presses /\ \A i \in DOMAIN stopping' : first < stopping'[i]
  <2>1. stopping \in Seq(1 .. presses)
    BY DEF PageInv
  <2>2. first \in 1 .. presses
    BY <1>1, <2>1, ElementOfSeq
  <2> QED
    BY <1>0, <1>1, <2>2 DEF PageInv
<1>3. \A i, j \in DOMAIN stopping' : i < j => stopping'[i] < stopping'[j]
  <2> SUFFICES ASSUME NEW i \in DOMAIN stopping', NEW j \in DOMAIN stopping', i < j
               PROVE  stopping'[i] < stopping'[j]
    OBVIOUS
  <2>1. i + 1 < j + 1
    BY <1>0
  <2> QED
    BY <1>0, <2>1 DEF PageInv
<1>4. \A i \in DOMAIN sent, j \in DOMAIN stopping' : sent[i][1] < stopping'[j]
  BY <1>0 DEF PageInv
<1>5. active => \A j \in DOMAIN stopping' : stopping'[j] < recorder
  BY <1>0 DEF PageInv
<1>6. page.chunks = << >>
  BY DEF PageInv
<1>7. CASE ~sound
  <2>1. /\ page' = [page EXCEPT !.chunks = << >>] /\ UNCHANGED <<sent, uploads, recorder, active, presses>>
        /\ silent' = silent \union {first}
    BY <1>6, <1>7 DEF HandOver, Blob, first
  <2>2. page' = page
    BY <1>6, <2>1 DEF PageInv
  <2>3. \A p \in 1 .. presses :
          \/ p = recorder /\ active
          \/ p \in Range(stopping') \union silent'
          \/ <<p>> \in Range(sent)
    BY <1>1, <2>1 DEF PageInv
  <2> QED
    BY <1>1, <1>2, <1>3, <1>4, <1>5, <2>1, <2>2, <2>3 DEF PageInv
<1>8. CASE sound
  <2>1. Append(page.chunks, first) = <<first>> /\ <<first>> # << >>
    BY <1>6
  <2>2. /\ sent' = Append(sent, <<first>>) /\ uploads' = uploads \union {Len(sent')}
        /\ page' = [page EXCEPT !.chunks = << >>, !.sending = TRUE]
        /\ UNCHANGED <<silent, recorder, active, presses>>
    BY <1>8, <2>1 DEF HandOver, Blob, first
  <2>3. <<first>> \in Seq(1 .. presses) /\ Len(<<first>>) = 1 /\ <<first>>[1] = first
    BY <1>2
  <2>4. /\ sent' \in Seq(Seq(1 .. presses)) /\ Range(sent') = Range(sent) \union {<<first>>}
        /\ DOMAIN sent' = 1 .. Len(sent) + 1 /\ Len(sent) \in Nat /\ DOMAIN sent = 1 .. Len(sent)
        /\ \A i \in 1 .. Len(sent) + 1 :
             sent'[i] = IF i = Len(sent) + 1 THEN <<first>> ELSE sent[i]
    BY <2>2, <2>3, RangeOfAppend, AppendProperties DEF PageInv
  <2>12. \A i \in DOMAIN sent' :
           \/ i \in DOMAIN sent /\ sent'[i] = sent[i]
           \/ i = Len(sent) + 1 /\ sent'[i] = <<first>> /\ sent'[i][1] = first
    BY <2>3, <2>4
  <2>5. \A i \in DOMAIN sent : sent[i][1] < first
    BY <1>1 DEF PageInv
  <2>6. /\ \A i \in DOMAIN sent' : Len(sent'[i]) = 1
        /\ \A i, j \in DOMAIN sent' : i < j => sent'[i][1] < sent'[j][1]
    <3>1. \A i \in DOMAIN sent' : Len(sent'[i]) = 1
      BY <2>3, <2>12 DEF PageInv
    <3>2. ASSUME NEW i \in DOMAIN sent', NEW j \in DOMAIN sent', i < j
          PROVE  sent'[i][1] < sent'[j][1]
      <4>1. i \in DOMAIN sent /\ sent'[i] = sent[i]
        BY <2>4, <2>12, <3>2
      <4>2. CASE j \in DOMAIN sent /\ sent'[j] = sent[j]
        BY <3>2, <4>1, <4>2 DEF PageInv
      <4>3. CASE sent'[j][1] = first
        BY <2>5, <4>1, <4>3
      <4> QED
        BY <2>12, <4>2, <4>3
    <3> QED
      BY <3>1, <3>2
  <2>7. \A i \in DOMAIN sent', j \in DOMAIN stopping' : sent'[i][1] < stopping'[j]
    BY <1>2, <1>4, <2>12
  <2>8. active => \A i \in DOMAIN sent' : sent'[i][1] < recorder
    BY <1>1, <2>12 DEF PageInv
  <2>9. \A p \in 1 .. presses :
          \/ p = recorder /\ active
          \/ p \in Range(stopping') \union silent
          \/ <<p>> \in Range(sent')
    BY <1>1, <2>4 DEF PageInv
  <2>10. /\ page' \in [mediaStream : BOOLEAN, recording : BOOLEAN, sending : BOOLEAN,
                       chunks : {<< >>}, spaceHeld : BOOLEAN]
         /\ page'.recording = page.recording
    BY <2>2 DEF PageInv
  <2>11. uploads' # {}
    BY <2>2
  <2> QED
    BY <1>1, <1>3, <1>5, <2>2, <2>4, <2>6, <2>7, <2>8, <2>9, <2>10, <2>11 DEF PageInv
<1> QED
  BY <1>7, <1>8

\* An upload ends, in any order.
LEMMA UploadEndsKeeps ==
  ASSUME PageInv, NEW i, UploadEnds(i)
  PROVE  PageInv'
BY DEF PageInv, UploadEnds

\* The inductive invariant of the page.
LEMMA PageInvariance == PageSpec => []PageInv
<1>1. PageInit => PageInv
  BY PageInvInit
<1>2. PageInv /\ [PageNext]_<<vars, pageVars>> => PageInv'
  <2> SUFFICES ASSUME PageInv, [PageNext]_<<vars, pageVars>>
               PROVE  PageInv'
    OBVIOUS
  <2>1. CASE PageStep
    BY <2>1, InitMicKeeps, MicGoesKeeps, PressKeeps, ReleaseKeeps, HandOverKeeps, UploadEndsKeeps
       DEF PageStep
  <2>2. CASE UNCHANGED pageVars
    BY <2>2 DEF pageVars, PageInv
  <2> QED
    BY <2>1, <2>2 DEF PageNext
<1> QED
  BY <1>1, <1>2, PTL DEF PageSpec

\* Every upload is the recording of one press, in their order, and every
\* recording is uploaded or has nothing on it, for every number of presses.
THEOREM RecordingsAreSent == PageSpec => []RecordingsSent
<1>1. PageInv => RecordingsSent
  <2> SUFFICES ASSUME PageInv
               PROVE  RecordingsSent
    OBVIOUS
  <2>1. \A i \in DOMAIN sent : i > 1 => i - 1 \in DOMAIN sent /\ i - 1 < i
    BY DEF PageInv
  <2> QED
    BY <2>1 DEF PageInv, RecordingsSent
<1> QED
  BY <1>1, PageInvariance, PTL

\* The least of a set of numbers.
LEMMA MinOf ==
  ASSUME NEW T, NEW m \in T, T \subseteq Int, \A n \in T : m <= n
  PROVE  Min(T) = m
<1>1. \A k \in T : (\A n \in T : k <= n) => k = m
  <2> SUFFICES ASSUME NEW k \in T, \A n \in T : k <= n
               PROVE  k = m
    OBVIOUS
  <2>1. k <= m /\ m <= k /\ k \in Int /\ m \in Int
    OBVIOUS
  <2> QED
    BY <2>1
<1> QED
  BY <1>1 DEF Min

-----------------------------------------------------------------------------
(* The results of the chat client's tools *)

\* A sequence of one element.
LEMMA OneElement ==
  ASSUME NEW S, NEW x \in S
  PROVE  <<x>> \in Seq(S) /\ Len(<<x>>) = 1 /\ <<x>>[1] = x
OBVIOUS

\* A part of a sequence.
LEMMA PartOf ==
  ASSUME NEW S, NEW s \in Seq(S), NEW m \in Int, NEW n \in Int, 1 <= m, n <= Len(s), m - 1 <= n
  PROVE  /\ SubSeq(s, m, n) \in Seq(S) /\ Len(SubSeq(s, m, n)) = n - m + 1
         /\ \A i \in 1 .. n - m + 1 : SubSeq(s, m, n)[i] = s[m + i - 1]
<1>1. CASE m <= n
  <2>1. m \in 1 .. Len(s) /\ n \in m .. Len(s)
    BY <1>1
  <2> QED
    BY <1>1, <2>1
<1>2. CASE m - 1 = n
  BY <1>2
<1> QED
  BY <1>1, <1>2

\* What stands in a sequence after its first m elements is a part of it.
LEMMA PartIs ==
  ASSUME NEW S, NEW s \in Seq(S), NEW t \in Seq(S), NEW m \in Nat, m + Len(t) <= Len(s),
         \A i \in 1 .. Len(t) : s[m + i] = t[i]
  PROVE  SubSeq(s, m + 1, m + Len(t)) = t
<1> DEFINE part == SubSeq(s, m + 1, m + Len(t))
<1>1. /\ Len(t) \in Nat /\ m + 1 \in Int /\ m + Len(t) \in Int /\ 1 <= m + 1
      /\ (m + 1) - 1 <= m + Len(t) /\ (m + Len(t)) - (m + 1) + 1 = Len(t)
  OBVIOUS
<1>2. /\ part \in Seq(S) /\ Len(part) = Len(t)
      /\ \A i \in 1 .. Len(t) : part[i] = s[(m + 1) + i - 1]
  BY <1>1, PartOf
<1> HIDE DEF part
<1>3. \A i \in 1 .. Len(t) : part[i] = t[i]
  <2>1. \A i \in 1 .. Len(t) : (m + 1) + i - 1 = m + i
    BY <1>1
  <2> QED
    BY <1>2, <2>1
<1>4. part = t
  BY <1>2, <1>3, SeqEqual
<1> QED
  BY <1>4 DEF part

\* Two parts, one behind the other; and three.
Joins(S, s, t, c) ==
  /\ c \in Seq(S) /\ Len(c) = Len(s) + Len(t) /\ Len(s) \in Nat /\ Len(t) \in Nat
  /\ \A i \in 1 .. Len(s) : c[i] = s[i] /\ i \in 1 .. Len(s) + Len(t)
  /\ \A i \in 1 .. Len(t) : c[Len(s) + i] = t[i] /\ Len(s) + i \in 1 .. Len(s) + Len(t)
  /\ SubSeq(c, 1, Len(s)) = s
  /\ SubSeq(c, Len(s) + 1, Len(s) + Len(t)) = t

\* And of three.
Joins3(S, s, t, u, c) ==
  /\ c \in Seq(S) /\ Len(c) = Len(s) + Len(t) + Len(u)
  /\ Len(s) \in Nat /\ Len(t) \in Nat /\ Len(u) \in Nat
  /\ \A i \in 1 .. Len(s) : c[i] = s[i]
  /\ \A i \in 1 .. Len(t) : c[Len(s) + i] = t[i]
  /\ \A i \in 1 .. Len(u) : c[Len(s) + Len(t) + i] = u[i]
  /\ SubSeq(c, Len(s) + 1, Len(s) + Len(t)) = t
  /\ SubSeq(c, Len(s) + Len(t) + 1, Len(s) + Len(t) + Len(u)) = u

\* A concatenation has its two parts.
LEMMA TwoParts ==
  ASSUME NEW S, NEW s \in Seq(S), NEW t \in Seq(S)
  PROVE  Joins(S, s, t, s \o t)
<1> DEFINE c == s \o t
<1>1. /\ c \in Seq(S) /\ Len(c) = Len(s) + Len(t) /\ Len(s) \in Nat /\ Len(t) \in Nat
      /\ \A i \in 1 .. Len(s) + Len(t) : c[i] = IF i <= Len(s) THEN s[i] ELSE t[i - Len(s)]
  BY ConcatProperties
<1> HIDE DEF c
<1>2. \A i \in 1 .. Len(s) : c[i] = s[i] /\ i \in 1 .. Len(s) + Len(t)
  BY <1>1
<1>3. \A i \in 1 .. Len(t) : /\ Len(s) + i \in 1 .. Len(s) + Len(t) /\ ~(Len(s) + i <= Len(s))
                             /\ Len(s) + i - Len(s) = i
  BY <1>1
<1>4. \A i \in 1 .. Len(t) : c[Len(s) + i] = t[i] /\ Len(s) + i \in 1 .. Len(s) + Len(t)
  BY <1>1, <1>3
<1>5. SubSeq(c, Len(s) + 1, Len(s) + Len(t)) = t
  BY <1>1, <1>4, PartIs
<1>6. SubSeq(c, 1, Len(s)) = s
  <2>1. 0 \in Nat /\ 0 + Len(s) = Len(s) /\ 0 + 1 = 1 /\ Len(s) <= Len(c) /\ \A i \in 1 .. Len(s) : 0 + i = i
    BY <1>1
  <2>2. SubSeq(c, 0 + 1, 0 + Len(s)) = s
    BY <1>1, <1>2, <2>1, PartIs
  <2> QED
    BY <2>1, <2>2
<1> QED
  BY <1>1, <1>2, <1>4, <1>5, <1>6 DEF Joins, c

\* A concatenation has its three parts, however it is written.
LEMMA ThreeParts ==
  ASSUME NEW S, NEW s \in Seq(S), NEW t \in Seq(S), NEW u \in Seq(S)
  PROVE  Joins3(S, s, t, u, (s \o t) \o u)
<1> DEFINE f == s \o t
           c == f \o u
<1>1. Joins(S, s, t, f)
  BY TwoParts
<1>2. f \in Seq(S)
  BY <1>1 DEF Joins
<1> HIDE DEF f
<1>3. Joins(S, f, u, c)
  BY <1>2, TwoParts
<1> HIDE DEF c
<1>4. /\ f \in Seq(S) /\ Len(f) = Len(s) + Len(t) /\ Len(s) \in Nat /\ Len(t) \in Nat
      /\ \A i \in 1 .. Len(s) : f[i] = s[i] /\ i \in 1 .. Len(s) + Len(t)
      /\ \A i \in 1 .. Len(t) : f[Len(s) + i] = t[i] /\ Len(s) + i \in 1 .. Len(s) + Len(t)
  BY <1>1 DEF Joins
<1>5. /\ c \in Seq(S) /\ Len(c) = Len(f) + Len(u) /\ Len(u) \in Nat
      /\ \A i \in 1 .. Len(f) : c[i] = f[i]
      /\ \A i \in 1 .. Len(u) : c[Len(f) + i] = u[i]
      /\ SubSeq(c, Len(f) + 1, Len(f) + Len(u)) = u
  BY <1>3 DEF Joins
<1>6. \A i \in 1 .. Len(t) : c[Len(s) + i] = t[i]
  BY <1>4, <1>5
<1>7. Len(s) + Len(t) <= Len(c)
  BY <1>4, <1>5
<1>8. SubSeq(c, Len(s) + 1, Len(s) + Len(t)) = t
  BY <1>4, <1>5, <1>6, <1>7, PartIs
<1>9. Joins3(S, s, t, u, c)
  BY <1>4, <1>5, <1>6, <1>8 DEF Joins3
<1> QED
  BY <1>9 DEF c, f

\* The same of the other bracketing.
LEMMA ThreePartsBack ==
  ASSUME NEW S, NEW s \in Seq(S), NEW t \in Seq(S), NEW u \in Seq(S)
  PROVE  Joins3(S, s, t, u, s \o (t \o u))
<1>1. s \o (t \o u) = (s \o t) \o u
  BY ConcatAssociative
<1> QED
  BY <1>1, ThreeParts

\* Nothing but half a character at an end is replaced.
LEMMA LossyOf ==
  ASSUME NEW S, NEW s \in Seq(S)
  PROVE  /\ Lossy(s) \in Seq(S \union {Replaced}) /\ Len(Lossy(s)) = Len(s)
         /\ \A i \in 1 .. Len(s) : Lossy(s)[i] = s[i] \/ Lossy(s)[i] = Replaced
<1>1. DOMAIN Lossy(s) = 1 .. Len(s) /\ Len(s) \in Nat
  BY DEF Lossy
<1>2. \A i \in 1 .. Len(s) : (Lossy(s)[i] = s[i] \/ Lossy(s)[i] = Replaced) /\ s[i] \in S
  BY DEF Lossy
<1>3. Lossy(s) \in [1 .. Len(s) -> S \union {Replaced}]
  <2>1. Lossy(s) = [i \in 1 .. Len(s) |-> Lossy(s)[i]]
    BY DEF Lossy
  <2> QED
    BY <1>2, <2>1
<1> QED
  BY <1>1, <1>2, <1>3

\* What is read of a beginning is the beginning of what is read.
AsFarAs(n, s, t, i) ==
  Lossy(t)[i] = Lossy(s)[i] \/ (i = n /\ n < Len(s) /\ Lossy(t)[i] = Replaced)

\* The beginning of an output is converted as the whole of it is, as far as it goes.
LEMMA LossyStart ==
  ASSUME NEW S, NEW s \in Seq(S), NEW n \in 0 .. Len(s), NEW t, t = SubSeq(s, 1, n),
         NEW i \in 1 .. n
  PROVE  AsFarAs(n, s, t, i)
<1>1. t \in Seq(S) /\ Len(t) = n /\ \A k \in 1 .. n : t[k] = s[k]
  <2>1. n - 1 + 1 = n /\ \A k \in 1 .. n : 1 + k - 1 = k
    OBVIOUS
  <2> QED
    BY <2>1, PartOf
<1>2. DOMAIN t = 1 .. n /\ DOMAIN s = 1 .. Len(s) /\ i \in DOMAIN t /\ i \in DOMAIN s
  BY <1>1
<1>3. /\ Lossy(t)[i] = IF IsHalf(t, i) THEN Replaced ELSE t[i]
      /\ Lossy(s)[i] = IF IsHalf(s, i) THEN Replaced ELSE s[i]
  BY <1>2 DEF Lossy
<1>4. t[i] = s[i] /\ (i # 1 => t[i - 1] = s[i - 1]) /\ (i < n => t[i + 1] = s[i + 1])
  BY <1>1
<1>5. CASE i < n \/ n = Len(s)
  <2>1. IsHalf(t, i) <=> IsHalf(s, i)
    BY <1>1, <1>4, <1>5 DEF IsHalf
  <2> QED
    BY <1>3, <1>4, <2>1 DEF AsFarAs
<1>6. CASE i = n /\ n < Len(s)
  <2>1. IsHalf(s, i) => IsHalf(t, i)
    BY <1>1, <1>4, <1>6 DEF IsHalf
  <2> QED
    BY <1>3, <1>4, <1>6, <2>1 DEF AsFarAs
<1> QED
  BY <1>5, <1>6 DEF AsFarAs

\* What an output shows, for every output and limit.
LEMMA Truncated ==
  ASSUME NEW S, NEW raw \in Seq(S), <<"stderr">> \notin S, NEW t, t = TruncateOutput(raw)
  PROVE  /\ t \in Seq(S \union {Replaced, <<"truncated", Len(raw)>>})
         /\ Shows(t, raw)
<1> DEFINE cut == SubSeq(raw, 1, MaxOutput)
           mark == <<"truncated", Len(raw)>>
<1>1. MaxOutput \in Nat /\ Len(raw) \in Nat
  BY OutputsAssumption
<1>2. CASE Len(raw) <= MaxOutput
  <2>1. t = Lossy(raw) /\ t \in Seq(S \union {Replaced}) /\ Len(t) = Len(raw)
    BY <1>2, LossyOf DEF TruncateOutput
  <2>2. t \in Seq(S \union {Replaced, mark})
    BY <2>1
  <2>3. Shows(t, raw)
    BY <1>1, <1>2, <2>1 DEF Shows
  <2> QED
    BY <2>2, <2>3
<1>3. CASE ~(Len(raw) <= MaxOutput)
  <2>1. cut \in Seq(S) /\ Len(cut) = MaxOutput /\ MaxOutput \in 0 .. Len(raw) /\ MaxOutput < Len(raw)
    <3>1. MaxOutput - 1 + 1 = MaxOutput /\ 1 - 1 <= MaxOutput /\ MaxOutput <= Len(raw)
      BY <1>1, <1>3
    <3> QED
      BY <1>1, <1>3, <3>1, PartOf
  <2>2. /\ Lossy(cut) \in Seq(S \union {Replaced}) /\ Len(Lossy(cut)) = MaxOutput
    BY <2>1, LossyOf
  <2>3. \A i \in 1 .. MaxOutput : AsFarAs(MaxOutput, raw, cut, i)
    <3> SUFFICES ASSUME NEW i \in 1 .. MaxOutput
                 PROVE  AsFarAs(MaxOutput, raw, cut, i)
      OBVIOUS
    <3>1. PICK c : c = cut
      OBVIOUS
    <3>2. c = SubSeq(raw, 1, MaxOutput)
      BY <3>1
    <3>3. AsFarAs(MaxOutput, raw, c, i)
      BY <2>1, <3>2, LossyStart
    <3> QED
      BY <3>1, <3>3
  <2>4. t = Lossy(cut) \o <<mark>>
    BY <1>3 DEF TruncateOutput
  <2> HIDE DEF cut, mark
  <2> DEFINE body == Lossy(cut)
  <2>5. body \in Seq(S \union {Replaced, mark}) /\ <<mark>> \in Seq(S \union {Replaced, mark})
        /\ Len(<<mark>>) = 1 /\ <<mark>>[1] = mark
    BY <2>2
  <2> HIDE DEF body
  <2>6. /\ t \in Seq(S \union {Replaced, mark}) /\ Len(t) = MaxOutput + 1
        /\ \A i \in 1 .. MaxOutput + 1 : t[i] = IF i <= MaxOutput THEN body[i]
                                                  ELSE <<mark>>[i - MaxOutput]
    BY <2>2, <2>4, <2>5, ConcatProperties DEF body
  <2>7. t[MaxOutput + 1] = mark /\ \A i \in 1 .. MaxOutput : t[i] = body[i]
    <3>1. MaxOutput + 1 \in 1 .. MaxOutput + 1 /\ MaxOutput + 1 - MaxOutput = 1
      BY <1>1
    <3> QED
      BY <1>1, <2>5, <2>6, <3>1
  <2>8. Last(t) = mark
    BY <2>6, <2>7 DEF Last
  <2>9. Shows(t, raw)
    BY <1>1, <1>3, <2>1, <2>3, <2>6, <2>7, <2>8 DEF Shows, AsFarAs, body, mark
  <2> QED
    BY <2>6, <2>9 DEF mark
<1> QED
  BY <1>2, <1>3

\* Where a header stands that comes between two outputs, or is not there.
Places(x, content) == {j \in DOMAIN content : content[j] = x}
EndOf(x, content) == IF Places(x, content) = {} THEN Len(content) + 1 ELSE Min(Places(x, content))
Without(x, s) == \A i \in 1 .. Len(s) : s[i] # x

\* Where there is no header, the front goes on to the end.
LEMMA NoHeader ==
  ASSUME NEW S, NEW mark, NEW front \in Seq(S), Without(mark, front)
  PROVE  EndOf(mark, front) = Len(front) + 1
<1>1. DOMAIN front = 1 .. Len(front)
  OBVIOUS
<1>2. Places(mark, front) = {}
  BY <1>1 DEF Places, Without
<1> QED
  BY <1>2 DEF EndOf

\* A sequence that is a header.
HeaderIs(S, mark, one) == one \in Seq(S) /\ Len(one) = 1 /\ one[1] = mark

\* The header is where the front ends.
LEMMA HeaderAt ==
  ASSUME NEW S, NEW mark, NEW front, NEW one, NEW rest, NEW content,
         HeaderIs(S, mark, one), Without(mark, front), Joins3(S, front, one, rest, content)
  PROVE  EndOf(mark, content) = Len(front) + 1
<1>1. /\ content \in Seq(S) /\ Len(content) = Len(front) + 1 + Len(rest)
      /\ Len(front) \in Nat /\ Len(rest) \in Nat
      /\ \A i \in 1 .. Len(front) : content[i] = front[i]
      /\ \A i \in 1 .. 1 : content[Len(front) + i] = one[i]
  BY DEF Joins3, HeaderIs
<1>2. content[Len(front) + 1] = mark /\ Len(front) + 1 \in DOMAIN content
  BY <1>1 DEF HeaderIs
<1>3. ASSUME NEW i \in DOMAIN content
      PROVE  i \in Int /\ (content[i] = mark => Len(front) + 1 <= i)
  <2>1. i \in 1 .. Len(front) + 1 + Len(rest)
    BY <1>1
  <2>2. i \in 1 .. Len(front) => content[i] # mark
    BY <1>1 DEF Without
  <2> QED
    BY <1>1, <2>1, <2>2
<1> DEFINE ends == Places(mark, content)
<1>4. Len(front) + 1 \in ends /\ ends \subseteq Int /\ \A n \in ends : Len(front) + 1 <= n
  BY <1>2, <1>3 DEF Places
<1> HIDE DEF ends
<1>5. Min(ends) = Len(front) + 1 /\ ends # {}
  BY <1>4, MinOf
<1> QED
  BY <1>5 DEF ends, EndOf

\* The two outputs are found by the headers.
LEMMA FrontOf ==
  ASSUME NEW S, NEW head \in Seq(S), Len(head) = 2, NEW a \in Seq(S), NEW mark,
         Without(mark, head), Without(mark, a),
         NEW front, Joins(S, head, a, front)
  PROVE  /\ front \in Seq(S) /\ Len(front) = 2 + Len(a) /\ Len(a) \in Nat
         /\ front[1] = head[1] /\ SubSeq(front, 3, 2 + Len(a)) = a
         /\ Without(mark, front)
<1>1. /\ front \in Seq(S) /\ Len(front) = 2 + Len(a) /\ Len(a) \in Nat
      /\ \A i \in 1 .. 2 : front[i] = head[i]
      /\ \A i \in 1 .. Len(a) : front[2 + i] = a[i]
      /\ SubSeq(front, 2 + 1, 2 + Len(a)) = a
  BY DEF Joins
<1>2. \A i \in 1 .. Len(front) : front[i] # mark
  <2> SUFFICES ASSUME NEW i \in 1 .. 2 + Len(a)
               PROVE  front[i] # mark
    BY <1>1
  <2>1. CASE i \in 1 .. 2
    BY <1>1, <2>1 DEF Without
  <2>2. CASE i - 2 \in 1 .. Len(a)
    <3>1. front[2 + (i - 2)] = a[i - 2] /\ 2 + (i - 2) = i
      BY <1>1, <2>2
    <3> QED
      BY <2>2, <3>1 DEF Without
  <2> QED
    BY <1>1, <2>1, <2>2
<1> QED
  BY <1>1, <1>2 DEF Without

\* An output without the header of the errors is read back as its standard output.
LEMMA DividedOne ==
  ASSUME NEW S, NEW head \in Seq(S), Len(head) = 2, NEW a \in Seq(S), NEW mark,
         Without(mark, head), Without(mark, a), NEW content, Joins(S, head, a, content),
         NEW end, end = EndOf(mark, content)
  PROVE  /\ content[1] = head[1] /\ SubSeq(content, 3, end - 1) = a
         /\ SubSeq(content, end + 1, Len(content)) = << >>
<1>1. /\ content \in Seq(S) /\ Len(content) = 2 + Len(a) /\ Len(a) \in Nat
      /\ content[1] = head[1] /\ SubSeq(content, 3, 2 + Len(a)) = a
      /\ Without(mark, content)
  BY FrontOf
<1>2. end = Len(content) + 1
  BY <1>1, NoHeader
<1>3. end - 1 = 2 + Len(a) /\ end + 1 > Len(content) /\ end + 1 \in Int /\ Len(content) \in Int
  BY <1>1, <1>2
<1>4. SubSeq(content, end + 1, Len(content)) = << >>
  BY <1>3, SubSeqEmpty
<1> QED
  BY <1>1, <1>3, <1>4

\* The header of the standard output and what is under it.
Headed(S, head, a, mark) == head \in Seq(S) /\ Len(head) = 2 /\ a \in Seq(S) /\ Without(mark, head) /\ Without(mark, a)

\* An output with both headers is read back as both.
LEMMA DividedTwo ==
  ASSUME NEW S, NEW head, NEW a, NEW mark, NEW one, NEW b, NEW front, NEW content, NEW back,
         HeaderIs(S, mark, one), Headed(S, head, a, mark), Joins(S, head, a, front),
         Joins3(S, front, one, b, content), Joins3(S, head, a, back, content),
         NEW end, end = EndOf(mark, content)
  PROVE  /\ content[1] = head[1] /\ SubSeq(content, 3, end - 1) = a
         /\ SubSeq(content, end + 1, Len(content)) = b
<1>1. /\ front \in Seq(S) /\ Len(front) = 2 + Len(a) /\ Len(a) \in Nat
      /\ Without(mark, front)
  BY FrontOf DEF Headed
<1>2. end = Len(front) + 1
  BY <1>1, HeaderAt
<1>3. /\ SubSeq(content, 2 + 1, 2 + Len(a)) = a
      /\ \A i \in 1 .. 2 : content[i] = head[i]
  BY DEF Joins3, Headed, HeaderIs
<1>4. /\ SubSeq(content, Len(front) + 1 + 1, Len(front) + 1 + Len(b)) = b
      /\ Len(content) = Len(front) + 1 + Len(b)
  BY DEF Joins3, Headed, HeaderIs
<1>5. end - 1 = 2 + Len(a) /\ end + 1 = Len(front) + 1 + 1 /\ 2 + 1 = 3 /\ 1 \in 1 .. 2
  BY <1>1, <1>2
<1> QED
  BY <1>3, <1>4, <1>5

\* A command that ended, its outputs behind their headers.
ErrorHeader == <<"stderr">>

\* An output that shows what a command did.
CommandShown(code, stdout, stderr, content, end) ==
  /\ content[1][2] = (IF code = Absent THEN -1 ELSE code[1])
  /\ Shows(SubSeq(content, 3, end - 1), stdout)
  /\ Shows(SubSeq(content, end + 1, Len(content)), stderr)

\* format_output shows what the command did, however long its outputs are.
LEMMA Formatted ==
  ASSUME NEW code, NEW S, NEW stdout \in Seq(S), NEW stderr \in Seq(S), ErrorHeader \notin S,
         NEW content, content = FormatOutput(Exited(code, stdout, stderr)), NEW end,
         end = EndOf(ErrorHeader, content)
  PROVE  CommandShown(code, stdout, stderr, content, end)
<1> DEFINE said == IF code = Absent THEN -1 ELSE code[1]
           stated == <<"exit code", said>>
           announced == <<"stdout">>
           mark == <<"stderr">>
           head == <<stated, announced>>
           A == S \union {Replaced, <<"truncated", Len(stdout)>>}
           B == S \union {Replaced, <<"truncated", Len(stderr)>>}
           U == A \union B \union {stated, announced, mark}
<1>1. content = (head \o TruncateOutput(stdout))
                \o (IF stderr = << >> THEN << >> ELSE <<mark>> \o TruncateOutput(stderr))
  BY DEF FormatOutput, Exited
<1>2. PICK a : a = TruncateOutput(stdout)
  OBVIOUS
<1>3. PICK b : b = TruncateOutput(stderr)
  OBVIOUS
<1>4. /\ a \in Seq(A) /\ Shows(a, stdout)
      /\ b \in Seq(B) /\ Shows(b, stderr)
  BY <1>2, <1>3, Truncated DEF ErrorHeader
<1>5. stated[2] = said
  OBVIOUS
<1>6. /\ mark # stated /\ mark # announced /\ mark # Replaced
      /\ \A n : <<"truncated", n>> # mark
  <2>1. ASSUME NEW n
        PROVE  <<"truncated", n>> # mark
    <3>1. <<"truncated", n>>[1] # mark[1]
      OBVIOUS
    <3> QED
      BY <3>1
  <2>2. mark[1] # stated[1] /\ mark[1] # announced[1] /\ mark[1] # Replaced[1]
    BY DEF Replaced
  <2>3. mark # stated /\ mark # announced /\ mark # Replaced
    BY <2>2
  <2> QED
    BY <2>1, <2>3
<1> HIDE DEF stated, announced, mark, said
<1>7. mark \notin A /\ mark \notin S
  BY <1>6 DEF mark, ErrorHeader
<1>8. /\ A \subseteq U /\ B \subseteq U /\ {stated, announced, mark} \subseteq U
  OBVIOUS
<1> HIDE DEF A, B, U
<1>9. a \in Seq(U) /\ b \in Seq(U)
  BY <1>4, <1>8, SeqMonotonic
<1>10. /\ head \in Seq(U) /\ Len(head) = 2 /\ head[1] = stated /\ head[2] = announced
       /\ Without(mark, head)
  <2>1. head \in Seq(U) /\ Len(head) = 2 /\ head[1] = stated /\ head[2] = announced
    BY <1>8
  <2> HIDE DEF head
  <2>2. \A i \in 1 .. 2 : i = 1 \/ i = 2
    OBVIOUS
  <2> QED
    BY <1>6, <2>1, <2>2 DEF Without
<1>11. PICK one : one = <<mark>> /\ one \in Seq(U) /\ Len(one) = 1 /\ one[1] = mark
  <2>1. mark \in U
    BY <1>8
  <2> QED
    BY <2>1, OneElement
<1> HIDE DEF head
<1>12. Without(mark, a)
  BY <1>4, <1>7, ElementOfSeq DEF Without
<1>13. PICK front : front = head \o a
  OBVIOUS
<1>14. Joins(U, head, a, front)
  BY <1>9, <1>10, <1>13, TwoParts
<1>15. front \in Seq(U)
  BY <1>14 DEF Joins
<1>16. end = EndOf(mark, content)
  BY DEF mark, ErrorHeader
<1>17. CASE stderr = << >>
  <2>1. content = front
    <3>1. content = front \o << >>
      BY <1>1, <1>2, <1>13, <1>17
    <3> QED
      BY <1>15, <3>1, ConcatEmptySeq
  <2>2. Joins(U, head, a, content)
    BY <1>14, <2>1
  <2>3. /\ content[1] = head[1] /\ SubSeq(content, 3, end - 1) = a
        /\ SubSeq(content, end + 1, Len(content)) = << >>
    BY <1>9, <1>10, <1>12, <1>16, <2>2, DividedOne
  <2>4. b = << >>
    <3>1. Len(stderr) = 0 /\ Len(stderr) <= MaxOutput
      BY <1>17, OutputsAssumption
    <3>2. b = Lossy(stderr)
      BY <1>3, <3>1 DEF TruncateOutput
    <3>3. Len(b) = 0
      BY <3>1, <3>2, LossyOf
    <3> QED
      BY <1>9, <3>3
  <2> QED
    BY <1>4, <1>5, <1>10, <2>3, <2>4 DEF said, CommandShown
<1>18. CASE stderr # << >>
  <2>1. PICK back : back = one \o b
    OBVIOUS
  <2>2. back \in Seq(U)
    BY <1>9, <1>11, <2>1, ConcatProperties
  <2>3. content = front \o back
    BY <1>1, <1>2, <1>3, <1>11, <1>13, <1>18, <2>1
  <2>4. Joins3(U, head, a, back, content)
    BY <1>9, <1>10, <1>13, <2>2, <2>3, ThreeParts
  <2>5. content = front \o (one \o b)
    BY <2>1, <2>3
  <2>7. Joins3(U, front, one, b, content)
    BY <1>9, <1>11, <1>15, <2>5, ThreePartsBack
  <2>10. /\ content[1] = head[1] /\ SubSeq(content, 3, end - 1) = a
         /\ SubSeq(content, end + 1, Len(content)) = b
    <3>1. HeaderIs(U, mark, one)
      BY <1>11 DEF HeaderIs
    <3>2. Headed(U, head, a, mark)
      BY <1>9, <1>10, <1>12 DEF Headed
    <3> HIDE DEF U, mark, head
    <3> QED
      BY <1>14, <1>16, <2>4, <2>7, <3>1, <3>2, DividedTwo
  <2> QED
    BY <1>4, <1>5, <1>10, <2>10 DEF said, CommandShown
<1> QED
  BY <1>17, <1>18

\* The loop over the calls, as far as it has come.
ToolRan(done, n, calls, container, outcomes, secs) ==
  LET At(i) == ExecuteTool(container, calls[i], outcomes[i], secs)
      count == Len(done.results)
  IN  /\ done = [results |-> done.results, failed |-> done.failed, tried |-> done.tried]
      /\ done.results \in Seq(Range(done.results)) /\ count \in Nat /\ done.failed \in BOOLEAN
      /\ done.failed => done.tried = count + 1 /\ count + 1 \in 1 .. n /\ ~At(count + 1).ok
      /\ ~done.failed => done.tried = n /\ count = n
      /\ \A i \in 1 .. count : At(i).ok /\ done.results[i] = [id |-> calls[i].id, content |-> At(i).result]

\* Calls run one after the other until one fails, for any number of calls.
LEMMA CallsRan ==
  ASSUME NEW container, NEW calls, Len(calls) \in Nat, NEW outcomes, NEW secs
  PROVE  ToolRan(RunCalls(container, calls, outcomes, secs), Len(calls), calls, container, outcomes, secs)
<1> DEFINE N == Len(calls)
           At(i) == ExecuteTool(container, calls[i], outcomes[i], secs)
           Ran(done, i) ==
             IF done.failed THEN done
             ELSE IF ~At(i).ok THEN [done EXCEPT !.failed = TRUE, !.tried = i]
             ELSE [done EXCEPT !.tried = i,
                     !.results = Append(@, [id |-> calls[i].id, content |-> At(i).result])]
           start == [results |-> << >>, failed |-> FALSE, tried |-> 0]
           Follows(f, n) == f = [k \in 0 .. n |-> IF k = 0 THEN start ELSE Ran(f[k - 1], k)]
           after == CHOOSE f : Follows(f, N)
           Good(done, n) == ToolRan(done, n, calls, container, outcomes, secs)
<1>1. RunCalls(container, calls, outcomes, secs) = after[N]
  BY DEF RunCalls
<1>2. Good(start, 0)
  BY DEF ToolRan
<1>3. ASSUME NEW n \in 1 .. N, NEW done, Good(done, n - 1)
      PROVE  Good(Ran(done, n), n)
  <2> DEFINE next == Ran(done, n)
             result == [id |-> calls[n].id, content |-> At(n).result]
             count == Len(done.results)
  <2> HIDE DEF At
  <2>1. /\ done = [results |-> done.results, failed |-> done.failed, tried |-> done.tried]
        /\ done.results \in Seq(Range(done.results)) /\ count \in Nat /\ done.failed \in BOOLEAN
        /\ done.failed => done.tried = count + 1 /\ count + 1 \in 1 .. n - 1 /\ ~At(count + 1).ok
        /\ ~done.failed => done.tried = n - 1 /\ count = n - 1
        /\ \A i \in 1 .. count :
             At(i).ok /\ done.results[i] = [id |-> calls[i].id, content |-> At(i).result]
    BY <1>3 DEF ToolRan, At
  <2>2. CASE done.failed
    <3>1. next = done /\ (count + 1 \in 1 .. n - 1 => count + 1 \in 1 .. n)
      BY <2>2
    <3> QED
      BY <2>1, <2>2, <3>1 DEF ToolRan, At
  <2>3. CASE ~done.failed /\ ~At(n).ok
    <3>1. next = [results |-> done.results, failed |-> TRUE, tried |-> n]
      BY <2>1, <2>3
    <3>2. count + 1 = n /\ count + 1 \in 1 .. n
      BY <2>1, <2>3
    <3> HIDE DEF next, Ran
    <3> QED
      BY <2>1, <2>3, <3>1, <3>2 DEF ToolRan, At, next
  <2>4. CASE ~done.failed /\ At(n).ok
    <3>1. next = [results |-> Append(done.results, result), failed |-> FALSE, tried |-> n]
      BY <2>1, <2>4
    <3> DEFINE more == Append(done.results, result)
    <3>2. count + 1 = n
      BY <2>1, <2>4
    <3> HIDE DEF result
    <3>3. /\ more \in Seq(Range(done.results) \union {result}) /\ Len(more) = n
          /\ more[n] = result /\ \A i \in 1 .. count : more[i] = done.results[i]
      BY <2>1, <3>2, AppendProperties
    <3> HIDE DEF next, Ran, more
    <3>4. more \in Seq(Range(more))
      BY <3>3 DEF Range
    <3>5. ASSUME NEW i \in 1 .. n
          PROVE  At(i).ok /\ more[i] = [id |-> calls[i].id, content |-> At(i).result]
      <4>1. CASE i = n
        BY <2>4, <3>3, <4>1 DEF result
      <4>2. CASE i \in 1 .. count
        BY <2>1, <3>3, <4>2
      <4>3. i = n \/ i \in 1 .. count
        BY <2>1, <3>2
      <4> QED
        BY <4>1, <4>2, <4>3
    <3>6. /\ next.results = more /\ next.failed = FALSE /\ next.tried = n
          /\ next = [results |-> more, failed |-> FALSE, tried |-> n]
      BY <3>1 DEF more
    <3> QED
      BY <3>3, <3>4, <3>5, <3>6 DEF ToolRan, At, next
  <2> QED
    BY <2>1, <2>2, <2>3, <2>4
<1> HIDE DEF Ran, start, Good
<1>4. \A n \in 0 .. N : \E f : Follows(f, n)
  <2> DEFINE bad == {n \in 0 .. N : ~(\E f : Follows(f, n))}
  <2> SUFFICES ASSUME bad # {}
               PROVE  FALSE
    OBVIOUS
  <2>1. bad \subseteq Nat
    OBVIOUS
  <2> HIDE DEF bad
  <2>2. PICK m \in bad : \A n \in bad : m <= n
    BY <2>1, LeastNat
  <2>3. m \in 0 .. N /\ ~(\E f : Follows(f, m))
    BY <2>2 DEF bad
  <2>4. m # 0
    <3>1. Follows([k \in 0 .. 0 |-> start], 0)
      OBVIOUS
    <3> QED
      BY <2>3, <3>1
  <2>5. m - 1 \in 0 .. N /\ m - 1 \notin bad /\ m \in Nat
    BY <2>2, <2>3, <2>4
  <2>6. PICK g : Follows(g, m - 1)
    BY <2>5 DEF bad
  <2> DEFINE f == [k \in 0 .. m |-> IF k = m THEN Ran(g[m - 1], m) ELSE g[k]]
  <2>7. \A k \in 0 .. m - 1 : g[k] = (IF k = 0 THEN start ELSE Ran(g[k - 1], k)) /\ k \in 0 .. m /\ k # m
    BY <2>5, <2>6
  <2>8. DOMAIN f = 0 .. m /\ f[m] = Ran(g[m - 1], m) /\ \A k \in 0 .. m - 1 : f[k] = g[k]
    BY <2>5, <2>7
  <2>9. \A k \in 0 .. m : f[k] = IF k = 0 THEN start ELSE Ran(f[k - 1], k)
    <3> HIDE DEF f
    <3> SUFFICES ASSUME NEW k \in 0 .. m
                 PROVE  f[k] = IF k = 0 THEN start ELSE Ran(f[k - 1], k)
      OBVIOUS
    <3>1. k = m \/ k \in 0 .. m - 1
      BY <2>5
    <3>2. k # 0 => k - 1 \in 0 .. m - 1
      BY <2>5
    <3> QED
      BY <2>4, <2>7, <2>8, <3>1, <3>2
  <2>10. Follows(f, m)
    <3>1. f = [k \in 0 .. m |-> f[k]]
      OBVIOUS
    <3> HIDE DEF f
    <3> QED
      BY <2>9, <3>1
  <2> QED
    BY <2>3, <2>10
<1>5. Follows(after, N)
  <2>1. \E f : Follows(f, N)
    BY <1>4
  <2> HIDE DEF Runs
  <2> QED
    BY <2>1
<1> HIDE DEF after
<1>6. after[0] = start /\ \A n \in 1 .. N : after[n] = Ran(after[n - 1], n)
  <2>1. \A n \in 0 .. N : after[n] = IF n = 0 THEN start ELSE Ran(after[n - 1], n)
    BY <1>5
  <2> QED
    BY <2>1
<1>7. \A n \in 0 .. N : Good(after[n], n)
  <2> DEFINE bad == {n \in 0 .. N : ~Good(after[n], n)}
  <2> SUFFICES ASSUME bad # {}
               PROVE  FALSE
    OBVIOUS
  <2>1. bad \subseteq Nat
    OBVIOUS
  <2> HIDE DEF bad
  <2>2. PICK m \in bad : \A n \in bad : m <= n
    BY <2>1, LeastNat
  <2>3. m \in 0 .. N /\ ~Good(after[m], m)
    BY <2>2 DEF bad
  <2>4. m # 0
    BY <1>2, <1>6, <2>3
  <2>5. m - 1 \in 0 .. N /\ m - 1 \notin bad /\ m \in 1 .. N
    BY <2>2, <2>3, <2>4
  <2>6. Good(after[m - 1], m - 1)
    BY <2>5 DEF bad
  <2>7. Good(Ran(after[m - 1], m), m)
    BY <1>3, <2>5, <2>6
  <2> QED
    BY <1>6, <2>3, <2>5, <2>7
<1> QED
  <2>1. N \in 0 .. N
    OBVIOUS
  <2>2. Good(after[N], N)
    BY <1>7, <2>1
  <2> QED
    BY <1>1, <2>2 DEF Good

\* What a call that succeeded, and one that failed, has done.
LEMMA CommandRan ==
  ASSUME NEW container \in BOOLEAN, NEW call, call.name = "execute_shell",
         call.arguments \in {Absent, Present("command")}, NEW outcome \in ToolOutcomes, NEW secs,
         NEW executed, executed = ExecuteTool(container, call, outcome, secs)
  PROVE  /\ ~executed.ok => ~container \/ call.arguments = Absent \/ outcome.end = "late"
         /\ executed.ok =>
              /\ container /\ outcome.end = "exited"
              /\ executed.result = FormatOutput(outcome)
              /\ outcome = Exited(outcome.code, outcome.stdout, outcome.stderr)
              /\ outcome.code \in {Absent, Present(1)}
              /\ outcome.stdout \in Outputs /\ outcome.stderr \in Outputs
<1>1. CASE call.name \notin Registered(container)
  <2>1. ~executed.ok
    BY <1>1 DEF ExecuteTool, Failure
  <2>2. ~container
    BY <1>1 DEF Registered
  <2> QED
    BY <2>1, <2>2
<1>2. CASE call.name \in Registered(container)
  <2>1. container
    BY <1>2 DEF Registered
  <2>2. executed = ExecuteShell(call.arguments, outcome)
    BY <1>2 DEF ExecuteTool
  <2>3. CASE call.arguments = Absent
    <3>1. ~executed.ok
      <4>1. executed = Failure("invalid arguments")
        BY <2>2, <2>3 DEF ExecuteShell
      <4>2. \A kind : ~Failure(kind).ok
        BY DEF Failure
      <4> QED
        BY <4>1, <4>2
    <3> QED
      BY <2>3, <3>1
  <2>4. CASE call.arguments # Absent /\ outcome = NotExited("late")
    <3>1. outcome.end = "late"
      BY <2>4 DEF NotExited
    <3>2. ~executed.ok
      <4>1. executed = Failure("execution failed")
        BY <2>2, <2>4, <3>1 DEF ExecuteShell
      <4>2. \A kind : ~Failure(kind).ok
        BY DEF Failure
      <4> QED
        BY <4>1, <4>2
    <3> QED
      BY <3>1, <3>2
  <2>5. CASE call.arguments # Absent /\ outcome # NotExited("late")
    <3>1. PICK code \in {Absent, Present(1)}, stdout \in Outputs, stderr \in Outputs :
            outcome = Exited(code, stdout, stderr)
      BY <2>5 DEF ToolOutcomes
    <3>2. /\ outcome.end = "exited" /\ outcome.code = code
          /\ outcome.stdout = stdout /\ outcome.stderr = stderr
      BY <3>1 DEF Exited
    <3>3. executed.ok = TRUE /\ executed.result = FormatOutput(outcome)
      BY <2>2, <2>5, <3>2 DEF ExecuteShell, Success
    <3> QED
      BY <2>1, <3>1, <3>2, <3>3
  <2> QED
    BY <2>3, <2>4, <2>5
<1> QED
  BY <1>1, <1>2

\* A result of a command, read by its headers.
LEMMA ResultRead ==
  ASSUME NEW outcome, outcome = Exited(outcome.code, outcome.stdout, outcome.stderr),
         outcome.code \in {Absent, Present(1)}, outcome.stdout \in Outputs, outcome.stderr \in Outputs,
         NEW content, content = FormatOutput(outcome), NEW end, end = EndOf(ErrorHeader, content)
  PROVE  /\ content[1][2] = (IF outcome.code = Absent THEN -1 ELSE 1)
         /\ Shows(SubSeq(content, 3, end - 1), outcome.stdout)
         /\ Shows(SubSeq(content, end + 1, Len(content)), outcome.stderr)
<1>1. PICK stdout : stdout = outcome.stdout
  OBVIOUS
<1>2. PICK stderr : stderr = outcome.stderr
  OBVIOUS
<1>3. PICK code : code = outcome.code
  OBVIOUS
<1> PICK S : S = Range(stdout) \union Range(stderr)
  OBVIOUS
<1>4. stdout \in Seq(Range(stdout)) /\ stderr \in Seq(Range(stderr)) /\ ErrorHeader \notin S
  BY <1>1, <1>2, OutputsAssumption DEF ErrorHeader
<1>5. stdout \in Seq(S) /\ stderr \in Seq(S)
  <2>1. Range(stdout) \subseteq S /\ Range(stderr) \subseteq S
    OBVIOUS
  <2> QED
    BY <1>4, <2>1, SeqMonotonic
<1>6. content = FormatOutput(Exited(code, stdout, stderr))
  BY <1>1, <1>2, <1>3
<1>7. CommandShown(code, stdout, stderr, content, end)
  <2>1. end = EndOf(ErrorHeader, content)
    OBVIOUS
  <2> QED
    BY <1>4, <1>5, <1>6, <2>1, Formatted
<1>8. code # Absent => code[1] = 1
  BY <1>3 DEF Present
<1> QED
  BY <1>1, <1>2, <1>3, <1>7, <1>8 DEF CommandShown

\* A result is of its call, whatever tools there are and whatever is called: the
\* tool loop of the chat client.
THEOREM ResultsAreTrue == PageSpec => []ResultsTrue
<1>1. ResultsTrue
  <2> SUFFICES ASSUME NEW container \in BOOLEAN, NEW calls \in ToolCallsMade,
                      NEW outcomes \in [DOMAIN calls -> ToolOutcomes]
               PROVE  LET ran == RunCalls(container, calls, outcomes, 0)
                          n == Len(ran.results)
                          Ran(i) == calls[i].name = "execute_shell"
                      IN  /\ ran.tried = n + (IF ran.failed THEN 1 ELSE 0)
                          /\ ~ran.failed <=> n = Len(calls)
                          /\ ran.failed /\ Ran(n + 1) =>
                               \/ ~container \/ calls[n + 1].arguments = Absent
                               \/ outcomes[n + 1].end = "late"
                          /\ \A i \in 1 .. n :
                               /\ ran.results[i].id = calls[i].id
                               /\ Ran(i) =>
                                    LET content == ran.results[i].content
                                        ends == {j \in DOMAIN content : content[j] = <<"stderr">>}
                                        end == IF ends = {} THEN Len(content) + 1 ELSE Min(ends)
                                    IN  /\ container /\ outcomes[i].end = "exited"
                                        /\ content[1][2] = (IF outcomes[i].code = Absent THEN -1 ELSE 1)
                                        /\ Shows(SubSeq(content, 3, end - 1), outcomes[i].stdout)
                                        /\ Shows(SubSeq(content, end + 1, Len(content)), outcomes[i].stderr)
    BY DEF ResultsTrue
  <2> DEFINE ran == RunCalls(container, calls, outcomes, 0)
             n == Len(ran.results)
             At(i) == ExecuteTool(container, calls[i], outcomes[i], 0)
  <2>1. /\ Len(calls) \in Nat /\ DOMAIN calls = 1 .. Len(calls)
        /\ \A i \in 1 .. Len(calls) : calls[i].arguments \in {Absent, Present("command")}
    BY OutputsAssumption DEF ToolCallsMade
  <2>2. ToolRan(ran, Len(calls), calls, container, outcomes, 0)
    BY <2>1, CallsRan
  <2> HIDE DEF ran
  <2>3. /\ n \in Nat /\ ran.failed \in BOOLEAN
        /\ ran.failed => ran.tried = n + 1 /\ n + 1 \in 1 .. Len(calls) /\ ~At(n + 1).ok
        /\ ~ran.failed => ran.tried = Len(calls) /\ n = Len(calls)
        /\ \A i \in 1 .. n : At(i).ok /\ ran.results[i] = [id |-> calls[i].id, content |-> At(i).result]
    BY <2>2 DEF ToolRan
  <2>4. ran.tried = n + (IF ran.failed THEN 1 ELSE 0) /\ (~ran.failed <=> n = Len(calls))
    <3>1. CASE ran.failed = TRUE
      BY <2>1, <2>3, <3>1
    <3>2. CASE ran.failed = FALSE
      <4>1. ~ran.failed
        BY <3>2, Zenon
      <4>2. ran.tried = Len(calls) /\ n = Len(calls) /\ n \in Nat
        BY <2>3, <4>1
      <4>3. (IF ran.failed THEN 1 ELSE 0) = 0
        BY <4>1
      <4> HIDE DEF n
      <4>4. n + 0 = n
        BY <4>2
      <4> QED
        BY <4>1, <4>2, <4>3, <4>4
    <3> QED
      BY <2>3, <3>1, <3>2
  <2>5. ASSUME NEW i \in 1 .. Len(calls), calls[i].name = "execute_shell"
        PROVE  /\ ~At(i).ok => ~container \/ calls[i].arguments = Absent \/ outcomes[i].end = "late"
               /\ At(i).ok =>
                    /\ container /\ outcomes[i].end = "exited"
                    /\ At(i).result = FormatOutput(outcomes[i])
                    /\ outcomes[i] = Exited(outcomes[i].code, outcomes[i].stdout, outcomes[i].stderr)
                    /\ outcomes[i].code \in {Absent, Present(1)}
                    /\ outcomes[i].stdout \in Outputs /\ outcomes[i].stderr \in Outputs
    <3>1. PICK call : call = calls[i]
      OBVIOUS
    <3>2. PICK outcome \in ToolOutcomes : outcome = outcomes[i]
      BY <2>1
    <3>3. PICK executed : executed = ExecuteTool(container, call, outcome, 0)
      OBVIOUS
    <3>4. call.name = "execute_shell" /\ call.arguments \in {Absent, Present("command")}
      BY <2>1, <2>5, <3>1
    <3>5. executed = At(i)
      BY <3>1, <3>2, <3>3
    <3> HIDE DEF At
    <3>6. /\ ~executed.ok => ~container \/ call.arguments = Absent \/ outcome.end = "late"
          /\ executed.ok =>
               /\ container /\ outcome.end = "exited"
               /\ executed.result = FormatOutput(outcome)
               /\ outcome = Exited(outcome.code, outcome.stdout, outcome.stderr)
               /\ outcome.code \in {Absent, Present(1)}
               /\ outcome.stdout \in Outputs /\ outcome.stderr \in Outputs
      BY <3>3, <3>4, CommandRan
    <3> QED
      BY <3>1, <3>2, <3>5, <3>6
  <2> HIDE DEF At
  <2>6. ran.failed /\ calls[n + 1].name = "execute_shell" =>
          ~container \/ calls[n + 1].arguments = Absent \/ outcomes[n + 1].end = "late"
    BY <2>3, <2>5
  <2>7. ASSUME NEW i \in 1 .. n
        PROVE  /\ ran.results[i].id = calls[i].id /\ ran.results[i].content = At(i).result
               /\ At(i).ok /\ i \in 1 .. Len(calls)
    <3>1. At(i).ok /\ ran.results[i] = [id |-> calls[i].id, content |-> At(i).result]
      BY <2>3
    <3>2. i \in 1 .. Len(calls)
      <4>1. n \in Nat /\ n <= Len(calls)
        BY <2>1, <2>3
      <4> HIDE DEF n
      <4> QED
        BY <2>1, <4>1
    <3> QED
      BY <3>1, <3>2
  <2>8. ASSUME NEW i \in 1 .. n, calls[i].name = "execute_shell", NEW content,
               content = ran.results[i].content, NEW end, end = EndOf(ErrorHeader, content)
        PROVE  /\ container /\ outcomes[i].end = "exited"
               /\ content[1][2] = (IF outcomes[i].code = Absent THEN -1 ELSE 1)
               /\ Shows(SubSeq(content, 3, end - 1), outcomes[i].stdout)
               /\ Shows(SubSeq(content, end + 1, Len(content)), outcomes[i].stderr)
    <3>1. PICK outcome : outcome = outcomes[i]
      OBVIOUS
    <3>2. /\ container /\ outcome.end = "exited"
          /\ content = FormatOutput(outcome)
          /\ outcome = Exited(outcome.code, outcome.stdout, outcome.stderr)
          /\ outcome.code \in {Absent, Present(1)}
          /\ outcome.stdout \in Outputs /\ outcome.stderr \in Outputs
      BY <2>5, <2>7, <2>8, <3>1
    <3>3. /\ content[1][2] = (IF outcome.code = Absent THEN -1 ELSE 1)
          /\ Shows(SubSeq(content, 3, end - 1), outcome.stdout)
          /\ Shows(SubSeq(content, end + 1, Len(content)), outcome.stderr)
      BY <2>8, <3>2, ResultRead
    <3> QED
      BY <3>1, <3>2, <3>3
  <2> HIDE DEF n
  <2>9. ASSUME NEW i \in 1 .. n, calls[i].name = "execute_shell"
        PROVE  LET content == ran.results[i].content
                   ends == {j \in DOMAIN content : content[j] = <<"stderr">>}
                   end == IF ends = {} THEN Len(content) + 1 ELSE Min(ends)
               IN  /\ container /\ outcomes[i].end = "exited"
                   /\ content[1][2] = (IF outcomes[i].code = Absent THEN -1 ELSE 1)
                   /\ Shows(SubSeq(content, 3, end - 1), outcomes[i].stdout)
                   /\ Shows(SubSeq(content, end + 1, Len(content)), outcomes[i].stderr)
    BY <2>8, <2>9 DEF EndOf, Places, ErrorHeader
  <2> QED
    BY <2>4, <2>6, <2>7, <2>9 DEF n, ran
<1> QED
  BY <1>1, PTL

-----------------------------------------------------------------------------
(* What a worker offers, and what the gateway reads *)

\* What is offered is what is read of the offer.
LEMMA OfferRead ==
  ASSUME NEW inference \in BOOLEAN, NEW whisper \in BOOLEAN, Starts(inference, whisper),
         NEW v, NEW first, NEW second,
         first = (IF "chat" \in Offered(inference, whisper) THEN <<"chat">> ELSE << >>),
         second = (IF "transcription" \in Offered(inference, whisper)
                     THEN <<"transcription">> ELSE << >>),
         v = first \o second
  PROVE  ParseCapabilities(v) = [ok |-> TRUE, capabilities |-> Offered(inference, whisper)]
<1>1. ToSet(v) = Offered(inference, whisper)
  <2>1. CASE inference /\ whisper
    <3>0. Offered(inference, whisper) = {"chat", "transcription"}
      BY <2>1 DEF Offered
    <3>1. first = <<"chat">> /\ second = <<"transcription">>
      BY <3>0
    <3>2. DOMAIN v = {1, 2} /\ v[1] = "chat" /\ v[2] = "transcription"
      <4>1. /\ first \in Seq(Capabilities) /\ second \in Seq(Capabilities)
            /\ Len(first) = 1 /\ Len(second) = 1
        BY <3>1, OneElement DEF Capabilities
      <4>2. Len(v) = 2 /\ v \in Seq(Capabilities) /\ v[1] = first[1] /\ v[2] = second[1]
        BY <4>1, ConcatProperties
      <4>3. DOMAIN v = 1 .. 2
        BY <4>2
      <4> QED
        BY <3>1, <4>2, <4>3
    <3> QED
      BY <3>0, <3>2 DEF ToSet
  <2>2. CASE inference /\ ~whisper
    <3>1. v = <<"chat">> /\ Offered(inference, whisper) = {"chat"}
      BY <2>2 DEF Offered
    <3>2. DOMAIN v = {1} /\ v[1] = "chat"
      BY <3>1
    <3> QED
      BY <3>1, <3>2 DEF ToSet
  <2>3. CASE ~inference /\ whisper
    <3>1. v = <<"transcription">> /\ Offered(inference, whisper) = {"transcription"}
      BY <2>3 DEF Offered
    <3>2. DOMAIN v = {1} /\ v[1] = "transcription"
      BY <3>1
    <3> QED
      BY <3>1, <3>2 DEF ToSet
  <2> QED
    BY <2>1, <2>2, <2>3 DEF Starts
<1>2. /\ Offered(inference, whisper) \subseteq Capabilities /\ Offered(inference, whisper) # {}
      /\ Offered(inference, whisper) \ {""} = Offered(inference, whisper)
  BY DEF Offered, Starts, Capabilities
<1> QED
  BY <1>1, <1>2 DEF ParseCapabilities

\* A pair behind others is read if it is the first that names capabilities.
LEMMA ExtractedOf ==
  ASSUME NEW S, NEW pairs \in Seq(S), NEW v, NEW query,
         query = pairs \o <<Pair("capabilities", v)>>
  PROVE  IF ExtractCapabilitiesParam(pairs) = Absent
           THEN ExtractCapabilitiesParam(query) = Present(v)
           ELSE ExtractCapabilitiesParam(query) = ExtractCapabilitiesParam(pairs)
<1> DEFINE Names(q) == {i \in DOMAIN q : q[i].key = Present("capabilities")}
<1>1. /\ DOMAIN query = 1 .. Len(pairs) + 1 /\ Len(pairs) \in Nat /\ DOMAIN pairs = 1 .. Len(pairs)
      /\ \A i \in 1 .. Len(pairs) : query[i] = pairs[i]
      /\ query[Len(pairs) + 1] = Pair("capabilities", v)
  OBVIOUS
<1>2. query[Len(pairs) + 1].key = Present("capabilities") /\ query[Len(pairs) + 1].value = v
  BY <1>1 DEF Pair
<1>3. Names(query) = Names(pairs) \union {Len(pairs) + 1}
  <2>1. \A i \in DOMAIN query : i \in DOMAIN pairs \/ i = Len(pairs) + 1
    BY <1>1
  <2>2. DOMAIN pairs \subseteq DOMAIN query /\ Len(pairs) + 1 \in DOMAIN query
    BY <1>1
  <2> QED
    BY <1>1, <1>2, <2>1, <2>2
<1>4. \A q : ExtractCapabilitiesParam(q) =
               IF Names(q) = {} THEN Absent ELSE Present(q[Min(Names(q))].value)
  BY DEF ExtractCapabilitiesParam
<1>5. \A x : Present(x) # Absent
  BY DEF Present, Absent
<1>6. Names(pairs) \subseteq 1 .. Len(pairs)
  BY <1>1
<1> HIDE DEF Names
<1>7. CASE Names(pairs) = {}
  <2>1. Min(Names(query)) = Len(pairs) + 1
    <3>1. Names(query) = {Len(pairs) + 1} /\ Len(pairs) + 1 \in Int
      BY <1>1, <1>3, <1>7
    <3>2. /\ Len(pairs) + 1 \in Names(query) /\ Names(query) \subseteq Int
          /\ \A n \in Names(query) : Len(pairs) + 1 <= n
      BY <3>1
    <3> QED
      BY <3>2, MinOf
  <2>2. ExtractCapabilitiesParam(pairs) = Absent
    BY <1>4, <1>7
  <2>3. ExtractCapabilitiesParam(query) = Present(query[Len(pairs) + 1].value)
    BY <1>3, <1>4, <2>1
  <2> QED
    BY <1>2, <2>2, <2>3
<1>8. CASE Names(pairs) # {}
  <2>1. PICK m \in Names(pairs) : \A n \in Names(pairs) : m <= n
    <3>1. Names(pairs) \subseteq Nat
      BY <1>1, <1>6
    <3> QED
      BY <1>8, <3>1, LeastNat
  <2>2. Min(Names(pairs)) = m
    BY <1>1, <1>6, <2>1, MinOf
  <2>3. Min(Names(query)) = m
    <3>1. m \in Names(query) /\ Names(query) \subseteq Int
      BY <1>1, <1>3, <1>6
    <3>2. \A n \in Names(query) : m <= n
      BY <1>1, <1>3, <1>6, <2>1
    <3> QED
      BY <3>1, <3>2, MinOf
  <2>4. query[m] = pairs[m]
    BY <1>1, <1>6
  <2>5. ExtractCapabilitiesParam(pairs) = Present(pairs[m].value)
    BY <1>4, <1>8, <2>2
  <2>6. ExtractCapabilitiesParam(query) = Present(query[m].value)
    BY <1>3, <1>4, <2>3
  <2> QED
    BY <1>5, <2>4, <2>5, <2>6
<1> QED
  BY <1>7, <1>8

\* What is parsed of a list of capabilities is of the list.
LEMMA ParsedOf ==
  ASSUME NEW value, ParseCapabilities(value).ok
  PROVE  /\ ParseCapabilities(value).capabilities \subseteq ToSet(value)
         /\ ParseCapabilities(value).capabilities # {}
<1> DEFINE tokens == ToSet(value) \ {""}
<1>1. ParseCapabilities(value) = [ok |-> TRUE, capabilities |-> tokens] /\ tokens # {}
  BY DEF ParseCapabilities, Refused
<1>2. tokens \subseteq ToSet(value)
  OBVIOUS
<1> HIDE DEF tokens
<1> QED
  BY <1>1, <1>2

\* A worker is registered for what it has a server for, for every URL, unless
\* the URL names capabilities itself.
THEOREM OffersAreKept == PageSpec => []OfferKept
<1>1. OfferKept
  <2> SUFFICES ASSUME NEW inference \in BOOLEAN, NEW whisper \in BOOLEAN, NEW query \in Queries,
                      Starts(inference, whisper)
               PROVE  LET offered == Offered(inference, whisper)
                          upgraded == WorkerWsUpgrade(BuildRequest(query, offered))
                          own == IF query = Absent THEN Absent ELSE ExtractCapabilitiesParam(query[1])
                      IN  /\ own = Absent => upgraded.ok /\ upgraded.capabilities = offered
                          /\ own # Absent /\ upgraded.ok =>
                               upgraded.capabilities \subseteq ToSet(own[1])
                          /\ upgraded.ok => upgraded.capabilities # {}
    BY DEF OfferKept
  <2> DEFINE offered == Offered(inference, whisper)
             first == IF "chat" \in offered THEN <<"chat">> ELSE << >>
             second == IF "transcription" \in offered THEN <<"transcription">> ELSE << >>
             v == first \o second
             pairs == IF query = Absent THEN << >> ELSE query[1]
             asked == pairs \o <<Pair("capabilities", v)>>
             own == IF query = Absent THEN Absent ELSE ExtractCapabilitiesParam(query[1])
  <2>1. BuildRequest(query, offered) = asked
    BY DEF BuildRequest
  <2>2. pairs \in Seq(Range(pairs))
    <3>1. << >> \in Seq(Range(<< >>))
      OBVIOUS
    <3> QED
      BY <3>1, QueriesAssumption
  <2>3. own = ExtractCapabilitiesParam(pairs)
    <3>1. ExtractCapabilitiesParam(<< >>) = Absent
      BY DEF ExtractCapabilitiesParam
    <3> QED
      BY <3>1
  <2>4. ParseCapabilities(v) = [ok |-> TRUE, capabilities |-> offered]
    BY OfferRead
  <2> HIDE DEF v, pairs, own, first, second
  <2>5. IF own = Absent THEN ExtractCapabilitiesParam(asked) = Present(v)
        ELSE ExtractCapabilitiesParam(asked) = own
    BY <2>2, <2>3, ExtractedOf
  <2> HIDE DEF asked, offered
  <2> DEFINE upgraded == WorkerWsUpgrade(asked)
  <2>6. \A x : Present(x) # Absent /\ Present(x)[1] = x
    BY DEF Present, Absent
  <2>7. CASE own = Absent
    <3>1. upgraded = ParseCapabilities(v)
      BY <2>5, <2>6, <2>7 DEF WorkerWsUpgrade
    <3>2. upgraded.ok /\ upgraded.capabilities = offered
      BY <2>4, <3>1
    <3>3. upgraded.ok => upgraded.capabilities # {}
      BY <3>1, ParsedOf
    <3> QED
      BY <2>1, <2>7, <3>2, <3>3 DEF own, offered
  <2>8. CASE own # Absent
    <3>1. upgraded = ParseCapabilities(own[1])
      BY <2>5, <2>8 DEF WorkerWsUpgrade
    <3>2. upgraded.ok => upgraded.capabilities \subseteq ToSet(own[1]) /\ upgraded.capabilities # {}
      BY <3>1, ParsedOf
    <3> QED
      BY <2>1, <2>8, <3>2 DEF own, offered
  <2> QED
    BY <2>7, <2>8
<1> QED
  BY <1>1, PTL

-----------------------------------------------------------------------------
(* Transcriptions *)

\* The greatest of a set of numbers.
LEMMA MaxOf ==
  ASSUME NEW T, NEW m \in T, T \subseteq Int, \A n \in T : n <= m
  PROVE  Max(T) = m
<1>1. \A k \in T : (\A n \in T : k >= n) => k = m
  <2> SUFFICES ASSUME NEW k \in T, \A n \in T : k >= n
               PROVE  k = m
    OBVIOUS
  <2>1. k <= m /\ m <= k /\ k \in Int /\ m \in Int
    OBVIOUS
  <2> QED
    BY <2>1
<1>2. \A n \in T : m >= n
  OBVIOUS
<1> QED
  BY <1>1, <1>2 DEF Max

\* The last value of a name among the first n parts.
LastTo(parts, name, n) ==
  LET at == {i \in 1 .. n : parts[i].name = Present(name) /\ parts[i].value # Absent}
  IN  IF at = {} THEN Absent ELSE parts[Max(at)].value

\* One more part is the last readable one, or it is not.
LEMMA LastStep ==
  ASSUME NEW parts, NEW name, NEW n \in Nat
  PROVE  LastTo(parts, name, n + 1) =
           IF parts[n + 1].name = Present(name) /\ parts[n + 1].value # Absent THEN parts[n + 1].value
           ELSE LastTo(parts, name, n)
<1> DEFINE Is(i) == parts[i].name = Present(name) /\ parts[i].value # Absent
           at(k) == {i \in 1 .. k : Is(i)}
<1> HIDE DEF Is
<1>1. CASE Is(n + 1)
  <2>1. /\ n + 1 \in at(n + 1) /\ at(n + 1) \subseteq Int /\ \A i \in at(n + 1) : i <= n + 1
    BY <1>1
  <2>2. Max(at(n + 1)) = n + 1 /\ at(n + 1) # {}
    <3> HIDE DEF at
    <3> QED
      BY <2>1, MaxOf
  <2> QED
    BY <1>1, <2>2 DEF LastTo, Is
<1>2. CASE ~Is(n + 1)
  <2>1. 1 .. n + 1 = (1 .. n) \union {n + 1}
    OBVIOUS
  <2>2. at(n + 1) = at(n)
    BY <1>2, <2>1
  <2> QED
    BY <1>2, <2>2 DEF LastTo, Is
<1> QED
  BY <1>1, <1>2

\* The form after the first n parts.
FormFields ==
  {"refused", "file", "file_name", "model", "language", "prompt", "response_format", "temperature"}

\* A form after the first n parts.
FormRead(form, parts, n) ==
  /\ DOMAIN form = FormFields /\ form = [x \in FormFields |-> form[x]]
  /\ form.refused \in BOOLEAN
  /\ ~form.refused =>
       /\ form.file = LastTo(parts, "file", n)
       /\ \A name \in TextFields : form[name] = LastTo(parts, name, n)
       /\ LET last == LastTo(parts, "temperature", n)
          IN  form.temperature = IF last = Absent THEN Absent ELSE ParseNumber(last[1])

\* It is so of no parts.
LEMMA FormStart ==
  ASSUME NEW parts
  PROVE  FormRead(NewForm, parts, 0)
<1>1. \A name : LastTo(parts, name, 0) = Absent
  BY DEF LastTo
<1> QED
  BY <1>1 DEF FormRead, NewForm, FormFields, TextFields

\* And of one part more.
LEMMA FormStep ==
  ASSUME NEW parts, NEW n \in Nat, NEW part, part = parts[n + 1], NEW form, FormRead(form, parts, n),
         part.name = Absent \/ part.name = Present(part.name[1])
  PROVE  FormRead(ReadField(form, part), parts, n + 1)
<1>1. \A x : Present(x) # Absent /\ Present(x)[1] = x
  BY DEF Present, Absent
<1>2. \A name : LastTo(parts, name, n + 1) =
                  IF part.name = Present(name) /\ part.value # Absent THEN part.value
                  ELSE LastTo(parts, name, n)
  BY LastStep
<1> DEFINE nm == part.name[1]
           next == ReadField(form, part)
           Known(name) == LastTo(parts, name, n)
           After(name) == LastTo(parts, name, n + 1)
<1>3. /\ DOMAIN form = FormFields /\ form = [x \in FormFields |-> form[x]]
      /\ form.refused \in BOOLEAN
      /\ ~form.refused =>
           /\ form.file = Known("file")
           /\ \A name \in TextFields : form[name] = Known(name)
           /\ form.temperature = IF Known("temperature") = Absent THEN Absent
                                 ELSE ParseNumber(Known("temperature")[1])
  BY DEF FormRead
<1>4. \A name : /\ part.name = Absent \/ part.value = Absent \/ nm # name => After(name) = Known(name)
                /\ part.name # Absent /\ part.value # Absent /\ nm = name => After(name) = part.value
  BY <1>1, <1>2
<1> HIDE DEF Known, After
<1>11. ASSUME NEW f, DOMAIN f = FormFields, f = [x \in FormFields |-> f[x]], f.refused = form.refused,
              ~form.refused => f.file = After("file"),
              ~form.refused => \A name \in TextFields : f[name] = After(name),
              ~form.refused => f.temperature = IF After("temperature") = Absent THEN Absent
                                               ELSE ParseNumber(After("temperature")[1])
       PROVE  FormRead(f, parts, n + 1)
  BY <1>3, <1>11 DEF FormRead, After
<1>5. ASSUME next = form,
             form.refused \/ \A name \in TextFields \union {"file", "temperature"} :
                                After(name) = Known(name)
      PROVE  FormRead(next, parts, n + 1)
  BY <1>3, <1>5 DEF FormRead, After
<1>6. CASE form.refused \/ part.name = Absent
  <2>1. next = form
    BY <1>6 DEF ReadField
  <2> QED
    BY <1>4, <1>5, <1>6, <2>1
<1>7. CASE ~form.refused /\ part.name # Absent /\ nm = "file"
  <2>1. CASE part.value \in {Absent, Present("large")}
    <3>1. next = [form EXCEPT !.refused = TRUE]
      BY <1>7, <2>1 DEF ReadField, TextFields
    <3>2. DOMAIN next = FormFields /\ next.refused /\ next = [x \in FormFields |-> next[x]]
      BY <1>3, <3>1 DEF FormFields
    <3> QED
      BY <3>2 DEF FormRead
  <2>2. CASE part.value \notin {Absent, Present("large")}
    <3>1. PICK named : next = [form EXCEPT !.file = part.value, !.file_name = named]
      BY <1>7, <2>2 DEF ReadField, TextFields
    <3>2. /\ DOMAIN next = FormFields /\ next.refused = form.refused /\ next.file = part.value
          /\ \A name \in TextFields : next[name] = form[name]
          /\ next.temperature = form.temperature
          /\ next = [x \in FormFields |-> next[x]]
      BY <1>3, <3>1 DEF FormFields, TextFields
    <3>3. /\ After("file") = part.value /\ After("temperature") = Known("temperature")
          /\ \A name \in TextFields : After(name) = Known(name)
      BY <1>4, <1>7, <2>2 DEF TextFields
    <3>4. PICK f : f = next
      OBVIOUS
    <3> HIDE DEF next
    <3>5. FormRead(f, parts, n + 1)
      BY <1>3, <1>7, <1>11, <3>2, <3>3, <3>4
    <3> QED
      BY <3>4, <3>5 DEF next
  <2> QED
    BY <2>1, <2>2
<1>8. CASE ~form.refused /\ part.name # Absent /\ nm \in TextFields /\ part.value # Absent
  <2>1. nm # "file" /\ nm # "temperature" /\ nm \in FormFields
    BY <1>8 DEF TextFields, FormFields
  <2>2. next = [form EXCEPT ![nm] = part.value]
    BY <1>8, <2>1 DEF ReadField
  <2>3. /\ DOMAIN next = FormFields /\ next = [x \in FormFields |-> next[x]]
        /\ next.refused = form.refused /\ next.file = form.file /\ next.temperature = form.temperature
        /\ \A name \in TextFields : next[name] = IF name = nm THEN part.value ELSE form[name]
    BY <1>3, <1>8, <2>1, <2>2 DEF FormFields, TextFields
  <2>4. /\ After("file") = Known("file") /\ After("temperature") = Known("temperature")
        /\ \A name \in TextFields : After(name) = IF name = nm THEN part.value ELSE Known(name)
    BY <1>4, <1>8, <2>1
  <2>5. PICK f : f = next
    OBVIOUS
  <2> HIDE DEF next
  <2>6. FormRead(f, parts, n + 1)
    BY <1>3, <1>8, <2>3, <2>4, <1>11, <2>5
  <2> QED
    BY <2>5, <2>6 DEF next
<1>9. CASE ~form.refused /\ part.name # Absent /\ nm = "temperature" /\ part.value # Absent
  <2>1. next = [form EXCEPT !.temperature = ParseNumber(part.value[1])]
    BY <1>9 DEF ReadField, TextFields
  <2>2. /\ DOMAIN next = FormFields /\ next = [x \in FormFields |-> next[x]]
        /\ next.refused = form.refused /\ next.file = form.file
        /\ next.temperature = ParseNumber(part.value[1])
        /\ \A name \in TextFields : next[name] = form[name]
    BY <1>3, <2>1 DEF FormFields, TextFields
  <2>3. /\ After("file") = Known("file") /\ After("temperature") = part.value
        /\ \A name \in TextFields : After(name) = Known(name)
    BY <1>4, <1>9 DEF TextFields
  <2>5. PICK f : f = next
    OBVIOUS
  <2> HIDE DEF next
  <2>6. FormRead(f, parts, n + 1)
    BY <1>3, <1>9, <2>2, <2>3, <1>11, <2>5
  <2> QED
    BY <2>5, <2>6 DEF next
<1>10. CASE /\ ~form.refused /\ part.name # Absent /\ nm # "file"
            /\ nm \notin TextFields \union {"temperature"} \/ part.value = Absent
  <2>1. next = form
    BY <1>10 DEF ReadField
  <2>2. \A name \in TextFields \union {"file", "temperature"} : After(name) = Known(name)
    BY <1>4, <1>10
  <2> QED
    BY <1>5, <2>1, <2>2
<1> QED
  BY <1>6, <1>7, <1>8, <1>9, <1>10 DEF next

\* The parts are read one after the other.
LEMMA FormSteps ==
  ASSUME NEW parts, Len(parts) \in Nat
  PROVE  \E read : /\ read[0] = NewForm /\ ReadForm(parts) = read[Len(parts)]
                   /\ \A k \in 1 .. Len(parts) : read[k] = ReadField(read[k - 1], parts[k])
<1> DEFINE N == Len(parts)
           Reads(f, n) == f = [k \in 0 .. n |-> IF k = 0 THEN NewForm ELSE ReadField(f[k - 1], parts[k])]
           read == CHOOSE f : Reads(f, N)
<1>1. ReadForm(parts) = read[N]
  BY DEF ReadForm
<1>2. \A n \in 0 .. N : \E f : Reads(f, n)
  <2> DEFINE bad == {n \in 0 .. N : ~(\E f : Reads(f, n))}
  <2> SUFFICES ASSUME bad # {}
               PROVE  FALSE
    OBVIOUS
  <2>1. bad \subseteq Nat
    OBVIOUS
  <2> HIDE DEF bad
  <2>2. PICK m \in bad : \A n \in bad : m <= n
    BY <2>1, LeastNat
  <2>3. m \in 0 .. N /\ ~(\E f : Reads(f, m))
    BY <2>2 DEF bad
  <2>4. m # 0
    <3>1. Reads([k \in 0 .. 0 |-> NewForm], 0)
      OBVIOUS
    <3> QED
      BY <2>3, <3>1
  <2>5. m - 1 \in 0 .. N /\ m - 1 \notin bad /\ m \in Nat
    BY <2>2, <2>3, <2>4
  <2>6. PICK g : Reads(g, m - 1)
    BY <2>5 DEF bad
  <2> DEFINE f == [k \in 0 .. m |-> IF k = m THEN ReadField(g[m - 1], parts[m]) ELSE g[k]]
  <2>7. \A k \in 0 .. m - 1 :
          /\ g[k] = (IF k = 0 THEN NewForm ELSE ReadField(g[k - 1], parts[k]))
          /\ k \in 0 .. m /\ k # m
    BY <2>5, <2>6
  <2>8. f[m] = ReadField(g[m - 1], parts[m]) /\ \A k \in 0 .. m - 1 : f[k] = g[k]
    BY <2>5, <2>7
  <2>9. \A k \in 0 .. m : f[k] = IF k = 0 THEN NewForm ELSE ReadField(f[k - 1], parts[k])
    <3> HIDE DEF f
    <3> SUFFICES ASSUME NEW k \in 0 .. m
                 PROVE  f[k] = IF k = 0 THEN NewForm ELSE ReadField(f[k - 1], parts[k])
      OBVIOUS
    <3>1. k = m \/ k \in 0 .. m - 1
      BY <2>5
    <3>2. k # 0 => k - 1 \in 0 .. m - 1
      BY <2>5
    <3> QED
      BY <2>4, <2>7, <2>8, <3>1, <3>2
  <2>10. Reads(f, m)
    <3>1. f = [k \in 0 .. m |-> f[k]]
      OBVIOUS
    <3> HIDE DEF f
    <3> QED
      BY <2>9, <3>1
  <2> QED
    BY <2>3, <2>10
<1>3. Reads(read, N)
  <2>1. \E f : Reads(f, N)
    BY <1>2
  <2> HIDE DEF Reads
  <2> QED
    BY <2>1
<1> HIDE DEF read
<1>4. read[0] = NewForm /\ \A k \in 1 .. N : read[k] = ReadField(read[k - 1], parts[k])
  <2>1. \A k \in 0 .. N : read[k] = IF k = 0 THEN NewForm ELSE ReadField(read[k - 1], parts[k])
    BY <1>3
  <2> QED
    BY <2>1
<1> QED
  BY <1>1, <1>4

\* So it is so of all of them.
LEMMA FormIs ==
  ASSUME NEW parts, Len(parts) \in Nat,
         \A i \in 1 .. Len(parts) : parts[i].name = Absent \/ parts[i].name = Present(parts[i].name[1])
  PROVE  FormRead(ReadForm(parts), parts, Len(parts))
<1> DEFINE N == Len(parts)
<1>1. PICK read : /\ read[0] = NewForm /\ ReadForm(parts) = read[N]
                  /\ \A k \in 1 .. N : read[k] = ReadField(read[k - 1], parts[k])
  BY FormSteps
<1> DEFINE bad == {n \in 0 .. N : ~FormRead(read[n], parts, n)}
<1>2. bad = {}
  <2> SUFFICES ASSUME bad # {}
               PROVE  FALSE
    OBVIOUS
  <2>1. bad \subseteq Nat
    OBVIOUS
  <2> HIDE DEF bad
  <2>2. PICK m \in bad : \A n \in bad : m <= n
    BY <2>1, LeastNat
  <2>3. m \in 0 .. N /\ ~FormRead(read[m], parts, m)
    BY <2>2 DEF bad
  <2>4. m # 0
    BY <1>1, <2>3, FormStart
  <2>5. m - 1 \in 0 .. N /\ m - 1 \notin bad /\ m \in 1 .. N /\ m - 1 \in Nat /\ (m - 1) + 1 = m
    BY <2>2, <2>3, <2>4
  <2>6. PICK k \in Nat : k = m - 1
    BY <2>5
  <2>7. PICK form : form = read[k]
    OBVIOUS
  <2>8. PICK part : part = parts[k + 1]
    OBVIOUS
  <2>9. FormRead(form, parts, k) /\ k + 1 = m
    BY <2>5, <2>6, <2>7 DEF bad
  <2>10. part.name = Absent \/ part.name = Present(part.name[1])
    BY <2>5, <2>8, <2>9
  <2>11. FormRead(ReadField(form, part), parts, k + 1)
    BY <2>8, <2>9, <2>10, FormStep
  <2>12. read[m] = ReadField(form, part)
    BY <1>1, <2>5, <2>6, <2>7, <2>8, <2>9
  <2> QED
    BY <2>3, <2>9, <2>11, <2>12
<1>3. N \in 0 .. N
  OBVIOUS
<1> QED
  BY <1>1, <1>2, <1>3

\* A set of positions that is not empty has a greatest one.
LEMMA GreatestIn ==
  ASSUME NEW n \in Nat, NEW T, T \subseteq 1 .. n, T # {}
  PROVE  Max(T) \in T /\ \A k \in T : k <= Max(T)
<1> DEFINE D == {n - i : i \in T}
<1>1. D \subseteq Nat /\ D # {}
  OBVIOUS
<1>2. PICK d \in D : \A e \in D : d <= e
  BY <1>1, LeastNat
<1>3. PICK m \in T : d = n - m
  OBVIOUS
<1>4. \A k \in T : k <= m
  <2> SUFFICES ASSUME NEW k \in T
               PROVE  k <= m
    OBVIOUS
  <2>1. n - k \in D
    OBVIOUS
  <2>2. d <= n - k /\ k \in Int /\ m \in Int
    BY <1>2, <2>1
  <2> QED
    BY <1>3, <2>2
<1>5. T \subseteq Int
  OBVIOUS
<1>6. Max(T) = m
  BY <1>4, <1>5, MaxOf
<1> QED
  BY <1>3, <1>4, <1>6

\* A last value is one of the values.
LEMMA LastIs ==
  ASSUME NEW parts, NEW n \in Nat, NEW name, \A i \in 1 .. n : parts[i] \in Parts,
         NEW last, last = LastTo(parts, name, n)
  PROVE  last = Absent \/ (last = Present(last[1]) /\ last # Present("null"))
<1> DEFINE at == {i \in 1 .. n : parts[i].name = Present(name) /\ parts[i].value # Absent}
<1>1. CASE at = {}
  BY <1>1 DEF LastTo
<1>2. CASE at # {}
  <2>1. at \subseteq 1 .. n
    OBVIOUS
  <2>2. last = parts[Max(at)].value
    BY <1>2 DEF LastTo
  <2> HIDE DEF at
  <2>3. Max(at) \in at
    BY <1>2, <2>1, GreatestIn
  <2>4. PICK part \in Parts : part = parts[Max(at)]
    BY <2>1, <2>3
  <2>5. last = part.value
    BY <2>2, <2>4
  <2> QED
    BY <2>5, PartsAssumption
<1> QED
  BY <1>1, <1>2

\* What is found in a form that has one more field, or has not.
Option(nm, value) == IF value = Absent THEN << >> ELSE <<[name |-> nm, value |-> value[1]]>>

\* A field that is added is read back, and the others are as they were.
LEMMA FieldAdded ==
  ASSUME NEW S, NEW s \in Seq(S), NEW nm, NEW value, NEW opt, opt = Option(nm, value), opt \in Seq(S)
  PROVE  /\ s \o opt \in Seq(S)
         /\ \A name : FieldOf(s \o opt, name) =
                        IF name = nm /\ value # Absent THEN Present(value[1]) ELSE FieldOf(s, name)
<1>1. CASE value = Absent
  <2>1. opt = << >>
    BY <1>1 DEF Option
  <2>2. s \o opt = s
    BY <2>1, ConcatEmptySeq
  <2> QED
    BY <1>1, <2>2
<1>2. CASE value # Absent
  <2> DEFINE field == [name |-> nm, value |-> value[1]]
             w == s \o opt
  <2>1. opt = <<field>> /\ field.name = nm /\ field.value = value[1]
    BY <1>2 DEF Option
  <2> HIDE DEF field
  <2>2. Joins(S, s, opt, w)
    BY TwoParts
  <2>3. Len(opt) = 1 /\ opt[1] = field
    BY <2>1
  <2>4. /\ w \in Seq(S) /\ Len(s) \in Nat /\ DOMAIN w = 1 .. Len(s) + 1 /\ DOMAIN s = 1 .. Len(s)
        /\ \A i \in 1 .. Len(s) : w[i] = s[i]
        /\ w[Len(s) + 1] = field
    BY <2>2, <2>3 DEF Joins
  <2> HIDE DEF w
  <2>5. ASSUME NEW name
        PROVE  FieldOf(w, name) = IF name = nm THEN Present(value[1]) ELSE FieldOf(s, name)
    <3> DEFINE at(x) == {i \in DOMAIN x : x[i].name = name}
    <3>1. CASE name = nm
      <4>1. Len(s) + 1 \in at(w) /\ at(w) \subseteq Int /\ \A i \in at(w) : i <= Len(s) + 1
        BY <2>1, <2>4, <3>1
      <4>2. Max(at(w)) = Len(s) + 1 /\ at(w) # {}
        <5> HIDE DEF at
        <5> QED
          BY <4>1, MaxOf
      <4> QED
        BY <2>1, <2>4, <3>1, <4>2 DEF FieldOf
    <3>2. CASE name # nm
      <4>1. at(w) = at(s)
        <5>1. 1 .. Len(s) + 1 = (1 .. Len(s)) \union {Len(s) + 1}
          BY <2>4
        <5> QED
          BY <2>1, <2>4, <3>2, <5>1
      <4>2. CASE at(s) = {}
        BY <3>2, <4>1, <4>2 DEF FieldOf
      <4>3. CASE at(s) # {}
        <5>1. Max(at(s)) \in at(s)
          <6>1. at(s) \subseteq 1 .. Len(s)
            BY <2>4
          <6> HIDE DEF at
          <6> QED
            BY <2>4, <4>3, <6>1, GreatestIn
        <5>2. w[Max(at(s))] = s[Max(at(s))]
          BY <2>4, <5>1
        <5> QED
          BY <3>2, <4>1, <4>3, <5>2 DEF FieldOf
      <4> QED
        BY <4>2, <4>3
    <3> QED
      BY <3>1, <3>2
  <2> QED
    BY <1>2, <2>4, <2>5 DEF w
<1> QED
  BY <1>1, <1>2

\* What the whisper server is asked.
LEMMA WhisperGets ==
  ASSUME NEW asked, NEW form, form = WhisperForm(asked)
  PROVE  /\ FieldOf(form, "file") = Present(<<asked.audio, asked.file_name, asked.mime_type>>)
         /\ FieldOf(form, "model") = Present(asked.model)
         /\ FieldOf(form, "language") =
              IF asked.language = Absent THEN Absent ELSE Present(asked.language[1])
         /\ FieldOf(form, "prompt") = IF asked.prompt = Absent THEN Absent ELSE Present(asked.prompt[1])
         /\ FieldOf(form, "response_format") =
              IF asked.response_format = Absent THEN Absent ELSE Present(asked.response_format[1])
         /\ FieldOf(form, "temperature") =
              IF asked.temperature = Absent THEN Absent ELSE Present(asked.temperature[1])
<1> DEFINE sound == <<asked.audio, asked.file_name, asked.mime_type>>
           first == [name |-> "file", value |-> sound]
           second == [name |-> "model", value |-> asked.model]
           f1 == [name |-> "language", value |-> asked.language[1]]
           f2 == [name |-> "prompt", value |-> asked.prompt[1]]
           f3 == [name |-> "response_format", value |-> asked.response_format[1]]
           f4 == [name |-> "temperature", value |-> asked.temperature[1]]
           S == {first, second, f1, f2, f3, f4}
<1>2. PICK s0 : s0 = <<first, second>>
  OBVIOUS
<1>3. PICK o1 : o1 = Option("language", asked.language)
  OBVIOUS
<1>4. PICK o2 : o2 = Option("prompt", asked.prompt)
  OBVIOUS
<1>5. PICK o3 : o3 = Option("response_format", asked.response_format)
  OBVIOUS
<1>6. PICK o4 : o4 = Option("temperature", asked.temperature)
  OBVIOUS
<1>7. form = (((s0 \o o1) \o o2) \o o3) \o o4
  BY <1>2, <1>3, <1>4, <1>5, <1>6 DEF WhisperForm, Option
<1>8. o1 \in Seq(S) /\ o2 \in Seq(S) /\ o3 \in Seq(S) /\ o4 \in Seq(S)
  <2>1. << >> \in Seq(S) /\ \A x \in S : <<x>> \in Seq(S)
    OBVIOUS
  <2>2. f1 \in S /\ f2 \in S /\ f3 \in S /\ f4 \in S
    OBVIOUS
  <2>3. /\ o1 = (IF asked.language = Absent THEN << >> ELSE <<f1>>)
        /\ o2 = (IF asked.prompt = Absent THEN << >> ELSE <<f2>>)
        /\ o3 = (IF asked.response_format = Absent THEN << >> ELSE <<f3>>)
        /\ o4 = (IF asked.temperature = Absent THEN << >> ELSE <<f4>>)
    BY <1>3, <1>4, <1>5, <1>6 DEF Option
  <2> HIDE DEF S, f1, f2, f3, f4
  <2> QED
    BY <2>1, <2>2, <2>3
<1>9. s0 \in Seq(S) /\ Len(s0) = 2 /\ s0[1] = first /\ s0[2] = second
  <2>1. first \in S /\ second \in S
    OBVIOUS
  <2> HIDE DEF S, first, second
  <2> QED
    BY <1>2, <2>1
<1>10. first.name = "file" /\ first.value = sound /\ second.name = "model" /\ second.value = asked.model
  OBVIOUS
<1> HIDE DEF first, second, sound, S
<1>11. /\ FieldOf(s0, "file") = Present(sound) /\ FieldOf(s0, "model") = Present(asked.model)
       /\ \A name : name \notin {"file", "model"} => FieldOf(s0, name) = Absent
  <2> DEFINE at(name) == {i \in DOMAIN s0 : s0[i].name = name}
  <2>1. DOMAIN s0 = {1, 2}
    BY <1>9
  <2>2. at("file") = {1} /\ at("model") = {2} /\ \A name : name \notin {"file", "model"} => at(name) = {}
    BY <1>9, <1>10, <2>1
  <2>3. Max({1}) = 1 /\ Max({2}) = 2
    BY MaxOf
  <2> QED
    BY <1>9, <1>10, <2>2, <2>3 DEF FieldOf
<1>12. PICK s1 : s1 = s0 \o o1
  OBVIOUS
<1>13. /\ s1 \in Seq(S)
       /\ \A name : FieldOf(s1, name) =
                      IF name = "language" /\ asked.language # Absent THEN Present(asked.language[1])
                      ELSE FieldOf(s0, name)
  BY <1>3, <1>8, <1>9, <1>12, FieldAdded
<1>14. PICK s2 : s2 = s1 \o o2
  OBVIOUS
<1>15. /\ s2 \in Seq(S)
       /\ \A name : FieldOf(s2, name) =
                      IF name = "prompt" /\ asked.prompt # Absent THEN Present(asked.prompt[1])
                      ELSE FieldOf(s1, name)
  BY <1>4, <1>8, <1>13, <1>14, FieldAdded
<1>16. PICK s3 : s3 = s2 \o o3
  OBVIOUS
<1>17. /\ s3 \in Seq(S)
       /\ \A name : FieldOf(s3, name) =
                      IF name = "response_format" /\ asked.response_format # Absent
                        THEN Present(asked.response_format[1])
                      ELSE FieldOf(s2, name)
  BY <1>5, <1>8, <1>15, <1>16, FieldAdded
<1>18. PICK s4 : s4 = s3 \o o4
  OBVIOUS
<1>19. /\ s4 \in Seq(S)
       /\ \A name : FieldOf(s4, name) =
                      IF name = "temperature" /\ asked.temperature # Absent
                        THEN Present(asked.temperature[1])
                      ELSE FieldOf(s3, name)
  BY <1>6, <1>8, <1>17, <1>18, FieldAdded
<1>20. form = s4
  BY <1>7, <1>12, <1>14, <1>16, <1>18
<1>21. \A name : name \notin {"temperature", "response_format", "prompt", "language"} =>
                   FieldOf(form, name) = FieldOf(s0, name)
  BY <1>13, <1>15, <1>17, <1>19, <1>20
<1>22. FieldOf(form, "file") = Present(sound) /\ FieldOf(form, "model") = Present(asked.model)
  BY <1>11, <1>21
<1>23. FieldOf(s0, "language") = Absent /\ FieldOf(s0, "prompt") = Absent
       /\ FieldOf(s0, "response_format") = Absent /\ FieldOf(s0, "temperature") = Absent
  BY <1>11
<1>24. FieldOf(form, "language") = IF asked.language = Absent THEN Absent ELSE Present(asked.language[1])
  BY <1>13, <1>15, <1>17, <1>19, <1>20, <1>23
<1>25. FieldOf(form, "prompt") = IF asked.prompt = Absent THEN Absent ELSE Present(asked.prompt[1])
  BY <1>13, <1>15, <1>17, <1>19, <1>20, <1>23
<1>26. FieldOf(form, "response_format") =
         IF asked.response_format = Absent THEN Absent ELSE Present(asked.response_format[1])
  BY <1>13, <1>15, <1>17, <1>19, <1>20, <1>23
<1>27. FieldOf(form, "temperature") =
         IF asked.temperature = Absent THEN Absent ELSE Present(asked.temperature[1])
  BY <1>13, <1>15, <1>17, <1>19, <1>20, <1>23
<1> QED
  BY <1>22, <1>24, <1>25, <1>26, <1>27 DEF sound

\* parse_request, field by field.
LEMMA RequestOf ==
  ASSUME NEW payload, NEW asked, asked = ParseRequest(payload)
  PROVE  /\ asked.ok <=> payload.audio_base64 # Present("")
         /\ asked.audio = payload.audio_base64[1] /\ asked.model = payload.model[1]
         /\ asked.language = payload.language /\ asked.prompt = payload.prompt
         /\ asked.response_format = payload.response_format
         /\ asked.temperature = IF payload.temperature = Present("null") THEN Absent
                                ELSE payload.temperature
BY DEF ParseRequest

\* A request is what the last readable parts of a form say.
AsksFor(parts, asked, got) ==
  /\ asked.ok <=> LastOf(parts, "file") # Present("")
  /\ LastOf(parts, "file") # Absent
  /\ FieldOf(got, "file")[1][1] = LastOf(parts, "file")[1]
  /\ \A name \in DOMAIN Asked(parts) : FieldOf(got, name) = Asked(parts)[name]

\* The whisper server is asked what the form says.
LEMMA AskedIs ==
  ASSUME NEW parts \in Forms, NEW form, form = ReadForm(parts), Accepted(form),
         NEW asked, asked = ParseRequest(PayloadOf(form)), NEW got, got = WhisperForm(asked)
  PROVE  AsksFor(parts, asked, got)
<1> DEFINE N == Len(parts)
           last(name) == LastOf(parts, name)
<1>1. N \in Nat /\ DOMAIN parts = 1 .. N /\ \A i \in 1 .. N : parts[i] \in Parts
  BY PartsAssumption DEF Forms
<1>2. \A name : last(name) = LastTo(parts, name, N)
  BY <1>1 DEF LastOf, LastTo
<1>3. FormRead(form, parts, N)
  <2>1. \A i \in 1 .. N : parts[i].name = Absent \/ parts[i].name = Present(parts[i].name[1])
    BY <1>1, PartsAssumption
  <2> QED
    BY <1>1, <2>1, FormIs
<1>4. \A name : last(name) = Absent \/ (last(name) = Present(last(name)[1]) /\ last(name) # Present("null"))
  <2> SUFFICES ASSUME NEW name
               PROVE  last(name) = Absent \/ (last(name) = Present(last(name)[1]) /\ last(name) # Present("null"))
    OBVIOUS
  <2>1. PICK it : it = LastTo(parts, name, N)
    OBVIOUS
  <2>2. it = Absent \/ (it = Present(it[1]) /\ it # Present("null"))
    BY <1>1, <2>1, LastIs
  <2> QED
    BY <1>2, <2>1, <2>2
<1> HIDE DEF last
<1>5. /\ form.file = last("file") /\ form.file # Absent
      /\ form.model = last("model") /\ form.model # Absent
      /\ form.language = last("language") /\ form.prompt = last("prompt")
      /\ form.response_format = last("response_format")
      /\ form.temperature = IF last("temperature") = Absent THEN Absent
                            ELSE ParseNumber(last("temperature")[1])
  BY <1>2, <1>3 DEF FormRead, Accepted, TextFields
<1>6. \A x : Present(x) # Absent /\ Present(x)[1] = x
  BY DEF Present, Absent
<1>7. PICK payload : payload = PayloadOf(form)
  OBVIOUS
<1>8. /\ payload.audio_base64 = form.file /\ payload.model = form.model
      /\ payload.language = form.language /\ payload.prompt = form.prompt
      /\ payload.response_format = form.response_format
      /\ payload.temperature = IF form.temperature = Present("NaN") THEN Present("null")
                               ELSE form.temperature
  BY <1>7 DEF PayloadOf
<1>9. asked = ParseRequest(payload)
  BY <1>7
<1>17. asked.ok <=> payload.audio_base64 # Present("")
  BY <1>9, RequestOf
<1>10. /\ asked.audio = payload.audio_base64[1] /\ asked.model = payload.model[1]
       /\ asked.language = payload.language /\ asked.prompt = payload.prompt
       /\ asked.response_format = payload.response_format
       /\ asked.temperature = IF payload.temperature = Present("null") THEN Absent
                              ELSE payload.temperature
  BY <1>9, RequestOf
<1>11. asked.temperature = IF last("temperature") \in {Present("word"), Present("NaN")} THEN Absent
                           ELSE last("temperature")
  <2>1. CASE last("temperature") = Absent
    BY <1>5, <1>6, <1>8, <1>10, <2>1
  <2>2. CASE last("temperature") # Absent
    <3>1. PICK v : v = last("temperature")[1]
      OBVIOUS
    <3>2. last("temperature") = Present(v) /\ Present(v) # Present("null")
      BY <1>4, <2>2, <3>1
    <3>3. form.temperature = IF v = "word" THEN Absent ELSE Present(v)
      BY <1>5, <2>2, <3>1 DEF ParseNumber
    <3>4. \A x : Present(v) = Present(x) <=> v = x
      BY <1>6
    <3>5. CASE v = "word"
      <4>1. form.temperature = Absent /\ last("temperature") = Present("word")
        BY <3>2, <3>3, <3>5
      <4> QED
        BY <1>6, <1>8, <1>10, <4>1
    <3>6. CASE v # "word"
      <4>1. form.temperature = Present(v) /\ Present(v) # Present("word")
        BY <3>3, <3>4, <3>6
      <4> QED
        BY <1>6, <1>8, <1>10, <3>2, <4>1
    <3> QED
      BY <3>5, <3>6
  <2> QED
    BY <2>1, <2>2
<1>12. asked.ok <=> last("file") # Present("")
  BY <1>5, <1>8, <1>17
<1>13. /\ FieldOf(got, "file") = Present(<<asked.audio, asked.file_name, asked.mime_type>>)
       /\ FieldOf(got, "model") = Present(asked.model)
       /\ FieldOf(got, "language") =
            IF asked.language = Absent THEN Absent ELSE Present(asked.language[1])
       /\ FieldOf(got, "prompt") = IF asked.prompt = Absent THEN Absent ELSE Present(asked.prompt[1])
       /\ FieldOf(got, "response_format") =
            IF asked.response_format = Absent THEN Absent ELSE Present(asked.response_format[1])
       /\ FieldOf(got, "temperature") =
            IF asked.temperature = Absent THEN Absent ELSE Present(asked.temperature[1])
  BY WhisperGets
<1>14. FieldOf(got, "file")[1][1] = last("file")[1]
  <2>1. FieldOf(got, "file")[1] = <<asked.audio, asked.file_name, asked.mime_type>>
    BY <1>6, <1>13
  <2>2. FieldOf(got, "file")[1][1] = asked.audio
    BY <2>1
  <2> QED
    BY <1>5, <1>8, <1>10, <2>2
<1>15. ASSUME NEW name \in TextFields \union {"temperature"}
       PROVE  FieldOf(got, name) = IF name = "temperature" /\ last(name) \in {Present("word"), Present("NaN")}
                                     THEN Absent ELSE last(name)
  <2>1. CASE name = "model"
    <3>1. asked.model = last("model")[1] /\ last("model") # Absent
      BY <1>5, <1>8, <1>10
    <3>2. FieldOf(got, "model") = last("model")
      BY <1>4, <1>13, <3>1
    <3> QED
      BY <2>1, <3>2
  <2>2. CASE name = "language"
    <3>1. asked.language = last("language")
      BY <1>5, <1>8, <1>10
    <3>2. FieldOf(got, "language") = last("language")
      BY <1>4, <1>13, <3>1
    <3> QED
      BY <2>2, <3>2
  <2>3. CASE name = "prompt"
    <3>1. asked.prompt = last("prompt")
      BY <1>5, <1>8, <1>10
    <3>2. FieldOf(got, "prompt") = last("prompt")
      BY <1>4, <1>13, <3>1
    <3> QED
      BY <2>3, <3>2
  <2>4. CASE name = "response_format"
    <3>1. asked.response_format = last("response_format")
      BY <1>5, <1>8, <1>10
    <3>2. FieldOf(got, "response_format") = last("response_format")
      BY <1>4, <1>13, <3>1
    <3> QED
      BY <2>4, <3>2
  <2>5. CASE name = "temperature"
    BY <1>4, <1>11, <1>13, <2>5
  <2> QED
    BY <2>1, <2>2, <2>3, <2>4, <2>5 DEF TextFields
<1>16. \A name \in DOMAIN Asked(parts) : FieldOf(got, name) = Asked(parts)[name]
  BY <1>15 DEF Asked, last
<1> QED
  BY <1>5, <1>12, <1>14, <1>16 DEF last, AsksFor

\* What is responded to the frames that came.
LEMMA Beginnings ==
  ASSUME NEW a, NEW b
  PROVE  /\ SubSeq(<<a, b>>, 1, 0) = << >> /\ SubSeq(<<a, b>>, 1, 1) = <<a>> /\ SubSeq(<<a, b>>, 1, 2) = <<a, b>>
         /\ SubSeq(<<a>>, 1, 0) = << >> /\ SubSeq(<<a>>, 1, 1) = <<a>>
         /\ Len(<<a, b>>) = 2 /\ Len(<<a>>) = 1
<1>1. PICK S : S = {a, b}
  OBVIOUS
<1>2. PICK s : s = <<a, b>>
  OBVIOUS
<1>3. PICK t : t = <<a>>
  OBVIOUS
<1>4. /\ s \in Seq(S) /\ Len(s) = 2 /\ s[1] = a /\ s[2] = b
      /\ t \in Seq(S) /\ Len(t) = 1 /\ t[1] = a
  BY <1>1, <1>2, <1>3
<1>5. SubSeq(s, 1, 0) = << >> /\ SubSeq(t, 1, 0) = << >>
  BY <1>4
<1>6. SubSeq(s, 1, 1) = t /\ SubSeq(t, 1, 1) = t /\ SubSeq(s, 1, 2) = s
  <2>1. /\ 0 \in Nat /\ 0 + 1 = 1 /\ 0 + 2 = 2 /\ \A i \in 1 .. 1 : s[0 + i] = t[i] /\ t[0 + i] = t[i]
        /\ \A i \in 1 .. 2 : s[0 + i] = s[i]
    BY <1>4
  <2>2. SubSeq(s, 0 + 1, 0 + 1) = t /\ SubSeq(t, 0 + 1, 0 + 1) = t
    BY <1>4, <2>1, PartIs
  <2>3. SubSeq(s, 0 + 1, 0 + 2) = s
    BY <1>4, <2>1, PartIs
  <2> QED
    BY <2>1, <2>2, <2>3
<1> QED
  BY <1>2, <1>3, <1>4, <1>5, <1>6

\* Without a frame there is no text.
LEMMA RespondNone ==
  ASSUME NEW closed
  PROVE  Respond(<< >>, closed).status # 200
<1>1. CollectResponse(<< >>) = Response(500, << >>)
  BY DEF CollectResponse
<1>2. Respond(<< >>, closed) = Response(500, << >>) \/ Respond(<< >>, closed) = Response(504, << >>)
  BY <1>1 DEF Respond
<1>3. Response(500, << >>).status = 500 /\ Response(504, << >>).status = 504
  BY DEF Response
<1> QED
  BY <1>2, <1>3

\* Nor of an error.
LEMMA RespondError ==
  ASSUME NEW closed, NEW error, error.type = "error"
  PROVE  Respond(<<error>>, closed).status # 200
<1>1. PICK came : came = <<error>>
  OBVIOUS
<1>2. came[1] = error /\ DOMAIN came = {1}
  BY <1>1
<1>3. CollectResponse(came) = Response(500, << >>)
  BY <1>2 DEF CollectResponse
<1>4. Respond(came, closed) = Response(500, << >>) \/ Respond(came, closed) = Response(504, << >>)
  BY <1>3 DEF Respond
<1>5. Response(500, << >>).status = 500 /\ Response(504, << >>).status = 504
  BY DEF Response
<1> QED
  BY <1>1, <1>4, <1>5

\* Of a chunk without its done there is the text or none.
LEMMA RespondCut ==
  ASSUME NEW closed, NEW chunk, chunk.type = "chunk", NEW response, response = Respond(<<chunk>>, closed)
  PROVE  response.status = 200 => response.data = chunk.data
<1>1. PICK came : came = <<chunk>>
  OBVIOUS
<1>2. came[1] = chunk /\ DOMAIN came = {1}
  BY <1>1
<1>3. {i \in DOMAIN came : came[i].type = "chunk"} = {1} /\ Max({1}) = 1
  BY <1>2, MaxOf
<1>4. CollectResponse(came) = Response(200, chunk.data)
  BY <1>2, <1>3 DEF CollectResponse
<1>5. response = Response(200, chunk.data) \/ response = Response(504, << >>)
  BY <1>1, <1>4 DEF Respond
<1>6. Response(200, chunk.data).data = chunk.data /\ Response(504, << >>).status = 504
  BY DEF Response
<1> QED
  BY <1>5, <1>6

\* Of a chunk and its done there is the text.
LEMMA RespondWhole ==
  ASSUME NEW closed, NEW chunk, chunk.type = "chunk", NEW done, done.type = "done",
         NEW response, response = Respond(<<chunk, done>>, closed)
  PROVE  response.status = 200 /\ response.data = chunk.data
<1>1. PICK came : came = <<chunk, done>>
  OBVIOUS
<1>2. came[1] = chunk /\ came[2] = done /\ DOMAIN came = {1, 2} /\ came # << >> /\ Len(came) = 2
  BY <1>1
<1>3. {i \in DOMAIN came : came[i].type = "chunk"} = {1} /\ Max({1}) = 1
  <2>1. came[1].type = "chunk" /\ came[2].type # "chunk"
    BY <1>2
  <2>2. {i \in DOMAIN came : came[i].type = "chunk"} = {1}
    BY <1>2, <2>1
  <2>3. Max({1}) = 1
    BY MaxOf
  <2> QED
    BY <2>2, <2>3
<1>4. CollectResponse(came) = Response(200, chunk.data)
  BY <1>2, <1>3 DEF CollectResponse
<1>5. Last(came).type = "done"
  BY <1>2 DEF Last
<1>6. response = Response(200, chunk.data)
  BY <1>1, <1>2, <1>4, <1>5 DEF Respond
<1>7. Response(200, chunk.data).data = chunk.data /\ Response(200, chunk.data).status = 200
  BY DEF Response
<1> QED
  BY <1>6, <1>7

\* The frames of a job, one after the other, and a response to them.
IsFrames(good, chunk, frames) ==
  \E done, error : /\ chunk.type = "chunk" /\ done.type = "done" /\ error.type = "error"
                   /\ frames = IF good THEN <<chunk, done>> ELSE <<error>>

\* A response to the first n of those frames.
RespondsTo(good, chunk, frames, n, response) ==
  /\ response.status = 200 => good /\ response.data = chunk.data
  /\ n = Len(frames) /\ good => response.status = 200

\* However many of the frames have come, and however they end.
LEMMA RespondsOf ==
  ASSUME NEW good, NEW closed, NEW chunk, NEW frames, IsFrames(good, chunk, frames),
         NEW n \in 0 .. Len(frames), NEW response, response = Respond(SubSeq(frames, 1, n), closed)
  PROVE  RespondsTo(good, chunk, frames, n, response)
<1>3. PICK done, error : /\ chunk.type = "chunk" /\ done.type = "done" /\ error.type = "error"
                         /\ frames = IF good THEN <<chunk, done>> ELSE <<error>>
  BY DEF IsFrames
<1>1. CASE good
  <2>1. frames = <<chunk, done>> /\ Len(frames) = 2 /\ n \in {0, 1, 2}
    BY <1>1, <1>3, Beginnings
  <2>2. CASE n = 0
    <3>1. response = Respond(<< >>, closed)
      BY <2>1, <2>2, Beginnings
    <3> QED
      BY <2>1, <2>2, <3>1, RespondNone DEF RespondsTo
  <2>3. CASE n = 1
    <3>1. response = Respond(<<chunk>>, closed)
      BY <2>1, <2>3, Beginnings
    <3> QED
      BY <1>1, <1>3, <2>1, <2>3, <3>1, RespondCut DEF RespondsTo
  <2>4. CASE n = 2
    <3>1. response = Respond(<<chunk, done>>, closed)
      BY <2>1, <2>4, Beginnings
    <3> QED
      BY <1>1, <1>3, <3>1, RespondWhole DEF RespondsTo
  <2> QED
    BY <2>1, <2>2, <2>3, <2>4
<1>2. CASE ~good
  <2>1. frames = <<error>> /\ Len(frames) = 1 /\ n \in {0, 1}
    BY <1>2, <1>3, Beginnings
  <2>2. CASE n = 0
    <3>1. response = Respond(<< >>, closed)
      BY <2>1, <2>2, Beginnings
    <3> QED
      BY <1>2, <3>1, RespondNone DEF RespondsTo
  <2>3. CASE n = 1
    <3>1. response = Respond(<<error>>, closed)
      BY <2>1, <2>3, Beginnings
    <3> QED
      BY <1>2, <1>3, <3>1, RespondError DEF RespondsTo
  <2> QED
    BY <2>1, <2>2, <2>3
<1> QED
  BY <1>1, <1>2

\* Two elements and nothing or one more.
LEMMA OneMore ==
  ASSUME NEW a, NEW b, NEW c
  PROVE  <<a, b>> \o << >> = <<a, b>> /\ <<a, b>> \o <<c>> = <<a, b, c>>
<1>1. PICK S : S = {a, b, c}
  OBVIOUS
<1>2. PICK s : s = <<a, b>>
  OBVIOUS
<1>3. PICK t : t = <<c>>
  OBVIOUS
<1>4. PICK u : u = <<a, b, c>>
  OBVIOUS
<1>5. /\ s \in Seq(S) /\ Len(s) = 2 /\ s[1] = a /\ s[2] = b
      /\ t \in Seq(S) /\ Len(t) = 1 /\ t[1] = c
      /\ u \in Seq(S) /\ Len(u) = 3 /\ u[1] = a /\ u[2] = b /\ u[3] = c
  BY <1>1, <1>2, <1>3, <1>4
<1>6. PICK v : v = s \o t
  OBVIOUS
<1>11. /\ v \in Seq(S) /\ Len(v) = Len(s) + Len(t)
       /\ \A i \in 1 .. Len(s) + Len(t) : v[i] = IF i <= Len(s) THEN s[i] ELSE t[i - Len(s)]
  BY <1>5, <1>6, ConcatProperties
<1>7. /\ v \in Seq(S) /\ Len(v) = 2 + 1
      /\ \A i \in 1 .. 2 + 1 : v[i] = IF i <= 2 THEN s[i] ELSE t[i - 2]
  BY <1>5, <1>11
<1>8. v[1] = a /\ v[2] = b /\ v[3] = c /\ Len(v) = 3
  BY <1>5, <1>7
<1>9. v = u
  <2>1. \A i \in 1 .. Len(v) : v[i] = u[i]
    BY <1>5, <1>8
  <2> QED
    BY <1>5, <1>7, <1>8, <2>1, SeqEqual
<1>10. s \o << >> = s
  BY <1>5, ConcatEmptySeq
<1> QED
  BY <1>2, <1>3, <1>4, <1>6, <1>9, <1>10

\* What the page sends is accepted, under the recording's media type.
FormHas(form, name) ==
  /\ form \in [FormFields -> {form[x] : x \in FormFields}] /\ form.refused = FALSE
  /\ form.file = Present("sound") /\ form.file_name = Present(name)

\* The first part of the page's form is its file.
LEMMA FormHasFile ==
  ASSUME NEW name, NEW part, part = Part(Present("file"), Present("sound"), Present(name))
  PROVE  FormHas(ReadField(NewForm, part), name)
<1>1. \A x : Present(x) # Absent /\ Present(x)[1] = x
  BY DEF Present, Absent
<1>2. part.name = Present("file") /\ part.value = Present("sound") /\ part.file_name = Present(name)
  BY DEF Part
<1>3. Present("sound") \notin {Absent, Present("large")}
  <2>1. Present("sound")[1] # Present("large")[1]
    BY <1>1
  <2> QED
    BY <1>1, <2>1
<1>4. part.name # Absent /\ part.name[1] = "file" /\ part.value \notin {Absent, Present("large")}
      /\ part.file_name # Absent /\ NewForm.refused = FALSE
  BY <1>1, <1>2, <1>3 DEF NewForm
<1> HIDE DEF Part
<1>5. ReadField(NewForm, part) = [NewForm EXCEPT !.file = part.value, !.file_name = part.file_name]
  BY <1>4 DEF ReadField, TextFields
<1>6. PICK form : form = ReadField(NewForm, part)
  OBVIOUS
<1>7. /\ form.refused = FALSE /\ form.file = part.value /\ form.file_name = part.file_name
      /\ form \in [FormFields -> {form[x] : x \in FormFields}]
  BY <1>5, <1>6 DEF NewForm, FormFields
<1> QED
  BY <1>2, <1>6, <1>7 DEF FormHas

\* A form after one more part with a text.
TextRead(form, next, field, text, name) ==
  /\ FormHas(next, name) /\ next[field] = Present(text)
  /\ \A x \in FormFields \ {field} : next[x] = form[x]

\* A text part leaves the file of the page's form.
LEMMA FormHasText ==
  ASSUME NEW form, NEW name, FormHas(form, name), NEW field \in TextFields, NEW text,
         NEW part, part = Part(Present(field), Present(text), Absent), NEW next, next = ReadField(form, part)
  PROVE  TextRead(form, next, field, text, name)
<1>1. \A x : Present(x) # Absent /\ Present(x)[1] = x
  BY DEF Present, Absent
<1>2. part.name # Absent /\ part.name[1] = field /\ part.value = Present(text) /\ part.value # Absent
  BY <1>1 DEF Part
<1>3. field # "file" /\ field # "temperature" /\ field \in FormFields /\ field # "file_name" /\ field # "refused"
  BY DEF TextFields, FormFields
<1>4. form \in [FormFields -> {form[x] : x \in FormFields}] /\ form.refused = FALSE
      /\ form.file = Present("sound") /\ form.file_name = Present(name)
  BY DEF FormHas
<1>5. next = [form EXCEPT ![field] = part.value]
  BY <1>2, <1>3, <1>4 DEF ReadField
<1>6. /\ DOMAIN next = FormFields /\ next = [x \in FormFields |-> next[x]]
      /\ next[field] = part.value /\ \A x \in FormFields \ {field} : next[x] = form[x]
  BY <1>3, <1>4, <1>5
<1>7. next.refused = FALSE /\ next.file = Present("sound") /\ next.file_name = Present(name)
  BY <1>3, <1>4, <1>6 DEF FormFields
<1>8. next \in [FormFields -> {next[x] : x \in FormFields}]
  BY <1>6
<1> QED
  BY <1>2, <1>6, <1>7, <1>8 DEF FormHas, TextRead

\* A form of two or three parts is read one after the other.
TwoOrThree(parts, one, two, three, more) ==
  /\ parts[1] = one /\ parts[2] = two
  /\ more => Len(parts) = 3 /\ parts[3] = three
  /\ ~more => Len(parts) = 2

\* What is read of them.
Read(form, one, two, three, more) ==
  \E f1, f2, f3 : /\ f1 = ReadField(NewForm, one) /\ f2 = ReadField(f1, two)
                  /\ more => f3 = ReadField(f2, three) /\ form = f3
                  /\ ~more => form = f2

\* ReadForm reads them so.
LEMMA ReadsThem ==
  ASSUME NEW parts, NEW one, NEW two, NEW three, NEW more \in BOOLEAN, TwoOrThree(parts, one, two, three, more)
  PROVE  Read(ReadForm(parts), one, two, three, more)
<1>1. PICK N : N = Len(parts)
  OBVIOUS
<1>2. /\ N \in Nat /\ 1 \in 1 .. N /\ 2 \in 1 .. N /\ 1 - 1 = 0 /\ 2 - 1 = 1 /\ 3 - 1 = 2
      /\ more => N = 3 /\ 3 \in 1 .. N
      /\ ~more => N = 2
  <2>1. CASE more
    BY <1>1, <2>1 DEF TwoOrThree
  <2>2. CASE ~more
    BY <1>1, <2>2 DEF TwoOrThree
  <2> QED
    BY <2>1, <2>2
<1>3. PICK read : /\ read[0] = NewForm /\ ReadForm(parts) = read[N]
                  /\ \A k \in 1 .. N : read[k] = ReadField(read[k - 1], parts[k])
  BY <1>1, <1>2, FormSteps
<1>4. read[1] = ReadField(read[1 - 1], parts[1]) /\ read[2] = ReadField(read[2 - 1], parts[2])
  BY <1>2, <1>3
<1>5. more => read[3] = ReadField(read[3 - 1], parts[3])
  BY <1>2, <1>3
<1>6. /\ read[1] = ReadField(NewForm, one) /\ read[2] = ReadField(read[1], two)
      /\ more => read[3] = ReadField(read[2], three)
  BY <1>2, <1>3, <1>4, <1>5 DEF TwoOrThree
<1> QED
  BY <1>2, <1>3, <1>6 DEF Read

\* Every form of the page is accepted, under the media type of its recording.
LEMMA PageForm ==
  ASSUME NEW base \in DOMAIN ExtMap, NEW language \in {"", "en"},
         NEW form, form = ReadForm(SendAudio("sound", base, "", language))
  PROVE  Accepted(form) /\ MimeTypeForFilename(form.file_name[1]) = base
<1> DEFINE name == <<"recording", ExtForMime(base)>>
<1>1. PICK file : file = Part(Present("file"), Present("sound"), Present(name))
  OBVIOUS
<1>2. PICK which : which = Part(Present("model"), Present("whisper-1"), Absent)
  OBVIOUS
<1>3. PICK said : said = Part(Present("language"), Present(language), Absent)
  OBVIOUS
<1>4. PICK parts : parts = IF language = "" THEN <<file, which>> ELSE <<file, which, said>>
  OBVIOUS
<1>5. form = ReadForm(parts)
  <2>1. SendAudio("sound", base, "", language) =
          <<file, which>> \o (IF language = "" THEN << >> ELSE <<said>>)
    BY <1>1, <1>2, <1>3 DEF SendAudio
  <2>2. <<file, which>> \o << >> = <<file, which>> /\ <<file, which>> \o <<said>> = <<file, which, said>>
    BY OneMore
  <2> QED
    BY <1>4, <2>1, <2>2
<1>6. /\ Len(parts) = (IF language = "" THEN 2 ELSE 3) /\ parts[1] = file /\ parts[2] = which
      /\ language # "" => parts[3] = said
  <2>1. CASE language = ""
    BY <1>4, <2>1
  <2>2. CASE language # ""
    BY <1>4, <2>2
  <2> QED
    BY <2>1, <2>2
<1> HIDE DEF name
<1>7. TwoOrThree(parts, file, which, said, language # "")
  BY <1>6 DEF TwoOrThree
<1>20. Read(ReadForm(parts), file, which, said, language # "")
  BY <1>7, ReadsThem
<1>8. PICK f1, f2, f3 : /\ f1 = ReadField(NewForm, file) /\ f2 = ReadField(f1, which)
                        /\ language # "" => f3 = ReadField(f2, said) /\ form = f3
                        /\ language = "" => form = f2
  BY <1>5, <1>20 DEF Read
<1>12. FormHas(f1, name)
  BY <1>1, <1>8, FormHasFile
<1>13. f2 = ReadField(f1, which) /\ "model" \in TextFields /\ "language" \in TextFields
  BY <1>8 DEF TextFields
<1>14. FormHas(f2, name) /\ f2.model = Present("whisper-1")
  <2>1. TextRead(f1, f2, "model", "whisper-1", name)
    BY <1>2, <1>12, <1>13, FormHasText
  <2> QED
    BY <2>1 DEF TextRead
<1>15. language # "" => FormHas(f3, name) /\ f3.model = Present("whisper-1")
  <2> SUFFICES ASSUME language # ""
               PROVE  FormHas(f3, name) /\ f3.model = Present("whisper-1")
    OBVIOUS
  <2>1. f3 = ReadField(f2, said)
    BY <1>8
  <2>2. TextRead(f2, f3, "language", language, name)
    BY <1>3, <1>13, <1>14, <2>1, FormHasText
  <2>3. f3.model = f2.model
    BY <2>2 DEF TextRead, FormFields
  <2> QED
    BY <1>14, <2>2, <2>3 DEF TextRead
<1>16. FormHas(form, name) /\ form.model = Present("whisper-1")
  BY <1>8, <1>14, <1>15
<1>17. \A x : Present(x) # Absent /\ Present(x)[1] = x
  BY DEF Present, Absent
<1>18. Accepted(form) /\ form.file_name[1] = name
  BY <1>16, <1>17 DEF Accepted, FormHas
<1>19. MimeTypeForFilename(name) = base
  <2>1. Last(name) = ExtForMime(base)
    BY DEF name, Last
  <2>2. base \in {"audio/webm", "audio/ogg", "audio/mp4", "audio/mpeg", "audio/wav"}
    BY DEF ExtMap
  <2>3. /\ ExtMap["audio/webm"] = "webm" /\ ExtMap["audio/ogg"] = "ogg" /\ ExtMap["audio/mp4"] = "mp4"
        /\ ExtMap["audio/mpeg"] = "mp3" /\ ExtMap["audio/wav"] = "wav"
    BY DEF ExtMap
  <2>4. ExtForMime(base) = ExtMap[base]
    BY DEF ExtForMime
  <2> QED
    BY <2>1, <2>2, <2>3, <2>4 DEF MimeTypeForFilename
<1> QED
  BY <1>18, <1>19

\* The server has answered, and there was some sound.
Served(parts, configured, status, json) ==
  configured /\ status = 200 /\ json /\ LastOf(parts, "file") \notin {Absent, Present("")}

\* A response that is what the form asked for.
Faithful(parts, served, frames, n, response) ==
  /\ response.status = 200 =>
       /\ served
       /\ FieldOf(response.data, "file")[1][1] = LastOf(parts, "file")[1]
       /\ \A name \in DOMAIN Asked(parts) : FieldOf(response.data, name) = Asked(parts)[name]
  /\ n = Len(frames) /\ served => response.status = 200

\* The job ends with a text.
Good(asked, configured, status, json) == configured /\ asked.ok /\ status = 200 /\ json

\* The frames of a transcription job.
LEMMA JobFrames ==
  ASSUME NEW configured, NEW status, NEW json, NEW payload, NEW asked, asked = ParseRequest(payload),
         NEW chunk, chunk = [type |-> "chunk", data |-> WhisperForm(asked)], NEW frames,
         frames = ProcessTranscriptionJob(configured, payload, [status |-> status, json |-> json])
  PROVE  IsFrames(Good(asked, configured, status, json), chunk, frames)
<1>1. PICK done : done = [type |-> "done", data |-> << >>]
  OBVIOUS
<1>2. PICK error : error = [type |-> "error", data |-> << >>]
  OBVIOUS
<1>3. chunk.type = "chunk" /\ done.type = "done" /\ error.type = "error"
  BY <1>1, <1>2
<1>4. PICK answer : answer = [status |-> status, json |-> json]
  OBVIOUS
<1>5. ParseResponse(answer) <=> status = 200 /\ json
  BY <1>4 DEF ParseResponse
<1>6. frames = IF configured /\ asked.ok /\ ParseResponse(answer) THEN <<chunk, done>> ELSE <<error>>
  BY <1>1, <1>2, <1>4 DEF ProcessTranscriptionJob
<1>7. frames = IF Good(asked, configured, status, json) THEN <<chunk, done>> ELSE <<error>>
  BY <1>5, <1>6 DEF Good
<1> QED
  BY <1>3, <1>7 DEF IsFrames

\* The response to any number of the frames of a form.
LEMMA ResponseIs ==
  ASSUME NEW parts \in Forms, NEW json, NEW configured, NEW status, NEW form,
         form = ReadForm(parts), Accepted(form), NEW frames,
         frames = ProcessTranscriptionJob(configured, PayloadOf(form), [status |-> status, json |-> json]),
         NEW n \in 0 .. Len(frames), NEW closed,
         NEW response, response = Respond(SubSeq(frames, 1, n), closed)
  PROVE  Faithful(parts, Served(parts, configured, status, json), frames, n, response)
<1>1. PICK payload : payload = PayloadOf(form)
  OBVIOUS
<1>2. PICK asked : asked = ParseRequest(payload)
  OBVIOUS
<1>3. PICK got : got = WhisperForm(asked)
  OBVIOUS
<1>4. PICK chunk : chunk = [type |-> "chunk", data |-> got]
  OBVIOUS
<1>5. chunk.data = got
  BY <1>4
<1>6. AsksFor(parts, asked, got)
  BY <1>1, <1>2, <1>3, AskedIs
<1>7. IsFrames(Good(asked, configured, status, json), chunk, frames)
  BY <1>1, <1>2, <1>3, <1>4, JobFrames
<1>8. RespondsTo(Good(asked, configured, status, json), chunk, frames, n, response)
  BY <1>7, RespondsOf
<1>9. Good(asked, configured, status, json) <=> Served(parts, configured, status, json)
  BY <1>6 DEF AsksFor, Good, Served
<1>10. /\ response.status = 200 => Served(parts, configured, status, json) /\ response.data = got
       /\ n = Len(frames) /\ Served(parts, configured, status, json) => response.status = 200
  BY <1>5, <1>8, <1>9 DEF RespondsTo
<1>11. /\ FieldOf(got, "file")[1][1] = LastOf(parts, "file")[1]
       /\ \A name \in DOMAIN Asked(parts) : FieldOf(got, name) = Asked(parts)[name]
  BY <1>6 DEF AsksFor
<1> QED
  BY <1>10, <1>11 DEF Faithful

\* What is responded is what the form asked for, for every form and parts of it:
\* the endpoint for recordings, the worker's whisper backend and the page's form.
THEOREM TranscriptionIsFaithful == PageSpec => []TranscriptionFaithful
<1>1. ASSUME NEW parts \in Forms, NEW json \in BOOLEAN, NEW configured \in BOOLEAN, NEW status \in {200, 500}
      PROVE  LET form == ReadForm(parts)
                 frames == ProcessTranscriptionJob(configured, PayloadOf(form),
                                                   [status |-> status, json |-> json])
                 served == configured /\ status = 200 /\ json
                             /\ LastOf(parts, "file") \notin {Absent, Present("")}
             IN  Accepted(form) =>
                   \A n \in 0 .. Len(frames), closed \in BOOLEAN :
                     LET response == Respond(SubSeq(frames, 1, n), closed)
                     IN  /\ response.status = 200 =>
                              /\ served
                              /\ FieldOf(response.data, "file")[1][1] = LastOf(parts, "file")[1]
                              /\ \A name \in DOMAIN Asked(parts) :
                                   FieldOf(response.data, name) = Asked(parts)[name]
                         /\ n = Len(frames) /\ served => response.status = 200
  <2> DEFINE form == ReadForm(parts)
             frames == ProcessTranscriptionJob(configured, PayloadOf(form),
                                               [status |-> status, json |-> json])
  <2>1. ASSUME Accepted(form), NEW n \in 0 .. Len(frames), NEW closed \in BOOLEAN
        PROVE  Faithful(parts, Served(parts, configured, status, json), frames, n,
                        Respond(SubSeq(frames, 1, n), closed))
    BY <2>1, ResponseIs
  <2> QED
    BY <2>1 DEF Faithful, Served
<1>2. ASSUME NEW base \in DOMAIN ExtMap, NEW language \in {"", "en"}
      PROVE  LET form == ReadForm(SendAudio("sound", base, "", language))
             IN  Accepted(form) /\ MimeTypeForFilename(form.file_name[1]) = base
  BY PageForm
<1>3. TranscriptionFaithful
  BY <1>1, <1>2 DEF TranscriptionFaithful
<1> QED
  BY <1>3, PTL
=============================================================================
