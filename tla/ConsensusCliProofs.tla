------------------------- MODULE ConsensusCliProofs -------------------------
(***************************************************************************)
(* Proofs about the programs of a session that use a session task, the     *)
(* terminal client (ConsensusCli) and the seeder (Seeding): what they      *)
(* learn is the session's log without a hole, what they report as          *)
(* submitted or seeded is in it, and a client that has nothing left to     *)
(* read has all of it.  For every size of the channels and pages, and      *)
(* however many entries, drafts and lost connections.                      *)
(*                                                                         *)
(* The last rests on CoverInv: each entry of the log is in one of the      *)
(* places it passes on its way, or a fetch is still to come.               *)
(***************************************************************************)
EXTENDS Seeding, SequenceTheorems, WellFoundedInduction, TLAPS

InSeq(e, s) == \E k \in DOMAIN s : s[k] = e

AnyEvent == {EntryEvent(i) : i \in Nat} \union {Disconnected, Reconnected}
EventsOK ==
  events \in Seq(AnyEvent) /\ \A i \in Nat : InSeq(EntryEvent(i), events) => i \in DOMAIN log

Submission == [payloads : Seq(Payloads), next_entry : Nat]
Draft == [kind : DraftKinds, id : 0 .. MaxDrafts - 1, to : Nat]

TypeInv ==
  /\ log \in Seq(Payloads) /\ up \in Seq(Payloads) /\ late \in Seq(Payloads)
  /\ cmd \in Payloads \union {Nothing}
  /\ down \subseteq DOMAIN log
  /\ task \in {"connected", "blocked", "report", "connecting", "announce", "sleeping"}
  /\ task = "blocked" => hand \in DOMAIN log
  /\ EventsOK
  /\ pending \in Submission
  /\ made \in Nat
  /\ pc # "stopped" => drafts \in Seq(Draft)

\* What the engine has is the log's beginning, and what it could have is not
\* kept back.
PrefixInv ==
  /\ applied \in Seq(Payloads) /\ Len(applied) <= Len(log)
  /\ \A i \in DOMAIN applied : applied[i] = log[i]
  /\ buffered \subseteq DOMAIN log /\ Len(applied) + 1 \notin buffered

\* The first n payloads are, in their order, among the first m entries.
Found(payloads, n, entries, m) ==
  \E at \in [1 .. n -> 1 .. m] :
    /\ \A k \in 1 .. n : entries[at[k]] = payloads[k]
    /\ \A k, l \in 1 .. n : k < l => at[k] < at[l]

SubmissionInv ==
  /\ pending.next_entry <= Len(pending.payloads)
  /\ Found(pending.payloads, pending.next_entry, applied, Len(applied))
  /\ asked => pending = None
  /\ pc \notin {"catch_up", "drain", "stopped"} => ~Complete(pending)

\* What is missed is fetched some time, or the program is none that fetches.
Refetch ==
  \/ InSeq(Reconnected, events) \/ task \in {"report", "connecting", "sleeping", "announce"}
  \/ pc \in {"catch_up", "stopped", "seeding"} \/ silent

Coming(i) ==
  \/ i \in down \/ (task = "blocked" /\ hand = i) \/ InSeq(EntryEvent(i), events)
  \/ i \in buffered \/ i \in DOMAIN applied

CoverInv == Refetch \/ \A i \in DOMAIN log : Coming(i)

SeedInv ==
  /\ seeder \in [state : {"none", "next", "append", "echo", "reconnect", "sync", "verify", "ok",
                          "failed"},
                 payloads : Seq(Payloads), at : Nat]
  /\ \A i \in 1 .. seeder.at : i \in DOMAIN log /\ log[i] = seeder.payloads[i]
  /\ seeder.state = "ok" => pc = "stopped" /\ log = seeder.payloads
  /\ seeder.state # "none" =>
       seeder.payloads = Scenario \/ \E file \in OtherFiles : LoadEntries(file).ok

CliInv == TypeInv /\ PrefixInv /\ SubmissionInv /\ CoverInv /\ SeedInv
-----------------------------------------------------------------------------
(* Naturals, sequences and events *)

\* A non-empty set of naturals has a least element.
LEMMA LeastNat ==
  ASSUME NEW T, T \subseteq Nat, T # {}
  PROVE  \E m \in T : \A n \in T : m <= n
<1> DEFINE Less == {ss \in Nat \X Nat : ss[1] < ss[2]}
<1>1. IsWellFoundedOn(Less, Nat)
  BY NatLessThanWellFounded DEF OpToRel
<1>2. \A m, n \in Nat : n < m => <<n, m>> \in Less
  OBVIOUS
<1> HIDE DEF Less
<1>3. PICK m \in T : \A n \in T : <<n, m>> \notin Less
  BY <1>1, WFMin
<1>4. \A n \in T : ~ (n < m)
  BY <1>2, <1>3
<1> QED
  BY <1>4

\* One that is bounded has a greatest, which is its Max.
LEMMA MaxFacts ==
  ASSUME NEW n \in Nat, NEW T \in SUBSET (1 .. n), T # {}
  PROVE  Max(T) \in T /\ \A y \in T : y <= Max(T)
<1> DEFINE U == {u \in Nat : \A y \in T : y <= u}
<1>1. n \in U /\ U \subseteq Nat
  OBVIOUS
<1>2. PICK m \in U : \A u \in U : m <= u
  BY <1>1, LeastNat
<1>3. m \in T
  <2>1. SUFFICES ASSUME m \notin T PROVE FALSE
    OBVIOUS
  <2>2. \A y \in T : y <= m - 1 /\ m - 1 \in Nat
    BY <1>2, <2>1
  <2>3. m - 1 \in U
    BY <2>2
  <2> QED  BY <1>2, <2>2, <2>3
<1>4. \E x \in T : \A y \in T : x >= y
  BY <1>2, <1>3
<1> QED  BY <1>4 DEF Max

LEMMA MinFacts ==
  ASSUME NEW T \in SUBSET Nat, T # {}
  PROVE  Min(T) \in T /\ \A y \in T : Min(T) <= y
BY LeastNat DEF Min

LEMMA Elements ==
  ASSUME NEW S, NEW s \in Seq(S)
  PROVE  /\ \A x : InSeq(x, s) => x \in S
         /\ s # << >> => /\ Head(s) \in S /\ Tail(s) \in Seq(S)
                         /\ \A x : InSeq(x, s) <=> x = Head(s) \/ InSeq(x, Tail(s))
         /\ \A e \in S : /\ Append(s, e) \in Seq(S)
                         /\ \A x : InSeq(x, Append(s, e)) <=> InSeq(x, s) \/ x = e
<1>1. ASSUME s # << >>
      PROVE  /\ Head(s) \in S /\ Tail(s) \in Seq(S)
             /\ \A x : InSeq(x, s) <=> x = Head(s) \/ InSeq(x, Tail(s))
  <2>1. /\ Len(s) \in Nat /\ Len(s) > 0 /\ DOMAIN s = 1 .. Len(s) /\ s[1] = Head(s)
        /\ Head(s) \in S /\ Tail(s) \in Seq(S) /\ DOMAIN Tail(s) = 1 .. Len(s) - 1
        /\ \A j \in 1 .. Len(s) - 1 : Tail(s)[j] = s[j + 1]
    BY <1>1
  <2>2. ASSUME NEW k \in DOMAIN s, k # 1
        PROVE  \E j \in DOMAIN Tail(s) : Tail(s)[j] = s[k]
    <3>1. k - 1 \in 1 .. Len(s) - 1 /\ (k - 1) + 1 = k
      BY <2>1, <2>2
    <3> QED  BY <2>1, <3>1
  <2>3. \A j \in DOMAIN Tail(s) : j + 1 \in DOMAIN s /\ s[j + 1] = Tail(s)[j]
    BY <2>1
  <2> QED  BY <2>1, <2>2, <2>3 DEF InSeq
<1>2. ASSUME NEW e \in S
      PROVE  /\ Append(s, e) \in Seq(S)
             /\ \A x : InSeq(x, Append(s, e)) <=> InSeq(x, s) \/ x = e
  <2>1. /\ Append(s, e) \in Seq(S) /\ Len(s) \in Nat /\ DOMAIN s = 1 .. Len(s)
        /\ DOMAIN Append(s, e) = 1 .. Len(s) + 1
        /\ \A k \in 1 .. Len(s) : Append(s, e)[k] = s[k]
        /\ Append(s, e)[Len(s) + 1] = e
    OBVIOUS
  <2>2. \A k \in 1 .. Len(s) + 1 : k \in 1 .. Len(s) \/ k = Len(s) + 1
    BY <2>1
  <2>3. Len(s) + 1 \in 1 .. Len(s) + 1 /\ \A k \in 1 .. Len(s) : k \in 1 .. Len(s) + 1
    BY <2>1
  <2> QED  BY <2>1, <2>2, <2>3 DEF InSeq
<1>3. \A x : InSeq(x, s) => x \in S
  BY DEF InSeq
<1> QED  BY <1>1, <1>2, <1>3

LEMMA EventKinds ==
  /\ \A i : EntryEvent(i).type = "entry" /\ EntryEvent(i).index = i
  /\ \A i : EntryEvent(i) # Reconnected /\ EntryEvent(i) # Disconnected
  /\ Reconnected # Disconnected /\ Reconnected.type = "reconnected"
  /\ Disconnected.type = "disconnected"
  /\ \A e \in AnyEvent : e.type = "entry" => e = EntryEvent(e.index) /\ e.index \in Nat
  /\ \A e \in AnyEvent : e.type = "reconnected" => e = Reconnected
  /\ \A e \in AnyEvent : e.type # "entry" => e \in {Disconnected, Reconnected}
  /\ \A e \in AnyEvent : e.type = "disconnected" => e = Disconnected
  /\ \A i \in Nat : EntryEvent(i) \in AnyEvent
  /\ Disconnected \in AnyEvent /\ Reconnected \in AnyEvent
BY DEF EntryEvent, Reconnected, Disconnected, AnyEvent

\* Taking an event out of the channel, and putting one in.
LEMMA EventTaken ==
  ASSUME EventsOK, events # << >>, events' = Tail(events), UNCHANGED log
  PROVE  /\ EventsOK' /\ Head(events) \in AnyEvent
         /\ Head(events).type = "entry" => Head(events).index \in DOMAIN log
         /\ \A e : InSeq(e, events) => e = Head(events) \/ InSeq(e, events')
<1>1. PICK s \in Seq(AnyEvent) : s = events
  BY DEF EventsOK
<1>2. /\ Head(s) \in AnyEvent /\ Tail(s) \in Seq(AnyEvent)
      /\ \A x : InSeq(x, s) <=> x = Head(s) \/ InSeq(x, Tail(s))
  BY <1>1, Elements
<1>3. Head(events) \in AnyEvent /\ \A x : InSeq(x, events) <=> x = Head(events) \/ InSeq(x, events')
  BY <1>1, <1>2
<1>4. EventsOK'
  <2>1. \A i : EntryEvent(i)' = EntryEvent(i)
    BY DEF EntryEvent
  <2>2. \A i : InSeq(EntryEvent(i), events)' => InSeq(EntryEvent(i), events)
    BY <1>3 DEF InSeq, EntryEvent
  <2>3. events' \in Seq(AnyEvent)
    BY <1>1, <1>2
  <2> QED  BY <2>2, <2>3 DEF EventsOK
<1>5. ASSUME Head(events).type = "entry"
      PROVE  Head(events).index \in DOMAIN log
  BY <1>3, <1>5, EventKinds DEF EventsOK
<1> QED  BY <1>3, <1>4, <1>5

LEMMA EventEmitted ==
  ASSUME EventsOK, NEW e \in AnyEvent, Emit(e), UNCHANGED log,
         e.type = "entry" => e.index \in DOMAIN log
  PROVE  EventsOK' /\ \A x : InSeq(x, events') <=> InSeq(x, events) \/ x = e
<1>1. PICK s \in Seq(AnyEvent) : s = events
  BY DEF EventsOK
<1>2. events' = Append(s, e)
  BY <1>1 DEF Emit
<1>3. events' \in Seq(AnyEvent) /\ \A x : InSeq(x, events') <=> InSeq(x, events) \/ x = e
  BY <1>1, <1>2, Elements
<1>4. ASSUME NEW i \in Nat, InSeq(EntryEvent(i), events')
      PROVE  i \in DOMAIN log
  BY <1>3, <1>4, EventKinds DEF EventsOK
<1> QED  BY <1>3, <1>4 DEF EventsOK, InSeq, EntryEvent

-----------------------------------------------------------------------------
(* The entry buffer *)

LEMMA FoundMore ==
  ASSUME NEW payloads, NEW n \in Nat, NEW entries, NEW m \in Nat, Found(payloads, n, entries, m),
         NEW more, NEW l \in Nat, m <= l, \A i \in 1 .. m : more[i] = entries[i]
  PROVE  Found(payloads, n, more, l)
<1>1. PICK at \in [1 .. n -> 1 .. m] :
        /\ \A k \in 1 .. n : entries[at[k]] = payloads[k]
        /\ \A j, k \in 1 .. n : j < k => at[j] < at[k]
  BY DEF Found
<1>2. at \in [1 .. n -> 1 .. l] /\ \A k \in 1 .. n : more[at[k]] = payloads[k]
  BY <1>1
<1> QED  BY <1>1, <1>2 DEF Found

\* One more, which is the last of the entries.
LEMMA FoundNext ==
  ASSUME NEW payloads, NEW n \in Nat, NEW entries, NEW m \in Nat, Found(payloads, n, entries, m),
         entries[m + 1] = payloads[n + 1]
  PROVE  Found(payloads, n + 1, entries, m + 1)
<1>1. PICK at \in [1 .. n -> 1 .. m] :
        /\ \A k \in 1 .. n : entries[at[k]] = payloads[k]
        /\ \A j, k \in 1 .. n : j < k => at[j] < at[k]
  BY DEF Found
<1> DEFINE more == [k \in 1 .. n + 1 |-> IF k = n + 1 THEN m + 1 ELSE at[k]]
<1>2. \A k \in 1 .. n + 1 : k = n + 1 \/ k \in 1 .. n
  OBVIOUS
<1>3. more \in [1 .. n + 1 -> 1 .. m + 1]
  BY <1>1, <1>2
<1>4. \A k \in 1 .. n + 1 : entries[more[k]] = payloads[k]
  BY <1>1, <1>2
<1>5. \A j, k \in 1 .. n + 1 : j < k => more[j] < more[k]
  BY <1>1, <1>2
<1> HIDE DEF more
<1> QED  BY <1>3, <1>4, <1>5 DEF Found

LEMMA NotedOne ==
  ASSUME NEW sub \in Submission, sub.next_entry <= Len(sub.payloads), NEW payload
  PROVE  /\ Noted(sub, payload) \in Submission
         /\ Noted(sub, payload).payloads = sub.payloads
         /\ \/ Noted(sub, payload) = sub
            \/ /\ Noted(sub, payload).next_entry = sub.next_entry + 1
               /\ sub.next_entry + 1 <= Len(sub.payloads)
               /\ sub.payloads[sub.next_entry + 1] = payload
BY DEF Noted, Submission

\* The function that notes the entries one after the other exists, and the
\* definition of NotedAll chooses it.
Notes(sub, entries, n, f) ==
  f = [k \in 0 .. n |-> IF k = 0 THEN sub ELSE Noted(f[k - 1], entries[k])]

LEMMA NotesExist ==
  ASSUME NEW sub, NEW entries, NEW n \in Nat
  PROVE  \E f : Notes(sub, entries, n, f)
<1> DEFINE None_ == {k \in Nat : ~ \E f : Notes(sub, entries, k, f)}
<1>1. SUFFICES ASSUME None_ # {} PROVE FALSE
  OBVIOUS
<1>2. PICK m \in None_ : \A k \in None_ : m <= k
  BY <1>1, LeastNat
<1>3. CASE m = 0
  <2>1. Notes(sub, entries, 0, [k \in 0 .. 0 |-> sub])
    BY DEF Notes
  <2> QED  BY <1>2, <1>3, <2>1
<1>4. CASE m # 0
  <2>1. m - 1 \in Nat /\ m - 1 \notin None_
    BY <1>2, <1>4
  <2>2. PICK f : Notes(sub, entries, m - 1, f)
    BY <2>1
  <2> DEFINE g == [k \in 0 .. m |-> IF k = m THEN Noted(f[m - 1], entries[m]) ELSE f[k]]
  <2>3. /\ \A k \in 0 .. m - 1 : f[k] = IF k = 0 THEN sub ELSE Noted(f[k - 1], entries[k])
        /\ m \in Nat /\ m > 0
    BY <1>4, <2>2 DEF Notes
  <2>4. ASSUME NEW k \in 0 .. m
        PROVE  g[k] = IF k = 0 THEN sub ELSE Noted(g[k - 1], entries[k])
    <3>1. CASE k = m
      <4>1. m - 1 \in 0 .. m /\ m - 1 # m /\ g[m - 1] = f[m - 1]
        BY <2>3
      <4> QED  BY <2>3, <3>1, <4>1
    <3>2. CASE k = 0
      BY <2>3, <3>2
    <3>3. CASE k # m /\ k # 0
      <4>1. k - 1 \in 0 .. m /\ k - 1 # m /\ k \in 0 .. m - 1
        BY <2>3, <3>3
      <4> QED  BY <2>3, <3>3, <4>1
    <3> QED  BY <3>1, <3>2, <3>3
  <2>5. DOMAIN g = 0 .. m /\ g = [k \in 0 .. m |-> g[k]]
    OBVIOUS
  <2> HIDE DEF g
  <2>6. Notes(sub, entries, m, g)
    BY <2>4, <2>5 DEF Notes
  <2> QED  BY <1>2, <2>6
<1> QED  BY <1>3, <1>4

LEMMA NotedAllIs ==
  ASSUME NEW sub, NEW entries, Len(entries) \in Nat
  PROVE  \E f : Notes(sub, entries, Len(entries), f) /\ NotedAll(sub, entries) = f[Len(entries)]
<1>1. \E f : Notes(sub, entries, Len(entries), f)
  BY NotesExist
<1>2. NotedAll(sub, entries)
        = (CHOOSE f : f = [k \in 0 .. Len(entries) |->
                             IF k = 0 THEN sub ELSE Noted(f[k - 1], entries[k])])[Len(entries)]
  BY DEF NotedAll
<1>3. \E f : f = [k \in 0 .. Len(entries) |-> IF k = 0 THEN sub ELSE Noted(f[k - 1], entries[k])]
  BY <1>1 DEF Notes
<1> QED  BY <1>2, <1>3 DEF Notes

\* What the entries leave of the submission: as much more of it as is found
\* among them.
LEMMA NotedAllFound ==
  ASSUME NEW sub \in Submission, sub.next_entry <= Len(sub.payloads),
         NEW m \in Nat, NEW all, Found(sub.payloads, sub.next_entry, all, m),
         NEW entries, Len(entries) \in Nat,
         \A k \in 1 .. Len(entries) : all[m + k] = entries[k]
  PROVE  LET r == NotedAll(sub, entries)
         IN  /\ r \in Submission /\ r.payloads = sub.payloads
             /\ r.next_entry <= Len(r.payloads)
             /\ Found(r.payloads, r.next_entry, all, m + Len(entries))
<1> DEFINE n == Len(entries)
<1>1. PICK f : Notes(sub, entries, n, f) /\ NotedAll(sub, entries) = f[n]
  BY NotedAllIs
<1> DEFINE Good(k) == /\ f[k] \in Submission /\ f[k].payloads = sub.payloads
                      /\ f[k].next_entry <= Len(f[k].payloads)
                      /\ Found(f[k].payloads, f[k].next_entry, all, m + k)
           Bad == {k \in Nat : k <= n /\ ~Good(k)}
<1>2. \A k \in 0 .. n : f[k] = IF k = 0 THEN sub ELSE Noted(f[k - 1], entries[k])
  BY <1>1 DEF Notes
<1>3. Bad = {}
  <2>1. SUFFICES ASSUME Bad # {} PROVE FALSE
    OBVIOUS
  <2>2. PICK k \in Bad : \A l \in Bad : k <= l
    BY <2>1, LeastNat
  <2>3. CASE k = 0
    <3>1. Good(0)
      BY <1>2
    <3> QED  BY <2>2, <2>3, <3>1
  <2>4. CASE k # 0
    <3>1. k - 1 \in Nat /\ k - 1 <= n /\ k \in 0 .. n /\ k \in 1 .. n /\ k - 1 \notin Bad
      BY <2>2, <2>4
    <3>2. Good(k - 1) /\ f[k] = Noted(f[k - 1], entries[k])
      BY <1>2, <2>4, <3>1
    <3>3. PICK s \in Submission : s = f[k - 1]
      BY <3>2
    <3>4. /\ s.next_entry <= Len(s.payloads) /\ s.payloads = sub.payloads
          /\ s.next_entry \in Nat
          /\ Found(s.payloads, s.next_entry, all, m + (k - 1))
      BY <3>2, <3>3 DEF Submission
    <3>5. /\ f[k] \in Submission /\ f[k].payloads = s.payloads
          /\ \/ f[k] = s
             \/ /\ f[k].next_entry = s.next_entry + 1
                /\ s.next_entry + 1 <= Len(s.payloads)
                /\ s.payloads[s.next_entry + 1] = entries[k]
      <4>1. f[k] = Noted(s, entries[k])
        BY <3>2, <3>3
      <4> QED  BY <3>4, <4>1, NotedOne, SMTT(30)
    <3>6. all[m + k] = entries[k] /\ m + (k - 1) + 1 = m + k /\ m + (k - 1) \in Nat
      BY <3>1
    <3>7. Found(f[k].payloads, f[k].next_entry, all, m + k)
      <4>1. CASE f[k] = s
        <5>1. m + (k - 1) <= m + k /\ m + k \in Nat
          BY <3>1
        <5>2. Found(s.payloads, s.next_entry, all, m + k)
          BY <3>4, <3>6, <5>1, FoundMore
        <5> QED  BY <4>1, <5>2
      <4>2. CASE f[k].next_entry = s.next_entry + 1 /\ s.payloads[s.next_entry + 1] = entries[k]
        <5>1. all[m + (k - 1) + 1] = s.payloads[s.next_entry + 1]
          BY <3>6, <4>2
        <5>2. Found(s.payloads, s.next_entry + 1, all, m + (k - 1) + 1)
          BY <3>4, <3>6, <5>1, FoundNext
        <5> QED  BY <3>5, <3>6, <4>2, <5>2
      <4> QED  BY <3>5, <4>1, <4>2
    <3>8. Good(k)
      BY <3>4, <3>5, <3>7
    <3> QED  BY <2>2, <3>8
  <2> QED  BY <2>3, <2>4
<1>4. n \in Nat /\ n <= n
  OBVIOUS
<1>5. Good(n)
  BY <1>3, <1>4
<1> QED  BY <1>1, <1>5

\* What is learned from entries of the log.
LEMMA LearnedFacts ==
  ASSUME log \in Seq(Payloads), PrefixInv, pending \in Submission, SubmissionInv,
         NEW I \in SUBSET DOMAIN log, NEW r, r = Learned(I)
  PROVE  /\ r.applied \in Seq(Payloads) /\ Len(applied) <= Len(r.applied)
         /\ Len(r.applied) <= Len(log)
         /\ \A i \in DOMAIN r.applied : r.applied[i] = log[i]
         /\ r.buffered \subseteq DOMAIN log /\ Len(r.applied) + 1 \notin r.buffered
         /\ \A i \in I \union buffered \union DOMAIN applied :
              i \in r.buffered \/ i \in DOMAIN r.applied
         /\ r.pending \in Submission /\ r.pending.payloads = pending.payloads
         /\ r.pending.next_entry <= Len(r.pending.payloads)
         /\ Found(r.pending.payloads, r.pending.next_entry, r.applied, Len(r.applied))
<1> DEFINE n == Len(applied)
           run == Contiguous(I)
           payloads == IF run = {} THEN << >> ELSE SubSeq(log, Min(run), Max(run))
<1>1. /\ n \in Nat /\ n <= Len(log) /\ Len(log) \in Nat
      /\ DOMAIN log = 1 .. Len(log) /\ DOMAIN applied = 1 .. n
      /\ buffered \subseteq 1 .. Len(log) /\ I \subseteq 1 .. Len(log) /\ n + 1 \notin buffered
      /\ \A i \in 1 .. n : applied[i] = log[i]
  BY DEF PrefixInv
<1>2. /\ r.applied = applied \o payloads
      /\ r.buffered = (buffered \union I) \ (1 .. n \union run)
      /\ r.pending = NotedAll(pending, payloads)
  BY <1>1 DEF Learned
<1>3. \A j : j \in run <=> j \in n + 1 .. Len(log) /\ n + 1 .. j \subseteq buffered \union I
  BY DEF Contiguous
<1>4. \E m \in n .. Len(log) :
        /\ run = n + 1 .. m /\ m + 1 \notin r.buffered
        /\ payloads \in Seq(Payloads) /\ Len(payloads) = m - n
        /\ \A k \in 1 .. m - n : payloads[k] = log[n + k]
  <2>1. CASE run = {}
    <3>1. n + 1 \notin buffered \union I
      <4>1. SUFFICES ASSUME n + 1 \in I PROVE FALSE
        BY <1>1
      <4>2. n + 1 \in n + 1 .. Len(log) /\ n + 1 .. n + 1 \subseteq buffered \union I
        BY <1>1, <4>1
      <4> QED  BY <1>3, <2>1, <4>2
    <3>2. payloads = << >> /\ payloads \in Seq(Payloads) /\ Len(payloads) = n - n
      BY <1>1, <2>1
    <3>3. n \in n .. Len(log) /\ n + 1 .. n = {} /\ 1 .. n - n = {}
      BY <1>1
    <3>4. n + 1 \notin r.buffered
      BY <1>2, <3>1
    <3> QED  BY <2>1, <3>2, <3>3, <3>4
  <2>2. CASE run # {}
    <3>1. run \in SUBSET (1 .. Len(log)) /\ run \in SUBSET Nat
      BY <1>1, <1>3
    <3>2. PICK m : m = Max(run) /\ m \in run /\ \A y \in run : y <= m
      BY <1>1, <2>2, <3>1, MaxFacts
    <3>3. m \in n + 1 .. Len(log) /\ n + 1 .. m \subseteq buffered \union I
      BY <1>3, <3>2
    <3>4. run = n + 1 .. m
      <4>1. ASSUME NEW j \in n + 1 .. m
            PROVE  j \in run
        <5>1. j \in n + 1 .. Len(log) /\ n + 1 .. j \subseteq n + 1 .. m
          BY <1>1, <3>3
        <5> QED  BY <1>3, <3>3, <5>1
      <4>2. ASSUME NEW j \in run
            PROVE  j \in n + 1 .. m
        <5>1. j \in n + 1 .. Len(log) /\ j <= m
          BY <1>3, <3>2, <4>2
        <5> QED  BY <1>1, <3>3, <5>1
      <4> HIDE DEF run
      <4> QED  BY <4>1, <4>2
    <3>5. Min(run) = n + 1
      <4>1. Min(run) \in run /\ \A y \in run : Min(run) <= y
        BY <2>2, <3>1, MinFacts
      <4>2. n + 1 \in run
        BY <1>1, <3>3, <3>4
      <4> HIDE DEF run
      <4> QED  BY <1>1, <3>3, <3>4, <4>1, <4>2
    <3>6. m + 1 \notin buffered \union I
      <4>1. SUFFICES ASSUME m + 1 \in buffered \union I PROVE FALSE
        OBVIOUS
      <4>2. m + 1 \in n + 1 .. Len(log) /\ n + 1 .. m + 1 \subseteq buffered \union I
        BY <1>1, <3>3, <4>1
      <4>3. m + 1 \in run
        BY <1>3, <4>2
      <4> QED  BY <1>1, <3>2, <3>3, <4>3
    <3>7. payloads = SubSeq(log, n + 1, m)
      BY <2>2, <3>2, <3>5
    <3>8. /\ SubSeq(log, n + 1, m) \in Seq(Payloads) /\ Len(SubSeq(log, n + 1, m)) = m - n
          /\ \A k \in 1 .. m - n : SubSeq(log, n + 1, m)[k] = log[n + k]
      <4>1. PICK l \in Seq(Payloads) : l = log
        OBVIOUS
      <4>2. PICK a \in Nat : a = n + 1
        BY <1>1
      <4>3. a \in 1 .. Len(l) + 1 /\ m \in a .. Len(l) /\ m \in Nat
        BY <1>1, <3>3, <4>1, <4>2
      <4>4. /\ SubSeq(l, a, m) \in Seq(Payloads) /\ Len(SubSeq(l, a, m)) = m - a + 1
            /\ \A k \in 1 .. m - a + 1 : SubSeq(l, a, m)[k] = l[a + k - 1]
        BY <4>3, SubSeqProperties
      <4>5. m - a + 1 = m - n /\ \A k \in 1 .. m - n : a + k - 1 = n + k
        BY <1>1, <3>3, <4>2
      <4> QED  BY <4>1, <4>2, <4>4, <4>5
    <3>9. m \in n .. Len(log)
      BY <1>1, <3>3
    <3>10. m + 1 \notin r.buffered
      BY <1>2, <3>6
    <3> QED  BY <3>4, <3>7, <3>8, <3>9, <3>10
  <2> QED  BY <2>1, <2>2
<1> HIDE DEF run, payloads
<1>5. PICK m \in n .. Len(log) :
        /\ run = n + 1 .. m /\ m + 1 \notin r.buffered
        /\ payloads \in Seq(Payloads) /\ Len(payloads) = m - n
        /\ \A k \in 1 .. m - n : payloads[k] = log[n + k]
  BY <1>4
<1>6. /\ r.applied \in Seq(Payloads) /\ Len(r.applied) = m
      /\ \A i \in 1 .. n : r.applied[i] = applied[i]
      /\ \A k \in 1 .. m - n : r.applied[n + k] = payloads[k]
  <2>1. PICK a \in Seq(Payloads), p \in Seq(Payloads) : a = applied /\ p = payloads
    BY <1>5 DEF PrefixInv
  <2>2. /\ a \o p \in Seq(Payloads) /\ Len(a \o p) = Len(a) + Len(p)
        /\ \A i \in 1 .. Len(a) : (a \o p)[i] = a[i]
        /\ \A k \in 1 .. Len(p) : (a \o p)[Len(a) + k] = p[k]
    OBVIOUS
  <2>3. n + (m - n) = m
    BY <1>1, <1>5
  <2> QED  BY <1>2, <1>5, <2>1, <2>2, <2>3
<1>7. ASSUME NEW i \in 1 .. m
      PROVE  r.applied[i] = log[i]
  <2>1. CASE i <= n
    BY <1>1, <1>6, <2>1
  <2>2. CASE i > n
    <3>1. i - n \in 1 .. m - n /\ n + (i - n) = i
      BY <1>1, <1>5, <2>2
    <3> QED  BY <1>5, <1>6, <3>1, ZenonT(60)
  <2> QED  BY <1>1, <1>5, <2>1, <2>2
<1>8. \A i \in I \union buffered \union DOMAIN applied : i \in r.buffered \/ i \in 1 .. m
  BY <1>1, <1>2, <1>5
<1>9. DOMAIN r.applied = 1 .. m
  BY <1>6
<1>10. Found(pending.payloads, pending.next_entry, r.applied, n)
  <2>1. Found(pending.payloads, pending.next_entry, applied, n) /\ pending.next_entry \in Nat
    BY DEF SubmissionInv, Submission
  <2> QED  BY <1>1, <1>6, <2>1, FoundMore
<1>11. \A k \in 1 .. Len(payloads) : r.applied[n + k] = payloads[k]
  BY <1>5, <1>6
<1>12. n + Len(payloads) = m /\ Len(payloads) \in Nat
  BY <1>1, <1>5
<1>13. /\ r.pending \in Submission /\ r.pending.payloads = pending.payloads
       /\ r.pending.next_entry <= Len(r.pending.payloads)
       /\ Found(r.pending.payloads, r.pending.next_entry, r.applied, m)
  <2>1. PICK sub \in Submission : sub = pending
    OBVIOUS
  <2>2. sub.next_entry <= Len(sub.payloads) /\ r.pending = NotedAll(sub, payloads)
    BY <1>2, <2>1 DEF SubmissionInv
  <2>3. Found(sub.payloads, sub.next_entry, r.applied, n) /\ n \in Nat
    BY <1>1, <1>10, <2>1
  <2> HIDE DEF n
  <2>a. PICK all : all = r.applied
    OBVIOUS
  <2>b. PICK ps : ps = payloads
    OBVIOUS
  <2>c. PICK k \in Nat : k = n
    BY <1>1
  <2>4. all = r.applied /\ ps = payloads /\ k = n
    BY <2>a, <2>b, <2>c
  <2>5. /\ Found(sub.payloads, sub.next_entry, all, k) /\ Len(ps) \in Nat
        /\ \A j \in 1 .. Len(ps) : all[k + j] = ps[j]
    BY <1>11, <1>12, <2>3, <2>4
  <2>6. LET a == NotedAll(sub, ps)
        IN  /\ a \in Submission /\ a.payloads = sub.payloads
            /\ a.next_entry <= Len(a.payloads)
            /\ Found(a.payloads, a.next_entry, all, k + Len(ps))
    BY <2>2, <2>5, NotedAllFound
  <2> QED  BY <1>12, <2>1, <2>2, <2>4, <2>6
<1>14. r.buffered \subseteq DOMAIN log
  BY <1>1, <1>2
<1> QED  BY <1>1, <1>5, <1>6, <1>7, <1>8, <1>9, <1>13, <1>14

-----------------------------------------------------------------------------
(* The gateway, the network and the session task *)

LEMMA SeedKept ==
  ASSUME SeedInv, UNCHANGED seeder, pc # "stopped",
         \A i \in DOMAIN log : i \in DOMAIN log' /\ log'[i] = log[i]
  PROVE  SeedInv'
<1>1. seeder.state # "ok" /\ \A i \in 1 .. seeder.at : i \in DOMAIN log
  BY DEF SeedInv
<1> QED  BY <1>1 DEF SeedInv

LEMMA CoverKept ==
  ASSUME CoverInv, UNCHANGED log, Refetch => Refetch',
         \A i \in DOMAIN log : Coming(i) => Coming(i)' \/ Refetch'
  PROVE  CoverInv'
BY DEF CoverInv

\* An entry is appended to the session.
LEMMA CommittedInv ==
  ASSUME CliInv, pc # "stopped", NEW p \in Payloads, Committed(p),
         up' \in Seq(Payloads), late' \in Seq(Payloads),
         UNCHANGED <<session, buffer, app, history, seeder>>
  PROVE  CliInv'
<1> USE DEF CliInv
<1>1. PICK l \in Seq(Payloads) : l = log
  BY DEF TypeInv
<1>2. /\ log' \in Seq(Payloads) /\ Len(log') = Len(log) + 1 /\ Len(log) \in Nat
      /\ DOMAIN log' = 1 .. Len(log) + 1 /\ DOMAIN log = 1 .. Len(log)
      /\ \A i \in DOMAIN log : i \in DOMAIN log' /\ log'[i] = log[i]
  BY <1>1 DEF Committed
<1>3. TypeInv'
  <2>1. EventsOK'
    BY <1>2 DEF TypeInv, EventsOK, session, InSeq, EntryEvent
  <2>2. down' \subseteq DOMAIN log'
    BY <1>2 DEF TypeInv, Committed
  <2> QED  BY <1>2, <2>1, <2>2 DEF TypeInv, session, buffer, app, history
<1>4. PrefixInv'
  <2>1. PICK a \in Seq(Payloads) : a = applied
    BY DEF PrefixInv
  <2>2. /\ a = applied' /\ DOMAIN a = 1 .. Len(a) /\ Len(a) \in Nat /\ Len(a) <= Len(log)
        /\ \A i \in DOMAIN a : a[i] = log[i]
        /\ buffered' = buffered /\ buffered \subseteq DOMAIN log /\ Len(a) + 1 \notin buffered
    BY <2>1 DEF PrefixInv, buffer
  <2>3. Len(a) <= Len(log')
    BY <1>2, <2>2
  <2>4. \A i \in DOMAIN a : a[i] = log'[i]
    BY <1>2, <2>2
  <2>5. buffered' \subseteq DOMAIN log'
    BY <1>2, <2>2
  <2> QED  BY <2>1, <2>2, <2>3, <2>4, <2>5 DEF PrefixInv
<1>5. SubmissionInv'
  BY DEF SubmissionInv, buffer, app, Found, Complete
<1>6. CoverInv'
  <2>0. PICK n \in Nat : n = Len(log)
    BY <1>2
  <2>1. CASE Refetch
    BY <2>1 DEF CoverInv, Refetch, session, app, history, InSeq
  <2>2. CASE ~Refetch
    <3>1. Subscribed
      BY <2>2 DEF Refetch, TypeInv, Subscribed
    <3>2. \A i \in DOMAIN log : Coming(i)
      BY <2>2 DEF CoverInv
    <3>3. \A i \in DOMAIN log : Coming(i)'
      BY <3>2 DEF Coming, Committed, session, buffer, InSeq, EntryEvent
    <3>4. n + 1 \in down'
      BY <2>0, <3>1 DEF Committed
    <3>5. ASSUME NEW i \in DOMAIN log'
          PROVE  Coming(i)'
      <4>1. i \in DOMAIN log \/ i = n + 1
        BY <1>2, <2>0
      <4> QED  BY <3>3, <3>4, <4>1 DEF Coming
    <3> QED  BY <3>5 DEF CoverInv, Coming, InSeq, EntryEvent
  <2> QED  BY <2>1, <2>2
<1> QED  BY <1>2, <1>3, <1>4, <1>5, <1>6, SeedKept

LEMMA AppendsInv ==
  ASSUME CliInv, pc # "stopped", UNCHANGED seeder,
         OthersAppend \/ AppendArrives \/ LateAppendArrives
  PROVE  CliInv'
<1>1. PICK u \in Seq(Payloads), l \in Seq(Payloads) : u = up /\ l = late
  BY DEF CliInv, TypeInv
<1>2. CASE OthersAppend
  <2>1. OthersPayload \in Payloads
    BY DEF Payloads
  <2> QED  BY <1>1, <1>2, <2>1, CommittedInv DEF OthersAppend
<1>3. CASE AppendArrives
  <2>1. Head(u) \in Payloads /\ Tail(u) \in Seq(Payloads)
    BY <1>1, <1>3 DEF AppendArrives
  <2> QED  BY <1>1, <1>3, <2>1, CommittedInv DEF AppendArrives
<1>4. CASE LateAppendArrives
  <2>1. Head(l) \in Payloads /\ Tail(l) \in Seq(Payloads)
    BY <1>1, <1>4 DEF LateAppendArrives
  <2> QED  BY <1>1, <1>4, <2>1, CommittedInv DEF LateAppendArrives
<1> QED  BY <1>2, <1>3, <1>4

\* A step of the task or the network leaves the log and the program alone.
LEMMA TaskSideInv ==
  ASSUME CliInv, pc # "stopped", UNCHANGED <<log, buffer, app, silent, seeder>>,
         TypeInv', CoverInv'
  PROVE  CliInv'
<1> USE DEF CliInv
<1>1. PrefixInv'
  BY DEF PrefixInv, buffer
<1>2. SubmissionInv'
  BY DEF SubmissionInv, buffer, app, Found, Complete
<1> QED  BY <1>1, <1>2, SeedKept

LEMMA NetworkInv ==
  ASSUME CliInv, pc # "stopped", UNCHANGED seeder,
         LateAppendsLost \/ ConnectionLost \/ CommandSent \/ CommandFails \/ CommandRefused
  PROVE  CliInv'
<1>1. UNCHANGED <<log, buffer, app, silent>>
  BY DEF LateAppendsLost, ConnectionLost, CommandSent, CommandFails, CommandRefused,
         gateway, session, history
<1>2. PICK u \in Seq(Payloads), l \in Seq(Payloads) : u = up /\ l = late
  BY DEF CliInv, TypeInv
<1>3. UNCHANGED <<events, made, hand>> /\ down' \subseteq DOMAIN log
  BY DEF LateAppendsLost, ConnectionLost, CommandSent, CommandFails, CommandRefused,
         gateway, session, history, CliInv, TypeInv
<1>4. up' \in Seq(Payloads) /\ late' \in Seq(Payloads) /\ cmd' \in Payloads \union {Nothing}
  <2>1. /\ << >> \in Seq(Payloads) /\ l \o u \in Seq(Payloads)
        /\ \A p \in Payloads : Append(u, p) \in Seq(Payloads) /\ l \o Append(u, p) \in Seq(Payloads)
    OBVIOUS
  <2>2. cmd # Nothing => cmd \in Payloads
    BY DEF CliInv, TypeInv
  <2>3. cmd \in Payloads \union {Nothing}
    BY DEF CliInv, TypeInv
  <2>4. CASE LateAppendsLost \/ ConnectionLost
    BY <1>2, <2>1, <2>3, <2>4 DEF LateAppendsLost, ConnectionLost, session
  <2>5. CASE CommandSent
    BY <1>2, <2>1, <2>2, <2>5 DEF CommandSent
  <2>6. CASE CommandFails
    BY <1>2, <2>1, <2>2, <2>6 DEF CommandFails
  <2>7. CASE CommandRefused
    BY <1>2, <2>7 DEF CommandRefused, gateway
  <2> QED  BY <2>4, <2>5, <2>6, <2>7
<1>5. (task' = task /\ down' = down) \/ task' = "report"
  BY DEF LateAppendsLost, ConnectionLost, CommandSent, CommandFails, CommandRefused,
         gateway, session
<1>6. TypeInv'
  <2>1. EventsOK'
    BY <1>1, <1>3 DEF CliInv, TypeInv, EventsOK, InSeq, EntryEvent
  <2> QED  BY <1>1, <1>3, <1>4, <1>5, <2>1 DEF CliInv, TypeInv, buffer, app
<1>7. CoverInv'
  <2>1. CASE task' = "report"
    BY <2>1 DEF CoverInv, Refetch
  <2>2. CASE task' = task /\ down' = down
    <3>1. (Refetch' <=> Refetch) /\ \A i : Coming(i)' <=> Coming(i)
      BY <1>1, <1>3, <2>2 DEF Refetch, Coming, InSeq, EntryEvent, app, buffer
    <3> QED  BY <1>1, <3>1, CoverKept DEF CliInv
  <2> QED  BY <1>5, <2>1, <2>2
<1> QED  BY <1>1, <1>6, <1>7, TaskSideInv

\* The connection is made again, or not yet.
LEMMA ReconnectInv ==
  ASSUME CliInv, pc # "stopped", UNCHANGED seeder,
         ReconnectSucceeds \/ ReconnectFails \/ BackoffEnds
  PROVE  CliInv'
<1>1. /\ UNCHANGED <<gateway, hand, cmd, reply, events, buffer, app, history>>
      /\ task' \in {"announce", "sleeping", "connecting"}
  BY DEF ReconnectSucceeds, ReconnectFails, BackoffEnds
<1>2. TypeInv'
  <2>1. EventsOK'
    BY <1>1 DEF CliInv, TypeInv, EventsOK, InSeq, EntryEvent, gateway
  <2> QED  BY <1>1, <2>1 DEF CliInv, TypeInv, gateway, buffer, app, history
<1>3. CoverInv'
  BY <1>1 DEF CoverInv, Refetch
<1> QED  BY <1>1, <1>2, <1>3, TaskSideInv DEF gateway, history

\* Something is put into the event channel.
LEMMA EmittedInv ==
  ASSUME CliInv, pc # "stopped", UNCHANGED <<seeder, log, up, late, cmd, buffer, app, history>>,
         NEW e \in AnyEvent, Emit(e), e.type = "entry" => e.index \in DOMAIN log,
         down' \subseteq down, task' \in {"connected", "connecting"},
         \A i \in DOMAIN log : Coming(i) => Coming(i)' \/ Refetch',
         Refetch => Refetch'
  PROVE  CliInv'
<1>1. EventsOK'
  BY EventEmitted DEF CliInv, TypeInv
<1>2. TypeInv'
  BY <1>1 DEF CliInv, TypeInv, buffer, app, history
<1>3. CoverInv'
  BY CoverKept DEF CliInv
<1> QED  BY <1>2, <1>3, TaskSideInv DEF history

LEMMA EmitInv ==
  ASSUME CliInv, pc # "stopped", UNCHANGED seeder,
         Unblocked \/ LossReported \/ ReconnectAnnounced \/ \E i \in down : EntryArrives(i)
  PROVE  CliInv'
<1> USE DEF CliInv
<1>1. EventsOK /\ down \subseteq DOMAIN log /\ DOMAIN log \subseteq Nat
  <2>1. PICK l \in Seq(Payloads) : l = log
    BY DEF TypeInv
  <2> QED  BY <2>1 DEF TypeInv
<1>2. CASE Unblocked
  <2>1. hand \in DOMAIN log /\ hand \in Nat /\ task = "blocked"
    BY <1>1, <1>2 DEF Unblocked, TypeInv
  <2>2. EntryEvent(hand) \in AnyEvent /\ EntryEvent(hand).index = hand
    BY <2>1, EventKinds
  <2>3. \A x : InSeq(x, events') <=> InSeq(x, events) \/ x = EntryEvent(hand)
    BY <1>1, <1>2, <2>1, <2>2, EventEmitted DEF Unblocked, gateway
  <2>4. \A i : Coming(i) => Coming(i)'
    BY <1>2, <2>1, <2>3 DEF Coming, Unblocked, gateway, buffer, InSeq, EntryEvent
  <2>5. Refetch => Refetch'
    BY <1>2, <2>1, <2>3 DEF Refetch, Unblocked, app, history, InSeq
  <2> QED  BY <1>2, <2>1, <2>2, <2>4, <2>5, EmittedInv DEF Unblocked, gateway
<1>3. CASE LossReported
  <2>1. Disconnected \in AnyEvent /\ Disconnected.type # "entry"
    BY EventKinds
  <2>2. Refetch'
    BY <1>3 DEF LossReported, Refetch
  <2> QED  BY <1>3, <2>1, <2>2, EmittedInv DEF LossReported, gateway
<1>4. CASE ReconnectAnnounced
  <2>1. Reconnected \in AnyEvent /\ Reconnected.type # "entry"
    BY EventKinds
  <2>2. InSeq(Reconnected, events')
    BY <1>1, <1>4, <2>1, EventEmitted DEF ReconnectAnnounced, gateway
  <2>3. Refetch'
    BY <2>2 DEF Refetch, InSeq
  <2> QED  BY <1>4, <2>1, <2>3, EmittedInv DEF ReconnectAnnounced, gateway
<1>5. ASSUME NEW i \in down, EntryArrives(i)
      PROVE  CliInv'
  <2>1. i \in DOMAIN log /\ i \in Nat /\ EntryEvent(i) \in AnyEvent /\ EntryEvent(i).index = i
    BY <1>1, <1>5, EventKinds
  <2>2. /\ task = "connected" /\ down' = down \ {i}
        /\ UNCHANGED <<log, up, late, cmd, reply, buffer, app, history>>
    BY <1>5 DEF EntryArrives
  <2>3. CASE Emit(EntryEvent(i)) /\ UNCHANGED <<task, hand>>
    <3>1. \A x : InSeq(x, events') <=> InSeq(x, events) \/ x = EntryEvent(i)
      BY <1>1, <2>1, <2>2, <2>3, EventEmitted
    <3>2. \A j : Coming(j) => Coming(j)'
      BY <2>2, <2>3, <3>1 DEF Coming, buffer, InSeq, EntryEvent
    <3>3. Refetch => Refetch'
      BY <2>2, <2>3, <3>1 DEF Refetch, app, history, InSeq
    <3> QED  BY <2>1, <2>2, <2>3, <3>2, <3>3, EmittedInv
  <2>4. CASE task' = "blocked" /\ hand' = i /\ UNCHANGED events
    <3>1. TypeInv'
      <4>1. EventsOK'
        BY <1>1, <2>2, <2>4 DEF EventsOK, InSeq, EntryEvent
      <4> QED  BY <2>1, <2>2, <2>4, <4>1 DEF TypeInv, buffer, app, history
    <3>2. CoverInv'
      <4>1. \A j : Coming(j) => Coming(j)'
        BY <2>2, <2>4 DEF Coming, buffer, InSeq, EntryEvent
      <4>2. Refetch => Refetch'
        BY <2>2, <2>4 DEF Refetch, app, history, InSeq
      <4> QED  BY <2>2, <4>1, <4>2, CoverKept
    <3> QED  BY <2>2, <3>1, <3>2, TaskSideInv DEF history
  <2> QED  BY <1>5, <2>3, <2>4 DEF EntryArrives
<1> QED  BY <1>2, <1>3, <1>4, <1>5

-----------------------------------------------------------------------------
(* The application learns entries *)

\* A step of a program: it takes an event or none, and what it changes holds.
LEMMA ProgramInv ==
  ASSUME CliInv, pc # "stopped", UNCHANGED <<gateway, task, hand, seeder>>,
         UNCHANGED events \/ (events # << >> /\ events' = Tail(events)),
         cmd' \in Payloads \union {Nothing}, pending' \in Submission, made' \in Nat,
         pc' # "stopped" => drafts' \in Seq(Draft),
         PrefixInv', SubmissionInv', CoverInv'
  PROVE  CliInv'
<1>1. EventsOK'
  <2>1. CASE UNCHANGED events
    BY <2>1 DEF CliInv, TypeInv, EventsOK, InSeq, EntryEvent, gateway
  <2>2. CASE events # << >> /\ events' = Tail(events)
    BY <2>2, EventTaken DEF CliInv, TypeInv, gateway
  <2> QED  BY <2>1, <2>2
<1>2. TypeInv'
  BY <1>1 DEF CliInv, TypeInv, gateway
<1>3. SeedInv'
  BY SeedKept DEF CliInv, gateway
<1> QED  BY <1>2, <1>3 DEF CliInv

LEMMA NoneFacts ==
  /\ None \in Submission /\ ~Complete(None)
  /\ \A entries, m : m \in Nat => Found(None.payloads, None.next_entry, entries, m)
  /\ \A sub \in Submission :
       sub.payloads = << >> /\ sub.next_entry <= Len(sub.payloads) => sub = None
<1>1. ASSUME NEW entries, NEW m \in Nat
      PROVE  Found(None.payloads, None.next_entry, entries, m)
  <2>1. [k \in 1 .. 0 |-> 1] \in [1 .. 0 -> 1 .. m] /\ 1 .. 0 = {}
    OBVIOUS
  <2> QED  BY <2>1 DEF None, Found
<1>2. << >> \in Seq(Payloads) /\ Len(<< >>) = 0
  OBVIOUS
<1> QED  BY <1>1, <1>2 DEF None, Submission, Complete

\* What is left of a submission, settled.
LEMMA Settled ==
  ASSUME NEW sub \in Submission, sub.next_entry <= Len(sub.payloads),
         Len(applied') \in Nat, Found(sub.payloads, sub.next_entry, applied', Len(applied')),
         asked' => sub = None,
         drafts \in Seq(Draft), NEW next, Settle(sub, next)
  PROVE  /\ pending' \in Submission /\ SubmissionInv'
         /\ pc' # "stopped" => drafts' \in Seq(Draft)
<1>1. CASE Complete(sub)
  <2>1. pending' = None /\ (pc' # "stopped" => drafts' = << >>)
    BY <1>1 DEF Settle
  <2>2. SubmissionInv'
    BY <2>1, NoneFacts DEF SubmissionInv, Found, Complete, None
  <2>3. None \in Submission /\ << >> \in Seq(Draft)
    BY NoneFacts
  <2> QED  BY <2>1, <2>2, <2>3
<1>2. CASE ~Complete(sub)
  <2>1. pending' = sub /\ drafts' = drafts
    BY <1>2 DEF Settle
  <2> QED  BY <1>2, <2>1 DEF SubmissionInv, Found, Complete, None
<1> QED  BY <1>1, <1>2

\* Entries of the log are learned.
LEMMA LearnedInv ==
  ASSUME CliInv, UNCHANGED log, NEW I \in SUBSET DOMAIN log, NEW r, r = Learned(I),
         applied' = r.applied, buffered' = r.buffered
  PROVE  /\ PrefixInv' /\ Len(applied') \in Nat
         /\ \A i \in I \union buffered \union DOMAIN applied :
              i \in buffered' \/ i \in DOMAIN applied'
         /\ r.pending \in Submission /\ r.pending.next_entry <= Len(r.pending.payloads)
         /\ Found(r.pending.payloads, r.pending.next_entry, applied', Len(applied'))
         /\ pending = None => r.pending = None
<1>1. /\ r.applied \in Seq(Payloads) /\ Len(applied) <= Len(r.applied)
      /\ Len(r.applied) <= Len(log)
      /\ \A i \in DOMAIN r.applied : r.applied[i] = log[i]
      /\ r.buffered \subseteq DOMAIN log /\ Len(r.applied) + 1 \notin r.buffered
      /\ \A i \in I \union buffered \union DOMAIN applied :
           i \in r.buffered \/ i \in DOMAIN r.applied
      /\ r.pending \in Submission /\ r.pending.payloads = pending.payloads
      /\ r.pending.next_entry <= Len(r.pending.payloads)
      /\ Found(r.pending.payloads, r.pending.next_entry, r.applied, Len(r.applied))
  BY LearnedFacts DEF CliInv, TypeInv
<1>2. PrefixInv' /\ Len(applied') \in Nat
  BY <1>1 DEF PrefixInv
<1>3. pending = None => r.pending = None
  <2>1. None.payloads = << >>
    BY DEF None
  <2> QED  BY <1>1, <2>1, NoneFacts
<1>4. Found(r.pending.payloads, r.pending.next_entry, applied', Len(applied'))
  BY <1>1
<1>5. \A i \in I \union buffered \union DOMAIN applied : i \in buffered' \/ i \in DOMAIN applied'
  BY <1>1
<1> QED  BY <1>1, <1>2, <1>3, <1>4, <1>5

\* catch_up, a page
LEMMA PageFetchedInv ==
  ASSUME CliInv, PageFetched, UNCHANGED seeder
  PROVE  CliInv'
<1> USE DEF CliInv
<1> DEFINE last == IF Len(applied) + PageLimit < Len(log) THEN Len(applied) + PageLimit
                     ELSE Len(log)
<1>1. PICK I : I = Len(applied) + 1 .. last
  OBVIOUS
<1>2. PICK r : r = Learned(I)
  OBVIOUS
<1>3. I \in SUBSET DOMAIN log
  <2>1. Len(log) \in Nat /\ Len(applied) \in Nat /\ DOMAIN log = 1 .. Len(log)
    BY DEF TypeInv, PrefixInv
  <2> QED  BY <1>1, <2>1, LimitsAssumption
<1>4. /\ pc = "catch_up" /\ applied' = r.applied /\ buffered' = r.buffered
      /\ pending' = r.pending
      /\ UNCHANGED <<gateway, session, drafts, app, history, seeder>>
  BY <1>1, <1>2 DEF PageFetched, ApplyOrBuffer
<1>5. /\ PrefixInv' /\ Len(applied') \in Nat
      /\ r.pending \in Submission /\ r.pending.next_entry <= Len(r.pending.payloads)
      /\ Found(r.pending.payloads, r.pending.next_entry, applied', Len(applied'))
      /\ pending = None => r.pending = None
  BY <1>2, <1>3, <1>4, LearnedInv DEF gateway
<1>6. SubmissionInv'
  <2>1. pc' = "catch_up" /\ (asked' => pending' = None)
    BY <1>4, <1>5 DEF SubmissionInv, app
  <2>2. pending'.next_entry <= Len(pending'.payloads)
    BY <1>4, <1>5
  <2>3. Found(pending.payloads, pending.next_entry, applied, Len(applied))'
    BY <1>4, <1>5 DEF Found
  <2> QED  BY <2>1, <2>2, <2>3 DEF SubmissionInv, None
<1>7. CoverInv'
  BY <1>4 DEF CoverInv, Refetch, app
<1> QED  BY <1>4, <1>5, <1>6, <1>7, ProgramInv DEF TypeInv, session, app, history

\* The application takes an event in turn; what is missed is still fetched, if
\* it is no Reconnected or it is a drained one.
LEMMA TakenCover ==
  ASSUME CliInv, events # << >>, events' = Tail(events), UNCHANGED <<log, down, task, hand>>,
         Head(events) = Reconnected => Refetch',
         silent => silent', pc \in {"catch_up", "seeding"} => Refetch',
         \A i \in DOMAIN log : i \in buffered \/ i \in DOMAIN applied \/ Head(events) = EntryEvent(i)
                                  => i \in buffered' \/ i \in DOMAIN applied'
  PROVE  pc # "stopped" => CoverInv'
<1>1. \A e : InSeq(e, events) => e = Head(events) \/ InSeq(e, events')
  BY EventTaken DEF CliInv, TypeInv
<1>2. pc # "stopped" /\ Refetch => Refetch'
  <2>1. InSeq(Reconnected, events) => Refetch'
    BY <1>1 DEF Refetch, InSeq
  <2> QED  BY <2>1 DEF Refetch
<1>3. \A i \in DOMAIN log : Coming(i) => Coming(i)'
  BY <1>1 DEF Coming, InSeq, EntryEvent
<1> QED  BY <1>2, <1>3, CoverKept DEF CliInv

LEMMA PrefixKept ==
  ASSUME PrefixInv, UNCHANGED <<log, applied, buffered>>
  PROVE  PrefixInv'
BY DEF PrefixInv

LEMMA SubmissionKept ==
  ASSUME SubmissionInv, UNCHANGED <<applied, pending>>, asked' => pending = None,
         pc' \in {"catch_up", "drain", "stopped"} \/ ~Complete(pending)
  PROVE  SubmissionInv'
BY DEF SubmissionInv, Found, Complete, None

\* drain_queued_session_events, one of them
LEMMA DrainInv ==
  ASSUME CliInv, Drain, UNCHANGED seeder
  PROVE  CliInv'
<1> USE DEF CliInv
<1>1. /\ pc = "drain" /\ pc' = "drain" /\ events # << >> /\ events' = Tail(events)
      /\ UNCHANGED <<gateway, task, hand, cmd, drafts, asked, made, seeder>>
  BY DEF Drain
<1>2. Head(events) \in AnyEvent /\ (Head(events).type = "entry" => Head(events).index \in DOMAIN log)
  BY <1>1, EventTaken DEF TypeInv, gateway
<1>3. CASE Head(events).type = "entry"
  <2>1. PICK I : I = {Head(events).index}
    OBVIOUS
  <2>2. PICK r : r = Learned(I)
    OBVIOUS
  <2>3. /\ applied' = r.applied /\ buffered' = r.buffered /\ pending' = r.pending
        /\ UNCHANGED silent
    BY <1>3, <2>1, <2>2 DEF Drain, ApplyOrBuffer
  <2>4. I \in SUBSET DOMAIN log
    BY <1>2, <1>3, <2>1
  <2>5. /\ PrefixInv' /\ Len(applied') \in Nat
        /\ \A i \in I \union buffered \union DOMAIN applied :
             i \in buffered' \/ i \in DOMAIN applied'
        /\ r.pending \in Submission /\ r.pending.next_entry <= Len(r.pending.payloads)
        /\ Found(r.pending.payloads, r.pending.next_entry, applied', Len(applied'))
        /\ pending = None => r.pending = None
    BY <1>1, <2>2, <2>3, <2>4, LearnedInv DEF gateway
  <2>6. SubmissionInv'
    <3>1. asked' => pending' = None
      BY <1>1, <2>3, <2>5 DEF SubmissionInv
    <3>2. pending'.next_entry <= Len(pending'.payloads)
      BY <2>3, <2>5
    <3>3. Found(pending.payloads, pending.next_entry, applied, Len(applied))'
      BY <2>3, <2>5 DEF Found
    <3> QED  BY <1>1, <3>1, <3>2, <3>3 DEF SubmissionInv, None
  <2>7. \A i : Head(events) = EntryEvent(i) => i \in I
    BY <2>1, EventKinds
  <2>8. CoverInv'
    <3>1. Head(events) # Reconnected
      BY <1>3, EventKinds
    <3> QED  BY <1>1, <2>3, <2>5, <2>7, <3>1, TakenCover DEF gateway
  <2> QED  BY <1>1, <2>3, <2>5, <2>6, <2>8, ProgramInv DEF TypeInv
<1>4. CASE Head(events).type # "entry"
  <2>1. UNCHANGED <<applied, buffered, pending>> /\ silent' = (silent \/ Head(events) = Reconnected)
    BY <1>4 DEF Drain
  <2>2. PrefixInv' /\ SubmissionInv'
    BY <1>1, <2>1, PrefixKept, SubmissionKept DEF gateway, SubmissionInv
  <2>3. CoverInv'
    <3>1. Head(events) = Reconnected => Refetch'
      BY <2>1 DEF Refetch
    <3>2. silent => silent'
      BY <2>1
    <3>3. \A i : Head(events) # EntryEvent(i)
      BY <1>4, EventKinds
    <3> QED  BY <1>1, <2>1, <3>1, <3>2, <3>3, TakenCover DEF gateway
  <2> QED  BY <1>1, <2>1, <2>2, <2>3, ProgramInv DEF TypeInv
<1> QED  BY <1>3, <1>4

LEMMA HandleEntryInv ==
  ASSUME CliInv, HandleEntry, UNCHANGED seeder
  PROVE  CliInv'
<1> USE DEF CliInv
<1>1. /\ pc \in {"idle", "echo"} /\ events # << >> /\ events' = Tail(events)
      /\ Head(events).type = "entry"
      /\ UNCHANGED <<gateway, task, hand, cmd, asked, made, silent, seeder>>
  BY DEF HandleEntry, TakeEvent
<1>2. Head(events).index \in DOMAIN log
  BY <1>1, EventTaken DEF TypeInv, gateway
<1>3. PICK I : I = {Head(events).index}
  OBVIOUS
<1>4. PICK r : r = Learned(I)
  OBVIOUS
<1>5. applied' = r.applied /\ buffered' = r.buffered /\ Settle(r.pending, pc)
  BY <1>3, <1>4 DEF HandleEntry
<1>6. I \in SUBSET DOMAIN log
  BY <1>2, <1>3
<1>7. /\ PrefixInv' /\ Len(applied') \in Nat
      /\ \A i \in I \union buffered \union DOMAIN applied :
           i \in buffered' \/ i \in DOMAIN applied'
      /\ r.pending \in Submission /\ r.pending.next_entry <= Len(r.pending.payloads)
      /\ Found(r.pending.payloads, r.pending.next_entry, applied', Len(applied'))
      /\ pending = None => r.pending = None
  BY <1>1, <1>4, <1>5, <1>6, LearnedInv DEF gateway
<1>8. asked' => r.pending = None
  BY <1>1, <1>7 DEF SubmissionInv
<1>9. /\ pending' \in Submission /\ SubmissionInv'
      /\ pc' # "stopped" => drafts' \in Seq(Draft)
  BY <1>1, <1>5, <1>7, <1>8, Settled DEF TypeInv
<1>10. \A i : Head(events) = EntryEvent(i) => i \in I
  BY <1>3, EventKinds
<1>11. CoverInv'
  <2>1. Head(events) # Reconnected
    BY <1>1, EventKinds
  <2> QED  BY <1>1, <1>7, <1>10, <2>1, TakenCover DEF gateway
<1> QED  BY <1>1, <1>7, <1>9, <1>11, ProgramInv DEF TypeInv

LEMMA HandleOthersInv ==
  ASSUME CliInv, HandleDisconnected \/ HandleReconnected, UNCHANGED seeder
  PROVE  CliInv'
<1> USE DEF CliInv
<1>1. /\ pc \in {"idle", "echo"} /\ events # << >> /\ events' = Tail(events)
      /\ Head(events).type \in {"disconnected", "reconnected"}
      /\ UNCHANGED <<gateway, task, hand, cmd, buffer, asked, made, silent, seeder>>
  BY DEF HandleDisconnected, HandleReconnected, TakeEvent
<1>2. /\ HandleDisconnected => pc' = "idle" /\ Head(events).type = "disconnected"
      /\ HandleReconnected => pc' = "catch_up"
  BY DEF HandleDisconnected, HandleReconnected, TakeEvent
<1>3. PrefixInv'
  BY <1>1, PrefixKept DEF gateway, buffer
<1>4. ~Complete(pending) /\ (asked => pending = None)
  BY <1>1 DEF SubmissionInv
<1>5. SubmissionInv'
  BY <1>1, <1>4, SubmissionKept DEF buffer
<1>6. CoverInv'
  <2>1. CASE HandleReconnected
    BY <1>2, <2>1 DEF CoverInv, Refetch
  <2>2. CASE HandleDisconnected
    <3>1. Head(events) # Reconnected /\ \A i : Head(events) # EntryEvent(i)
      BY <1>2, <2>2, EventKinds
    <3> QED  BY <1>1, <3>1, TakenCover DEF gateway, buffer
  <2> QED  BY <2>1, <2>2
<1> QED  BY <1>1, <1>3, <1>5, <1>6, ProgramInv DEF TypeInv, buffer

-----------------------------------------------------------------------------
(* The application takes no event *)

\* What is missed is still fetched by a step that takes no event, if it does
\* not end a catch-up.
LEMMA SteadyCover ==
  ASSUME CliInv, UNCHANGED <<log, down, task, hand, events, applied, buffered, silent>>,
         pc \in {"catch_up", "seeding"} => Refetch', pc # "stopped"
  PROVE  CoverInv'
<1>1. Refetch => Refetch'
  BY DEF Refetch, InSeq
<1>2. \A i : Coming(i) => Coming(i)'
  BY DEF Coming, InSeq, EntryEvent
<1> QED  BY <1>1, <1>2, CoverKept DEF CliInv

\* A step that takes no event and keeps the buffer.
LEMMA SteadyInv ==
  ASSUME CliInv, pc # "stopped",
         UNCHANGED <<gateway, task, hand, events, applied, buffered, silent, seeder>>,
         pc \notin {"catch_up", "seeding"},
         cmd' \in Payloads \union {Nothing}, pending' \in Submission, made' \in Nat,
         pc' # "stopped" => drafts' \in Seq(Draft), SubmissionInv'
  PROVE  CliInv'
<1>1. PrefixInv'
  BY PrefixKept DEF CliInv, gateway
<1>2. CoverInv'
  BY SteadyCover DEF gateway
<1> QED  BY <1>1, <1>2, ProgramInv

\* The end of a catch-up: the log is at an end too.
LEMMA FetchedAllInv ==
  ASSUME CliInv, FetchedAll \/ FetchFails, UNCHANGED seeder
  PROVE  CliInv'
<1> USE DEF CliInv
<1>1. /\ pc = "catch_up" /\ pc' \in {"drain", "stopped"}
      /\ UNCHANGED <<gateway, session, buffer, asked, made, seeder>>
      /\ pc' = "drain" => Len(applied) >= Len(log)
  BY DEF FetchedAll, FetchFails, history
<1>2. PrefixInv'
  BY <1>1, PrefixKept DEF gateway, buffer
<1>3. SubmissionInv'
  BY <1>1, SubmissionKept DEF SubmissionInv, buffer
<1>4. CoverInv'
  <2>1. CASE pc' = "drain"
    <3>1. DOMAIN log = 1 .. Len(log) /\ Len(log) \in Nat
      BY DEF TypeInv
    <3>2. DOMAIN applied = 1 .. Len(applied) /\ Len(applied) \in Nat
      BY DEF PrefixInv
    <3>3. \A i \in DOMAIN log : i \in DOMAIN applied
      BY <1>1, <2>1, <3>1, <3>2
    <3> QED  BY <1>1, <3>3 DEF CoverInv, Coming, gateway, buffer
  <2>2. CASE pc' = "stopped"
    BY <2>2 DEF CoverInv, Refetch
  <2> QED  BY <1>1, <2>1, <2>2
<1> QED  BY <1>1, <1>2, <1>3, <1>4, ProgramInv DEF TypeInv, buffer, session

LEMMA DrainedInv ==
  ASSUME CliInv, Drained, UNCHANGED seeder
  PROVE  CliInv'
<1> USE DEF CliInv
<1>1. /\ pc = "drain"
      /\ UNCHANGED <<gateway, session, applied, buffered, connected, asked, history, seeder>>
  BY DEF Drained
<1>2. PICK next : Settle(pending, next)
  BY DEF Drained
<1>3. PICK sub \in Submission : sub = pending
  BY DEF TypeInv
<1>4. /\ sub.next_entry <= Len(sub.payloads) /\ (asked' => sub = None)
      /\ Len(applied') \in Nat
      /\ Found(sub.payloads, sub.next_entry, applied', Len(applied'))
  <2>1. Found(sub.payloads, sub.next_entry, applied, Len(applied))
    BY <1>3 DEF SubmissionInv
  <2>2. Len(applied) \in Nat
    BY DEF PrefixInv
  <2> QED  BY <1>1, <1>3, <2>1, <2>2 DEF SubmissionInv
<1>5. drafts \in Seq(Draft)
  BY <1>1 DEF TypeInv
<1>6. /\ pending' \in Submission /\ SubmissionInv'
      /\ pc' # "stopped" => drafts' \in Seq(Draft)
  BY <1>2, <1>3, <1>4, <1>5, Settled
<1> QED  BY <1>1, <1>6, SteadyInv DEF TypeInv, session, history

\* A step by which nothing of the submission changes.
LEMMA IdleInv ==
  ASSUME CliInv,
         UNCHANGED <<gateway, task, hand, events, applied, buffered, pending, silent, seeder>>,
         cmd' \in Payloads \union {Nothing}, made' \in Nat,
         drafts' \in Seq(Draft), asked' => pending = None,
         pc \in {"idle", "resume", "append", "echo"}
  PROVE  CliInv'
<1>1. ~Complete(pending) /\ pending' \in Submission
  BY DEF CliInv, SubmissionInv, TypeInv
<1>2. SubmissionInv'
  BY <1>1, SubmissionKept DEF CliInv
<1> QED  BY <1>1, <1>2, SteadyInv

LEMMA ResumeInv ==
  ASSUME CliInv, ResumeEnds \/ ResumeSends \/ Replied \/ EchoSeen, UNCHANGED seeder
  PROVE  CliInv'
<1>1. /\ UNCHANGED <<gateway, task, hand, events, buffer, asked, history, seeder>>
      /\ pc \in {"resume", "append", "echo"}
  BY DEF ResumeEnds, ResumeSends, Replied, EchoSeen, session
<1>2. cmd' \in Payloads \union {Nothing}
  <2>1. CASE ResumeEnds \/ Replied \/ EchoSeen
    BY <2>1 DEF ResumeEnds, Replied, EchoSeen, session, CliInv, TypeInv
  <2>2. CASE ResumeSends
    <3>1. PICK sub \in Submission : sub = pending
      BY DEF CliInv, TypeInv
    <3>2. PICK ps \in Seq(Payloads), n \in Nat : ps = sub.payloads /\ n = sub.next_entry
      BY DEF Submission
    <3>3. n < Len(ps)
      BY <2>2, <3>1, <3>2 DEF ResumeSends, CliInv, SubmissionInv, Complete
    <3>4. n + 1 \in DOMAIN ps /\ ps[n + 1] \in Payloads
      BY <3>2, <3>3
    <3>5. cmd' = ps[n + 1]
      BY <2>2, <3>1, <3>2 DEF ResumeSends
    <3> QED  BY <3>4, <3>5
  <2> QED  BY <2>1, <2>2
<1> QED  BY <1>1, <1>2, IdleInv DEF CliInv, TypeInv, SubmissionInv, buffer, history

\* Drafts are made and cleared, and a submission is asked for.
LEMMA DraftsInv ==
  ASSUME CliInv, (\E kind \in DraftKinds : MakeDraft(kind)) \/ AskSubmit \/ Cancel \/ Clear,
         UNCHANGED seeder
  PROVE  CliInv'
<1>1. PICK ds \in Seq(Draft) : ds = drafts
  BY DEF CliInv, TypeInv, MakeDraft, AskSubmit, Cancel, Clear
<1>2. /\ UNCHANGED <<gateway, session, applied, buffered, pending, silent, seeder>>
      /\ asked' => pending = None
      /\ pc = "idle" /\ made \in Nat
  BY DEF MakeDraft, AskSubmit, Cancel, Clear, app, buffer, history, CliInv, TypeInv, SubmissionInv
<1>3. CASE AskSubmit \/ Cancel \/ Clear
  <2>1. drafts' \in Seq(Draft) /\ made' = made
    <3>1. << >> \in Seq(Draft)
      OBVIOUS
    <3> QED  BY <1>1, <1>3, <3>1 DEF AskSubmit, Cancel, Clear, buffer, history
  <2> QED  BY <1>2, <2>1, IdleInv DEF CliInv, TypeInv, session
<1>4. ASSUME NEW kind \in DraftKinds, MakeDraft(kind)
      PROVE  CliInv'
  <2> DEFINE claims == {i \in DOMAIN ds : ds[i].kind = "claim"}
             draft == [kind |-> kind, id |-> made,
                       to |-> IF kind = "link" THEN ds[Max(claims)].id ELSE made]
  <2>1. made < MaxDrafts /\ made' = made + 1 /\ (kind = "link" => claims # {})
        /\ drafts' = Append(ds, draft)
    BY <1>1, <1>4 DEF MakeDraft
  <2>2. kind = "link" => ds[Max(claims)].id \in Nat
    <3>1. claims \in SUBSET (1 .. Len(ds)) /\ Len(ds) \in Nat
      OBVIOUS
    <3>2. claims # {} => Max(claims) \in claims
      <4> HIDE DEF claims
      <4> QED  BY <3>1, MaxFacts
    <3>3. \A i \in claims : ds[i] \in Draft
      OBVIOUS
    <3> HIDE DEF claims
    <3> QED  BY <2>1, <3>2, <3>3 DEF Draft
  <2>3. made \in 0 .. MaxDrafts - 1
    BY <1>2, <2>1, LimitsAssumption
  <2> HIDE DEF claims
  <2>4. draft \in Draft
    BY <1>2, <2>2, <2>3 DEF Draft
  <2>5. drafts' \in Seq(Draft) /\ made' \in Nat
    <3> HIDE DEF draft
    <3> QED  BY <1>2, <2>1, <2>4
  <2> QED  BY <1>2, <2>5, IdleInv DEF CliInv, TypeInv, session
<1> QED  BY <1>3, <1>4

LEMMA ConfirmInv ==
  ASSUME CliInv, ConfirmSubmit, UNCHANGED seeder
  PROVE  CliInv'
<1>1. PICK ds \in Seq(Draft) : ds = drafts
  BY DEF CliInv, TypeInv, ConfirmSubmit
<1>2. /\ UNCHANGED <<gateway, session, applied, buffered, drafts, history, seeder>>
      /\ pc = "idle" /\ asked' = FALSE /\ asked
      /\ pending' = [payloads |-> [i \in DOMAIN ds |-> PayloadOf(ds[i])], next_entry |-> 0]
  BY <1>1 DEF ConfirmSubmit
<1>3. PICK ps : ps = [i \in DOMAIN ds |-> PayloadOf(ds[i])]
  OBVIOUS
<1>4. ps \in Seq(Payloads)
  <2>1. \A d \in Draft : PayloadOf(d) \in Payloads
    BY DEF Draft, PayloadOf, Payloads
  <2>2. \A i \in 1 .. Len(ds) : PayloadOf(ds[i]) \in Payloads
    BY <2>1
  <2>3. ps \in [1 .. Len(ds) -> Payloads] /\ Len(ds) \in Nat
    BY <1>3, <2>2
  <2> QED  BY <2>3
<1>5. pending' = [payloads |-> ps, next_entry |-> 0] /\ pending' \in Submission
  BY <1>2, <1>3, <1>4 DEF Submission
<1>6. Found(ps, 0, applied', Len(applied'))
  <2>1. Len(applied') \in Nat
    BY <1>2 DEF CliInv, PrefixInv
  <2>2. [k \in 1 .. 0 |-> 1] \in [1 .. 0 -> 1 .. Len(applied')] /\ 1 .. 0 = {}
    OBVIOUS
  <2> QED  BY <2>1, <2>2 DEF Found
<1>7. ~Complete(pending)'
  <2>1. CASE ps = << >>
    BY <1>5, <2>1 DEF Complete, None
  <2>2. CASE ps # << >>
    <3>1. Len(ps) > 0
      BY <1>4, <2>2
    <3> QED  BY <1>5, <3>1 DEF Complete
  <2> QED  BY <2>1, <2>2
<1>8. SubmissionInv'
  <2>1. pending'.payloads = ps /\ pending'.next_entry = 0 /\ 0 <= Len(ps)
    BY <1>4, <1>5
  <2>2. Found(pending'.payloads, pending'.next_entry, applied', Len(applied'))
    BY <1>6, <2>1
  <2> QED  BY <1>2, <1>7, <2>1, <2>2 DEF SubmissionInv, Found
<1> QED  BY <1>1, <1>2, <1>5, <1>8, SteadyInv DEF CliInv, TypeInv, session, history

-----------------------------------------------------------------------------
(* The seeder *)

LEMMA PageIs ==
  ASSUME log \in Seq(Payloads), NEW from \in Nat, NEW limit \in Int, NEW page,
         page = Page(from, limit)
  PROVE  /\ Len(page) \in Nat /\ DOMAIN page = 1 .. Len(page)
         /\ \A i \in DOMAIN page : from + i \in DOMAIN log /\ page[i] = log[from + i]
         /\ from = 0 /\ Len(page) = Len(log) => page = log
<1>1. PICK l \in Seq(Payloads) : l = log
  OBVIOUS
<1>2. Len(l) \in Nat /\ DOMAIN l = 1 .. Len(l)
  OBVIOUS
<1> DEFINE T == {Len(l), from + limit, from + EndpointLimit}
<1>3. PICK m : m = Min(T)
  OBVIOUS
<1>4. m \in Int /\ m <= Len(l)
  <2>1. \E x \in T : \A y \in T : x <= y
    BY <1>2, EndpointAssumption
  <2>2. m \in T /\ \A y \in T : m <= y
    BY <1>3, <2>1 DEF Min
  <2> QED  BY <1>2, <2>2, EndpointAssumption
<1>5. page = SubSeq(l, from + 1, m)
  BY <1>1, <1>3 DEF Page
<1>6. CASE m < from + 1
  <2>1. page = << >>
    BY <1>4, <1>5, <1>6
  <2> QED  BY <1>1, <2>1
<1>7. CASE m >= from + 1
  <2>1. /\ page \in Seq(Payloads) /\ Len(page) = m - from
        /\ \A k \in 1 .. m - from : page[k] = l[from + k]
    <3>1. PICK a \in Nat : a = from + 1
      OBVIOUS
    <3>2. a \in 1 .. Len(l) + 1 /\ m \in a .. Len(l) /\ m \in Nat
      BY <1>2, <1>4, <1>7, <3>1
    <3>3. /\ SubSeq(l, a, m) \in Seq(Payloads) /\ Len(SubSeq(l, a, m)) = m - a + 1
          /\ \A k \in 1 .. m - a + 1 : SubSeq(l, a, m)[k] = l[a + k - 1]
      BY <3>2, SubSeqProperties
    <3>4. m - a + 1 = m - from /\ \A k \in 1 .. m - from : a + k - 1 = from + k
      BY <1>4, <3>1
    <3> QED  BY <1>5, <3>1, <3>3, <3>4
  <2>2. \A k \in 1 .. m - from : from + k \in 1 .. Len(l)
    BY <1>2, <1>4, <1>7
  <2>3. from = 0 /\ Len(page) = Len(l) => page = l
    BY <1>2, <2>1
  <2> QED  BY <1>1, <1>2, <2>1, <2>2, <2>3
<1> QED  BY <1>4, <1>6, <1>7

\* A step of the seeder keeps what the application would have.
LEMMA SeederInv ==
  ASSUME CliInv, pc = "seeding", pc' \in {"seeding", "stopped"},
         UNCHANGED <<gateway, task, hand, buffer, asked, history>>,
         UNCHANGED events \/ (events # << >> /\ events' = Tail(events)),
         cmd' \in Payloads \union {Nothing}, SeedInv'
  PROVE  CliInv'
<1>1. EventsOK'
  <2>1. CASE UNCHANGED events
    BY <2>1 DEF CliInv, TypeInv, EventsOK, InSeq, EntryEvent, gateway
  <2>2. CASE events # << >> /\ events' = Tail(events)
    BY <2>2, EventTaken DEF CliInv, TypeInv, gateway
  <2> QED  BY <2>1, <2>2
<1>2. TypeInv'
  BY <1>1 DEF CliInv, TypeInv, gateway, buffer, history
<1>3. PrefixInv'
  BY PrefixKept DEF CliInv, gateway, buffer
<1>4. SubmissionInv'
  BY SubmissionKept DEF CliInv, SubmissionInv, buffer
<1>5. CoverInv'
  BY DEF CoverInv, Refetch
<1> QED  BY <1>2, <1>3, <1>4, <1>5 DEF CliInv

SeederStates ==
  {"none", "next", "append", "echo", "reconnect", "sync", "verify", "ok", "failed"}

LEMMA GoesInv ==
  ASSUME SeedInv, NEW state \in SeederStates \ {"none", "ok"}, NEW at \in Nat, Goes(state, at),
         seeder.state # "none", UNCHANGED log, pc = "seeding",
         \A i \in 1 .. at : i \in DOMAIN log /\ log[i] = seeder.payloads[i]
  PROVE  SeedInv' /\ pc' = "seeding"
<1>1. /\ seeder' = [seeder EXCEPT !.state = state, !.at = at] /\ pc' = "seeding"
      /\ seeder'.state = state /\ seeder'.at = at /\ seeder'.payloads = seeder.payloads
  BY DEF Goes, SeedInv
<1> QED  BY <1>1 DEF SeedInv, SeederStates

LEMMA EndsInv ==
  ASSUME SeedInv, NEW state \in {"ok", "failed"}, Ends(state), seeder.state # "none",
         UNCHANGED log, state = "ok" => log = seeder.payloads
  PROVE  SeedInv' /\ pc' = "stopped"
<1>1. /\ seeder' = [seeder EXCEPT !.state = state] /\ pc' = "stopped"
      /\ seeder'.state = state /\ seeder'.at = seeder.at /\ seeder'.payloads = seeder.payloads
  BY DEF Ends, SeedInv
<1> QED  BY <1>1 DEF SeedInv

LEMMA AppendStepsInv ==
  ASSUME CliInv, AppendNext \/ AppendReplied
  PROVE  CliInv'
<1>1. /\ pc = "seeding" /\ UNCHANGED <<gateway, task, hand, events, buffer, asked, history>>
      /\ seeder.state # "none"
  BY DEF AppendNext, AppendReplied, Seeds
<1>2. PICK ps \in Seq(Payloads), n \in Nat : ps = seeder.payloads /\ n = seeder.at
  BY DEF CliInv, SeedInv
<1>3. UNCHANGED log /\ \A i \in 1 .. n : i \in DOMAIN log /\ log[i] = seeder.payloads[i]
  BY <1>1, <1>2 DEF CliInv, SeedInv, gateway
<1>4. \E state \in {"append", "verify", "echo", "reconnect"} : Goes(state, n)
  BY <1>2 DEF AppendNext, AppendReplied
<1>5. SeedInv' /\ pc' = "seeding"
  BY <1>1, <1>2, <1>3, <1>4, GoesInv DEF CliInv, SeederStates
<1>6. cmd' \in Payloads \union {Nothing}
  <2>1. CASE AppendNext /\ n < Len(ps)
    <3>1. n + 1 \in DOMAIN ps /\ cmd' = ps[n + 1] /\ ps[n + 1] \in Payloads
      BY <1>2, <2>1 DEF AppendNext
    <3> QED  BY <3>1
  <2>2. CASE UNCHANGED cmd
    BY <2>2 DEF CliInv, TypeInv
  <2> QED  BY <1>2, <2>1, <2>2 DEF AppendNext, AppendReplied
<1> QED  BY <1>1, <1>5, <1>6, SeederInv

LEMMA EventSeenInv ==
  ASSUME CliInv, NEW state \in {"echo", "reconnect"},
         EntrySeen(state) \/ DisconnectSeen(state) \/ ReconnectSeen(state)
  PROVE  CliInv'
<1>1. /\ pc = "seeding" /\ seeder.state # "none"
      /\ UNCHANGED <<gateway, task, hand, cmd, buffer, asked, history>>
      /\ events # << >> /\ events' = Tail(events)
  BY DEF EntrySeen, DisconnectSeen, ReconnectSeen, Seeds, TakesEvent
<1>2. cmd' \in Payloads \union {Nothing} /\ UNCHANGED log
  BY <1>1 DEF CliInv, TypeInv, gateway
<1>3. PICK n \in Nat : n = seeder.at
  BY DEF CliInv, SeedInv
<1>4. \A i \in 1 .. n : i \in DOMAIN log /\ log[i] = seeder.payloads[i]
  BY <1>3 DEF CliInv, SeedInv
<1>5. SeedInv' /\ pc' \in {"seeding", "stopped"}
  <2>1. CASE DisconnectSeen(state) \/ ReconnectSeen(state)
    <3>1. \E st \in {"reconnect", "sync"} : Goes(st, n)
      BY <1>3, <2>1 DEF DisconnectSeen, ReconnectSeen
    <3> QED  BY <1>1, <1>2, <1>4, <3>1, GoesInv DEF CliInv, SeederStates
  <2>2. CASE EntrySeen(state)
    <3>1. Head(events).type = "entry"
      BY <2>2 DEF EntrySeen, TakesEvent
    <3>2. PICK i : i = Head(events).index
      OBVIOUS
    <3>3. i \in DOMAIN log
      BY <1>1, <1>2, <3>1, <3>2, EventTaken DEF CliInv, TypeInv
    <3>4. \/ UNCHANGED <<seeder, pc>>
          \/ i = n + 1 /\ IsExpected(i) /\ Goes("next", n + 1)
          \/ Ends("failed")
      BY <1>3, <2>2, <3>2 DEF EntrySeen
    <3>5. CASE UNCHANGED <<seeder, pc>>
      BY <1>1, <1>2, <3>5, SeedKept DEF CliInv
    <3>6. CASE i = n + 1 /\ IsExpected(i) /\ Goes("next", n + 1)
      <4>1. ASSUME NEW j \in 1 .. n + 1
            PROVE  j \in DOMAIN log /\ log[j] = seeder.payloads[j]
        <5>1. j \in 1 .. n \/ j = i
          BY <1>3, <3>6
        <5> QED  BY <1>4, <3>3, <3>6, <5>1 DEF IsExpected
      <4>2. n + 1 \in Nat
        BY <1>3
      <4> QED  BY <1>1, <1>2, <3>6, <4>1, <4>2, GoesInv DEF CliInv, SeederStates
    <3>7. CASE Ends("failed")
      BY <1>1, <1>2, <3>7, EndsInv DEF CliInv
    <3> QED  BY <3>4, <3>5, <3>6, <3>7
  <2> QED  BY <2>1, <2>2
<1> QED  BY <1>1, <1>2, <1>5, SeederInv

LEMMA FetchStepsInv ==
  ASSUME CliInv, SyncPersisted \/ VerifyPersisted \/ SeedFetchFails
  PROVE  CliInv'
<1>1. /\ pc = "seeding" /\ seeder.state # "none"
      /\ UNCHANGED <<gateway, session, buffer, asked, history>>
  BY DEF SyncPersisted, VerifyPersisted, SeedFetchFails, Seeds
<1>2. cmd' \in Payloads \union {Nothing} /\ UNCHANGED log
  BY <1>1 DEF CliInv, TypeInv, session, gateway
<1>3. PICK ps \in Seq(Payloads), n \in Nat : ps = seeder.payloads /\ n = seeder.at
  BY DEF CliInv, SeedInv
<1>4. \A i \in 1 .. n : i \in DOMAIN log /\ log[i] = seeder.payloads[i]
  BY <1>3 DEF CliInv, SeedInv
<1>5. log \in Seq(Payloads)
  BY DEF CliInv, TypeInv
<1>6. SeedInv' /\ pc' \in {"seeding", "stopped"}
  <2>1. CASE SyncPersisted
    <3>1. PICK page : page = Page(n, Len(ps) - n)
      OBVIOUS
    <3>2. /\ Len(page) \in Nat /\ DOMAIN page = 1 .. Len(page)
          /\ \A i \in DOMAIN page : n + i \in DOMAIN log
      <4>1. PICK limit \in Int : limit = Len(ps) - n
        OBVIOUS
      <4> QED  BY <1>5, <3>1, <4>1, PageIs
    <3>3. \/ (\A i \in DOMAIN page : IsExpected(n + i)) /\ Goes("next", n + Len(page))
          \/ Ends("failed")
      BY <1>3, <2>1, <3>1 DEF SyncPersisted
    <3>4. CASE Ends("failed")
      BY <1>1, <1>2, <3>4, EndsInv DEF CliInv
    <3>5. CASE (\A i \in DOMAIN page : IsExpected(n + i)) /\ Goes("next", n + Len(page))
      <4>1. n + Len(page) \in Nat
        BY <1>3, <3>2
      <4>2. ASSUME NEW j \in 1 .. n + Len(page)
            PROVE  j \in DOMAIN log /\ log[j] = seeder.payloads[j]
        <5>1. CASE j <= n
          BY <1>4, <5>1
        <5>2. CASE j > n
          <6>1. j - n \in DOMAIN page /\ n + (j - n) = j
            BY <1>3, <3>2, <5>2
          <6> QED  BY <3>2, <3>5, <6>1 DEF IsExpected
        <5> QED  BY <1>3, <5>1, <5>2
      <4> QED  BY <1>1, <1>2, <3>5, <4>1, <4>2, GoesInv DEF CliInv, SeederStates
    <3> QED  BY <3>3, <3>4, <3>5
  <2>2. CASE VerifyPersisted
    <3>1. \/ (Len(log) = Len(ps) /\ \A i \in 1 .. Len(ps) : IsExpected(i)) /\ Ends("ok")
          \/ Ends("failed")
      BY <1>3, <2>2 DEF VerifyPersisted
    <3>2. CASE Ends("failed")
      BY <1>1, <1>2, <3>2, EndsInv DEF CliInv
    <3>3. CASE (Len(log) = Len(ps) /\ \A i \in 1 .. Len(ps) : IsExpected(i)) /\ Ends("ok")
      <4>1. log = ps
        <5>1. \A i \in 1 .. Len(ps) : log[i] = ps[i]
          BY <1>3, <3>3 DEF IsExpected
        <5>2. PICK l \in Seq(Payloads) : l = log
          BY <1>5
        <5> QED  BY <3>3, <5>1, <5>2
      <4> QED  BY <1>1, <1>2, <1>3, <3>3, <4>1, EndsInv DEF CliInv
    <3> QED  BY <3>1, <3>2, <3>3
  <2>3. CASE SeedFetchFails
    <3>1. Ends("failed")
      BY <2>3 DEF SeedFetchFails
    <3> QED  BY <1>1, <1>2, <3>1, EndsInv DEF CliInv
  <2> QED  BY <2>1, <2>2, <2>3
<1> QED  BY <1>1, <1>2, <1>6, SeederInv DEF session

-----------------------------------------------------------------------------
(* The invariant *)

\* A file of the simulator's that loads holds the simulator's entries.
LEMMA RenderedLoads ==
  ASSUME NEW format \in Formats, LoadEntries(RenderOutput(Scenario, format)).ok
  PROVE  LoadEntries(RenderOutput(Scenario, format)).entries = Scenario
<1>1. CASE format = "entries"
  BY <1>1 DEF RenderOutput, LoadEntries, RawEntries, JsonArray
<1>2. CASE format \in {"session_response", "bundle"}
  BY <1>2 DEF RenderOutput, LoadEntries, RawEntries, JsonArray, JsonObject
<1>3. CASE format = "jsonl"
  <2>1. PICK sc \in Seq(Payloads) : sc = Scenario
    BY FilesAssumption
  <2>2. PICK file : file = [i \in DOMAIN sc |-> JsonObject(<< >>)]
    OBVIOUS
  <2>3. RenderOutput(Scenario, format) = file
    BY <1>3, <2>1, <2>2 DEF RenderOutput
  <2>4. Len(file) = 1 => file[1] = JsonObject(<< >>)
    BY <2>1, <2>2
  <2>5. RawEntries(JsonObject(<< >>)) = << >>
    BY DEF RawEntries, JsonObject
  <2>6. ~LoadEntries(file).ok
    BY <2>4, <2>5 DEF LoadEntries
  <2> QED  BY <2>3, <2>6
<1> QED  BY <1>1, <1>2, <1>3 DEF Formats

LEMMA InitInv == SeedingInit => CliInv
<1> SUFFICES ASSUME SeedingInit PROVE CliInv
  OBVIOUS
<1>1. PICK start \in {"catch_up", "seeding"} : InitiallyIn(start)
  BY DEF SeedingInit, Init
<1>2. /\ log \in Seq(Payloads) /\ DOMAIN log \subseteq Nat /\ Len(log) \in Nat
  <2>1. OthersPayload \in Payloads
    BY DEF Payloads
  <2>2. << >> \in Seq(Payloads) /\ <<OthersPayload>> \in Seq(Payloads)
    BY <2>1
  <2>3. log \in Seq(Payloads)
    BY <1>1, <2>2 DEF InitiallyIn, Joined
  <2> QED  BY <2>3
<1>3. TypeInv
  <2>1. EventsOK
    BY <1>1 DEF InitiallyIn, Joined, EventsOK, InSeq
  <2>2. << >> \in Seq(Payloads) /\ << >> \in Seq(Draft)
    OBVIOUS
  <2> QED  BY <1>1, <1>2, <2>1, <2>2, NoneFacts DEF InitiallyIn, Joined, TypeInv
<1>4. PrefixInv
  BY <1>1, <1>2 DEF InitiallyIn, PrefixInv
<1>5. SubmissionInv
  <2>1. applied = << >> /\ pending = None /\ Len(applied) \in Nat /\ None.next_entry <= Len(None.payloads)
    BY <1>1 DEF InitiallyIn, None
  <2> QED  BY <2>1, NoneFacts DEF SubmissionInv
<1>6. CoverInv
  BY <1>1 DEF InitiallyIn, CoverInv, Refetch
<1>7. SeedInv
  <2>1. CASE seeder = NotSeeding
    BY <2>1 DEF SeedInv, NotSeeding
  <2>2. ASSUME NEW file \in Files, LoadEntries(file).ok,
               seeder = [state |-> "next", payloads |-> LoadEntries(file).entries, at |-> 0]
        PROVE  SeedInv
    <3>1. /\ LoadEntries(file).entries \in Seq(Payloads)
          /\ LoadEntries(file).entries = Scenario \/ \E f \in OtherFiles : LoadEntries(f).ok
      BY <2>2, RenderedLoads, FilesAssumption DEF Files
    <3>2. seeder.at = 0 /\ seeder.payloads = LoadEntries(file).entries /\ seeder.state = "next"
      BY <2>2
    <3>3. seeder.at \in Nat /\ 1 .. seeder.at = {}
      BY <3>2
    <3> HIDE DEF LoadEntries
    <3> QED  BY <2>2, <3>1, <3>2, <3>3 DEF SeedInv
  <2> QED  BY <2>1, <2>2 DEF SeedingInit
<1> QED  BY <1>3, <1>4, <1>5, <1>6, <1>7 DEF CliInv

LEMMA NextInv == CliInv /\ [SeedingNext]_seedVars => CliInv'
<1> SUFFICES ASSUME CliInv, [SeedingNext]_seedVars PROVE CliInv'
  OBVIOUS
<1>1. CASE Next /\ UNCHANGED seeder
  <2>1. pc # "stopped" /\ UNCHANGED seeder
    BY <1>1 DEF Next
  <2>2. CASE SessionStep
    BY <2>1, <2>2, AppendsInv, NetworkInv, ReconnectInv, EmitInv DEF SessionStep, TaskStep
  <2>3. CASE AppStep \/ FetchFails
    BY <2>1, <2>3, PageFetchedInv, FetchedAllInv, DrainInv, DrainedInv, ResumeInv, HandleEntryInv,
       HandleOthersInv DEF AppStep
  <2>4. CASE (\E kind \in DraftKinds : MakeDraft(kind)) \/ AskSubmit \/ Cancel \/ Clear
    BY <2>1, <2>4, DraftsInv
  <2>5. CASE ConfirmSubmit
    BY <2>1, <2>5, ConfirmInv
  <2> QED  BY <1>1, <2>2, <2>3, <2>4, <2>5 DEF Next
<1>2. CASE SeedStep \/ SeedFetchFails
  BY <1>2, AppendStepsInv, EventSeenInv, FetchStepsInv DEF SeedStep
<1>3. CASE UNCHANGED seedVars
  <2>1. UNCHANGED <<gateway, session, buffer, app, history, seeder>>
    BY <1>3 DEF seedVars, vars
  <2>2. EventsOK => EventsOK'
    BY <2>1 DEF EventsOK, InSeq, EntryEvent, gateway, session
  <2>3. TypeInv'
    BY <2>1, <2>2 DEF CliInv, TypeInv, gateway, session, buffer, app, history
  <2>4. PrefixInv' /\ SeedInv'
    BY <2>1 DEF CliInv, PrefixInv, SeedInv, gateway, buffer, app
  <2>5. SubmissionInv'
    BY <2>1 DEF CliInv, SubmissionInv, Found, Complete, None, buffer, app
  <2>6. CoverInv'
    BY <2>1 DEF CliInv, CoverInv, Refetch, Coming, InSeq, EntryEvent, gateway, session, buffer,
       app, history
  <2> QED  BY <2>3, <2>4, <2>5, <2>6 DEF CliInv
<1> QED  BY <1>1, <1>2, <1>3 DEF SeedingNext

\* What both programs keep true: the engine has the beginning of the log and
\* keeps nothing back that it could have; as much of the submission as is said
\* to have come back is among the entries the engine has; what the engine has
\* not is on its way, or there is a fetch to come; and the seeder has counted
\* what the log has.
THEOREM CliInvariance == SeedingSpec => []CliInv
BY InitInv, NextInv, PTL DEF SeedingSpec

\* NoGap: a connected client that has nothing left to read has the whole log,
\* unless it has drained a Reconnected.  An entry that is not on its way is in
\* the buffer or the engine's, and the first one that is not the engine's is
\* not in the buffer.
THEOREM ClientsMissNothing == SeedingSpec => []NoGap
<1>1. CliInv => NoGap
  <2> SUFFICES ASSUME CliInv, pc = "idle", ~silent, task = "connected", events = << >>, down = {}
               PROVE  applied = log
    BY DEF NoGap
  <2>1. PICK a \in Seq(Payloads), l \in Seq(Payloads) : a = applied /\ l = log
    BY DEF CliInv, TypeInv, PrefixInv
  <2>2. /\ Len(a) <= Len(l) /\ (\A i \in DOMAIN a : a[i] = l[i]) /\ Len(a) + 1 \notin buffered
        /\ Len(a) \in Nat /\ Len(l) \in Nat /\ DOMAIN a = 1 .. Len(a) /\ DOMAIN l = 1 .. Len(l)
    BY <2>1 DEF CliInv, PrefixInv
  <2>3. \A i \in DOMAIN l : i \in buffered \/ i \in DOMAIN a
    BY <2>1 DEF CliInv, CoverInv, Refetch, Coming, InSeq
  <2>4. Len(a) = Len(l)
    <3>1. ASSUME Len(a) < Len(l)
          PROVE  FALSE
      <4>1. Len(a) + 1 \in DOMAIN l /\ Len(a) + 1 \notin DOMAIN a
        BY <2>2, <3>1
      <4> QED  BY <2>2, <2>3, <4>1
    <3>2. PICK m \in Nat, n \in Nat : m = Len(a) /\ n = Len(l) /\ m <= n
      BY <2>2
    <3>3. ~(m < n)
      BY <3>1, <3>2
    <3> QED  BY <3>2, <3>3
  <2> QED  BY <2>1, <2>2, <2>4
<1> QED  BY <1>1, CliInvariance, PTL

\* SeedFaithful: what the seeder has counted is in the session, and it says ok
\* only of a session that has exactly its entries.
THEOREM SeedingFaithful == SeedingSpec => []SeedFaithful
<1>1. CliInv => SeedFaithful
  BY DEF CliInv, SeedInv, SeedFaithful
<1> QED  BY <1>1, CliInvariance, PTL

\* The log grows at its end and the engine's part of it with it: the steps that
\* learn entries are the only ones that change what the engine has.
LEMMA LogAndEngine ==
  ASSUME CliInv, [SeedingNext]_seedVars
  PROVE  \/ UNCHANGED applied /\ \E p \in Payloads : log' = Append(log, p)
         \/ UNCHANGED log /\ Len(applied) <= Len(applied')
<1>0. Len(applied) \in Nat /\ Len(applied) <= Len(applied)
  BY DEF CliInv, PrefixInv
<1>1. CASE OthersAppend \/ AppendArrives \/ LateAppendArrives
  <2>1. PICK u \in Seq(Payloads), l \in Seq(Payloads) : u = up /\ l = late
    BY DEF CliInv, TypeInv
  <2>2. OthersPayload \in Payloads /\ \A s \in {u, l} : s # << >> => Head(s) \in Payloads
    BY DEF Payloads
  <2>3. UNCHANGED applied
    BY <1>1 DEF OthersAppend, AppendArrives, LateAppendArrives, buffer
  <2> QED  BY <1>1, <2>1, <2>2, <2>3 DEF OthersAppend, AppendArrives, LateAppendArrives, Committed
<1>2. ASSUME NEW I \in SUBSET DOMAIN log, UNCHANGED log, applied' = Learned(I).applied
      PROVE  Len(applied) <= Len(applied')
  BY <1>2, LearnedFacts DEF CliInv, TypeInv
<1>3. CASE PageFetched
  <2>1. PICK I : I = Len(applied) + 1 .. (IF Len(applied) + PageLimit < Len(log)
                                            THEN Len(applied) + PageLimit ELSE Len(log))
    OBVIOUS
  <2>2. I \in SUBSET DOMAIN log
    <3>1. Len(log) \in Nat /\ Len(applied) \in Nat /\ DOMAIN log = 1 .. Len(log)
      BY DEF CliInv, TypeInv, PrefixInv
    <3> QED  BY <2>1, <3>1, LimitsAssumption
  <2>3. UNCHANGED log /\ applied' = Learned(I).applied
    BY <1>3, <2>1 DEF PageFetched, ApplyOrBuffer, gateway
  <2> QED  BY <1>2, <2>2, <2>3
<1>4. CASE Drain \/ HandleEntry
  <2>1. events # << >> /\ events' = Tail(events) /\ UNCHANGED log
    BY <1>4 DEF Drain, HandleEntry, TakeEvent, gateway
  <2>2. Head(events).type = "entry" => Head(events).index \in DOMAIN log
    BY <2>1, EventTaken DEF CliInv, TypeInv
  <2>3. \/ UNCHANGED applied
        \/ Head(events).type = "entry" /\ applied' = Learned({Head(events).index}).applied
    BY <1>4 DEF Drain, HandleEntry, TakeEvent, ApplyOrBuffer
  <2>4. CASE UNCHANGED applied
    BY <1>0, <2>1, <2>4
  <2>5. CASE Head(events).type = "entry" /\ applied' = Learned({Head(events).index}).applied
    <3>1. PICK I : I = {Head(events).index}
      OBVIOUS
    <3>2. I \in SUBSET DOMAIN log
      BY <2>2, <2>5, <3>1
    <3> QED  BY <1>2, <2>1, <2>5, <3>1, <3>2
  <2> QED  BY <2>3, <2>4, <2>5
<1>5. CASE UNCHANGED <<log, applied>>
  BY <1>0, <1>5
<1>6. SessionStep => \/ OthersAppend \/ AppendArrives \/ LateAppendArrives
                     \/ UNCHANGED <<log, applied>>
  BY DEF SessionStep, TaskStep, CommandSent, CommandRefused, LossReported, BackoffEnds,
     ReconnectAnnounced, Unblocked, LateAppendsLost, ConnectionLost, CommandFails,
     ReconnectSucceeds, ReconnectFails, EntryArrives, gateway, buffer
<1>7. AppStep => PageFetched \/ Drain \/ HandleEntry \/ UNCHANGED <<log, applied>>
  BY DEF AppStep, FetchedAll, Drained, ResumeEnds, ResumeSends, Replied, EchoSeen,
     HandleDisconnected, HandleReconnected, TakeEvent, gateway, buffer
<1>8. /\ FetchFails \/ AskSubmit \/ Cancel \/ Clear \/ ConfirmSubmit => UNCHANGED <<log, applied>>
      /\ (\E kind \in DraftKinds : MakeDraft(kind)) => UNCHANGED <<log, applied>>
  BY DEF FetchFails, MakeDraft, AskSubmit, Cancel, Clear, ConfirmSubmit, gateway, buffer
<1>9. SeedStep \/ SeedFetchFails => UNCHANGED <<log, applied>>
  BY DEF SeedStep, SeedFetchFails, AppendNext, AppendReplied, SyncPersisted, VerifyPersisted,
     EntrySeen, DisconnectSeen, ReconnectSeen, Seeds, TakesEvent, gateway, buffer
<1>10. UNCHANGED seedVars => UNCHANGED <<log, applied>>
  BY DEF seedVars, vars, gateway, buffer
<1> QED  BY <1>1, <1>3, <1>4, <1>5, <1>6, <1>7, <1>8, <1>9, <1>10 DEF SeedingNext, Next

\* EngineGetsCommittedLog: every step of a program, of the session or of
\* another participant is a step of the committed log, or changes neither
\* the log nor what the engine has of it.
THEOREM EngineGetsLog == SeedingSpec => EngineGetsCommittedLog
<1>1. ASSUME CliInv, CliInv', [SeedingNext]_seedVars
      PROVE  [CL!Next]_<<log, applied>>
  <2>1. CASE UNCHANGED applied /\ \E p \in Payloads : log' = Append(log, p)
    BY <2>1 DEF CL!Next, CL!Commit
  <2>2. CASE UNCHANGED log /\ Len(applied) <= Len(applied')
    <3>1. PICK a \in Seq(Payloads), b \in Seq(Payloads), l \in Seq(Payloads) :
             a = applied /\ b = applied' /\ l = log
      BY <1>1 DEF CliInv, TypeInv, PrefixInv
    <3>2. /\ Len(a) <= Len(b) /\ Len(b) <= Len(l) /\ \A i \in DOMAIN b : b[i] = l[i]
          /\ Len(a) \in Nat /\ Len(b) \in Nat /\ Len(l) \in Nat
          /\ DOMAIN a = 1 .. Len(a) /\ DOMAIN b = 1 .. Len(b) /\ DOMAIN l = 1 .. Len(l)
      BY <1>1, <2>2, <3>1 DEF CliInv, PrefixInv
    <3>3. PICK I : I = DOMAIN b
      OBVIOUS
    <3>4. I \in SUBSET DOMAIN l /\ DOMAIN a \subseteq I /\ \A i \in I : 1 .. i \subseteq I
      BY <3>2, <3>3
    <3>5. b = [i \in I |-> l[i]]
      BY <3>2, <3>3
    <3> QED  BY <2>2, <3>1, <3>4, <3>5 DEF CL!Next, CL!Learn, CL!HoleFree
  <2> QED  BY <1>1, <2>1, <2>2, LogAndEngine
<1> QED  BY <1>1, CliInvariance, PTL DEF SeedingSpec, EngineGetsCommittedLog

\* A submission that has come back as a whole is in what the engine has.
LEMMA FoundInOrder ==
  ASSUME NEW sub \in Submission, Complete(sub), sub.next_entry <= Len(sub.payloads),
         NEW entries \in Seq(Payloads), Found(sub.payloads, sub.next_entry, entries, Len(entries))
  PROVE  InOrder(sub.payloads, entries)
<1>1. PICK ps \in Seq(Payloads), n \in Nat : ps = sub.payloads /\ n = sub.next_entry
  BY DEF Submission
<1>2. n = Len(ps) /\ DOMAIN ps = 1 .. n /\ DOMAIN entries = 1 .. Len(entries)
  BY <1>1 DEF Complete
<1> QED  BY <1>1, <1>2 DEF Found, InOrder

\* SubmittedIsCommitted: a submission is over only when the log in front of
\* the engine has all its payloads in their order.
THEOREM SubmittedCommitted == SeedingSpec => SubmittedIsCommitted
<1>1. ASSUME CliInv, CliInv', [SeedingNext]_seedVars, pending # None, pending' = None
      PROVE  InOrder(pending.payloads, applied')
  <2>1. PICK sub \in Submission : sub = pending
    BY <1>1 DEF CliInv, TypeInv
  <2>2. ASSUME NEW I \in SUBSET DOMAIN log, NEW r, r = Learned(I)
        PROVE  /\ r.pending \in Submission /\ r.pending # None
               /\ r.pending.payloads = pending.payloads
               /\ r.pending.next_entry <= Len(r.pending.payloads)
               /\ Found(r.pending.payloads, r.pending.next_entry, r.applied, Len(r.applied))
    <3>1. /\ r.pending \in Submission /\ r.pending.payloads = pending.payloads
          /\ r.pending.next_entry <= Len(r.pending.payloads)
          /\ Found(r.pending.payloads, r.pending.next_entry, r.applied, Len(r.applied))
      BY <1>1, <2>2, LearnedFacts DEF CliInv, TypeInv
    <3>2. r.pending # None
      <4>1. SUFFICES ASSUME r.pending = None PROVE FALSE
        OBVIOUS
      <4>2. sub.payloads = << >>
        BY <2>1, <3>1, <4>1 DEF None
      <4>3. sub.next_entry <= Len(sub.payloads)
        BY <1>1, <2>1 DEF CliInv, SubmissionInv
      <4> QED  BY <1>1, <2>1, <4>2, <4>3, NoneFacts
    <3> QED  BY <3>1, <3>2
  <2>3. CASE PageFetched
    <3>1. PICK I : I = Len(applied) + 1 .. (IF Len(applied) + PageLimit < Len(log)
                                              THEN Len(applied) + PageLimit ELSE Len(log))
      OBVIOUS
    <3>2. I \in SUBSET DOMAIN log
      <4>1. Len(log) \in Nat /\ Len(applied) \in Nat /\ DOMAIN log = 1 .. Len(log)
        BY <1>1 DEF CliInv, TypeInv, PrefixInv
      <4> QED  BY <3>1, <4>1, LimitsAssumption
    <3>3. pending' = Learned(I).pending
      BY <2>3, <3>1 DEF PageFetched, ApplyOrBuffer
    <3> QED  BY <1>1, <2>2, <3>2, <3>3
  <2>4. CASE Drain \/ HandleEntry
    <3>1. events # << >> /\ events' = Tail(events) /\ UNCHANGED log
      BY <2>4 DEF Drain, HandleEntry, TakeEvent, gateway
    <3>2. Head(events).type = "entry" => Head(events).index \in DOMAIN log
      BY <1>1, <3>1, EventTaken DEF CliInv, TypeInv
    <3>3. Head(events).type = "entry"
      BY <1>1, <2>4 DEF Drain, HandleEntry, TakeEvent
    <3>4. PICK I : I = {Head(events).index}
      OBVIOUS
    <3>5. PICK r : r = Learned(I)
      OBVIOUS
    <3>6. I \in SUBSET DOMAIN log
      BY <3>2, <3>3, <3>4
    <3>7. CASE Drain
      <4>1. pending' = r.pending
        BY <3>3, <3>4, <3>5, <3>7 DEF Drain, ApplyOrBuffer
      <4> QED  BY <1>1, <2>2, <3>5, <3>6, <4>1
    <3>8. CASE HandleEntry
      <4>1. applied' = r.applied /\ Settle(r.pending, pc)
        BY <3>4, <3>5, <3>8 DEF HandleEntry
      <4>2. /\ r.pending \in Submission /\ r.pending # None
            /\ r.pending.payloads = pending.payloads
            /\ r.pending.next_entry <= Len(r.pending.payloads)
            /\ Found(r.pending.payloads, r.pending.next_entry, r.applied, Len(r.applied))
        BY <2>2, <3>5, <3>6
      <4>3. Complete(r.pending)
        BY <1>1, <4>1, <4>2 DEF Settle
      <4>4. PICK b \in Seq(Payloads) : b = r.applied
        BY <1>1, <4>1 DEF CliInv, PrefixInv
      <4>5. Found(r.pending.payloads, r.pending.next_entry, b, Len(b))
        BY <4>2, <4>4
      <4>6. InOrder(r.pending.payloads, b)
        BY <4>2, <4>3, <4>5, FoundInOrder
      <4> QED  BY <4>1, <4>2, <4>4, <4>6
    <3> QED  BY <2>4, <3>7, <3>8
  <2>5. CASE Drained
    <3>1. Complete(sub) /\ UNCHANGED applied
      BY <1>1, <2>1, <2>5 DEF Drained, Settle
    <3>2. PICK a \in Seq(Payloads) : a = applied
      BY <1>1 DEF CliInv, PrefixInv
    <3>3. sub.next_entry <= Len(sub.payloads) /\ Found(sub.payloads, sub.next_entry, a, Len(a))
      BY <1>1, <2>1, <3>2 DEF CliInv, SubmissionInv
    <3>4. InOrder(sub.payloads, a)
      BY <3>1, <3>3, FoundInOrder
    <3> QED  BY <2>1, <3>1, <3>2, <3>4
  <2>6. CASE UNCHANGED pending \/ ConfirmSubmit
    BY <1>1, <2>6 DEF ConfirmSubmit, CliInv, SubmissionInv
  <2>7. SessionStep => UNCHANGED pending
    BY DEF SessionStep, TaskStep, CommandSent, CommandRefused, LossReported, BackoffEnds,
       ReconnectAnnounced, Unblocked, OthersAppend, AppendArrives, LateAppendArrives,
       LateAppendsLost, ConnectionLost, CommandFails, ReconnectSucceeds, ReconnectFails,
       EntryArrives, buffer
  <2>8. AppStep => PageFetched \/ Drain \/ HandleEntry \/ Drained \/ UNCHANGED pending
    BY DEF AppStep, FetchedAll, ResumeEnds, ResumeSends, Replied, EchoSeen, HandleDisconnected,
       HandleReconnected, buffer
  <2>9. /\ FetchFails \/ AskSubmit \/ Cancel \/ Clear => UNCHANGED pending
        /\ (\E kind \in DraftKinds : MakeDraft(kind)) => UNCHANGED pending
    BY DEF FetchFails, MakeDraft, AskSubmit, Cancel, Clear, buffer
  <2>10. SeedStep \/ SeedFetchFails \/ UNCHANGED seedVars => UNCHANGED pending
    BY DEF SeedStep, SeedFetchFails, AppendNext, AppendReplied, SyncPersisted, VerifyPersisted,
       EntrySeen, DisconnectSeen, ReconnectSeen, Seeds, buffer, seedVars, vars
  <2> QED  BY <1>1, <2>3, <2>4, <2>5, <2>6, <2>7, <2>8, <2>9, <2>10 DEF SeedingNext, Next
<1>2. ASSUME CliInv, CliInv', [SeedingNext]_seedVars
      PROVE  [pending # None /\ pending' = None => InOrder(pending.payloads, applied')]_vars
  BY <1>1, <1>2
<1> QED  BY <1>2, CliInvariance, PTL DEF SeedingSpec, SubmittedIsCommitted
=============================================================================
