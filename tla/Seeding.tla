------------------------------ MODULE Seeding ------------------------------
(***************************************************************************)
(* The seeder, the other program that uses a session's task and channels:  *)
(* it reads the entries of a file, joins a session, appends one entry      *)
(* after the other, each when the echo of the one before has come, and     *)
(* compares what the session has with what it was to have.  It begins with *)
(* a file such as the simulator writes.                                    *)
(*                                                                         *)
(* A file is the sequence of JSON values it holds.  A value is an array of *)
(* items, an object, with what is under "entries" if there is any, or      *)
(* something else.                                                         *)
(***************************************************************************)
EXTENDS ConsensusCli

CONSTANTS
  Scenario,       \* entries of the simulator's log
  OtherFiles,     \* files that the simulator does not write
  EndpointLimit   \* MAX_LIMIT of the entries endpoint

ASSUME EndpointAssumption == EndpointLimit \in Nat \ {0}

VARIABLE seeder   \* its state, the payloads, and next_index (at)
seedVars == <<vars, seeder>>

-----------------------------------------------------------------------------
(* Files *)

JsonArray(items) == [json |-> "array", items |-> items]
JsonObject(entries) == [json |-> "object", entries |-> entries]
JsonOther == [json |-> "other"]
NotAnEntry == <<"not an entry">>

\* render_output of the simulator; an entry is an object without "entries".
Formats == {"entries", "session_response", "bundle", "jsonl"}
RenderOutput(entries, format) ==
  CASE format = "entries" -> <<JsonArray(entries)>>
    [] format \in {"session_response", "bundle"} -> <<JsonObject(<<JsonArray(entries)>>)>>
    [] format = "jsonl" -> [i \in DOMAIN entries |-> JsonObject(<< >>)]

\* load_entries_from_value, of the one value that the file must hold.
RawEntries(value) ==
  CASE value.json = "array" -> <<value>>
    [] value.json = "object" -> value.entries
    [] OTHER -> << >>
LoadEntries(file) ==
  LET raw == IF Len(file) = 1 THEN RawEntries(file[1]) ELSE << >>
      ok == raw # << >> /\ raw[1].json = "array" /\ NotAnEntry \notin ToSet(raw[1].items)
  IN  [ok |-> ok, entries |-> IF ok THEN raw[1].items ELSE << >>]

\* Files hold entries that a session may have.
ASSUME FilesAssumption ==
  /\ Scenario \in Seq(Payloads)
  /\ \A file \in OtherFiles : LoadEntries(file).ok => LoadEntries(file).entries \in Seq(Payloads)

Files == {RenderOutput(Scenario, format) : format \in Formats} \union OtherFiles

-----------------------------------------------------------------------------
NotSeeding == [state |-> "none", payloads |-> << >>, at |-> 0]

\* The terminal client, or a seeder that has joined with the entries of a file.
SeedingInit ==
  \/ Init /\ seeder = NotSeeding
  \/ /\ InitiallyIn("seeding")
     /\ \E file \in Files :
          /\ LoadEntries(file).ok
          /\ seeder = [state |-> "next", payloads |-> LoadEntries(file).entries, at |-> 0]

Goes(state, at) ==
  /\ seeder' = [seeder EXCEPT !.state = state, !.at = at]
  /\ UNCHANGED pc
Ends(state) ==
  /\ seeder' = [seeder EXCEPT !.state = state]
  /\ pc' = "stopped"
Seeds(state) ==
  /\ pc = "seeding" /\ seeder.state = state
  /\ UNCHANGED <<buffer, connected, asked, after, waiting_for, history>>

\* seed_session, the head of its loop
AppendNext ==
  /\ Seeds("next")
  /\ IF seeder.at < Len(seeder.payloads)
       THEN cmd' = seeder.payloads[seeder.at + 1] /\ Goes("append", seeder.at)
       ELSE UNCHANGED cmd /\ Goes("verify", seeder.at)
  /\ UNCHANGED <<gateway, task, hand, reply, events>>

AppendReplied ==
  /\ Seeds("append") /\ reply # "none"
  /\ reply' = "none"
  /\ Goes(IF reply = "ok" THEN "echo" ELSE "reconnect", seeder.at)
  /\ UNCHANGED <<gateway, task, hand, cmd, events>>

TakesEvent(type) ==
  /\ events # << >> /\ Head(events).type = type
  /\ events' = Tail(events)
  /\ UNCHANGED <<gateway, task, hand, cmd, reply>>

\* Mutant of IsExpected: any entry at the right position is the echo.
IsAnyEntry(i) == TRUE
IsExpected(i) == i \in DOMAIN seeder.payloads /\ log[i] = seeder.payloads[i]

\* An entry, while the seeder waits for an echo or for the connection.
EntrySeen(state) ==
  /\ Seeds(state) /\ TakesEvent("entry")
  /\ LET i == Head(events).index
     IN  CASE i <= seeder.at -> UNCHANGED <<seeder, pc>>
           [] i = seeder.at + 1 /\ IsExpected(i) -> Goes("next", seeder.at + 1)
           [] OTHER -> Ends("failed")

DisconnectSeen(state) ==
  /\ Seeds(state) /\ TakesEvent("disconnected") /\ Goes("reconnect", seeder.at)

ReconnectSeen(state) ==
  /\ Seeds(state) /\ TakesEvent("reconnected") /\ Goes("sync", seeder.at)

\* fetch_entries
Page(from, limit) ==
  SubSeq(log, from + 1, Min({Len(log), from + limit, from + EndpointLimit}))

\* sync_persisted_entries
SyncPersisted ==
  /\ Seeds("sync")
  /\ LET page == Page(seeder.at, Len(seeder.payloads) - seeder.at)
     IN  IF \A i \in DOMAIN page : IsExpected(seeder.at + i)
           THEN Goes("next", seeder.at + Len(page))
           ELSE Ends("failed")
  /\ UNCHANGED <<gateway, session>>

\* verify_persisted_entries
VerifyPersisted ==
  /\ Seeds("verify")
  /\ LET n == Len(seeder.payloads)
         page == Page(0, n)
     IN  IF Len(log) = n /\ Len(page) = n /\ \A i \in 1 .. n : IsExpected(i)
           THEN Ends("ok") ELSE Ends("failed")
  /\ UNCHANGED <<gateway, session>>

SeedFetchFails ==
  /\ \E state \in {"sync", "verify"} : Seeds(state)
  /\ Ends("failed")
  /\ UNCHANGED <<gateway, session>>

SeedStep ==
  \/ AppendNext \/ AppendReplied \/ SyncPersisted \/ VerifyPersisted
  \/ \E state \in {"echo", "reconnect"} :
       EntrySeen(state) \/ DisconnectSeen(state) \/ ReconnectSeen(state)

SeedingNext ==
  \/ Next /\ UNCHANGED seeder
  \/ SeedStep \/ SeedFetchFails

SeedingSpec ==
  SeedingInit /\ [][SeedingNext]_seedVars /\ Fairness /\ WF_seedVars(SeedStep)

-----------------------------------------------------------------------------
(* Properties *)

\* What the seeder has counted is in the session, entry for entry from the
\* first, whatever was lost, sent twice or notified out of turn, and whoever
\* else appends; and it says that it has seeded a session only of one that
\* has exactly its entries, which are the simulator's if the file is its own.
SeedFaithful ==
  /\ \A i \in 1 .. seeder.at : i \in DOMAIN log /\ log[i] = seeder.payloads[i]
  /\ seeder.state = "ok" => log = seeder.payloads
  /\ seeder.state # "none" => seeder.payloads = Scenario \/ \E file \in OtherFiles : LoadEntries(file).ok

\* The seeder waits for a reply of the task that waits for room in the channel.
SeederStuck ==
  /\ seeder.state = "append" /\ cmd # Nothing /\ reply = "none"
  /\ task \in {"blocked", "report", "announce"} /\ Len(events) = EventBuffer

\* A submission that has begun is over some time, and a seeding ends, however
\* often the connection is lost: nobody waits for an echo that does not come.
UploadsEnd ==
  (pending # None \/ pc = "seeding") ~>
    (pc = "stopped" \/ SeederStuck \/ (pc # "seeding" /\ SubmissionOver))
=============================================================================
