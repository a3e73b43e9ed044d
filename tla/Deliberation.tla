---------------------------- MODULE Deliberation ----------------------------
(***************************************************************************)
(* One participant's engine: the committed log that grows under it, its    *)
(* buffer of drafts, and a query, which replays the log (with the drafts,  *)
(* for a preview) and labels the graph of its active claims one node at a  *)
(* time.  Everything but the log is local and single-threaded: nothing     *)
(* else happens while a query runs.                                        *)
(***************************************************************************)
EXTENDS Argumentation

CONSTANTS
  Me,            \* draft_author
  OtherEntries,  \* entries the session may commit
  DraftContents, \* what the model or the user may draft
  MaxEntries,    \* bound: entries committed and drafts created, together
  MaxNodes       \* bound: active claims of a graph that is queried

\* Entries and contents have the fields of their types.  No claim of the session
\* has an id that a preview gives, and the ids that a submission makes are new.
ASSUME EntriesAssumption ==
  \A e \in OtherEntries :
    /\ e.type \in EntryTypes /\ FieldsOf[e.type] \subseteq DOMAIN e
    /\ e.type = "claim" => e.id[1] \notin {"draft", "final"}
    /\ \A id \in Refs(e) : id[1] # "final"
ASSUME ContentsAssumption ==
  \A content \in DraftContents :
    /\ content.type \in EntryTypes /\ FieldsOf[content.type] \union {"type"} \subseteq DOMAIN content
    /\ \A ref \in Refs(content) :
         \/ ref = Committed(ref[2]) /\ ref[2][1] # "final"
         \/ ref = Draft(ref[2]) /\ ref[2] \in Nat
ASSUME BoundsAssumption == MaxEntries \in Nat /\ MaxNodes \in Nat

VARIABLES
  log, drafts, next_draft_id,
  last_notice,   \* notice of the browser's draft events
  phase,         \* of the query: idle, solving, done
  attackedBy,    \* the graph queried: the attackers of each node
  order,         \* its nodes as the hash map happened to list them
  labels,
  at,            \* position of the pass in order
  changed,       \* whether the pass has changed a label
  passes         \* history: passes begun
buffer == <<drafts, next_draft_id, last_notice>>
solver == <<phase, attackedBy, order, labels, at, changed, passes>>
vars == <<log, buffer, solver>>

\* Ids that exist, and one that does not.
DraftIds == 0 .. next_draft_id
Room == Len(log) + next_draft_id < MaxEntries

Init ==
  /\ log = << >> /\ drafts = << >>
  /\ next_draft_id = 0 /\ last_notice = "none"
  /\ phase = "idle" /\ attackedBy = EmptyMap /\ order = << >>
  /\ labels = EmptyMap /\ at = 1 /\ changed = FALSE /\ passes = 0

\* append: an entry of any participant, from the session.
EntryCommitted(e) ==
  /\ phase = "idle" /\ Room
  /\ log' = Append(log, e)
  /\ UNCHANGED <<buffer, solver>>

-----------------------------------------------------------------------------
(* Drafts *)

CreateDraft(content) ==
  /\ drafts' = Append(drafts, [id |-> next_draft_id, entry |-> content])
  /\ next_draft_id' = next_draft_id + 1

DropDraft(n) == drafts' = Dropped(drafts, n)

\* A draft_... tool; the error goes to the model, and nothing changes.
DraftTool(content) ==
  /\ phase = "idle" /\ Room
  /\ ContentError(drafts, content) = "none"
  /\ CreateDraft(content)
  /\ UNCHANGED <<log, last_notice, solver>>

RemoveDraftTool(n) ==
  /\ phase = "idle"
  /\ RemovalError(drafts, n) = "none"
  /\ DropDraft(n)
  /\ UNCHANGED <<log, next_draft_id, last_notice, solver>>

\* The same from the page, which is shown a notice instead.
DraftClaimRequested(content) ==
  /\ phase = "idle" /\ Room
  /\ content.type = "claim"
  /\ last_notice' = ContentError(drafts, content)
  /\ IF last_notice' = "none" THEN CreateDraft(content)
     ELSE UNCHANGED <<drafts, next_draft_id>>
  /\ UNCHANGED <<log, solver>>

RemoveDraftRequested(n) ==
  /\ phase = "idle"
  /\ last_notice' = RemovalError(drafts, n)
  /\ IF last_notice' = "none" THEN DropDraft(n) ELSE UNCHANGED drafts
  /\ UNCHANGED <<log, next_draft_id, solver>>

\* submit_drafts and clear_drafts of the engine empty the buffer; what the
\* first returns is handed to the model and sent nowhere.
SubmitDrafts ==
  /\ phase = "idle" /\ Materializes(drafts)
  /\ drafts' = << >>
  /\ UNCHANGED <<log, next_draft_id, last_notice, solver>>

ClearDrafts ==
  /\ phase = "idle"
  /\ drafts' = << >>
  /\ UNCHANGED <<log, next_draft_id, last_notice, solver>>

-----------------------------------------------------------------------------
(* A query *)

\* The sequences that list every member of S once.
Orders(S) ==
  {p \in [1 .. Cardinality(S) -> S] : \A c \in S : \E i \in DOMAIN p : p[i] = c}

\* The first half of materialize_owned: replay, build the graph, start.
Query(entries) ==
  LET s == Replay(entries)
  IN  /\ phase = "idle"
      /\ Cardinality(Active(s)) \in 1 .. MaxNodes
      /\ phase' = "solving"
      /\ attackedBy' = AttackedBy(s)
      /\ order' \in Orders(Active(s))
      /\ labels' = AllUndecided(Active(s))
      /\ at' = 1 /\ changed' = FALSE /\ passes' = 1
      /\ UNCHANGED <<log, buffer>>

QueryCommitted == Query(log)
QueryPreview ==
  drafts # << >> /\ Materializes(drafts) /\ Query(MergedEntries(log, drafts, Me))

\* Mutant of Visit: the node visited last decides whether anything changed.
VisitForgetsChange ==
  /\ phase = "solving" /\ at \in DOMAIN order
  /\ labels' = VisitNode(labels, attackedBy[order[at]], order[at])
  /\ changed' = (labels' # labels)
  /\ at' = at + 1
  /\ UNCHANGED <<log, buffer, phase, attackedBy, order, passes>>

Visit ==
  /\ phase = "solving" /\ at \in DOMAIN order
  /\ labels' = VisitNode(labels, attackedBy[order[at]], order[at])
  /\ changed' = (changed \/ labels' # labels)
  /\ at' = at + 1
  /\ UNCHANGED <<log, buffer, phase, attackedBy, order, passes>>

\* The end of a pass: another one, unless nothing changed.
NextPass ==
  /\ phase = "solving" /\ at \notin DOMAIN order /\ changed
  /\ at' = 1 /\ changed' = FALSE /\ passes' = passes + 1
  /\ UNCHANGED <<log, buffer, phase, attackedBy, order, labels>>

Solved ==
  /\ phase = "solving" /\ at \notin DOMAIN order /\ ~changed
  /\ phase' = "done"
  /\ UNCHANGED <<log, buffer, attackedBy, order, labels, at, changed, passes>>

\* The statuses are read off the labels, and nothing of the query is kept.
Answer ==
  /\ phase = "done"
  /\ phase' = "idle" /\ attackedBy' = EmptyMap /\ order' = << >>
  /\ labels' = EmptyMap /\ at' = 1 /\ changed' = FALSE /\ passes' = 0
  /\ UNCHANGED <<log, buffer>>

Next ==
  \/ \E e \in OtherEntries : EntryCommitted(e)
  \/ \E content \in DraftContents :
       DraftTool(content) \/ DraftClaimRequested(content)
  \/ \E n \in DraftIds : RemoveDraftTool(n) \/ RemoveDraftRequested(n)
  \/ SubmitDrafts \/ ClearDrafts
  \/ QueryCommitted \/ QueryPreview
  \/ Visit \/ NextPass \/ Solved \/ Answer

Spec == Init /\ [][Next]_vars

-----------------------------------------------------------------------------
(* Properties *)

Nodes == DOMAIN attackedBy
Labels == {"in", "out", "undec"}
Notices == {"none", "not_found", "must_target_claim", "referenced"}

\* Shape of the state.  Drafts are in creation order with ids handed out so
\* far (alloc_draft_id, engine.rs and drafts.rs), and a query knows its nodes.
TypeOK ==
  /\ log \in Seq(OtherEntries) /\ next_draft_id \in Nat
  /\ drafts \in Seq([id : Nat, entry : DraftContents])
  /\ \A i \in DOMAIN drafts : drafts[i].id < next_draft_id
  /\ \A i, j \in DOMAIN drafts : i < j => drafts[i].id < drafts[j].id
  /\ last_notice \in Notices
  /\ phase \in {"idle", "solving", "done"}
  /\ attackedBy \in [Nodes -> SUBSET Nodes]
  /\ order \in Orders(Nodes) /\ labels \in [Nodes -> Labels]
  /\ at \in 1 .. Len(order) + 1 /\ changed \in BOOLEAN /\ passes \in Nat

\* Every reference from a draft to a draft names a claim draft that is still
\* in the buffer, and that was created before: through every sequence of
\* drafting, refused and granted removals, and clearing, no preview or
\* submission can fail for a reference (validate_claim_ref, remove_draft).
RefsResolve ==
  \A i \in DOMAIN drafts : \A n \in DraftIds :
    Draft(n) \in Refs(drafts[i].entry) =>
      \E j \in DOMAIN drafts :
        j < i /\ drafts[j].id = n /\ IsClaimDraft(drafts[j])

\* Committed references that name a live claim draft by its preview id: the
\* model reads "draft-0" in a preview and may refer to it as if committed.
LiveIds == {drafts[i].id : i \in {j \in DOMAIN drafts : IsClaimDraft(drafts[j])}}
Leak ==
  \E n \in LiveIds :
    \/ \E i \in DOMAIN drafts : Committed(PreviewId(n)) \in Refs(drafts[i].entry)
    \/ \E i \in DOMAIN log : PreviewId(n) \in Refs(log[i])

FinalId == [n \in DraftIds |-> <<"final", n>>]
Final(id) ==
  IF \E n \in LiveIds : id = PreviewId(n) THEN FinalId[id[2]] ELSE id
FinalSummary(x) == [x EXCEPT !.id = Final(@), !.parent = Final(@)]
FinalOverview(o) ==
  LET All(summaries) == {FinalSummary(x) : x \in summaries}
  IN  [o EXCEPT !.items = All(@), !.proposals = All(@), !.resolved = All(@),
                !.attention = {[x EXCEPT !.claim = Final(@)] : x \in @}]
FinalDetail(d) ==
  [i \in DOMAIN d |-> IF i = 1 THEN FinalSummary(d[i])
                      ELSE [j \in DOMAIN d[i] |-> FinalSummary(d[i][j])]]

\* What a preview shows is what submitting the drafts brings, up to the ids of
\* the new claims: the overview, the detail of every claim, the status of
\* every new claim and the changes of every committed one (preview.rs against
\* submission_bundle), unless a committed reference names a preview id.
PreviewFaithful ==
  phase = "idle" /\ ~Leak =>
    LET merged == MergedEntries(log, drafts, Me)
        submitted == log \o MaterializeForSubmission(drafts, FinalId, Me)
        before == Statuses(Replay(log))
        after == Statuses(Replay(submitted))
        impact == ImpactAnalysis(log, drafts, Me)
    IN  /\ FinalOverview(Overview(merged)) = Overview(submitted)
        /\ \A c \in DOMAIN Replay(merged).claims :
             FinalDetail(ClaimDetail(merged, c)) = ClaimDetail(submitted, Final(c))
        /\ \A x \in impact.new_claims : x.status = StatusOf(after, FinalId[x.draft])
        /\ {x.draft : x \in impact.new_claims} = LiveIds
        /\ \A c \in DOMAIN Replay(log).claims :
             LET told == {x \in impact.status_changes : x.claim = c}
             IN  IF StatusOf(before, c) = StatusOf(after, c) THEN told = {}
                 ELSE \A x \in told : x.after = StatusOf(after, c) /\ told # {}

\* A complete labelling: in exactly if every attacker is out, and out exactly
\* if some attacker is in.
Complete(L) ==
  \A n \in Nodes :
    /\ L[n] = "in" <=> AllAttackersOut(L, attackedBy[n])
    /\ L[n] = "out" <=> AnyAttackerIn(L, attackedBy[n])

\* The answer of the solver is the grounded labelling: complete, and every
\* label it gives is given by every complete labelling.  It updates labels in
\* place during a pass, over nodes in an arbitrary order (grounded_labelling).
GroundedLabels ==
  phase = "done" =>
    /\ Complete(labels)
    /\ \A L \in [Nodes -> Labels] :
         Complete(L) =>
           \A n \in Nodes : labels[n] # "undec" => L[n] = labels[n]

\* An entry that is delivered and applied once more changes no status (the
\* reducer's "first writer wins"; a submission resumed after a reconnect may
\* append an entry twice), except a stance its author has changed since and a
\* resolution that came before its claim.
Overtaken(i) ==
  \/ /\ log[i].type = "stance"
     /\ \E j \in i + 1 .. Len(log) :
          /\ log[j].type = "stance"
          /\ log[j].target = log[i].target /\ log[j].author = log[i].author
  \/ /\ log[i].type = "resolve"
     /\ log[i].claim \notin DOMAIN Replay(SubSeq(log, 1, i)).claims
RepeatHarmless ==
  phase = "idle" =>
    \A i \in DOMAIN log :
      ~Overtaken(i) =>
        Statuses(Replay(Append(log, log[i]))) = Statuses(Replay(log))
=============================================================================
