---------------------------- MODULE Argumentation ----------------------------
(***************************************************************************)
(* The pure pipeline of the consensus crate: a log of entries is reduced   *)
(* to a state, its claims and attacks to a graph, the graph is labelled,   *)
(* labels and stances give every active claim a status, and states are     *)
(* rendered; drafts are turned into entries, for a preview and for         *)
(* submission.  Bodies of claims and comments are left out.                *)
(***************************************************************************)
EXTENDS Integers, Sequences, FiniteSets, SequencesExt, FiniteSetsExt, Maps

(***************************************************************************)
(* Claim ids are pairs: <<"claim", name>> for the ids sessions give, and   *)
(* <<"draft", n>> for "draft-n", the id a preview gives to draft n.  A     *)
(* reference of a draft is to a committed claim or to a draft.             *)
(***************************************************************************)
NoId == << >>
PreviewId(n) == <<"draft", n>>
Committed(id) == <<"committed", id>>
Draft(n) == <<"draft", n>>
NoRef == << >>

\* The references of an entry or of a draft, whatever its type.
RefFields == {"parent", "source", "target", "claim"}
Refs(content) == {content[f] : f \in DOMAIN content \cap RefFields} \ {NoRef}

-----------------------------------------------------------------------------
(* reducer.rs *)

NoResolution == << >>
EmptyState == [claims |-> EmptyMap, relations |-> << >>, stances |-> EmptyMap]

\* Mutant of ReduceClaim: the last claim with an id stays.
LastClaimStays(s, e) ==
  [s EXCEPT !.claims = Put(@, e.id,
     [author |-> e.author, kind |-> e.kind, parent |-> e.parent,
      resolution |-> NoResolution])]

\* The first claim with an id stays.
ReduceClaim(s, e) ==
  IF e.id \in DOMAIN s.claims THEN s
  ELSE [s EXCEPT !.claims = Put(@, e.id,
          [author |-> e.author, kind |-> e.kind, parent |-> e.parent,
           resolution |-> NoResolution])]

ReduceRelation(s, e) ==
  [s EXCEPT !.relations = Append(@,
     [source |-> e.source, target |-> e.target, kind |-> e.kind])]

\* The latest stance of an author on a target stays.
ReduceStance(s, e) ==
  [s EXCEPT !.stances = Put(@, <<e.target, e.author>>, e.position)]

ReduceResolve(s, e) ==
  IF e.claim \in DOMAIN s.claims
    THEN [s EXCEPT !.claims[e.claim].resolution = <<e.outcome, e.author>>]
    ELSE s

EntryTypes == {"claim", "relation", "stance", "resolve", "comment"}
\* What the reducer reads of each type, but for ids and authors.
FieldsOf ==
  [claim |-> {"kind", "parent"}, relation |-> {"source", "target", "kind"},
   stance |-> {"target", "position"}, resolve |-> {"claim", "outcome"}, comment |-> {}]

Reduce(s, e) ==
  CASE e.type = "claim" -> ReduceClaim(s, e)
    [] e.type = "relation" -> ReduceRelation(s, e)
    [] e.type = "stance" -> ReduceStance(s, e)
    [] e.type = "resolve" -> ReduceResolve(s, e)
    [] e.type = "comment" -> s

Replay(entries) ==
  LET after[n \in 0 .. Len(entries)] ==
        IF n = 0 THEN EmptyState ELSE Reduce(after[n - 1], entries[n])
  IN  after[Len(entries)]

\* The nodes of the graph, and for each node the nodes that attack it.
Active(s) == {c \in DOMAIN s.claims : s.claims[c].resolution = NoResolution}
AttackedBy(s) ==
  [c \in Active(s) |->
     {a \in Active(s) : \E i \in DOMAIN s.relations :
        s.relations[i] = [source |-> a, target |-> c, kind |-> "attacks"]}]

-----------------------------------------------------------------------------
(* solver.rs *)

AllUndecided(nodes) == [n \in nodes |-> "undec"]
AllAttackersOut(labels, attackers) == \A a \in attackers : labels[a] = "out"
AnyAttackerIn(labels, attackers) == \E a \in attackers : labels[a] = "in"

\* The body of the inner loop: labels are updated in place.
VisitNode(labels, attackers, n) ==
  IF labels[n] # "undec" THEN labels
  ELSE IF AllAttackersOut(labels, attackers) THEN [labels EXCEPT ![n] = "in"]
  ELSE IF AnyAttackerIn(labels, attackers) THEN [labels EXCEPT ![n] = "out"]
  ELSE labels

\* Passes over the nodes, in the arbitrary order of a hash map, until nothing
\* changes: a pass that changes something labels a node, so that one pass for
\* each node is enough.
GroundedLabelling(attackedBy) ==
  LET nodes == DOMAIN attackedBy
      Pass(labels) ==
        FoldSet(LAMBDA n, l : VisitNode(l, attackedBy[n], n), labels, nodes)
      after[i \in 0 .. Cardinality(nodes)] ==
        IF i = 0 THEN AllUndecided(nodes) ELSE Pass(after[i - 1])
  IN  after[Cardinality(nodes)]

-----------------------------------------------------------------------------
(* status.rs *)

Negative == {"block", "object"}
EpistemicStatus(label, positions) ==
  CASE label = "out" -> "defeated"
    [] label = "undec" -> "unresolved"
    [] label = "in" /\ positions = {} -> "unexamined"
    [] label = "in" /\ positions \cap Negative # {} -> "contested"
    [] OTHER -> "established"

StancesOn(s, c) ==
  {[author |-> k[2], position |-> s.stances[k]] :
     k \in {k \in DOMAIN s.stances : k[1] = c}}

StatusesFrom(s, labels) ==
  [c \in Active(s) |->
     EpistemicStatus(labels[c], {x.position : x \in StancesOn(s, c)})]
Statuses(s) == StatusesFrom(s, GroundedLabelling(AttackedBy(s)))

-----------------------------------------------------------------------------
(* render.rs: lists sorted by id are sets *)

StatusOf(statuses, c) == IF c \in DOMAIN statuses THEN statuses[c] ELSE "none"

ClaimSummary(s, statuses, c) ==
  [id |-> c, author |-> s.claims[c].author, kind |-> s.claims[c].kind,
   parent |-> s.claims[c].parent, resolution |-> s.claims[c].resolution,
   status |-> StatusOf(statuses, c), stances |-> StancesOn(s, c)]

AttentionSignals(s, statuses) ==
  {[signal |-> statuses[c], claim |-> c,
    blockers |-> IF statuses[c] = "contested"
                   THEN {x.author : x \in {y \in StancesOn(s, c) :
                                             y.position \in Negative}}
                   ELSE {}] :
     c \in {d \in DOMAIN statuses :
              statuses[d] \in {"unexamined", "contested", "unresolved"}}}

Overview(entries) ==
  LET s == Replay(entries)
      statuses == Statuses(s)
      Listed(claims) == {ClaimSummary(s, statuses, c) : c \in claims}
      OfKind(k) == {c \in Active(s) : s.claims[c].kind = k}
  IN  [total_claims |-> Cardinality(DOMAIN s.claims),
       total_relations |-> Len(s.relations),
       total_stances |-> Cardinality(DOMAIN s.stances),
       participants |-> {s.claims[c].author : c \in DOMAIN s.claims}
                          \union {k[2] : k \in DOMAIN s.stances},
       items |-> Listed(OfKind("item")),
       proposals |-> Listed(OfKind("proposal")),
       resolved |-> Listed(DOMAIN s.claims \ Active(s)),
       attention |-> AttentionSignals(s, statuses)]

\* For an unknown claim there is no detail, here the empty list.
ClaimDetail(entries, c) ==
  LET s == Replay(entries)
      statuses == Statuses(s)
      Known(r) == {r.source, r.target} \subseteq DOMAIN s.claims
      \* The other ends of the claim's relations of a kind, each at the place of
      \* its relation: they are listed in that order.
      Ends(kind, here, there) ==
        LET rs == s.relations
        IN  [i \in {j \in DOMAIN rs : Known(rs[j]) /\ rs[j].kind = kind /\ rs[j][here] = c} |->
               ClaimSummary(s, statuses, rs[i][there])]
  IN  IF c \notin DOMAIN s.claims THEN << >>
      ELSE <<ClaimSummary(s, statuses, c),
             Ends("attacks", "target", "source"),
             Ends("supports", "target", "source"),
             Ends("attacks", "source", "target"),
             Ends("supports", "source", "target")>>

-----------------------------------------------------------------------------
(* Drafts: engine.rs, and drafts.rs with the same code for the browser. *)

IsClaimDraft(d) == d.entry.type = "claim"
DraftsWithId(drafts, n) == {i \in DOMAIN drafts : drafts[i].id = n}

\* What is wrong with a reference; committed ones are not looked at.
RefError(drafts, ref) ==
  IF ref = NoRef \/ ref[1] = "committed" THEN "none"
  ELSE IF DraftsWithId(drafts, ref[2]) = {} THEN "not_found"
  ELSE IF \E i \in DraftsWithId(drafts, ref[2]) : IsClaimDraft(drafts[i])
    THEN "none"
  ELSE "must_target_claim"

\* Of a relation the source is looked at before the target; every other
\* content has one reference at most.
ContentError(drafts, content) ==
  LET errors == {RefError(drafts, r) : r \in Refs(content)} \ {"none"}
  IN  IF errors = {} THEN "none"
      ELSE IF content.type = "relation" /\ RefError(drafts, content.source) # "none"
        THEN RefError(drafts, content.source)
      ELSE CHOOSE e \in errors : TRUE

DraftReferencesDraft(content, n) == Draft(n) \in Refs(content)

\* Mutant of RemovalError: who refers to the draft is not looked at.
RemovalUnchecked(drafts, n) ==
  IF DraftsWithId(drafts, n) = {} THEN "not_found" ELSE "none"

\* A claim draft stays as long as another draft refers to it.
RemovalError(drafts, n) ==
  IF DraftsWithId(drafts, n) = {} THEN "not_found"
  ELSE IF /\ \E i \in DraftsWithId(drafts, n) : IsClaimDraft(drafts[i])
          /\ \E i \in DOMAIN drafts :
               drafts[i].id # n /\ DraftReferencesDraft(drafts[i].entry, n)
    THEN "referenced"
  ELSE "none"

\* The first draft with the id goes.
Dropped(drafts, n) ==
  RemoveAt(drafts, CHOOSE i \in DraftsWithId(drafts, n) :
                     \A j \in DraftsWithId(drafts, n) : i <= j)

\* A draft whose reference does not resolve fails to materialize, and every
\* preview and submission with it.
Materializes(drafts) ==
  \A i \in DOMAIN drafts : ContentError(drafts, drafts[i].entry) = "none"

\* A reference as a claim id: idOf gives the drafts' ids.
Resolved(ref, idOf) ==
  IF ref = NoRef THEN NoId ELSE IF ref[1] = "committed" THEN ref[2] ELSE idOf[ref[2]]

\* A draft as an entry: references and the draft's own id are renamed.
Materialize(d, refIds, ownIds, author) ==
  LET content == d.entry
      named == [f \in DOMAIN content |->
                  IF f \in RefFields THEN Resolved(content[f], refIds) ELSE content[f]]
      entry == Put(named, "author", author)
  IN  IF IsClaimDraft(d) THEN Put(entry, "id", ownIds[d.id]) ELSE entry

\* preview.rs: a draft's claim has the id "draft-n".
PreviewIds == [n \in Nat |-> PreviewId(n)]
MaterializeForPreview(drafts, author) ==
  [i \in DOMAIN drafts |-> Materialize(drafts[i], PreviewIds, PreviewIds, author)]

\* Mutant of MaterializeForSubmission: references keep their preview ids.
PreviewIdsSubmitted(drafts, finalId, author) ==
  [i \in DOMAIN drafts |-> Materialize(drafts[i], PreviewIds, finalId, author)]

\* submission_bundle: finalId gives each claim draft its committed id.
MaterializeForSubmission(drafts, finalId, author) ==
  [i \in DOMAIN drafts |-> Materialize(drafts[i], finalId, finalId, author)]

MergedEntries(log, drafts, author) ==
  log \o MaterializeForPreview(drafts, author)

ImpactAnalysis(log, drafts, author) ==
  LET before == Statuses(Replay(log))
      after == Statuses(Replay(MergedEntries(log, drafts, author)))
  IN  [new_claims |->
         {[draft |-> drafts[i].id, status |-> StatusOf(after, PreviewId(drafts[i].id))] :
            i \in {j \in DOMAIN drafts : IsClaimDraft(drafts[j])}},
       status_changes |->
         {[claim |-> c, before |-> StatusOf(before, c), after |-> StatusOf(after, c)] :
            c \in {d \in DOMAIN Replay(log).claims :
                     StatusOf(before, d) # StatusOf(after, d)}}]
=============================================================================
