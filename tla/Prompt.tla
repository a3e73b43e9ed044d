------------------------------- MODULE Prompt -------------------------------
(***************************************************************************)
(* What the model is told: the prompt of every request, which lists the    *)
(* claims, the drafts and what the drafts would change (format.rs,         *)
(* system_prompt.rs), and the answers to its calls, in JSON.  The user of  *)
(* the terminal client is shown the same texts.  A line is what it says    *)
(* but for its words and bodies; a list in an arbitrary order, or sorted,  *)
(* is a set, and a section with nothing in it is not written.              *)
(***************************************************************************)
EXTENDS ToolCalls

String(prefix, rest) == [json |-> "string", prefix |-> prefix, rest |-> rest]
Number(n) == [json |-> "number", number |-> n]
Object(fields) == [json |-> "object", fields |-> fields]

(***************************************************************************)
(* A claim or a draft is named in some spelling, as a value of JSON, and   *)
(* the name stands for a reference.  A name in brackets is a claim id.     *)
(***************************************************************************)
Name(written, means) == [written |-> written, means |-> means]
InBrackets(id) == Name(String("", id), Committed(id))
WithHash(n) == Name(String("#", <<"number", n>>), Draft(n))

\* Mutant of FormatClaimRef: the number of a draft is written like an id.
FormatAsClaim(ref) == Name(String("claim:", ref[2]), ref)
FormatClaimRef(ref) ==
  IF ref[1] = "committed" THEN Name(String("claim:", ref[2]), ref)
  ELSE Name(String("draft:", <<"number", ref[2]>>), ref)

\* serialize
InJson(ref) ==
  IF ref[1] = "committed" THEN Name(Object([claim_id |-> String("", ref[2])]), ref)
  ELSE Name(Object([draft_id |-> Number(ref[2])]), ref)

OrElse(status, word) == IF status = "none" THEN word ELSE status
FormatPosition(position) == IF position = "stand_aside" THEN "stand-aside" ELSE position
Sections(lines) == [s \in {x \in DOMAIN lines : lines[x] # {}} |-> lines[s]]

-----------------------------------------------------------------------------
(* format.rs *)

FormatStanceSummary(stances) == {[x EXCEPT !.position = FormatPosition(@)] : x \in stances}

FormatClaimOneliner(c) ==
  [names |-> {InBrackets(c.id)}, author |-> c.author, status |-> OrElse(c.status, "unknown"),
   stances |-> FormatStanceSummary(c.stances)]

FormatAttentionSignal(x) ==
  [names |-> {InBrackets(x.claim)}, signal |-> x.signal, blockers |-> x.blockers]

FormatOverview(o) ==
  [total_claims |-> o.total_claims, total_relations |-> o.total_relations,
   total_stances |-> o.total_stances, participants |-> Cardinality(o.participants),
   accepted |-> Cardinality({c \in o.resolved : c.resolution[1] = "accepted"}),
   sections |-> Sections(
     [proposals |-> {FormatClaimOneliner(c) : c \in o.proposals},
      items |-> {FormatClaimOneliner(c) : c \in o.items},
      resolved |-> {[names |-> {InBrackets(c.id)}, author |-> c.author, outcome |-> c.resolution[1]] :
                      c \in o.resolved},
      attention |-> {FormatAttentionSignal(x) : x \in o.attention}])]

\* The command /claim of the terminal.
FormatClaimDetail(d) ==
  LET ends == <<"attacked_by", "supported_by", "attacks", "supports">>
  IN  [claim |-> FormatClaimOneliner(d[1]), kind |-> d[1].kind, resolution |-> d[1].resolution,
       sections |-> Sections([s \in ToSet(ends) |->
         {FormatClaimOneliner(c) : c \in ToSet(d[CHOOSE i \in 2 .. 5 : ends[i - 1] = s])}])]

FormatDraftEntry(d) ==
  [names |-> {WithHash(d.id)} \union {FormatClaimRef(ref) : ref \in Refs(d.entry)},
   says |-> [f \in DOMAIN d.entry \ RefFields |->
               IF f = "position" THEN FormatPosition(d.entry[f]) ELSE d.entry[f]]]
FormatDrafts(ds) == [i \in DOMAIN ds |-> FormatDraftEntry(ds[i])]

\* Mutant of FormatImpactAnalysis: changes are told if there are new claims.
ChangesOfNewClaims(impact) ==
  IF impact.new_claims = {} THEN EmptyMap
  ELSE Sections(
    [new_claims |-> {[names |-> {WithHash(x.draft)}, status |-> OrElse(x.status, "unknown")] :
                       x \in impact.new_claims},
     status_changes |-> {[names |-> {InBrackets(x.claim)}, before |-> OrElse(x.before, "none"),
                          after |-> OrElse(x.after, "resolved")] : x \in impact.status_changes}])

\* Without a section it says that there are no structural changes.
FormatImpactAnalysis(impact) ==
  Sections(
    [new_claims |-> {[names |-> {WithHash(x.draft)}, status |-> OrElse(x.status, "unknown")] :
                       x \in impact.new_claims},
     status_changes |-> {[names |-> {InBrackets(x.claim)}, before |-> OrElse(x.before, "none"),
                          after |-> OrElse(x.after, "resolved")] : x \in impact.status_changes}])

-----------------------------------------------------------------------------
(* The prompt *)

\* What is shown comes from these; of the last two there is an error instead if
\* the drafts do not materialize.
Data(entries, ds) ==
  [overview |-> Overview(entries), drafts |-> ds, materializes |-> Materializes(ds),
   preview |-> Overview(MergedEntries(entries, ds, Me)),
   impact |-> ImpactAnalysis(entries, ds, Me)]

Unavailable == [error |-> {}]
BuildSystemPrompt(data, schemas) ==
  [participant |-> Me, overview |-> FormatOverview(data.overview),
   drafts |-> FormatDrafts(data.drafts),
   impact |-> IF data.materializes THEN FormatImpactAnalysis(data.impact) ELSE Unavailable,
   tools |-> DOMAIN schemas]

NamesOf(sections) == UNION {line.names : line \in UNION {sections[s] : s \in DOMAIN sections}}
PromptNames(prompt) ==
  NamesOf(prompt.overview.sections) \union NamesOf(prompt.impact)
  \union UNION {prompt.drafts[i].names : i \in DOMAIN prompt.drafts}

-----------------------------------------------------------------------------
(* The answers to calls, tool_output_value and dispatch: the names in them *)

SummaryIds(summaries) == UNION {{c.id, c.parent} \ {NoId} : c \in summaries}
OverviewIds(o) ==
  SummaryIds(o.items \union o.proposals \union o.resolved) \union {x.claim : x \in o.attention}

\* A preview names the claim of a draft by an id as well.
Previewed(id, ds) ==
  Name(String("", id),
       IF \E i \in DOMAIN ds : IsClaimDraft(ds[i]) /\ id = PreviewId(ds[i].id)
         THEN Draft(id[2]) ELSE Committed(id))

\* The tools that need no argument.
OutputNames(tool, data) ==
  CASE tool = "overview" -> {InBrackets(id) : id \in OverviewIds(data.overview)}
    [] tool = "show_drafts" ->
         {InJson(ref) : ref \in UNION {Refs(data.drafts[i].entry) : i \in DOMAIN data.drafts}}
    [] tool = "preview_overview" /\ data.materializes ->
         {Previewed(id, data.drafts) : id \in OverviewIds(data.preview)}
    [] tool = "impact_analysis" /\ data.materializes ->
         {InJson(Draft(x.draft)) : x \in data.impact.new_claims}
         \union {InJson(Committed(x.claim)) : x \in data.impact.status_changes}
    [] OTHER -> {}

-----------------------------------------------------------------------------
(* Properties *)

\* A name that the model has been told is read as what it stands for when a call
\* comes back with it, in each of the spellings: but for a claim of a draft in
\* the answer of a preview, whose id no program knows (format_claim_ref, Display
\* of ids and serialize against from_json_value).
NamesUnderstood(data, prompt) ==
  /\ \A name \in PromptNames(prompt) : ClaimRefOf(name.written) = name.means
  /\ \A tool \in {"overview", "show_drafts", "preview_overview", "impact_analysis"} :
       \A name \in OutputNames(tool, data) :
         ClaimRefOf(name.written) = name.means <=>
           ~(tool = "preview_overview" /\ name.means[1] = "draft")

\* A claim that is asked for as the prompt names it in brackets is found, and
\* is said to have no known status if and only if it is resolved.
ClaimsFound(prompt) ==
  \A name \in NamesOf(prompt.overview.sections) :
    \A d \in {ClaimDetail(log, Literal(name.written))} :
      /\ d # << >>
      /\ \A line \in {FormatClaimDetail(d)} :
           line.claim.status = "unknown" <=> line.resolution # NoResolution

\* A claim that the prompt does not name needs no attention: it is a premise,
\* and established or defeated.
NothingHidden(prompt) ==
  \A s \in {Replay(log)} : \A statuses \in {Statuses(s)} :
    \A c \in DOMAIN s.claims \ {name.means[2] : name \in NamesOf(prompt.overview.sections)} :
      /\ s.claims[c].resolution = NoResolution
      /\ s.claims[c].kind \notin {"item", "proposal"}
      /\ statuses[c] \in {"established", "defeated"}

\* The prompt always says what the drafts would change, "no structural changes"
\* if and only if none is a claim and submitting them changes no status, and a
\* change is from one status to another, or to resolved if one of the drafts
\* resolves the claim.
ChangesTold(prompt) ==
  /\ prompt.impact # Unavailable
  /\ \A after \in {Replay(MergedEntries(log, drafts, Me))} :
       /\ prompt.impact = EmptyMap <=>
            LiveIds = {} /\ Statuses(after) = Statuses(Replay(log))
       /\ "status_changes" \in DOMAIN prompt.impact =>
            \A line \in prompt.impact.status_changes :
              /\ line.before \notin {"none", line.after}
              /\ \A name \in line.names :
                   line.after = "resolved" <=>
                     after.claims[name.means[2]].resolution # NoResolution

\* What is shown is so: of a preview, and of the prompt that goes with every
\* request, through every log and buffer of drafts.  The tools that it lists are
\* those that are dispatched, but for two (format.rs, preview.rs and the two
\* build_system_prompt).
ShownFaithful ==
  /\ PreviewFaithful
  /\ phase = "idle" =>
       \A data \in {Data(log, drafts)} : \A prompt \in {BuildSystemPrompt(data, CliSchemas)} :
         /\ NamesUnderstood(data, prompt) /\ ClaimsFound(prompt)
         /\ NothingHidden(prompt) /\ ChangesTold(prompt)
         /\ prompt.tools = DOMAIN CliTools \ Hidden
=============================================================================
