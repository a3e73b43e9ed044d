------------------------------ MODULE ToolCalls ------------------------------
(***************************************************************************)
(* What a tool call of the model comes to.  It has a type, a name and      *)
(* arguments in JSON.  The browser's application decodes it into a tool of *)
(* its own and executes that on its drafts (app_tools.rs, app.rs); the     *)
(* terminal client dispatches it by name on its engine (tools.rs).  Both   *)
(* tell the model beforehand which tools there are.                        *)
(***************************************************************************)
EXTENDS Deliberation

CONSTANT Calls  \* the calls the model may make

(***************************************************************************)
(* A JSON value is a record with its kind in json; a string is a prefix    *)
(* that a reference may have, or "", and the rest.  The rest is a number   *)
(* (<<"number", n>>), a word or a claim id, and stands for the claim id    *)
(* that is spelled so.  A number that is no u64 (it is negative, or has a  *)
(* fraction, or is too large) is of a kind of its own.                     *)
(***************************************************************************)
Absent == [json |-> "absent"]
Malformed == [json |-> "malformed"]
OtherNumber == [json |-> "other number"]
Field(args, f) ==
  IF args.json = "object" /\ f \in DOMAIN args.fields THEN args.fields[f] ELSE Absent

Literal(v) == IF v.prefix = "" THEN v.rest ELSE <<v.prefix, v.rest>>

\* from_json_value; NoRef if the value is no reference.
ClaimRefOf(v) ==
  LET id == Field(v, "claim_id")
      number == Field(v, "draft_id")
  IN  CASE v.json = "string" /\ v.prefix \in {"draft:", "#"} ->
             IF v.rest[1] = "number" THEN Draft(v.rest[2]) ELSE NoRef
        [] v.json = "string" /\ v.prefix \notin {"draft:", "#"} -> Committed(v.rest)
        [] id.json = "string" /\ number.json # "number" -> Committed(Literal(id))
        [] id.json # "string" /\ number.json = "number" -> Draft(number.number)
        [] OTHER -> NoRef

-----------------------------------------------------------------------------
(* Parameters *)

Kind(type, words) == [type |-> type, words |-> words]
Text == Kind("text", {})
Natural == Kind("natural", {})
AnyNumber == Kind("number", {})
Reference == Kind("reference", {})
OneOf(words) == Kind("word", words)

Need(field, kind) == [field |-> field, kind |-> kind, required |-> TRUE]
May(field, kind) == [field |-> field, kind |-> kind, required |-> FALSE]

ClaimKinds == {"item", "proposal", "fact", "conditional", "value", "reference"}
RelationKinds == {"attacks", "supports"}
Positions == {"block", "object", "stand_aside", "abstain", "consent", "support", "champion"}
Outcomes == {"accepted", "rejected", "tabled", "withdrawn"}

\* What a value comes to under a kind of parameter: nothing if it has another.
Readings(kind, v) ==
  CASE kind.type = "text" -> IF v.json = "string" THEN {Literal(v)} ELSE {}
    [] kind.type = "natural" -> IF v.json = "number" THEN {v.number} ELSE {}
    [] kind.type = "number" -> IF v.json \in {"number", "other number"} THEN {v} ELSE {}
    [] kind.type = "reference" -> {ClaimRefOf(v)} \ {NoRef}
    [] kind.type = "word" ->
         IF v.json = "string" THEN {w \in kind.words : Literal(v) = <<"word", w>>} ELSE {}

\* The arguments of a call that has all it needs.
Arguments(params, args) ==
  [f \in {params[i].field : i \in DOMAIN params} |->
     LET i == CHOOSE j \in DOMAIN params : params[j].field = f
         v == Field(args, f)
     IN  IF v = Absent THEN NoRef ELSE CHOOSE x \in Readings(params[i].kind, v) : TRUE]

Rejected(error, field) == [error |-> error, field |-> field, args |-> EmptyMap]

\* The parameters are read in order, and the first that is wrong is blamed.
Read(params, errors, args) ==
  LET wrong == {i \in DOMAIN params : errors[i] # "none"}
      first == CHOOSE i \in wrong : \A j \in wrong : i <= j
  IN  IF wrong = {} THEN [error |-> "none", field |-> "", args |-> Arguments(params, args)]
      ELSE Rejected(errors[first], params[first].field)

-----------------------------------------------------------------------------
(* The browser: decode_tool_call *)

BrowserTools ==
  [overview |-> << >>, show_drafts |-> << >>, preview_overview |-> << >>,
   impact_analysis |-> << >>,
   claim_detail |-> <<Need("claim_id", Text)>>,
   preview_claim_detail |-> <<Need("claim", Reference)>>,
   draft_claim |->
     <<Need("body", Text), Need("kind", OneOf(ClaimKinds)), May("parent", Reference)>>,
   draft_relation |->
     <<Need("source", Reference), Need("target", Reference),
       Need("kind", OneOf(RelationKinds))>>,
   draft_stance |-> <<Need("target", Reference), Need("position", OneOf(Positions))>>,
   draft_resolve |-> <<Need("claim", Reference), Need("outcome", OneOf(Outcomes))>>,
   draft_comment |-> <<Need("body", Text), May("claim", Reference)>>,
   remove_draft |-> <<Need("draft_id", Natural)>>]

BrowserError(p, v) ==
  IF v = Absent THEN (IF p.required THEN "missing" ELSE "none")
  ELSE IF Readings(p.kind, v) = {} THEN "invalid" ELSE "none"

BrowserDecodes(call) ==
  IF call.type # "function" THEN Rejected("type", "")
  ELSE IF call.args = Malformed THEN Rejected("json", "")
  ELSE IF call.name \notin DOMAIN BrowserTools THEN Rejected("unknown", "")
  ELSE LET params == BrowserTools[call.name]
           errors == [i \in DOMAIN params |->
                        BrowserError(params[i], Field(call.args, params[i].field))]
       IN  Read(params, errors, call.args)

-----------------------------------------------------------------------------
(* The terminal client: dispatch, which looks at no type *)

CliTools ==
  [overview |-> << >>, show_drafts |-> << >>, submit_drafts |-> << >>,
   clear_drafts |-> << >>, preview_overview |-> << >>, impact_analysis |-> << >>,
   claim_detail |-> <<Need("claim_id", Text)>>,
   draft_claim |->
     <<Need("body", Text), Need("kind", OneOf(ClaimKinds)), May("parent", Reference)>>,
   draft_relation |->
     <<Need("source", Reference), Need("target", Reference),
       Need("kind", OneOf(RelationKinds))>>,
   draft_stance |-> <<Need("target", Reference), Need("position", OneOf(Positions))>>,
   draft_resolve |-> <<Need("claim", Reference), Need("outcome", OneOf(Outcomes))>>,
   draft_comment |-> <<Need("body", Text), May("claim", Reference)>>,
   remove_draft |-> <<Need("draft_id", Natural)>>,
   preview_claim_detail |-> <<Need("claim", Reference)>>]

\* A string or a number of another type is said to be missing.
CliError(p, v) ==
  IF Readings(p.kind, v) # {} \/ (v = Absent /\ ~p.required) THEN "none"
  ELSE IF \/ v = Absent \/ p.kind.type \in {"text", "natural"}
          \/ p.kind.type = "word" /\ v.json # "string"
    THEN "missing"
  ELSE "invalid"

CliDecodes(call) ==
  IF call.args = Malformed THEN Rejected("json", "")
  ELSE IF call.name \notin DOMAIN CliTools THEN Rejected("unknown", "")
  ELSE LET params == CliTools[call.name]
           errors == [i \in DOMAIN params |->
                        CliError(params[i], Field(call.args, params[i].field))]
       IN  Read(params, errors, call.args)

-----------------------------------------------------------------------------
(* Execution, on a buffer of drafts *)

DraftTools == {"draft_claim", "draft_relation", "draft_stance", "draft_resolve", "draft_comment"}
PreviewTools == {"preview_overview", "preview_claim_detail", "impact_analysis"}
Hidden == {"submit_drafts", "clear_drafts"}

Content(name, a) ==
  CASE name = "draft_claim" -> [type |-> "claim", body |-> a.body, kind |-> a.kind, parent |-> a.parent]
    [] name = "draft_relation" ->
         [type |-> "relation", source |-> a.source, target |-> a.target, kind |-> a.kind]
    [] name = "draft_stance" ->
         [type |-> "stance", target |-> a.target, position |-> a.position]
    [] name = "draft_resolve" -> [type |-> "resolve", claim |-> a.claim, outcome |-> a.outcome]
    [] name = "draft_comment" -> [type |-> "comment", body |-> a.body, claim |-> a.claim]

\* What the drafts object to.
ExecutionError(name, a, ds) ==
  CASE name \in DraftTools -> ContentError(ds, Content(name, a))
    [] name = "remove_draft" -> RemovalError(ds, a.draft_id)
    [] name \in PreviewTools \union {"submit_drafts"} ->
         IF name = "preview_claim_detail" /\ RefError(ds, a.claim) # "none"
           THEN RefError(ds, a.claim)
         ELSE IF Materializes(ds) THEN "none" ELSE "not_found"
    [] OTHER -> "none"

Executed(name, a, buf) ==
  CASE name \in DraftTools ->
         [drafts |-> Append(buf.drafts, [id |-> buf.next, entry |-> Content(name, a)]),
          next |-> buf.next + 1]
    [] name = "remove_draft" -> [buf EXCEPT !.drafts = Dropped(@, a.draft_id)]
    [] name \in Hidden -> [buf EXCEPT !.drafts = << >>]
    [] OTHER -> buf

\* A call decoded as d: whose fault it is if it fails, and the buffer after it.
Outcome(name, d, buf) ==
  LET error == IF d.error # "none" THEN d.error
               ELSE ExecutionError(name, d.args, buf.drafts)
  IN  [error |-> error, field |-> d.field,
       buffer |-> IF error = "none" THEN Executed(name, d.args, buf) ELSE buf]

\* Calls that succeed and have changed the drafts: execute_tool says so of each
\* tool, is_draft_mutation_tool lists the names.
BrowserMutates(name, outcome) ==
  name \in DraftTools \union {"remove_draft"} /\ outcome.error = "none"

\* Mutant of CliMutates: a removal is not on the list.
CliForgetsRemovals(name, outcome) ==
  name \in DraftTools /\ outcome.error = "none"

CliMutates(name, outcome) ==
  /\ outcome.error = "none"
  /\ name \in {"draft_claim", "draft_relation", "draft_stance", "draft_resolve",
               "draft_comment", "remove_draft"}

-----------------------------------------------------------------------------
(* What the model is told *)

Schema(properties, optional) == [properties |-> properties, required |-> DOMAIN properties \ optional]
NoParameters == Schema(EmptyMap, {})

\* tool_definitions of the browser; a reference is a string, and the number of
\* a draft any number.
BrowserSchemas ==
  [overview |-> NoParameters, show_drafts |-> NoParameters,
   preview_overview |-> NoParameters, impact_analysis |-> NoParameters,
   claim_detail |-> Schema([claim_id |-> Text], {}),
   draft_claim |->
     Schema([body |-> Text, kind |-> OneOf(ClaimKinds), parent |-> Text], {"parent"}),
   draft_relation |->
     Schema([source |-> Text, target |-> Text, kind |-> OneOf(RelationKinds)], {}),
   draft_stance |-> Schema([target |-> Text, position |-> OneOf(Positions)], {}),
   draft_resolve |-> Schema([claim |-> Text, outcome |-> OneOf(Outcomes)], {}),
   draft_comment |-> Schema([body |-> Text, claim |-> Text], {"claim"}),
   remove_draft |-> Schema([draft_id |-> AnyNumber], {}),
   preview_claim_detail |-> Schema([claim |-> Text], {})]

\* llm_tool_definitions: those of the engine but two.
CliSchemas ==
  [claim_detail |-> Schema([claim_id |-> Text], {}),
   draft_claim |->
     Schema([body |-> Text, kind |-> OneOf(ClaimKinds), parent |-> Text], {"parent"}),
   draft_relation |->
     Schema([source |-> Text, target |-> Text, kind |-> OneOf(RelationKinds)], {}),
   draft_stance |-> Schema([target |-> Text, position |-> OneOf(Positions)], {}),
   draft_resolve |-> Schema([claim |-> Text, outcome |-> OneOf(Outcomes)], {}),
   draft_comment |-> Schema([body |-> Text, claim |-> Text], {"claim"}),
   remove_draft |-> Schema([draft_id |-> AnyNumber], {}),
   preview_claim_detail |-> Schema([claim |-> Text], {}),
   overview |-> NoParameters, show_drafts |-> NoParameters,
   preview_overview |-> NoParameters, impact_analysis |-> NoParameters]

\* The call keeps to the schema of its tool.
Conforms(call, schemas) ==
  /\ call.type = "function" /\ call.name \in DOMAIN schemas /\ call.args.json = "object"
  /\ LET schema == schemas[call.name]
         given == DOMAIN call.args.fields
     IN  /\ schema.required \subseteq given
         /\ \A f \in given \intersect DOMAIN schema.properties :
              Readings(schema.properties[f], call.args.fields[f]) # {}

\* What the schemas do not say: that "draft:" is followed by a number, and that
\* the number of a draft is a natural one.
Readable(call) ==
  \A i \in DOMAIN CliTools[call.name] :
    LET p == CliTools[call.name][i]
        v == Field(call.args, p.field)
    IN  p.kind \in {Reference, Natural} /\ v # Absent => Readings(p.kind, v) # {}

-----------------------------------------------------------------------------
(* Properties *)

\* The calls both programs have been told to expect, and those decoded: what
\* they come to in the browser and in the terminal client.
Common == {call \in Calls : call.type = "function" /\ call.name \notin Hidden}
Decoded == {[name |-> call.name, browser |-> BrowserDecodes(call), cli |-> CliDecodes(call)] :
              call \in Common}

\* Both programs tell the model the same, and a call that keeps to it is decoded
\* if its references can be read and the number of a draft is a natural one; if
\* not, both refuse it, though it keeps to the schema: a draft_id of -1 or 1.5,
\* or the reference "draft:x".
Advertised ==
  \A call \in Calls :
    /\ Conforms(call, BrowserSchemas) <=> Conforms(call, CliSchemas)
    /\ Conforms(call, CliSchemas) =>
         /\ BrowserDecodes(call).error = "none" <=> Readable(call)
         /\ CliDecodes(call).error = "none" <=> Readable(call)

\* The same answer of the model comes to the same in both programs, whatever
\* drafts it finds: every call succeeds in both or fails in both, for the same
\* argument if for one, leaves the same drafts, and ends the turn in both or in
\* neither.  Except: the terminal client runs two tools it does not tell of,
\* and looks at no type (decode_tool_call and execute_tool against dispatch and
\* is_draft_mutation_tool).  A call that keeps to its schema is refused for a
\* reference or a draft number that cannot be read, and for nothing else.  No draft is compared with the log, so that every
\* buffer there is exists beside an empty one.
ToolCallsAgree ==
  /\ Advertised
  /\ phase = "idle" /\ log = << >> =>
       LET buf == [drafts |-> drafts, next |-> next_draft_id]
       IN  \A d \in Decoded :
             LET browser == Outcome(d.name, d.browser, buf)
                 cli == Outcome(d.name, d.cli, buf)
             IN  /\ browser.error = "none" <=> cli.error = "none"
                 /\ browser.field = cli.field /\ browser.buffer = cli.buffer
                 /\ BrowserMutates(d.name, browser) <=> CliMutates(d.name, cli)
=============================================================================
