--------------------------- MODULE MCDeliberation ---------------------------
(* A small instance of Deliberation, with the calls its drafts are made by, *)
(* and of the evaluation of a model that makes them.                        *)
EXTENDS Evaluation

c1 == <<"claim", 1>>
c2 == <<"claim", 2>>

MCOtherEntries ==
  {[type |-> "claim", id |-> c1, author |-> "bob", kind |-> "proposal", parent |-> NoId],
   [type |-> "claim", id |-> c2, author |-> "bob", kind |-> "fact", parent |-> c1],
   [type |-> "relation", source |-> c2, target |-> c1, kind |-> "attacks", author |-> "bob"],
   [type |-> "stance", target |-> c1, author |-> "bob", position |-> "object"],
   [type |-> "stance", target |-> c1, author |-> "bob", position |-> "consent"],
   [type |-> "resolve", claim |-> c1, outcome |-> "accepted", author |-> "bob"]}

MCDraftContents ==
  {[type |-> "claim", kind |-> "item", parent |-> NoRef],
   [type |-> "claim", kind |-> "item", parent |-> Draft(0)],
   [type |-> "relation", source |-> Draft(0), target |-> Committed(c1), kind |-> "attacks"],
   [type |-> "relation", source |-> Draft(1), target |-> Draft(0), kind |-> "attacks"],
   [type |-> "relation", source |-> Committed(c1), target |-> Committed(PreviewId(0)),
    kind |-> "attacks"],
   [type |-> "stance", target |-> Draft(0), position |-> "object"],
   [type |-> "resolve", claim |-> Committed(c1), outcome |-> "accepted"],
   [type |-> "resolve", claim |-> Draft(0), outcome |-> "withdrawn"]}

-----------------------------------------------------------------------------
Word(w) == String("", <<"word", w>>)
Call(name, fields) == [type |-> "function", name |-> name, args |-> Object(fields)]

\* One call of each tool, as advertised.
WellFormed ==
  {Call(name, EmptyMap) : name \in {"overview", "show_drafts", "preview_overview",
                                    "impact_analysis", "submit_drafts", "clear_drafts"}}
  \union
  {Call("claim_detail", [claim_id |-> String("", c1)]),
   Call("preview_claim_detail", [claim |-> String("draft:", <<"number", 0>>)]),
   Call("draft_claim", [body |-> Word("x"), kind |-> Word("item"),
                        parent |-> String("draft:", <<"number", 0>>)]),
   Call("draft_relation", [source |-> String("#", <<"number", 1>>),
                           target |-> String("claim:", c1), kind |-> Word("attacks")]),
   Call("draft_stance", [target |-> String("", c1), position |-> Word("object")]),
   Call("draft_resolve", [claim |-> String("claim:", c1), outcome |-> Word("accepted")]),
   Call("draft_comment", [body |-> Word("x"), claim |-> String("", c1)]),
   Call("remove_draft", [draft_id |-> Number(0)])}

Values ==
  {String("draft:", <<"number", 0>>), String("#", <<"number", 1>>),
   String("draft:", <<"word", "x">>), String("claim:", c1), String("", c1),
   String("", PreviewId(0)), String("claim:", <<"number", 0>>),
   Word("item"), Word("attacks"), Word("object"), Word("accepted"),
   String("claim:", <<"word", "item">>), Number(0), Number(1), OtherNumber, [json |-> "other"],
   Object([claim_id |-> String("claim:", c1)]), Object([draft_id |-> Number(1)]),
   Object([draft_id |-> Word("x")]), Object([draft_id |-> OtherNumber]), Object(EmptyMap),
   Object([claim_id |-> String("", c1), draft_id |-> Number(0)])}

With(c, fields) == [c EXCEPT !.args = Object(fields)]

\* An argument is dropped, or has another value; or the call is odd altogether.
MCCalls ==
  WellFormed
  \union UNION {{With(c, Without(c.args.fields, {f})) : f \in DOMAIN c.args.fields} : c \in WellFormed}
  \union UNION {{With(c, Put(c.args.fields, f, v)) : f \in DOMAIN c.args.fields, v \in Values} :
                 c \in WellFormed}
  \union {[c EXCEPT !.args = a] : c \in WellFormed, a \in {Malformed, [json |-> "other"], Number(0)}}
  \union {[c EXCEPT !.type = "other"] : c \in WellFormed}
  \union {Call("no_such_tool", EmptyMap)}

-----------------------------------------------------------------------------
MCScenario == <<[type |-> "claim", id |-> c1, author |-> "bob", kind |-> "proposal", parent |-> NoId]>>

Blank == [json |-> "string", prefix |-> "", rest |-> <<"text", {}>>]
Later(case) == <<"later", case>>
TextOf(words) == [json |-> "string", prefix |-> "", rest |-> <<"text", words>>]

MCClaim == Call("draft_claim", [body |-> TextOf({Later("capitals")}), kind |-> Word("item")])
Drafting ==
  {MCClaim,
   Call("draft_claim", [body |-> Blank, kind |-> Word("fact"), parent |-> String("#", <<"number", 0>>)]),
   Call("draft_relation", [source |-> String("draft:", <<"number", 0>>),
                           target |-> String("claim:", c1), kind |-> Word("attacks")]),
   Call("draft_stance", [target |-> String("", c1), position |-> Word("object")]),
   Call("draft_stance", [target |-> Object([claim_id |-> String("claim:", c1)]), position |-> Word("object")]),
   Call("draft_resolve", [claim |-> Object([claim_id |-> String("", c1)]), outcome |-> Word("accepted")]),
   Call("draft_comment", [body |-> TextOf({Later("small")}), claim |-> String("#", <<"number", 0>>)])}
Other ==
  {Call("remove_draft", [draft_id |-> Number(0)]), Call("clear_drafts", EmptyMap),
   Call("overview", EmptyMap), [Call("draft_claim", EmptyMap) EXCEPT !.args = Malformed]}
Looking == Says(<<Call("overview", EmptyMap)>>, {})
Batches(n, calls) == {Says(batch, {}) : batch \in [1 .. n -> calls]}
Few == {c \in Drafting : c.name \in {"draft_relation", "draft_comment"}}
       \union {c \in Other : c.name \in {"remove_draft", "clear_drafts"}}
Texts == {Says(<< >>, words) : words \in {{}, {Later("small")}, {Later("capitals")}}}

MCAnswers ==
  {<<a>> : a \in Batches(1, Drafting \union Other) \union Batches(2, Drafting \union Other)}
  \union {<<Says(<<MCClaim>> \o a.calls, {})>> : a \in Batches(2, Few)}
  \union {<<Looking, a>> : a \in Batches(1, Drafting \union Other) \union Texts \union {Lost, Garbled}}
  \union {<<Looking, Looking, a>> : a \in Batches(1, Few) \union Texts}
  \union {<<a>> : a \in Texts \union {Lost, Garbled}}

Refers == {c1, <<"claim:", c1>>, <<"draft:", <<"number", 0>>>>, <<"number", 0>>}
MCExpectations ==
  {Expect("draft_claim", [body |-> {}]), Expect("draft_claim", [body |-> {Later("small")}]),
   Expect("draft_claim", [body |-> {Later("small")}, kind |-> "item"]),
   Expect("draft_resolve", [claim |-> c1, outcome |-> "accepted"]),
   Expect("draft_comment", [body |-> {Later("capitals")}]),
   ExpectText({}), ExpectText({Later("small")}), ExpectAnyStructuredTool,
   ExpectAnyTool({"overview", "draft_stance"})}
  \union {Expect("draft_stance", [target |-> r, position |-> "object"]) : r \in Refers}
  \union {Expect("draft_comment", [body |-> {}, claim |-> r]) : r \in Refers}
  \union {Expect("draft_relation", [source |-> r, target |-> c1, kind |-> "attacks"]) : r \in Refers}

Case(id, checkpoint, expected) == [id |-> id, checkpoint |-> checkpoint, expected |-> expected]
MCSuites ==
  {[history_turns |-> <<0, 4>>, max_history_values |-> <<12, 100>>, cases |-> cases] :
     cases \in {<<Case("claim", 0, <<Expect("draft_claim", [body |-> {}])>>)>>,
               <<Case("stance", 1, <<Expect("draft_stance", [target |-> c1, position |-> "object"]),
                                     ExpectText({})>>)>>,
               <<Case("claim", 0, <<ExpectText({})>>), Case("beyond", 2, << >>)>>}}
MCConfigs ==
  {[history_turns |-> << >>, max_history_values |-> << >>, repeats |-> 1],
   [history_turns |-> <<1>>, max_history_values |-> << >>, repeats |-> 2],
   [history_turns |-> <<1, 1>>, max_history_values |-> <<12>>, repeats |-> 1]}
MCSuiteAnswers ==
  {<<Says(<<Call("draft_stance", [target |-> String("", c1), position |-> Word("object")])>>, {})>>,
   <<Lost>>}
=============================================================================
