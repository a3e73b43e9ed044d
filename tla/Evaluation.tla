----------------------------- MODULE Evaluation -----------------------------
(***************************************************************************)
(* The evaluation of a model's tool calls (eval.rs).  Every case of a      *)
(* suite puts one prompt to the model over a fresh engine, and compares    *)
(* what the turn leaves with what the case expects: the calls in their     *)
(* JSON, and the drafts they were decoded to.  The turn is the terminal    *)
(* client's, calls and drafts in full.                                     *)
(*                                                                         *)
(* A text is the set of words that may be looked for in it, each in a      *)
(* spelling: <<"text", {<<"later", "capitals">>}>>.  The empty one is      *)
(* blank.                                                                  *)
(***************************************************************************)
EXTENDS Prompt

CONSTANTS
  Scenario,      \* the entries of the fixture; a case begins with some of them
  MaxToolRounds, \* MAX_TOOL_ROUNDS
  Answers,       \* what the model may answer in the rounds of one turn
  Expectations,  \* what a case may expect
  Suites,        \* suites and settings from the command line
  Configs,
  SuiteAnswers   \* what the model may answer in the runs of a suite

ASSUME RoundsAssumption == MaxToolRounds \in Nat

\* A list, whatever it is of.
IsList(s) == s \in Seq(ToSet(s))

-----------------------------------------------------------------------------
(* A turn: run_turn_with_trace and process_llm_response *)

Lost == [state |-> "lost"]       \* no answer, or an error instead of one
Garbled == [state |-> "garbled"] \* one that does not assemble
Says(calls, text) == [state |-> "whole", calls |-> calls, text |-> text]

\* A string that may be a reference has one of the prefixes of references, or
\* none.
PrefixKnown(v) == v.json = "string" => v.prefix \in {"", "claim:", "draft:", "#"}

ASSUME AnswersAssumption ==
  \A answers \in Answers :
    /\ IsList(answers)
    /\ \A i \in DOMAIN answers :
         \/ answers[i] \in {Lost, Garbled}
         \/ /\ IsList(answers[i].calls)
            /\ \A j \in DOMAIN answers[i].calls : \A f \in RefFields :
                 PrefixKnown(Field(answers[i].calls[j].args, f))

NothingTold == [tool |-> "none", said |-> EmptyMap]

\* replay_checkpoint
FreshTurn(checkpoint) ==
  [log |-> SubSeq(Scenario, 1, checkpoint), state |-> "asking", rounds |-> << >>, buffer |-> [drafts |-> << >>, next |-> 0],
   text |-> {}, told |-> NothingTold]

\* One call: its trace, and the buffer after it.
Recorded(done, call, outcome) ==
  [buffer |-> outcome.buffer,
   results |-> Append(done.results, [name |-> call.name, args |-> call.args,
                                     error |-> outcome.error]),
   mutated |-> done.mutated \/ CliMutates(call.name, outcome)]
Ran(done, call) ==
  Recorded(done, call, Outcome(call.name, CliDecodes(call), done.buffer))
Begun(buf) == [buffer |-> buf, results |-> << >>, mutated |-> FALSE]
RanAll(calls, buf) ==
  LET after[n \in 0 .. Len(calls)] ==
        IF n = 0 THEN Begun(buf) ELSE Ran(after[n - 1], calls[n])
  IN  after[Len(calls)]

\* preview_claim_detail: the claim that a reference is to; NoId is "that idea".
Described(ref, entries, buf) ==
  LET id == IF ref[1] = "draft" THEN PreviewId(ref[2]) ELSE ref[2]
      merged == Replay(MergedEntries(entries, buf.drafts, Me))
  IN  IF /\ RefError(buf.drafts, ref) = "none" /\ Materializes(buf.drafts)
         /\ id \in DOMAIN merged.claims
        THEN id
      ELSE NoId

\* Mutant of MutationTold: the first change is told.
FirstMutationTold(results) ==
  LET changes == {i \in DOMAIN results : CliMutates(results[i].name, results[i])}
  IN  results[CHOOSE i \in changes : \A j \in changes : i <= j]

\* The last change of the round is told, and no other.
MutationTold(results) ==
  LET changes == {i \in DOMAIN results : CliMutates(results[i].name, results[i])}
  IN  results[CHOOSE i \in changes : \A j \in changes : i >= j]

\* render_mutation_confirmation: the arguments of the call that are told, read
\* from its JSON once more, references as the claims they are to.
Confirmation(entries, buf, results) ==
  LET told == MutationTold(results)
      Value(f) == Field(told.args, f)
      fields == CASE told.name = "draft_claim" -> {"body"}
                  [] told.name = "draft_relation" -> {"source", "target", "kind"}
                  [] told.name = "draft_stance" -> {"target", "position"}
                  [] told.name = "draft_resolve" -> {"claim", "outcome"}
                  [] told.name = "draft_comment" -> {"body"}
                  [] OTHER -> {}
  IN  [tool |-> told.name,
       said |-> [f \in fields |-> IF f \in RefFields
                                   THEN Described(ClaimRefOf(Value(f)), entries, buf)
                                 ELSE Literal(Value(f))]]

Traced(turn, calls, results) ==
  [turn EXCEPT !.rounds = Append(@, [calls |-> calls, results |-> results])]

\* After a round of calls the model is asked again, unless one was a change.
AfterCalls(turn, calls, ran) ==
  [Traced(turn, calls, ran.results)
     EXCEPT !.buffer = ran.buffer,
            !.state = IF ran.mutated THEN "final" ELSE @,
            !.told = IF ran.mutated THEN Confirmation(turn.log, ran.buffer, ran.results) ELSE @]

\* The next answer of the model, unless the turn has ended.  (A turn that asks
\* again has a round for every answer.)
Answered(turn, answer) ==
  CASE turn.state # "asking" -> turn
    [] turn.state = "asking" /\ answer = Lost ->
         [Traced(turn, << >>, << >>) EXCEPT !.state = "error"]
    [] turn.state = "asking" /\ answer = Garbled -> [turn EXCEPT !.state = "error"]
    [] OTHER ->
         IF answer.calls = << >>
           THEN [Traced(turn, << >>, << >>) EXCEPT !.state = "final", !.text = answer.text]
         ELSE IF Len(turn.rounds) >= MaxToolRounds
           THEN [Traced(turn, answer.calls, << >>) EXCEPT !.state = "error"]
         ELSE AfterCalls(turn, answer.calls, RanAll(answer.calls, turn.buffer))

\* A turn still asking when the answers are used up gets none any more.
Turn(checkpoint, answers) ==
  LET all == Append(answers, Lost)
      after[n \in 0 .. Len(all)] ==
        IF n = 0 THEN FreshTurn(checkpoint) ELSE Answered(after[n - 1], all[n])
  IN  after[Len(all)]
LongestTurns == {Turn(Len(Scenario), answers) : answers \in Answers}

-----------------------------------------------------------------------------
(* What a case expects *)

Expect(use, fields) == [use |-> use, fields |-> fields]
ExpectText(words) == [use |-> "plain_text_response", words |-> words]
ExpectAnyStructuredTool == [use |-> "any_structured_tool"]
ExpectAnyTool(names) == [use |-> "any_tool", names |-> names]

\* The fields of an expectation are parameters of the tool it expects.
ASSUME ExpectationsAssumption ==
  \A e \in Expectations :
    /\ e.use \in DraftTools \union {"plain_text_response", "any_structured_tool", "any_tool"}
    /\ e.use \in DraftTools =>
         DOMAIN e.fields \subseteq {CliTools[e.use][i].field : i \in DOMAIN CliTools[e.use]}

\* normalize_text: spellings are one.
Words(text) == IF text[1] = "text" THEN text[2] ELSE {}
Normalized(words) == {w[1] : w \in words}
TextMatches(text, needles) ==
  text # <<"text", {}>> /\ Normalized(needles) \subseteq Normalized(Words(text))

\* An expected reference is a string, and so is the id of a claim.
ClaimRefMatches(ref, expected) ==
  IF ref[1] = "committed" THEN expected \in {ref[2], <<"claim:", ref[2]>>}
  ELSE expected \in {<<"draft:", <<"number", ref[2]>>>>, <<"#", <<"number", ref[2]>>>>}

ClaimRefValueMatches(v, expected) ==
  LET id == Field(v, "claim_id")
      number == Field(v, "draft_id")
  IN  IF v.json = "string"
        THEN \/ Literal(v) = expected
             \/ v.prefix \in {"claim:", "draft:", "#"} /\ v.rest = expected
      ELSE \/ id.json = "string" /\ expected \in {Literal(id), <<"claim:", Literal(id)>>}
           \/ number.json = "number" /\ ClaimRefMatches(Draft(number.number), expected)

\* The parameters of the expected tool say how a field is compared.
KindOf(use, f) ==
  LET params == CliTools[use]
  IN  params[CHOOSE i \in DOMAIN params : params[i].field = f].kind

\* A field of the call, in JSON: a string that names the word, a reference, or a
\* text.
ArgumentMatches(kind, v, expected) ==
  CASE kind.type = "word" -> v.json = "string" /\ Literal(v) = <<"word", expected>>
    [] kind.type = "reference" -> ClaimRefValueMatches(v, expected)
    [] kind.type = "text" -> v.json = "string" /\ TextMatches(Literal(v), expected)

\* The same field of the draft.
ContentMatches(kind, x, expected) ==
  CASE kind.type = "word" -> x = expected
    [] kind.type = "reference" -> x # NoRef /\ ClaimRefMatches(x, expected)
    [] kind.type = "text" -> TextMatches(x, expected)

MatchesExpectedToolName(e, name) ==
  CASE e.use \in DraftTools -> name = e.use
    [] e.use = "plain_text_response" -> FALSE
    [] e.use = "any_structured_tool" -> TRUE
    [] e.use = "any_tool" -> name \in e.names

MatchesExpectedToolCall(e, result) ==
  /\ MatchesExpectedToolName(e, result.name)
  /\ e.use \in DraftTools =>
       /\ result.args # Malformed
       /\ \A f \in DOMAIN e.fields :
            ArgumentMatches(KindOf(e.use, f), Field(result.args, f), e.fields[f])

ToolFor == [claim |-> "draft_claim", relation |-> "draft_relation", stance |-> "draft_stance",
            resolve |-> "draft_resolve", comment |-> "draft_comment"]

\* Mutant of MatchesExpectedDraft: a field the case leaves open counts as missing.
MatchesWholeDraft(e, content) ==
  /\ ToolFor[content.type] = e.use
  /\ \A f \in DOMAIN content \ {"type"} :
       f \in DOMAIN e.fields /\ ContentMatches(KindOf(e.use, f), content[f], e.fields[f])

MatchesExpectedDraft(e, content) ==
  /\ ToolFor[content.type] = e.use
  /\ \A f \in DOMAIN e.fields : ContentMatches(KindOf(e.use, f), content[f], e.fields[f])

-----------------------------------------------------------------------------
(* The verdict: evaluate_case *)

Results(turn) == FlattenSeq([i \in DOMAIN turn.rounds |-> turn.rounds[i].results])
CallMade(turn) == \E i \in DOMAIN turn.rounds : turn.rounds[i].calls # << >>
FinalDrafts(turn) == {turn.buffer.drafts[i] : i \in DOMAIN turn.buffer.drafts}

\* How a turn does by one expectation.
Judged(e, turn) ==
  LET results == Range(Results(turn))
      text == ~CallMade(turn) /\ e.words \subseteq turn.text /\ FinalDrafts(turn) = {}
      name == \E r \in results : MatchesExpectedToolName(e, r.name)
      argument == \E r \in results : MatchesExpectedToolCall(e, r)
      outcome ==
        CASE e.use = "any_structured_tool" -> FinalDrafts(turn) # {}
          [] e.use = "any_tool" -> argument
          [] OTHER -> \E d \in FinalDrafts(turn) : MatchesExpectedDraft(e, d.entry)
  IN  IF e.use = "plain_text_response"
        THEN [tool |-> text, argument |-> text, outcome |-> text]
      ELSE [tool |-> name, argument |-> argument, outcome |-> outcome]

Notes(called, tool, argument, outcome) ==
  (IF called THEN {} ELSE {"no_call"})
  \union (IF called /\ ~tool THEN {"no_expected_tool"} ELSE {})
  \union (IF tool /\ ~argument THEN {"other_arguments"} ELSE {})
  \union (IF argument /\ ~outcome THEN {"other_outcome"} ELSE {})

\* The expectations are gone through until the outcome of one is met; what the
\* ones before it have met counts too.
Verdict(judged, turn) ==
  LET met == {i \in DOMAIN judged : judged[i].outcome}
      matched == IF met = {} THEN 0 ELSE CHOOSE i \in met : \A j \in met : i <= j
      seen == IF met = {} THEN DOMAIN judged ELSE 1 .. matched
      tool == \E i \in seen : judged[i].tool
      argument == \E i \in seen : judged[i].argument
  IN  [called |-> CallMade(turn), structured |-> Results(turn) # << >>,
       tool |-> tool, argument |-> argument, outcome |-> matched # 0,
       success |-> turn.state = "final" /\ matched # 0,
       variant |-> matched,
       notes |-> Notes(CallMade(turn), tool, argument, matched # 0)]

EvaluateCase(expected, turn) ==
  Verdict([i \in DOMAIN expected |-> Judged(expected[i], turn)], turn)

-----------------------------------------------------------------------------
(* A report: run_suite and aggregate_runs *)

\* A suite has cases and the settings to try them in; the command line may give
\* other settings.
Setting(given, default) == IF given = << >> THEN default ELSE given

ASSUME SuitesAssumption ==
  /\ \A suite \in Suites :
       IsList(suite.cases) /\ IsList(suite.history_turns) /\ IsList(suite.max_history_values)
  /\ \A config \in Configs :
       config.repeats \in Nat /\ IsList(config.history_turns) /\ IsList(config.max_history_values)

\* The runs in order: for every case, for every setting, so many repeats.
Cells(suite, config) ==
  LET histories == Setting(config.history_turns, suite.history_turns)
      limits == Setting(config.max_history_values, suite.max_history_values)
      Repeats(case, h, m) ==
        [r \in 1 .. config.repeats |-> [case |-> case, history |-> h, max |-> m, repeat |-> r]]
      OfHistory(case, h) == FlattenSeq([i \in DOMAIN limits |-> Repeats(case, h, limits[i])])
      OfCase(case) == FlattenSeq([i \in DOMAIN histories |-> OfHistory(case, histories[i])])
  IN  FlattenSeq([i \in DOMAIN suite.cases |-> OfCase(suite.cases[i])])

Key(run) == <<run.case, run.history, run.max>>

\* Mutant of Group: the history limit is not part of the key.
GroupOfAllLimits(runs, key) == {i \in DOMAIN runs : <<Key(runs[i])[1], Key(runs[i])[2]>> = <<key[1], key[2]>>}
Group(runs, key) == {i \in DOMAIN runs : Key(runs[i]) = key}

\* One line of the table: how often each metric was met.
Metrics == {"called", "structured", "tool", "argument", "outcome", "success"}
Row(runs, key) ==
  [key |-> key, repeats |-> Cardinality(Group(runs, key)),
   met |-> [metric \in Metrics |-> Cardinality({i \in Group(runs, key) : runs[i].verdict[metric]})]]

NoReport == [error |-> TRUE, runs |-> << >>, rows |-> {}]

\* model gives the answers of every run.  A checkpoint beyond the scenario is
\* noticed when its case comes, and ends the suite without a report.
Reported(runs) ==
  [error |-> FALSE, runs |-> runs, rows |-> {Row(runs, Key(runs[i])) : i \in DOMAIN runs}]
RunOf(cell, answers) ==
  [case |-> cell.case.id, history |-> cell.history, max |-> cell.max,
   verdict |-> EvaluateCase(cell.case.expected, Turn(cell.case.checkpoint, answers))]
RunSuite(suite, config, model) ==
  LET cells == Cells(suite, config)
  IN  IF \E i \in DOMAIN suite.cases : suite.cases[i].checkpoint > Len(Scenario)
        THEN NoReport
      ELSE Reported([i \in DOMAIN cells |-> RunOf(cells[i], model[cells[i]])])

-----------------------------------------------------------------------------
(* Properties *)

\* The engine a case begins with: its properties are about it, and what follows
\* from it in a turn.
AtCheckpoint ==
  phase = "idle" /\ log = Scenario /\ drafts = << >> /\ next_draft_id = 0

HiddenRan(turn) ==
  \E i \in DOMAIN turn.rounds : \E r \in ToSet(turn.rounds[i].results) :
    r.name \in Hidden /\ r.error = "none"

\* Once a call has changed the drafts the model is not asked again, so that a
\* turn that fails has changed none, and the confirmation it ends with tells of
\* the newest draft: its own words, and every claim it refers to as the one that
\* submitting it would refer to, through a batch of calls that fail, draft and
\* remove (synthesize_mutation_follow_up reads the JSON of the call once more,
\* when the batch is over).  Not if one of the tools that the model is not told
\* of has cleared the drafts: it then tells of what is gone.
ConfirmationTrue ==
  AtCheckpoint => \A turn \in LongestTurns :
    LET newest == Last(turn.buffer.drafts)
        Referred(ref) == Resolved(ref, PreviewIds)
        known == DOMAIN Replay(MergedEntries(turn.log, turn.buffer.drafts, Me)).claims
    IN  ~HiddenRan(turn) =>
          /\ turn.state = "error" => turn.buffer.drafts = << >>
          /\ \A i \in 1 .. Len(turn.rounds) - 1 :
               \A r \in ToSet(turn.rounds[i].results) : ~CliMutates(r.name, r)
          /\ turn.told.tool \in DraftTools =>
               /\ turn.buffer.drafts # << >> /\ ToolFor[newest.entry.type] = turn.told.tool
               /\ \A f \in DOMAIN turn.told.said \ RefFields :
                    turn.told.said[f] = IF f = "body" THEN newest.entry.body
                                        ELSE <<"word", newest.entry[f]>>
               /\ \A f \in DOMAIN turn.told.said \intersect RefFields :
                    turn.told.said[f] = IF Referred(newest.entry[f]) \in known
                                          THEN Referred(newest.entry[f]) ELSE NoId

\* The references of an expectation are the ids of claims, as they are in the log.
Plain(e) ==
  \A f \in DOMAIN e.fields :
    KindOf(e.use, f) = Reference => e.fields[f] \in DOMAIN Replay(Scenario).claims

\* An id is not spelled like a reference, or like the number of a draft.
ASSUME ScenarioAssumption ==
  \A id \in DOMAIN Replay(Scenario).claims : id[1] \notin {"claim:", "draft:", "#", "number"}

\* The draft that a successful call has made: drafts are numbered as they come.
DraftOf(results, i) ==
  Cardinality({j \in 1 .. i - 1 : results[j].name \in DraftTools /\ results[j].error = "none"})

\* The two ways to look at a call agree, its arguments in JSON and the draft it
\* was decoded to: the expected outcome is there if and only if a call that was
\* expected has succeeded and its draft has outlived the turn.  So no run has
\* the outcome without the arguments, or the arguments without the tool, and a
\* success has nothing to note but that there was no call.  That is so for
\* references in the one spelling the log has; of "draft:0" and "#0", or "x"
\* and "claim:x", the one is the other's outcome and not its argument
\* (claim_ref_value_matches against claim_ref_matches).
ScoresAgree ==
  AtCheckpoint => \A turn \in LongestTurns :
    LET results == Results(turn)
        left == {d.id : d \in FinalDrafts(turn)}
        plain == {e \in Expectations : e.use \in DraftTools => Plain(e)}
    IN  /\ \A e \in plain : e.use \in DraftTools =>
             (Judged(e, turn).outcome <=>
                \E i \in DOMAIN results :
                  /\ results[i].error = "none" /\ MatchesExpectedToolCall(e, results[i])
                  /\ DraftOf(results, i) \in left)
        /\ \A d, e \in plain :
             LET verdict == EvaluateCase(<<d, e>>, turn)
             IN  /\ verdict.outcome => verdict.argument
                 /\ verdict.argument => verdict.tool
                 /\ verdict.success => verdict.notes \subseteq {"no_call"}

\* No case and no setting comes twice.
Different(suite, config) ==
  LET histories == Setting(config.history_turns, suite.history_turns)
      limits == Setting(config.max_history_values, suite.max_history_values)
      ids == [i \in DOMAIN suite.cases |-> suite.cases[i].id]
  IN  IsInjective(ids) /\ IsInjective(histories) /\ IsInjective(limits)

\* Every run is in one line of the report, and a line has the runs of one case
\* under one setting and no other, as many as were asked for, whatever the model
\* answers in each and wherever the settings come from; a single case that asks
\* for more entries than there are takes the runs of all others with it.  Of a
\* case or a setting that comes twice the lines are one, and no run is lost.
ReportAddsUp ==
  AtCheckpoint => \A suite \in Suites, config \in Configs :
    \A report \in {RunSuite(suite, config, model) :
                     model \in [ToSet(Cells(suite, config)) -> SuiteAnswers]} :
      LET Total(metric) == FoldSet(LAMBDA row, n : n + row.met[metric], 0, report.rows)
      IN  IF \E i \in DOMAIN suite.cases : suite.cases[i].checkpoint > Len(Scenario)
            THEN report = NoReport
          ELSE /\ Len(report.runs) = Len(Cells(suite, config))
               /\ Different(suite, config) => \A row \in report.rows : row.repeats = config.repeats
               /\ \A metric \in Metrics :
                    Total(metric) =
                      Cardinality({i \in DOMAIN report.runs : report.runs[i].verdict[metric]})

\* What an evaluation reports is so, of each run and of all of them.
ReportTrue == ScoresAgree /\ ReportAddsUp
=============================================================================
