----------------------------- MODULE ClientTools -----------------------------
(***************************************************************************)
(* The tools of the chat client, and how its loop runs the calls of a      *)
(* completion: by name, one after the other, up to one that fails.  What   *)
(* docker makes of a command comes from outside; the clock too.  Bytes are *)
(* symbols as in AnswerStream, and a result is its lines: headers, and     *)
(* outputs in between.                                                     *)
(***************************************************************************)
EXTENDS AnswerStream

CONSTANTS
  MaxOutput,   \* max_output_bytes
  Outputs,     \* bound: what a command may write
  MaxToolCalls \* bound: calls of a completion here

\* A header is not a byte.
ASSUME OutputsAssumption ==
  /\ MaxOutput \in Nat /\ MaxToolCalls \in Nat
  /\ \A raw \in Outputs : raw \in Seq(Range(raw)) /\ <<"stderr">> \notin Range(raw)

-----------------------------------------------------------------------------
(* get_current_time *)

\* days_to_date: years begin in March, eras are of 400 years.
DaysToDate(days) ==
  LET z == days + 719468
      doe == z % 146097
      yoe == (doe - doe \div 1460 + doe \div 36524 - doe \div 146096) \div 365
      doy == doe - (365 * yoe + yoe \div 4 - yoe \div 100)
      mp == (5 * doy + 2) \div 153
      m == IF mp < 10 THEN mp + 3 ELSE mp - 9
  IN  [year |-> yoe + (z \div 146097) * 400 + (IF m <= 2 THEN 1 ELSE 0), month |-> m,
       day |-> doy - (153 * mp + 2) \div 5 + 1]

GetCurrentTime(secs) ==
  [date |-> DaysToDate(secs \div 86400),
   time |-> <<(secs % 86400) \div 3600, (secs % 3600) \div 60, secs % 60>>]

-----------------------------------------------------------------------------
(* execute_shell *)

Failure(kind) == [ok |-> FALSE, error |-> kind]
Success(result) == [ok |-> TRUE, result |-> result]

\* A command's end: a code or, of one that was killed, none, and two outputs.
Exited(code, stdout, stderr) == [end |-> "exited", code |-> code, stdout |-> stdout, stderr |-> stderr]
NotExited(how) == [end |-> how]   \* not_spawned, late, or broken

\* Cut at a byte, and then decoded; the length of all is told.
TruncateOutput(raw) ==
  IF Len(raw) <= MaxOutput THEN Lossy(raw)
  ELSE Lossy(SubSeq(raw, 1, MaxOutput)) \o <<<<"truncated", Len(raw)>>>>

FormatOutput(exited) ==
  <<<<"exit code", IF exited.code = Absent THEN -1 ELSE exited.code[1]>>, <<"stdout">>>>
  \o TruncateOutput(exited.stdout)
  \o (IF exited.stderr = << >> THEN << >>
      ELSE <<<<"stderr">>>> \o TruncateOutput(exited.stderr))

\* Arguments that are not JSON are null, which has no command.
ExecuteShell(arguments, outcome) ==
  IF arguments = Absent THEN Failure("invalid arguments")
  ELSE IF outcome.end = "exited" THEN Success(FormatOutput(outcome))
  ELSE Failure("execution failed")

-----------------------------------------------------------------------------
(* The registry, and the loop over the calls of a completion *)

Registered(container) == {"get_current_time"} \union (IF container THEN {"execute_shell"} ELSE {})

ExecuteTool(container, call, outcome, secs) ==
  IF call.name \notin Registered(container) THEN Failure("unknown tool")
  ELSE IF call.name = "get_current_time" THEN Success(GetCurrentTime(secs))
  ELSE ExecuteShell(call.arguments, outcome)

\* Results in the order of the calls; after one that fails no call is run.
\* Call i of the completion gets outcomes[i] of docker.
RunCalls(container, calls, outcomes, secs) ==
  LET Ran(done, i) ==
        LET executed == ExecuteTool(container, calls[i], outcomes[i], secs)
        IN  IF done.failed THEN done
            ELSE IF ~executed.ok THEN [done EXCEPT !.failed = TRUE, !.tried = i]
            ELSE [done EXCEPT !.tried = i,
                    !.results = Append(@, [id |-> calls[i].id, content |-> executed.result])]
      after[n \in 0 .. Len(calls)] ==
        IF n = 0 THEN [results |-> << >>, failed |-> FALSE, tried |-> 0] ELSE Ran(after[n - 1], n)
  IN  after[Len(calls)]

-----------------------------------------------------------------------------
(* Properties *)

LeapYear(y) == y % 4 = 0 /\ (y % 100 # 0 \/ y % 400 = 0)
DaysIn(m, y) ==
  CASE m = 2 -> IF LeapYear(y) THEN 29 ELSE 28
    [] m \in {4, 6, 9, 11} -> 30
    [] OTHER -> 31
NextDay(d) ==
  CASE d.day < DaysIn(d.month, d.year) -> [d EXCEPT !.day = @ + 1]
    [] d.day >= DaysIn(d.month, d.year) /\ d.month < 12 -> [d EXCEPT !.month = @ + 1, !.day = 1]
    [] OTHER -> [year |-> d.year + 1, month |-> 1, day |-> 1]

\* The clock's date is the calendar's: it begins on the first of January 1970,
\* every day is followed by the next, over the 400 years after which the
\* calendar repeats, and it does repeat.
DatesRight ==
  AwaitsAnswer =>
    /\ DaysToDate(0) = [year |-> 1970, month |-> 1, day |-> 1]
    /\ \A n \in 0 .. 146097 : DaysToDate(n + 1) = NextDay(DaysToDate(n))
    /\ \A n \in {0, 58, 59, 10957, 11016} :
         DaysToDate(n + 146097) = [DaysToDate(n) EXCEPT !.year = @ + 400]

\* What an output shows: no more than the limit, the bytes of the command as far
\* as they go but for one character that the limit cuts, and the whole length
\* whenever not all is there.
Shows(shown, raw) ==
  LET n == IF Len(raw) <= MaxOutput THEN Len(raw) ELSE MaxOutput
  IN  /\ Len(shown) = n + (IF n < Len(raw) THEN 1 ELSE 0)
      /\ n < Len(raw) => Last(shown) = <<"truncated", Len(raw)>>
      /\ \A i \in 1 .. n : shown[i] = Lossy(raw)[i] \/ (i = n /\ n < Len(raw) /\ shown[i] = Replaced)

ToolOutcomes ==
  {Exited(code, stdout, stderr) : code \in {Absent, Present(1)}, stdout \in Outputs, stderr \in Outputs}
  \union {NotExited("late")}
ToolCallsMade ==
  UNION {[1 .. n -> {[id |-> id, name |-> name, arguments |-> arguments] :
                       id \in {"one", "two"}, name \in {"get_current_time", "execute_shell"},
                       arguments \in {Absent, Present("command")}}] : n \in 1 .. MaxToolCalls}

\* A result is of the call whose id it has and of what that call's command did,
\* and stands where the call stands; a call that fails has none, nor has any
\* call after it, and no command is run for those: whichever tools there are.
ResultsTrue ==
  AwaitsAnswer =>
    \A container \in BOOLEAN, calls \in ToolCallsMade : \A outcomes \in [DOMAIN calls -> ToolOutcomes] :
      LET ran == RunCalls(container, calls, outcomes, 0)
          n == Len(ran.results)
          Ran(i) == calls[i].name = "execute_shell"
      IN  /\ ran.tried = n + (IF ran.failed THEN 1 ELSE 0)
          /\ ~ran.failed <=> n = Len(calls)
          /\ ran.failed /\ Ran(n + 1) => ~container \/ calls[n + 1].arguments = Absent \/ outcomes[n + 1].end = "late"
          /\ \A i \in 1 .. n :
               /\ ran.results[i].id = calls[i].id
               /\ Ran(i) =>
                    LET content == ran.results[i].content
                        ends == {j \in DOMAIN content : content[j] = <<"stderr">>}
                        end == IF ends = {} THEN Len(content) + 1 ELSE Min(ends)
                    IN  /\ container /\ outcomes[i].end = "exited"
                        /\ content[1][2] = (IF outcomes[i].code = Absent THEN -1 ELSE 1)
                        /\ Shows(SubSeq(content, 3, end - 1), outcomes[i].stdout)
                        /\ Shows(SubSeq(content, end + 1, Len(content)), outcomes[i].stderr)
=============================================================================
