----------------------------- MODULE Benchmark ------------------------------
(***************************************************************************)
(* agent_benchmark.py: five benchmarks of a model, one after another, over *)
(* built-in scenarios and the test split of prepare_agent_data.py; their   *)
(* results are written to one file when all of them are through.           *)
(*                                                                         *)
(* A text is the sequence of its words, each a unit of length.  The        *)
(* program decodes the whole of what generate returns, prompt included, so *)
(* what it scores is the prompt as far as the tokenizer kept it and then   *)
(* the model's own output.                                                 *)
(***************************************************************************)
EXTENDS Loops, SequencesExt, FiniteSets, FiniteSetsExt

CONSTANTS Words,             \* that texts are made of
          ToolCallPrompts,   \* sequence of [prompt, function, args]
          Dialogues,         \* MULTI_TURN_DIALOGUES: of [turns, keywords]
          FaultLogs,         \* SYSTEM_FAULT_LOGS: of [log, expected]
          FaultTypes,        \* the names a question offers
          Spellings,         \* sequence of [word, fault] looked for, in that order
          TestFiles,         \* agent_test.jsonl, or Nothing where it is missing:
                             \* sequences of [prompt, response, bash], of the
                             \* lines that are JSON
          Outputs,           \* bound: what the model can add to a prompt
          Calls,             \* word that is a call -> [pattern, function, args]
          Marks,             \* word with structure -> "json", "brace", "key", "bullet", "number"
          Window,            \* max_len - 2 of simple_tokenizer: 510 characters
          Remembered,        \* 100 characters in the code
          MaxLines,          \* 200 in the code
          Nothing

WindowAssumption ==
  /\ Window \in Nat /\ Remembered \in Nat /\ MaxLines \in Nat \ {0}
  /\ Nothing \notin Words

\* A dialogue has a turn, and a fault is one of those offered.
ScenarioAssumption ==
  /\ IsSequence(ToolCallPrompts)
  /\ Dialogues \in Seq([turns : Seq(Seq(Words)) \ {<< >>}, keywords : SUBSET Words])
  /\ \A k \in DOMAIN Dialogues : IsFiniteSet(Dialogues[k].keywords)
  /\ FaultTypes \in Seq(Words)
  /\ Spellings \in Seq([word : Words, fault : Range(FaultTypes)])
  /\ FaultLogs \in Seq([log : Seq(Words), expected : Range(FaultTypes)])
  /\ TestFiles \subseteq {Nothing} \cup
       Seq([prompt : Seq(Words), response : Seq(Words), bash : BOOLEAN])
  /\ Outputs \subseteq Seq(Words)

VARIABLES arguments,    \* [checkpoint, output]
          test,         \* the test file
          part,         \* of run_benchmarks
          todo,         \* scenarios of the part still to run
          context,      \* of the dialogue that is going on, turn by turn
          scores,       \* running totals
          report        \* the results file

bvars == <<arguments, test, part, todo, context, scores, report>>

Prefix(text, n) == SubSeq(text, 1, Min({n, Len(text)}))

\* simple_tokenizer keeps the beginning of a text that is too long.
Seen(prompt) == Prefix(prompt, Window)

\* decode_output(generate(...)[0]): prompt and all.
Decoded(prompt, output) == Seen(prompt) \o output

One(condition) == IF condition THEN 1 ELSE 0

-----------------------------------------------------------------------------
(* score_tool_call.  A JSON call anywhere is preferred to a tagged one, that
   to anything that looks like a call of a function; arguments that are not
   a JSON object count as none, and an object without keys is no match. *)

ExtractToolCall(text) ==
  LET at == {i \in DOMAIN text : text[i] \in DOMAIN Calls}
      Pattern(i) == Calls[text[i]].pattern
      first == CHOOSE i \in at : \A j \in at \ {i} :
                 Pattern(i) < Pattern(j) \/ (Pattern(i) = Pattern(j) /\ i < j)
  IN IF at = {} THEN Nothing ELSE Calls[text[first]]

\* A strict score that does not ask for the function: a slip to be caught.
ScoreToolCallByArguments(text, scenario) ==
  LET call == ExtractToolCall(text)
      lenient == call # Nothing /\ call.function = scenario.function
  IN [format |-> One(call # Nothing), lenient |-> One(lenient),
      strict |-> One(call # Nothing /\ call.args # {} /\ scenario.args \subseteq call.args)]

ScoreToolCall(text, scenario) ==
  LET call == ExtractToolCall(text)
      lenient == call # Nothing /\ call.function = scenario.function
  IN [format |-> One(call # Nothing), lenient |-> One(lenient),
      strict |-> One(lenient /\ call.args # {} /\ scenario.args \subseteq call.args)]

(* benchmark_bash_generation *)

Within(a, b) == \E i \in 0..(Len(b) - Len(a)) : SubSeq(b, i + 1, i + Len(a)) = a

Overlaps(text, expected) ==
  10 * Cardinality(Range(expected) \cap Range(text)) > 3 * Max({Cardinality(Range(expected)), 1})

ScoreBash(text, expected) ==
  [exact |-> One(text = expected),
   substring |-> One(Within(expected, text) \/ Within(text, expected)),
   semantic |-> One(Overlaps(text, expected))]

(* benchmark_format_compliance: the first pair of braces parses, or there are
   two marks of one kind. *)

Parseable(text) ==
  LET Marked(kinds) == {i \in DOMAIN text : text[i] \in DOMAIN Marks /\ Marks[text[i]] \in kinds}
      braces == Marked({"json", "brace"})
  IN \/ braces # {} /\ Marks[text[Min(braces)]] = "json"
     \/ \E kind \in {"key", "bullet", "number"} : Cardinality(Marked({kind})) >= 2

(* benchmark_system_log_diagnosis: the first of the spellings that occurs,
   "memory corruption" last, for memory_corruption. *)

Question(fault) == <<"analyze">> \o fault.log \o <<"choose">> \o FaultTypes

Identified(text) ==
  LET named == {i \in DOMAIN Spellings : Spellings[i].word \in Range(text)}
  IN IF named = {} THEN Nothing ELSE Spellings[Min(named)].fault

Correct(text, fault) == Identified(text) = fault.expected

-----------------------------------------------------------------------------
Zero == [format |-> 0, lenient |-> 0, strict |-> 0, exact |-> 0, substring |-> 0,
         semantic |-> 0, samples |-> 0, found |-> 0, lines |-> 0, parseable |-> 0, correct |-> 0]

Init == /\ arguments = Nothing /\ test = Nothing /\ part = "start" /\ todo = << >>
        /\ context = << >> /\ scores = Zero /\ report = Nothing

\* torch.load raises on a file that was cut, load_state_dict on another model's.
Start == /\ part = "start"
         /\ arguments' \in [checkpoint : {"none", "good", "bad"}, output : {"default", "directory", "bare"}]
         /\ test' \in TestFiles
         /\ IF arguments'.checkpoint = "bad" THEN part' = "raised" /\ UNCHANGED todo
            ELSE part' = "tools" /\ todo' = ToolCallPrompts
         /\ UNCHANGED <<context, scores, report>>

BashLines == Picked(test, {k \in DOMAIN test : test[k].bash})

\* random.sample where there are more than MaxLines
Samples(lines) ==
  IF Len(lines) <= MaxLines THEN {lines}
  ELSE {[k \in 1..MaxLines |-> lines[pick[k]]] :
          pick \in {p \in [1..MaxLines -> DOMAIN lines] :
                      \A j, k \in 1..MaxLines : p[j] = p[k] => j = k}}

\* The next part: without its file a benchmark of the test split is skipped;
\* with a file that has no bash line the averages divide by zero.
EndOfPart ==
  /\ todo = << >>
  /\ \/ /\ part = "tools"
        /\ IF test = Nothing THEN part' = "dialogues" /\ todo' = Dialogues /\ UNCHANGED scores
           ELSE \E lines \in Samples(BashLines) :
                  /\ part' = IF lines = << >> THEN "raised" ELSE "bash"
                  /\ todo' = lines
                  /\ scores' = [scores EXCEPT !.samples = Len(lines)]
     \/ part = "bash" /\ part' = "dialogues" /\ todo' = Dialogues /\ UNCHANGED scores
     \/ /\ part = "dialogues"
        /\ IF test = Nothing THEN part' = "logs" /\ todo' = FaultLogs /\ UNCHANGED scores
           ELSE /\ part' = "format" /\ todo' = Prefix(test, MaxLines)
                /\ scores' = [scores EXCEPT !.lines = Len(todo')]
     \/ part = "format" /\ part' = "logs" /\ todo' = FaultLogs /\ UNCHANGED scores
     \/ part = "logs" /\ part' = "save" /\ UNCHANGED <<todo, scores>>
  /\ UNCHANGED <<arguments, test, context, report>>

\* The bash benchmark parses every line of the file before it scores one.
LineRaises == /\ part = "tools" /\ todo = << >> /\ test # Nothing
              /\ part' = "raised"
              /\ UNCHANGED <<arguments, test, todo, context, scores, report>>

Add(points) == [field \in DOMAIN scores |->
                  scores[field] + (IF field \in DOMAIN points THEN points[field] ELSE 0)]

\* A scenario with a single prompt
Scored(now, points) ==
  /\ part = now /\ todo # << >>
  /\ scores' = Add(points) /\ todo' = Tail(todo)
  /\ UNCHANGED <<arguments, test, part, context, report>>

ToolCall(output) ==
  part = "tools" /\ todo # << >> /\
  Scored("tools", ScoreToolCall(Decoded(Head(todo).prompt, output), Head(todo)))

Bash(output) ==
  part = "bash" /\ todo # << >> /\
  Scored("bash", ScoreBash(Decoded(Head(todo).prompt, output), Head(todo).response))

Format(output) ==
  part = "format" /\ todo # << >> /\
  Scored("format", [parseable |-> One(Parseable(Decoded(Head(todo).prompt, output)))])

Diagnosis(output) ==
  part = "logs" /\ todo # << >> /\
  Scored("logs", [correct |-> One(Correct(Decoded(Question(Head(todo)), output), Head(todo)))])

\* One turn: the history and the new turn are the prompt, and the history takes
\* the beginning of the decoded text for the answer.
Turn(output) ==
  /\ part = "dialogues" /\ todo # << >>
  /\ LET dialogue == Head(todo)
         asked == <<"user">> \o dialogue.turns[Len(context) \div 2 + 1]
         text == Decoded(FlattenSeq(context) \o asked, output)
         told == Append(Append(context, asked), <<"assistant">> \o Prefix(text, Remembered))
         over == Len(told) = 2 * Len(dialogue.turns)
     IN /\ scores' = Add([found |-> Cardinality(dialogue.keywords \cap Range(text))])
        /\ context' = IF over THEN << >> ELSE told
        /\ todo' = IF over THEN Tail(todo) ELSE todo
  /\ UNCHANGED <<arguments, test, part, report>>

\* The results go to --output, or to a file named after whether there was a
\* checkpoint.  makedirs of a path without a directory raises.
Save == /\ part = "save"
        /\ IF arguments.output = "bare" THEN part' = "raised" /\ UNCHANGED report
           ELSE /\ part' = "done"
                /\ report' = [stage |-> IF arguments.checkpoint = "none" THEN "before_training"
                                        ELSE "after_sft",
                              scores |-> scores]
        /\ UNCHANGED <<arguments, test, todo, context, scores>>

Next == \/ Start \/ EndOfPart \/ LineRaises \/ Save
        \/ \E output \in Outputs : \/ ToolCall(output) \/ Bash(output) \/ Turn(output)
                                   \/ Format(output) \/ Diagnosis(output)
=============================================================================
