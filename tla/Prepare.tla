------------------------------ MODULE Prepare -------------------------------
(***************************************************************************)
(* prepare_agent_data.py: conversations streamed from several datasets are *)
(* converted one by one to a prompt and a response, shuffled, and split    *)
(* into the train, val and test files.                                     *)
(*                                                                         *)
(* A prompt is the sequence of its parts, each with the tag it is printed  *)
(* with and the message it comes from; "" is an empty text.  The shares of *)
(* the split, 90 and 5 in 100 in the code, are constants so that a small   *)
(* number of samples fills all three files.                                *)
(***************************************************************************)
EXTENDS Loops, SequencesExt, FiniteSets

CONSTANTS Datasets,   \* DATASETS: a sequence of [format, rows]
          Nothing,    \* Python's None
          TrainShare, ValShare, Whole

ShareAssumption == /\ TrainShare \in Nat /\ ValShare \in Nat /\ Whole \in Nat \ {0}
                   /\ TrainShare + ValShare <= Whole

\* A row of Toucan is a conversation or does not parse, one of AgentBank has one.
DatasetsAssumption ==
  /\ IsSequence(Datasets) /\ Datasets # << >>
  /\ \A d \in DOMAIN Datasets :
       LET rows == Datasets[d].rows
       IN /\ IsSequence(rows)
          /\ \A r \in DOMAIN rows :
               IF Datasets[d].format = "toucan" THEN rows[r] = Nothing \/ IsSequence(rows[r])
               ELSE IsSequence(rows[r].conversation)

VARIABLES stage,      \* where main is
          dataset,    \* index in Datasets
          row,        \* rows of it already converted
          counted,    \* the enumerate index exists (`i' of process_datasets)
          all,        \* all_samples
          splits      \* the three files

pvars == <<stage, dataset, row, counted, all, splits>>

SplitNames == {"train", "val", "test"}
Blank(text) == text \in {"", " "}

-----------------------------------------------------------------------------
(* convert_toucan_messages, on a sequence of messages or Nothing where the
   JSON does not parse.  Roles outside those named print their own tag. *)

Calls(m) == IF m.calls THEN <<"tool_call">> ELSE << >>

Tags(m) == IF m.role = "assistant" THEN <<"assistant">> \o Calls(m)
           ELSE IF m.role = "tool" THEN <<"tool_response">>
           ELSE <<m.role>>

Parts(conversation, upTo) ==
  FlattenSeq([i \in 1..upTo |-> LET tags == Tags(conversation[i])
                               IN [k \in DOMAIN tags |-> [tag |-> tags[k], from |-> i]]])

FirstAssistant(conversation) ==
  SelectInSeq(conversation, LAMBDA m : m.role = "assistant")
LastAssistant(conversation) ==
  SelectLastInSeq(conversation, LAMBDA m : m.role = "assistant")

\* Content null in the message that is to be the response: .strip() raises.
ToucanRaises(conversation) ==
  /\ conversation # Nothing
  /\ LastAssistant(conversation) > 0
  /\ conversation[LastAssistant(conversation)].content = Nothing

ConvertToucan(conversation) ==
  IF conversation = Nothing THEN Nothing
  ELSE LET last == LastAssistant(conversation)
           final == conversation[last]
       IN IF \/ last <= 1                                  \* none, or no prompt
             \/ Blank(final.content) /\ ~final.calls
          THEN Nothing
          ELSE [prompt |-> Parts(conversation, last - 1), response |-> last,
                text |-> IF Blank(final.content) THEN "tool_call" ELSE final.content]

-----------------------------------------------------------------------------
(* convert_agentbank_conversation, on [conversation, pair]: pair is whether
   one of the pairs of fields input/output, query/answer, prompt/completion
   and nl/bash is there with both texts. *)

IsAgent(m) == m.role \in {"assistant", "gpt", "bot", "agent"}
BankTag(m) == CASE m.role \in {"user", "human", "system"} -> "user"
                [] m.role = "tool" -> "tool_response"
                [] OTHER -> m.role

\* Every turn that is not the agent's, those after its last one too.
History(conversation) ==
  LET places == [i \in DOMAIN conversation |-> i]
      told == Picked(places, {i \in DOMAIN conversation : ~IsAgent(conversation[i])})
  IN [k \in DOMAIN told |-> [tag |-> BankTag(conversation[told[k]]), from |-> told[k]]]

ConvertAgentBank(sample) ==
  LET last == SelectLastInSeq(sample.conversation, IsAgent)
      text == IF last = 0 THEN Nothing ELSE sample.conversation[last].content
  IN IF text \notin {Nothing, ""}
     THEN IF History(sample.conversation) = << >> THEN Nothing
          ELSE [prompt |-> History(sample.conversation), response |-> last,
                text |-> IF Blank(text) THEN "" ELSE text]      \* strip()
     ELSE IF sample.pair THEN [prompt |-> <<[tag |-> "user", from |-> 0]>>,
                               response |-> 0, text |-> "field"]
     ELSE Nothing

-----------------------------------------------------------------------------
Source == Datasets[dataset]
Sample == Source.rows[row + 1]
Convert == IF Source.format = "toucan" THEN ConvertToucan(Sample) ELSE ConvertAgentBank(Sample)
Raises == Source.format = "toucan" /\ ToucanRaises(Sample)
Placed(sample) == [prompt |-> sample.prompt, response |-> sample.response, text |-> sample.text,
                   dataset |-> dataset, row |-> row + 1]

Init == /\ stage = "load" /\ dataset = 1 /\ row = 0 /\ counted = FALSE /\ all = << >>
        /\ splits = [n \in SplitNames |-> << >>]

NextDataset == /\ dataset' = dataset + 1 /\ row' = 0
               /\ stage' = IF dataset = Len(Datasets) THEN "split" ELSE "load"

\* load_dataset; an error skips the dataset.
Load == /\ stage = "load"
        /\ \/ stage' = "rows" /\ UNCHANGED <<dataset, row>>
           \/ NextDataset
        /\ UNCHANGED <<counted, all, splits>>

ConvertRow == /\ stage = "rows" /\ row < Len(Source.rows)
              /\ row' = row + 1 /\ counted' = TRUE
              /\ IF Raises THEN stage' = "raised" /\ UNCHANGED all
                 ELSE /\ all' = all \o (IF Convert = Nothing THEN << >>
                                        ELSE <<Placed(Convert)>>)
                      /\ UNCHANGED stage
              /\ UNCHANGED <<dataset, splits>>

\* The stream is outside the try: a row that cannot be read ends the program.
StreamBreaks == /\ stage = "rows" /\ row < Len(Source.rows)
                /\ stage' = "raised"
                /\ UNCHANGED <<dataset, row, counted, all, splits>>

\* "out of {i+1} total": with no row yet anywhere there is no i.
DatasetDone == /\ stage = "rows" /\ row = Len(Source.rows)
               /\ IF counted THEN NextDataset
                  ELSE stage' = "raised" /\ UNCHANGED <<dataset, row>>
               /\ UNCHANGED <<counted, all, splits>>

Shuffles(s) == {[k \in DOMAIN s |-> s[p[k]]] : p \in
                  {p \in [DOMAIN s -> DOMAIN s] : \A j, k \in DOMAIN s : p[j] = p[k] => j = k}}

SplitOverlapping(s) ==
  LET n == Len(s)
      nTrain == (n * TrainShare) \div Whole
      nVal == (n * ValShare) \div Whole
  IN [train |-> SubSeq(s, 1, nTrain),
      val |-> SubSeq(s, nTrain + 1, nTrain + nVal),
      test |-> SubSeq(s, nTrain + nVal, n)]
Split(s) ==
  LET n == Len(s)
      nTrain == (n * TrainShare) \div Whole
      nVal == (n * ValShare) \div Whole
  IN [train |-> SubSeq(s, 1, nTrain),
      val |-> SubSeq(s, nTrain + 1, nTrain + nVal),
      test |-> SubSeq(s, nTrain + nVal + 1, n)]

SplitAndSave ==
  /\ stage = "split"
  /\ IF all = << >> THEN stage' = "raised" /\ UNCHANGED splits
     ELSE stage' = "done" /\ \E s \in Shuffles(all) : splits' = Split(s)
  /\ UNCHANGED <<dataset, row, counted, all>>

Next == Load \/ ConvertRow \/ StreamBreaks \/ DatasetDone \/ SplitAndSave
=============================================================================
