------------------------------- MODULE Corpus -------------------------------
(***************************************************************************)
(* The way of a training sample: a generator (generate_dataset.py, or      *)
(* prepare_agent_data.py) leaves JSONL files, and a training script loads  *)
(* one of them and makes items of its lines.  The generators share nothing *)
(* but the files, so a behaviour follows one of them.                      *)
(***************************************************************************)
EXTENDS Integers, Sequences, SequencesExt, FiniteSets, TLC

CONSTANTS Templates, CommandLines, Answers, MaxLaunches,   \* Generate
          Datasets, TrainShare, ValShare, Whole,           \* Prepare
          MarkerLen, MaxSeqLen, MaxPromptLen, MaxResponseLen,   \* Batches
          PartLen,      \* bound: the bytes of a part of a conversation
          TokenFiles,   \* bound: sizes of the token files to pretrain on
          None

VARIABLES args, stages, asked, samples, out, files, launches,
          stage, dataset, row, counted, all, splits,
          program,   \* the generator followed
          item       \* what the dataset last returned, or None

G == INSTANCE Generate WITH Null <- None
P == INSTANCE Prepare WITH Nothing <- None
B == INSTANCE Batches

ASSUME CorpusAssumption ==
  /\ G!TemplatesAssumption /\ G!OptionsAssumption
  /\ P!ShareAssumption /\ P!DatasetsAssumption
  /\ B!LengthsAssumption
  /\ PartLen \in Nat /\ TokenFiles \subseteq Seq(Nat)

generating == <<args, stages, asked, samples, out, files, launches>>
preparing == <<stage, dataset, row, counted, all, splits>>
vars == <<generating, preparing, program, item>>

Init == G!Init /\ P!Init /\ program \in {"generate", "prepare"} /\ item = None

Generate == /\ program = "generate" /\ G!Next
            /\ item' = None /\ UNCHANGED <<preparing, program>>
Prepare == /\ program = "prepare" /\ P!Next
           /\ UNCHANGED <<generating, program, item>>

-----------------------------------------------------------------------------
SftFiles == {"sft_template", "sft_api"}
PairFiles == {"dpo_template", "dpo_api"}
Unreadable == [kind |-> "unreadable"]

LengthOf(s, key) == IF key \in DOMAIN s THEN s[key].len ELSE 0

SftItemOf(promptLen, responseLen) ==
  [kind |-> "sft", prompt |-> promptLen, response |-> responseLen,
   item |-> B!SftItem(promptLen, responseLen)]

\* The sides of a pair; a text the line lacks is empty.
PairOf(s) ==
  [kind |-> "pair", prompt |-> s.prompt.len,
   chosen |-> B!PairSide(s.prompt.len, LengthOf(s, "chosen")),
   rejected |-> B!PairSide(s.prompt.len, LengthOf(s, "rejected"))]

\* load_jsonl raises at a line that was cut.
LoadGenerated ==
  /\ program = "generate" /\ G!Ended
  /\ \E n \in G!StageNames : \E k \in DOMAIN files[n].lines :
       LET s == files[n].lines[k]
       IN item' = IF files[n].cut THEN Unreadable
                  ELSE IF n \in SftFiles
                       THEN SftItemOf(s.prompt.len, LengthOf(s, "response"))
                  ELSE PairOf(s)
  /\ UNCHANGED <<generating, preparing, program>>

LoadPrepared ==
  /\ program = "prepare" /\ stage = "done"
  /\ \E n \in P!SplitNames : \E k \in DOMAIN splits[n] :
       LET s == splits[n][k]
       IN item' = SftItemOf(PartLen * Len(s.prompt), IF s.text = "" THEN 0 ELSE PartLen)
  /\ UNCHANGED <<generating, preparing, program>>

\* The token files are not the generators'; train_epoch reads a chunk of them.
LoadChunk ==
  /\ item = None
  /\ \E sizes \in TokenFiles :
       item' = [kind |-> "chunks", sizes |-> sizes, chunks |-> B!Chunks(sizes)]
  /\ UNCHANGED <<generating, preparing, program>>

\* The next item is loaded, or training ends.
Forget == item # None /\ item' = None /\ UNCHANGED <<generating, preparing, program>>

Next == Generate \/ Prepare \/ LoadGenerated \/ LoadPrepared \/ LoadChunk \/ Forget

Spec == Init /\ [][Next]_vars
-----------------------------------------------------------------------------
\* filter_and_dedup: whatever answers came, whatever was killed, every line
\* of every file passes the quality filter, and two lines have one prompt
\* only where augment_samples added them.
WrittenIsClean ==
  \A n \in G!StageNames :
    LET lines == files[n].lines
    IN \A i \in DOMAIN lines :
         /\ G!Passes(lines[i])
         /\ \A j \in DOMAIN lines \ {i} :
              lines[i].prompt = lines[j].prompt => lines[i].prompt.augmented

\* convert_toucan_messages and convert_agentbank_conversation: the response is
\* the last turn of the agent that can be one, no turn of a Toucan prompt is
\* the response or comes after it and none before it is missing, and no turn
\* of an AgentBank prompt is the agent's.
PromptLacksItsAnswer ==
  \A k \in DOMAIN all :
    LET s == all[k]
        source == Datasets[s.dataset]
        from == {s.prompt[i].from : i \in DOMAIN s.prompt}
        rowOf == source.rows[s.row]
    IN IF source.format = "toucan"
       THEN /\ from = 1..(s.response - 1)
            /\ \A i \in DOMAIN rowOf : rowOf[i].role = "assistant" => i <= s.response
       ELSE s.response # 0 => \A i \in from : ~P!IsAgent(rowOf.conversation[i])

\* split_and_save: once the files are written every converted sample is in
\* exactly one of them.
SplitsPartition ==
  stage = "done" =>
    /\ Len(splits.train) + Len(splits.val) + Len(splits.test) = Len(all)
    /\ \A k \in DOMAIN all : \E n \in P!SplitNames : \E i \in DOMAIN splits[n] :
         splits[n][i] = all[k]

\* SFTDataset, DPODataset, PretrainDataset against the shifted losses: no token
\* of the prompt and no padding is a target, and every token after the prompt
\* that was not cut is one, those of the assistant marker too; nothing at all
\* is one exactly when the prompt alone fills the sequence; the two sides of a
\* pair share their prompt, and a side lacks its end marker only where prompt
\* and response both reach their limits; each token of a stream is in at most
\* one chunk, the last few in none.
LossSkipsPrompts ==
  item # None =>
    CASE item.kind = "sft" ->
           LET targets == B!Targets(item.item)
               ids == item.item.ids
           IN /\ targets = {i \in 2..Len(ids) : ids[i] \in {"marker", "response"}}
              /\ \A i \in targets : item.item.mask[i] = 1
              /\ Len(ids) = MaxSeqLen
              /\ targets = {} <=> item.prompt >= MaxSeqLen
      [] item.kind = "pair" ->
           \A side \in {item.chosen, item.rejected} :
             /\ B!Targets(side) = {i \in DOMAIN side.ids : side.ids[i] # "prompt"}
             /\ {i \in DOMAIN side.ids : side.ids[i] = "prompt"}
                  = {i \in DOMAIN item.chosen.ids : item.chosen.ids[i] = "prompt"}
             /\ Last(side.ids) # "eos" =>
                  item.prompt >= MaxPromptLen /\ Len(side.ids) = MaxPromptLen + MaxResponseLen
      [] item.kind = "chunks" ->
           LET total == Len(B!Stream(item.sizes))
               of(c) == {c[i] : i \in DOMAIN c}
           IN /\ \A c, d \in item.chunks : c # d => of(c) \cap of(d) = {}
              /\ \A c \in item.chunks : Len(c) = MaxSeqLen
              /\ total - Cardinality(UNION {of(c) : c \in item.chunks}) \in 0..(MaxSeqLen - 1)
      [] OTHER -> TRUE

\* "Only response tokens contribute to the loss." (dataset.py:166)
OnlyResponsesCount ==
  item # None /\ item.kind = "sft" =>
    \A i \in B!Targets(item.item) : item.item.ids[i] = "response"
=============================================================================
