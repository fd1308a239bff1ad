------------------------------- MODULE Deploy -------------------------------
(***************************************************************************)
(* What is done with a trained model: text generated from it, its          *)
(* conversion for the C engine, the golden run that engine is checked      *)
(* against, and the benchmarks it is put through.  The programs share      *)
(* nothing but the checkpoint they read, so a behaviour follows one.       *)
(***************************************************************************)
EXTENDS Golden, Loops

CONSTANTS StateDicts, Config, BlockSize, Nothing,    \* Convert
          Words, ToolCallPrompts, Dialogues, FaultLogs, FaultTypes, Spellings, TestFiles,
          Outputs, Calls, Marks, Window, Remembered, MaxLines  \* Benchmark

VARIABLES call, step, current, descriptors, chunks, mom, header,
          arguments, test, part, todo, context, scores, report,
          program   \* followed

C == INSTANCE Convert
E == INSTANCE Benchmark

ASSUME DeployAssumption == C!BlockAssumption /\ E!WindowAssumption /\ E!ScenarioAssumption

converting == <<call, step, current, descriptors, chunks, mom, header>>
benchmarking == <<arguments, test, part, todo, context, scores, report>>
allVars == <<vars, goldenVars, converting, benchmarking, program>>

\* A program that is not followed is not varied either.
DeployInit ==
  /\ GoldenInit /\ C!Init /\ E!Init
  /\ \/ program = "model" /\ call = CHOOSE c \in C!Conversions : TRUE
     \/ program = "convert" /\ request = CHOOSE r \in Requests : TRUE
     \/ /\ program = "benchmark" /\ call = CHOOSE c \in C!Conversions : TRUE
        /\ request = CHOOSE r \in Requests : TRUE

RunModel == /\ program = "model" /\ GoldenNext
            /\ UNCHANGED <<converting, benchmarking, program>>
RunConverter == /\ program = "convert" /\ C!Next
                /\ UNCHANGED <<vars, goldenVars, benchmarking, program>>
RunBenchmark == /\ program = "benchmark" /\ E!Next
                /\ UNCHANGED <<vars, goldenVars, converting, program>>

DeployNext == RunModel \/ RunConverter \/ RunBenchmark

DeploySpec == DeployInit /\ [][DeployNext]_allVars
-----------------------------------------------------------------------------
\* convert_checkpoint_to_mom1: read by its descriptors, a file gives every
\* tensor of at most four dimensions.  A descriptor's offset is aligned in the
\* file and is where the tensor's own data starts, however many dimensions it
\* has; as many bytes as the type and the shape in the descriptor say are the
\* tensor's, and each element comes back from the lane it was put in; the
\* header is the model's.  Nothing is claimed of names: see NamesMatch.
DescriptorsFindData ==
  mom # Nothing =>
    /\ C!HeaderMatches(Config) /\ mom.tensors = Len(call.state)
    /\ DOMAIN mom.descriptors = 1..mom.tensors
    /\ \A i \in DOMAIN mom.descriptors :
         LET d == mom.descriptors[i]
             t == call.state[i]
             from == mom.dataOffset + d.offset
         IN /\ from % C!Alignment = 0
            /\ \E k \in DOMAIN mom.chunks :
                 /\ C!Start(k) = from /\ mom.chunks[k].of = t.name
                 /\ d.rank <= 4 => mom.chunks[k].bytes = C!Bytes(d.dtype, d.shape)
            /\ d.dtype = "q8_0" /\ d.rank <= 4 =>
                 LET blocks == C!QuantizeQ80(t.shape)
                 IN \A row \in 0..(C!RowsOf(t.shape) - 1), column \in 0..(Last(t.shape) - 1) :
                      C!Dequantized(blocks, d.shape, row, column) = <<row, column>>

\* export_config.py, of its macros: "Tensor names (matching .mom file)".  Every
\* tensor of a file has the name by which model_config.h tells the engine to
\* look for it.  It does not hold: norms and the embedding keep the names they
\* had, and long names are cut (ConvertNames.cfg).
NamesMatch ==
  mom # Nothing =>
    \A i \in DOMAIN mom.descriptors :
      mom.descriptors[i].name = C!Dotted(C!MacroName(call.state[i].name))

\* The 31 bytes of a descriptor's name tell the tensors apart.
NamesDiffer ==
  mom # Nothing =>
    \A i, j \in DOMAIN mom.descriptors :
      mom.descriptors[i].name = mom.descriptors[j].name => i = j

\* compare_logits: PASS is never said of nothing.  Some tensor of the golden
\* run has a file whose differences are not infinite, every file compared is of
\* its tensor's size and passes, and what was compared of an expert is the work
\* of tokens that were routed to it.  A file of NaNs is such a file: what its
\* elements are is PassComparesNumbers.
PassNeedsEvidence ==
  verdict = "PASS" =>
    /\ \E k \in DOMAIN compared : compared[k].error # "inf"
    /\ \A k \in DOMAIN compared : compared[k].passed /\ compared[k].size = GoldenSize
    /\ DOMAIN compared \subseteq captured
    /\ \A l \in 0..(Layers - 1) :
         /\ {LayerKey(l, b) : b \in {"attn_out", "moe_out", "block_out"}} \subseteq captured
         /\ Cardinality({e \in 1..Experts : ExpertKey(l, e) \in captured})
              \in TopK..(TopK * Cardinality(Rows) * request.promptLen)

\* docs/AI_SUBSYSTEM.md of the golden tensors: "dump the same intermediates and
\* diff against the golden tensors", "Find the FIRST op that diverges".  PASS
\* says that numbers agreed: some file that was compared holds no NaN.  It does
\* not hold, as no comparison with a NaN is true (GoldenNan.cfg).
PassComparesNumbers ==
  verdict = "PASS" => \E k \in DOMAIN compared : compared[k].error # "nan"

\* agent_benchmark.py: results are those of a whole run, none is left by a run
\* that raised, and no rate in them passes one.  Of what a tool call has, the
\* stricter is rarer; an exact answer has its text in common; every keyword is
\* found at most once a turn; and what was averaged of the test file is never
\* nothing: bash lines of it for one part, its first lines for the other.
ReportAddsUp ==
  /\ part = "raised" => report = Nothing
  /\ report # Nothing =>
       LET s == report.scores
       IN /\ s.strict <= s.lenient /\ s.lenient <= s.format /\ s.format <= Len(ToolCallPrompts)
          /\ s.exact <= s.substring /\ s.substring <= s.samples /\ s.semantic <= s.samples
          /\ s.found <= Sum([k \in DOMAIN Dialogues |->
                          Len(Dialogues[k].turns) * Cardinality(Dialogues[k].keywords)])
          /\ s.parseable <= s.lines /\ s.correct <= Len(FaultLogs)
          /\ IF test = Nothing THEN s.samples = 0 /\ s.lines = 0
             ELSE /\ 0 < s.samples /\ s.samples <= MaxLines
                  /\ s.samples <= Cardinality({k \in DOMAIN test : test[k].bash})
                  /\ s.lines = Len(E!Prefix(test, MaxLines))

\* agent_benchmark.py of a turn: "does the generated text reference context?";
\* of a fault log: "Check if output mentions the correct fault type".  What a
\* model is given points for is in what it wrote: keywords of a dialogue that
\* its output has, and the fault its output names.
OutputIsScored ==
  [][ /\ scores'.found > scores.found =>
           \E output \in Outputs :
             /\ E!Turn(output)
             /\ scores'.found - scores.found
                  <= Cardinality(Head(todo).keywords \cap Range(output))
      /\ scores'.correct > scores.correct =>
           \E output \in Outputs :
             E!Diagnosis(output) /\ E!Identified(output) = Head(todo).expected
    ]_allVars
=============================================================================
