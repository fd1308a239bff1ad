SPECIFICATION DeploySpec
CONSTANTS
  Requests <- MCRequests
  Rows = {r1, r2}
  Layers = 2
  ContextLen = 3
  Experts = 3
  TopK = 2
  Distributions <- MCDistributions
  Eos = "eos"
  Unwritten = Unwritten
  Directories <- MCDirectories
  GoldenSize = 40
  Tolerance = 5
  Undecided = Undecided
  StateDicts <- MCStateDicts
  Config <- MCConfig
  BlockSize = 4
  Nothing = Nothing
  Words <- MCWords
  ToolCallPrompts <- MCToolCallPrompts
  Dialogues <- MCDialogues
  FaultLogs <- MCFaultLogs
  FaultTypes <- MCFaultTypes
  Spellings <- MCSpellings
  TestFiles <- MCTestFiles
  Outputs <- MCOutputs
  Calls <- MCCalls
  Marks <- MCMarks
  Window = 5
  Remembered = 2
  MaxLines = 2
INVARIANT PassComparesNumbers
CHECK_DEADLOCK FALSE
