SPECIFICATION Spec
CONSTANTS
  None = None
  Templates <- MCTemplates
  CommandLines <- MCCommandLines
  Answers <- MCAnswers
  MaxLaunches = 2
  Datasets <- MCDatasets
  TrainShare = 50
  ValShare = 25
  Whole = 100
  MarkerLen = 3
  MaxSeqLen = 30
  MaxPromptLen = 20
  MaxResponseLen = 32
  PartLen = 11
  TokenFiles <- MCTokenFiles
INVARIANT OnlyResponsesCount
CHECK_DEADLOCK FALSE
