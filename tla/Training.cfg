CONSTANTS
  Jobs <- ManyJobs
  MaxRuns = 2
  Losses = {1, 2, 3}
  None = None
  Repaired = {"pretrain", "dpo"}
SPECIFICATION Spec
INVARIANTS CountersAgree GrowthBounded ProgressKept BestIsExported
PROPERTIES WholeWindows RemovesOldest WarmsUpThenDecays RunEnds
CHECK_DEADLOCK FALSE
