CONSTANTS
  Jobs <- LongSft
  MaxRuns = 2
  Losses = {1}
  None = None
  Repaired = {}
SPECIFICATION Spec
PROPERTY SavedIsKept
CHECK_DEADLOCK FALSE
