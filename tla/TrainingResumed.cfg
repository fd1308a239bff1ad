CONSTANTS
  Jobs <- UnevaluatedSft
  MaxRuns = 2
  Losses = {1}
  None = None
  Repaired = {}
SPECIFICATION Spec
PROPERTY ScheduleIsRestored
CHECK_DEADLOCK FALSE
