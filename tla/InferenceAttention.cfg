SPECIFICATION Spec
CONSTANTS
  Requests <- MCRequests
  Rows = {r1, r2}
  Layers = 2
  ContextLen = 3
  Experts = 3
  TopK = 2
  Distributions <- MCDistributions
  Eos = "eos"
  Unwritten = Unwritten
INVARIANT SeesItsPast
CHECK_DEADLOCK FALSE
