SPECIFICATION Spec
CONSTANTS
  Sizes = {1, 2, 3, 5, 8}
  Page = 2
  Initial = 4
  MaxSize = 18
  Span = 3
  Frames = 12
  MaxOthers = 6
INVARIANTS ListTilesHeap NoFreeNeighbours FramesAccounted
PROPERTY ImplementsAllocator
CHECK_DEADLOCK FALSE
