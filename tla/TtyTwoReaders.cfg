SPECIFICATION Spec
CONSTANTS
  N = 4
  Chars = {zero, nl}
  NL = nl
  Zero = zero
  Readers = {r1, r2}
  NULL = null
  MaxSize = 2
INVARIANT SleeperIsAwaited
