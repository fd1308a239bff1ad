SPECIFICATION FairSpec
CONSTANTS
  N = 5
  Chars = {zero, a, nl}
  NL = nl
  Zero = zero
  Readers = {r1}
  NULL = null
  MaxSize = 3
INVARIANTS TypeOK CountersAgree SleeperIsAwaited
PROPERTIES ImplementsLineQueue ReaderReleased
