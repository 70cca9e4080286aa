\* Two overlapping ticks, two logs to a block, ranges of two blocks, a provider
\* that may refuse them and lags by one block.
CONSTANTS
  t1 = t1
  t2 = t2
  Ticks = {t1, t2}
  EventType = "TicketSold"
  BatchSize = 2
  MaxBlocksPerQuery = 5
  RangeLimit = 1
  MaxLag = 1
  MaxHead = 4
  Indexes = {1, 2}
SPECIFICATION FairSpec
INVARIANT NoGap
PROPERTIES CursorMonotone DeliversInOrder EventuallyHandled
