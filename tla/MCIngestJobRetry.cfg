\* A provider that refuses ranges wider than one block.
CONSTANTS
  t1 = t1
  t2 = t2
  Ticks = {t1, t2}
  EventType = "TicketSold"
  BatchSize = 2
  MaxBlocksPerQuery = 5
  RangeLimit = 1
  MaxLag = 1
  MaxHead = 4
  Indexes = {1, 2}
SPECIFICATION Spec
INVARIANT RetryShrinks
