CONSTANTS
  Events = {e1}
  Txs = {t1, t2}
  NoTx = NoTx
  NoEvent = NoEvent
  Requests = {r1, r2}
  Retries = 2
  MaxFaults = 1
SPECIFICATION Spec
INVARIANTS
  PublishedIsReal PendingSettles AddressKnown UnrecordedHidden ToldIsFound
SYMMETRY Symmetry
