CONSTANTS
  Events = {e1}
  Txs = {t1, t2}
  NoTx = NoTx
  NoEvent = NoEvent
  Requests = {r1}
  Retries = 2
  MaxFaults = 2
SPECIFICATION FairSpec
PROPERTY EventuallyPublished
