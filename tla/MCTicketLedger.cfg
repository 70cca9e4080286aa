\* Four logs of one tier, two wallets, all four jobs interleaved at their awaits.
CONSTANTS
  a = a
  b = b
  o = o
  Wallets = {a, b}
  NoOwner = NoOwner
  Registered = {a, b}
  Amounts = {1, 2}
  MaxLogs = 4
  Organizer = o
  MaxDrafts = 0
SYMMETRY Symmetry
SPECIFICATION QuerySpec
INVARIANTS
  MarketAtomic RemainingExact RefundHasRow NeverNegative TicketsExact
  ListsAgree OffersOpen TicketsConserved
