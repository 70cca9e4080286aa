\* Nobody is registered at first: buyers sign up while their logs are handled.
CONSTANTS
  a = a
  b = b
  o = o
  Wallets = {a, b}
  NoOwner = NoOwner
  Registered = {}
  Amounts = {1}
  MaxLogs = 4
  Organizer = o
  MaxDrafts = 1
SYMMETRY Symmetry
SPECIFICATION QuerySpec
INVARIANTS TicketsExact 
