\* Four requests, at any time, of two wallets with two emails.
CONSTANTS
  Requests = {r1, r2, r3, r4}
  Wallets = {w1, w2}
  Emails = {e1, e2}
  None = None
  MaxFaults = 2
SPECIFICATION Spec
INVARIANTS RoleHasDetail DetailHasRole SessionWhitelisted ProfileKept
SYMMETRY Symmetry
CHECK_DEADLOCK FALSE
