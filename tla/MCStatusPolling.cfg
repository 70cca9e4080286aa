\* A purchase, two attempts to cancel, one new resale.
CONSTANTS
  p1 = p1
  p2 = p2
  c1 = c1
  c2 = c2
  s1 = s1
  r1 = r1
  r2 = r2
  Purchases = {p1}
  Cancels = {c1, c2}
  Resales = {s1}
  Requests = {r1, r2}
SYMMETRY Symmetry
SPECIFICATION Spec
INVARIANTS SoldOnce SuccessIsTrue RowsBounded
PROPERTIES NoRetreat
