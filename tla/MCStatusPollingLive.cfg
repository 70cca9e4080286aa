\* One transaction of each kind, polled until it is answered.
CONSTANTS
  p1 = p1
  p2 = p2
  c1 = c1
  c2 = c2
  s1 = s1
  r1 = r1
  r2 = r2
  Purchases = {p1}
  Cancels = {c1}
  Resales = {s1}
  Requests = {r1}
SPECIFICATION FairSpec
PROPERTIES EventuallyTold
