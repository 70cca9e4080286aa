\* Two browsers, two requests at a time, three tokens in three seconds.
CONSTANTS
  Browsers = {b1, b2}
  Requests = {r1, r2}
  Rows = {w1, w2, w3}
  Ttl = 1
  MaxSecond = 2
  None = None
SPECIFICATION Spec
INVARIANTS OneLiveRow SignOutEnds JarBacked
SYMMETRY Symmetry
