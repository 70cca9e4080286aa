\* Three requests, two of them at a time.
CONSTANTS
  Requests = {r1, r2, r3}
  Names = {n1}
  Shapes <- MCShapes
  None = None
  MaxInFlight = 2
  MaxFaults = 1
SPECIFICATION Spec
INVARIANTS DraftWhole MetadataCurrent NamesDistinct
SYMMETRY Symmetry
CHECK_DEADLOCK FALSE
