SPECIFICATION ApiSpec

CONSTANTS
  Req = {r1, r2, r3, r4}
  Existing = {}
  Key = {k}
  Race = {human}
  Field = {}
  TextField = {}
  Value = {}
  Ops <- Posts
  None = None
  Empty = Empty
  Marker = Marker
  EntriesOutliveOwners = TRUE

SYMMETRY RequestSymmetry

INVARIANTS
  ReplayIsOfSameResource

\* Each request is served once: a behaviour ends when all are.
CHECK_DEADLOCK FALSE
