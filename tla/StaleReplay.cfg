SPECIFICATION ApiSpec

CONSTANTS
  Req = {r1, r2}
  Existing = {}
  Key = {k}
  Race = {human}
  Field = {}
  TextField = {}
  Value = {}
  Ops = {"create"}
  None = None
  Empty = Empty
  Marker = Marker
  EntriesOutliveOwners = TRUE

SYMMETRY RequestSymmetry

PROPERTIES
  ReplayedCreationExists

\* Each request is served once: a behaviour ends when all are.
CHECK_DEADLOCK FALSE
