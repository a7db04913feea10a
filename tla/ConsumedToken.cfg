SPECIFICATION Spec

CONSTANTS
  Req = {r1, r2}
  Existing = {}
  Key = {k}
  Race = {human}
  Field = {}
  TextField = {}
  Value = {}
  Ops <- ReservationOps
  None = None
  Empty = Empty

SYMMETRY RequestSymmetry

INVARIANTS
  ConsumedMeansDeleted

\* Each request is served once: a behaviour ends when all are.
CHECK_DEADLOCK FALSE
