SPECIFICATION Spec

CONSTANTS
  Writer = {w1, w2}
  TicksPerSecond = 2
  TTLs <- SomeTTLs
  Interval = 2
  MaxSkew = 1
  Width = 3
  MaxFailures = 1
  Horizon = 9
  None = None

SYMMETRY WriterSymmetry

INVARIANTS
  Inv
  ReservationsAreKept
  ReservationsGo
PROPERTIES
  UpdatedAtFollowsVersion

\* The clock stops at Horizon.
CHECK_DEADLOCK FALSE
