SPECIFICATION FairApiSpec

CONSTANTS
  Req = {r1, r2, r3}
  Existing = {}
  Key = {k}
  Race = {human}
  Field = {}
  TextField = {}
  Value = {}
  Ops <- Posts
  None = None
  Empty = Empty
  Marker = Marker
  EntriesOutliveOwners = TRUE

INVARIANTS
  ApiInv
  OneHandlerPerKey
PROPERTIES
  MarkersResolve
  ReservationsResolve

\* Each request is served once: a behaviour ends when all are.
CHECK_DEADLOCK FALSE
