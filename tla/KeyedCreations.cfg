SPECIFICATION ApiSpec

CONSTANTS
  Req = {r1, r2, r3}
  Existing = {}
  Key = {k}
  Race = {human, elf}
  Field = {}
  TextField = {}
  Value = {}
  Ops <- Posts
  None = None
  Empty = Empty
  Marker = Marker
  EntriesOutliveOwners = FALSE

SYMMETRY BodySymmetry

INVARIANTS
  OneCharacterPerKey
  ReplaysAreFaithful
  RefusedBodiesDiffer
  ReplayedConfirmationsHold

\* Each request is served once: a behaviour ends when all are.
CHECK_DEADLOCK FALSE
