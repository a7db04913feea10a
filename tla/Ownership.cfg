SPECIFICATION OwnSpec

CONSTANTS
  Req = {r1, r2, r3, r4}
  Existing = {}
  Key = {k}
  Race = {human}
  Field = {}
  TextField = {}
  Value = {}
  Ops <- AllOps
  None = None
  Empty = Empty

SYMMETRY RequestSymmetry

INVARIANTS
  OwnInv
  VisibleHasOwner
  SameKeySameCharacter
  ConfirmedIsDurable
  ConfirmRefusalIsFinal
PROPERTIES
  ImplementsLifecycle

\* Each request is served once: a behaviour ends when all are.
CHECK_DEADLOCK FALSE
