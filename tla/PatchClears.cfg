SPECIFICATION Spec

CONSTANTS
  Req = {r1}
  Existing = {a}
  Key = {}
  Race = {human}
  Field = {description}
  TextField = {description}
  Value = {v}
  Ops <- UpdateOps
  None = None
  Empty = Empty

SYMMETRY RequestSymmetry

PROPERTIES
  PatchNeverClears

\* Each request is served once: a behaviour ends when all are.
CHECK_DEADLOCK FALSE
