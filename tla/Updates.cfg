SPECIFICATION Spec

CONSTANTS
  Req = {r1, r2}
  Existing = {a}
  Key = {k}
  Race = {human, elf}
  Field = {description, height}
  TextField = {description}
  Value = {v}
  Ops <- AllOps
  None = None
  Empty = Empty

SYMMETRY RequestAndRaceSymmetry

INVARIANTS
  Inv
  EachVersionHasOneWriter
  RaceReferencesHold
PROPERTIES
  NoLostUpdate
  ImplementsAtomicCharacters

\* Each request is served once: a behaviour ends when all are.
CHECK_DEADLOCK FALSE
