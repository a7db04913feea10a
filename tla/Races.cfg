SPECIFICATION Spec

CONSTANTS
  Req = {r1, r2, r3}
  Seeded = {human}
  Existing = {a}
  Name = {n1, n2}
  Ops <- AllOps
  None = None

SYMMETRY CatalogSymmetry

INVARIANTS
  Inv
  ShownNamesWereTrue
  AnswersNameTheRace
PROPERTIES
  ImplementsRegistry

\* Each request is served once: a behaviour ends when all are.
CHECK_DEADLOCK FALSE
