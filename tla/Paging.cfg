SPECIFICATION Spec

CONSTANTS
  Characters = 4
  DefaultListLimit = 2
  MaxListLimit = 3
  None = None

INVARIANTS
  Inv
  PagesAreBounded
  BatchesAreRestricted
  PageFitsTotal
  NothingMissed
  NothingTwice

\* A reader walks once: a behaviour ends with the last page.
CHECK_DEADLOCK FALSE
