SPECIFICATION FairSpec

CONSTANTS
  Req = {r1, r2}
  Client = {c1, c2}
  ApiKeys = {k}
  HalfRates = {0, 1, 4}
  MaxConns = 2
  MaxStatements = 2
  None = None
  Empty = Empty

INVARIANTS
  Inv
  CleanExitAnswersAll
  StatementsAreNotCutOff
  OnlyKeyHoldersGetIn
  KeyTrialsAreLimited
  NobodyIsLockedOut
PROPERTIES
  SignalEndsTheProcess

\* A process that has exited stays so.
CHECK_DEADLOCK FALSE
