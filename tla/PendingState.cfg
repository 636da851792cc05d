SPECIFICATION Spec
CONSTANTS
  Starts <- MCStarts
  Foreign <- MCForeign
  Lifetimes = {0, 1, 2}
  Expirations <- MCExpirations
  MaxClock = 3
INVARIANTS RestartLosesNothing
PROPERTY CompletedInTime
CHECK_DEADLOCK FALSE
