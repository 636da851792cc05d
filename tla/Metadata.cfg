SPECIFICATION Spec
CONSTANTS
  KeyPlan <- IdpRollsOnly
  Validity = 2
  Practices <- MCPractices
  MaxClock = 4
INVARIANTS
  RolloverIsSeamless
  RemovedKeysExpire
  ReadsBackAsConfigured
  PinnedImportsAreGenuine
CHECK_DEADLOCK FALSE
