SPECIFICATION Spec
CONSTANTS
  Sps = {"sp1", "sp2"}
  Idp <- MCIdp
  AcsTables <- MCTables
  Signing <- MCSigning
  SpValidUntil <- SpExpires
  IdpValidUntil = {3}
  DefaultRelay <- HomeRelay
  Requests = {"r1"}
  IssuanceLifetime = 2
  Practices <- MCPractices
  Retention = 2
  Skew <- StrictSkew
  MaxClock = 3
INVARIANT PendingRecordsSentRelay
CHECK_DEADLOCK FALSE
