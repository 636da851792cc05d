SPECIFICATION FairSpec
CONSTANTS
  Sps = {"sp1", "sp2"}
  Idp <- MCIdp
  AcsTables <- MCTables
  Signing <- MCSigning
  SpValidUntil <- SpExpires
  IdpValidUntil = {3}
  DefaultRelay <- NoRelay
  Requests = {"r1"}
  IssuanceLifetime = 2
  Practices <- MCPractices
  Retention = 2
  Skew <- StrictSkew
  MaxClock = 3
INVARIANTS IssuedResponsesAreAccepted ReceivedOncePerRetention
PROPERTIES EveryLoginEnds ImplementsFederatedLogin
CHECK_DEADLOCK FALSE
