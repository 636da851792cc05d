SPECIFICATION FairSpec
CONSTANTS
  Entities = {"sp", "sp2", "idp"}
  Authorities = {"idp"}
  Endpoints <- MCEndpoints
  HasKey <- AllTrue
  WantSigned <- IdpUnsigned
  ValidUntil <- SpExpires
  Skew <- SpSkewed
  Practices <- MCPractices
  Requests = {"r1", "r2"}
  IssuanceLifetime = 2
  DefaultLifetime = 3
  Retention = 1
  Grace = 1
  MaxStall = 1
  MaxClock = 4
INVARIANTS LogoutReceivedOnce AnswersAreAccepted CompletedBeforeExpiry BurnedOnlyByCrashes
PROPERTIES EveryLogoutEnds ImplementsOneTimeLogout
CHECK_DEADLOCK FALSE
