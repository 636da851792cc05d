SPECIFICATION FairSpec
CONSTANTS
  Requests = {"r1"}
  Workers = {w1, w2}
  Idps = {"idp"}
  SpEntity = "sp"
  ValidUntil <- MCValidUntil
  Acs <- MCAcs
  RelayStates = {"absent"}
  Lifetimes = {2}
  Inputs <- RacingInputs
  Policies = {"RequireCache"}
  Skews <- StrictSkew
  Retention = 1
  MaxStall = 1
  Grace = 1
  MaxClock = 4
  MaxFailures = 1
PROPERTIES ImplementsOneTimeLogin LoginCompletes
INVARIANTS IInv AtMostOneLogin NothingBurnedInVain
