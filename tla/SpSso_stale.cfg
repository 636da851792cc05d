SPECIFICATION Spec
CONSTANTS
  Requests = {"r1"}
  Workers = {w1, w2}
  Idps = {"idp"}
  SpEntity = "sp"
  ValidUntil <- MCValidUntil
  Acs <- MCAcs
  RelayStates = {"absent"}
  Lifetimes = {2}
  Inputs <- RacingInputs
  Policies = {"RequireCache"}
  Skews <- StrictSkew
  Retention = 1
  MaxStall = 2
  Grace = 1
  MaxClock = 4
  MaxFailures = 0
SYMMETRY WorkerSymmetry
INVARIANT AtMostOneLogin
