SPECIFICATION Spec
CONSTANTS
  Requests = {"r1"}
  Workers = {w1, w2}
  Idps = {"idp"}
  SpEntity = "sp"
  ValidUntil <- MCNoValidUntil
  Acs <- MCAcs
  RelayStates = {"absent"}
  Lifetimes = {1}
  Inputs <- MixedInputs
  Policies = {"RequireCache", "DisabledForCompatibility"}
  Skews <- TwoSkews
  Retention = 1
  MaxStall = 1
  Grace = 2
  MaxClock = 4
  MaxFailures = 0
SYMMETRY WorkerSymmetry
INVARIANTS AssertionConsumedOnce OneTimeUseHonoured BoundAssertionsNeedTheirLogin
