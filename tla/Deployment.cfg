SPECIFICATION FairDeployment
CONSTANTS
  Keys = {"sp", "idp"}
  Policies <- AllPolicies
  Arrivals <- AnyArrival
  Peers <- AnyPeer
  Options <- AllChoices
INVARIANTS
  AcceptedIsVouched
  DirectMeansOwnSignature
  CbcDecryptedOnlyVerified
  AuthenticatedIsCovered
  IssuedIsAccepted
  DeploymentTypeOK
  AgreedMessagesAreAccepted
  PolicyIsEnforced
PROPERTY StartedLoginsAreDecided
CHECK_DEADLOCK FALSE
