SPECIFICATION Spec
CONSTANTS
  Messages <- TwoRequests
  Practices <- MCPractices
  Declared = {"k1", "k2"}
  DefaultMax = 3
  MaxSent = 2
INVARIANTS VerifiedIsWhatWasSigned IntactArrives
CHECK_DEADLOCK FALSE
