SPECIFICATION Spec
CONSTANTS
  Calls <- MCCalls
  Uris = {"https://me", "https://other", "PartialLogout", "Success", "Responder", "Unlisted", "slo"}
  EntityIds = {"https://me", "https://other"}
  NCNames = {"id", "q1"}
  Elements <- MCElements
  Within <- AllWithin
INVARIANTS
  CreatedMessagesConform
  OnlyMisfitsAreRefused
