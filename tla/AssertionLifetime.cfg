SPECIFICATION LifetimeSpec
CONSTANTS
  Assertions <- MCAssertions
  Wants <- MCWants
  Audience = "sp"
  Skews <- MCSkews
  LastInstant = 5
INVARIANTS OpensOneSession AcceptableIsStorable
CHECK_DEADLOCK FALSE
