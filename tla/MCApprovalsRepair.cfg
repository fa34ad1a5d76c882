SPECIFICATION Spec
CONSTANTS
  Candidates = {"host"}
  GrantActions <- MCActions
  Fractions <- WholeSeconds
  MaxLifetime = 2
  MaxTime = 3
  MaxEvents = 3
INVARIANT RevokedStaysRevoked
