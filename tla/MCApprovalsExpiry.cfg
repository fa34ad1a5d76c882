SPECIFICATION Spec
CONSTANTS
  Candidates = {"host"}
  GrantActions <- MCActions
  Fractions <- AnyExpiry
  MaxLifetime = 2
  MaxTime = 3
  MaxEvents = 3
INVARIANT RegistryRecovers
