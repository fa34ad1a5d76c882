SPECIFICATION Spec
CONSTANTS
  Skills <- MCSkills
  RouteSkill = "route"
  Candidates <- MCCandidates
  InScope <- MCInScope
  RequestIds = {1, 2, 3}
  Stages = {"analyzing", "reporting"}
  Grantable <- MCGrantable
  SeedLists <- MCSeeds
  Recommendations <- MCRecs
  MaxHops = 2
  MaxRequests = 2
  PerActionCap <- MCCaps
  MaxRetries = 1
  ReplanPassive = TRUE
  RetryInterruptedActive = FALSE
  OtherHops <- MCOthers
  MaxOthers = 1
INVARIANTS
  TypeOK
  NoDuplicateHops
  HandoffOnlyNeverRequested
  MarkedWhileInHand
  InterruptedIsDeferred
  HaltsAfterStateChange
  NothingIsForgotten
  BoundsHold
PROPERTIES
  ImplementsContracts
  SessionEnds
