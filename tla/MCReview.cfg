SPECIFICATION Spec
CONSTANTS
  Artifacts = {"a1", "a2"}
  Bytes = {"x"}
  Legacy <- MCLegacy
  ClaimIds = {"c1", "c2"}
  Contents <- MCContents
  MaxIds = 3
  MaxFaults = 2
CHECK_DEADLOCK FALSE
INVARIANTS
  TypeOK
  RepairHeals
  DamageIsRepairable
  VerifiedMeansReviewed
PROPERTIES
  AcknowledgedIsKept
  OfferedIsPromoted
  EvidenceStaysIntact
  GuidedEngagementCompletes
