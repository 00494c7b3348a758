SPECIFICATION Spec
CONSTANTS
  Stored = {1, 2, 3}
  Runes <- MCRunes
  HitLists <- MCHitLists
  EvidenceLists <- MCEvidenceLists
  Replies <- MCReplies
  Configs <- MCConfigs
  EvidenceK = 2
  RerankCandidates = 3
  MaximumContextRunes = 3
  QueryVariants = 1
  RRFConstant = 2
  Weight <- MCWeight
  Scale = 60
INVARIANTS
  TypeOK
  EvidenceReachesContext
  FusionRespectsChannels
  CitationsGrounded
  StagesAccounted
CHECK_DEADLOCK FALSE
