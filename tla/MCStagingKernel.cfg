SPECIFICATION Spec
CONSTANTS
  a = a
  b = b
  ghost = ghost
  NoPlan = NoPlan
  Ids <- MCIds
  BatchSize = 2
  HasEmbedding = TRUE
  Batches <- MCBatches
INVARIANTS
  TypeOK
  CountsMatchRows
  DenseOrdinals
  Lineage
  SealedRelationComplete
  PayloadsMatchPlan
PROPERTIES
  EarlierTablesFrozen
CHECK_DEADLOCK FALSE
