SPECIFICATION Spec
CONSTANTS
  Documents <- MCDocuments
  Chunkers <- MCChunkers
  Options <- MCOptions
  DefaultBuckets <- MCDefaultBuckets
  DefaultShortRunes = 3
  AtLimitSlack = 1
INVARIANTS
  TypeOK
  HeadingsSplit
  SmallSectionsMerge
  Coverage
  SnapsToSentence
  MeasuresTrue
CHECK_DEADLOCK FALSE
