SPECIFICATION Spec
CONSTANTS
  Builders = {b1, b2}
  Corpus <- MCCorpus
  Documents <- MCDocuments
  Builds <- MCBuildsWithLead
  Workers = 2
  Texts <- MCTexts
  Replies <- MCReplies
  MaxFailures = 1
INVARIANTS
  RepairsAreCacheHits
SYMMETRY MCSymmetry
CHECK_DEADLOCK FALSE
