SPECIFICATION Spec
CONSTANTS
  Builders = {b1, b2}
  Corpus <- MCCorpus
  Documents <- MCDocuments
  Builds <- MCBuilds
  Workers = 2
  Texts <- MCTexts
  Replies <- MCReplies
  MaxFailures = 1
INVARIANTS
  RepresentationsFaithful
  CallsAccounted
SYMMETRY MCSymmetry
CHECK_DEADLOCK FALSE
