CONSTANTS
  Count = 2
  Lines <- MCLines
  Releases <- MCReleases
  MaxChanges = 3
  MaxRuns = 3
SPECIFICATION FetchSpec
INVARIANT FetchTypeOK
INVARIANT ReleaseCountsAreExact
PROPERTY SuccessMeansPublished
PROPERTY ImplementsCorpusPublication
CHECK_DEADLOCK FALSE
