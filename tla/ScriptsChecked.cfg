SPECIFICATION FairSpec
CONSTANTS
  w1 = w1
  w2 = w2
  o1 = o1
  NumEpisodes = 2
  Workers = {w1, w2}
  Operators = {o1}
  Sites <- CheckedSites
INVARIANTS
  VersionsAgree
PROPERTIES
  RetriesKeepVersion
  JobsSettle
CHECK_DEADLOCK FALSE
