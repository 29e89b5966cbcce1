SPECIFICATION FairSpec
CONSTANTS
  Articles = {"a1", "a2"}
  Workers = {"w1", "w2"}
  Sites <- CheckedSites
INVARIANTS IndexIsWhole ContextIsBest
PROPERTY ImportedIsIndexed
