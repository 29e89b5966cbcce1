SPECIFICATION FairSpec
CONSTANTS
  Workers = {"w1", "w2"}
  Operators = {"o1"}
  Sources = {"feed", "mail"}
  Items <- AllItems
  MaxArticles = 2
  Sites <- CheckedSites
INVARIANTS RowsAreDistinct PlannedOnce
PROPERTIES SelectionIsBest FeedIsImported

