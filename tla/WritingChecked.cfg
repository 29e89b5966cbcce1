SPECIFICATION WritingFairSpec
CONSTANTS
  Articles = {"a1", "a2"}
  Sites <- CheckedSites
INVARIANTS KeptIsReviewed PromptsAreCurrent
PROPERTY GenerationEnds
