SPECIFICATION FairSpec
CONSTANTS
  w1 = w1
  w2 = w2
  p1 = p1
  NumEpisodes = 2
  MaxLines = 2
  Articles = {1, 2}
  Workers = {w1, w2}
  Publishers = {p1}
  Sites <- CheckedSites
INVARIANTS
  AudioIsWhole
  ChaptersPlayTheirArticle
PROPERTIES
  ReadyIsHeard
