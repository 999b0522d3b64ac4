SPECIFICATION FairSpec
CONSTANTS
  w1 = w1
  w2 = w2
  w3 = w3
  Leader = leader
  Workers = {w1, w2, w3}
  MaxPath = 7
  MaxLost = 2
  Clusters <- MCClusters
INVARIANTS
  HandledOnce
  AnswerTrue
PROPERTIES
  IsFlood
  CallEnds
CHECK_DEADLOCK FALSE
