SPECIFICATION FairSpec
CONSTANTS
  w1 = w1
  w2 = w2
  Leader = leader
  Workers = {w1, w2}
  OrphanFork = {w1}
  Views <- MCViews
  MaxJoins = 1
  MaxLosses <- MCLosses
  MaxMeets = 1
INVARIANTS
  NoFalseAlarm
PROPERTIES
  OnlyOrphansGiveUp
  LossNoticed
  OrphanEnds
  ElectionSpreads
CHECK_DEADLOCK FALSE
