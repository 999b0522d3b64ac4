\* A local worker and one that dials in, two controllers, one worker that is lost
\* or stops.
CONSTANTS
  Workers = {w1, w2}
  Dialling = {w2}
  Following = {w1, w2}
  Controllers = {c1, c2}
  Scripts = {s1, s2}
  Parts = {p1}
  FirstScript = s1
  MaxRequests = 2
  MaxGone = 1
  NoModel = NoModel
  NoOne = NoOne
SPECIFICATION FairSpec
INVARIANTS InSync BehaviorFollows
PROPERTIES StoresCurrent ManagerFree
\* The cluster comes to rest when nobody asks for anything.
CHECK_DEADLOCK FALSE
