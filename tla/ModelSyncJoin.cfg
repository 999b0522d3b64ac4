\* The same without failures, and with one request.
CONSTANTS
  Workers = {w1, w2}
  Dialling = {w2}
  Following = {w1, w2}
  Controllers = {c1}
  Scripts = {s1, s2}
  Parts = {p1}
  FirstScript = s1
  MaxRequests = 1
  MaxGone = 0
  NoModel = NoModel
  NoOne = NoOne
SPECIFICATION FairSpec
PROPERTY JoinEnds
\* The cluster comes to rest when nobody asks for anything.
CHECK_DEADLOCK FALSE
