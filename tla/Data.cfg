SPECIFICATION Spec
CONSTANTS
  MaxInt = 5
  Dotted <- MCDotted
  Numbers <- MCNumbers
  Urls = {"u1", "u2"}
  Clusters <- MCClusters
  Threads = {t1}
  ProtoQueries <- MCProtoQueries
  Nowhere = "nowhere"
  MaxReads = 20
  LuaNames <- MCLuaNames
  Jobs <- MCJobs
INVARIANTS
  ClientRight
  QueriesRight
  WritesRight
  RoundTrips
  ScriptsRight
  ModelsRight
CHECK_DEADLOCK FALSE
