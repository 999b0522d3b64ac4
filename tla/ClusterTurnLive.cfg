\* One blocking client, its server and worker, and the auto-step loop.
CONSTANTS
  Workers = {w1}
  Tasks = {auto}
  MaxResets = 1
  Snapshots = {2}
  Clients = {c1}
  Blocking = {c1}
  Servers <- MCServers
  ServerOf <- MCServerOf
  Calls <- MCCalls
  CallerOf <- MCCallerOf
  WorkerOf <- MCWorkerOf
  MaxClock = 2
  MaxStepCount = 1
SPECIFICATION ClusterFairSpec
INVARIANT ServerClockFollows
PROPERTY AdvanceEnds
\* The system comes to rest when its clients have left and its only worker is
\* out of reach.
CHECK_DEADLOCK FALSE
