\* One task steps two workers: the barrier, its abstract specification and the
\* end of every round.
CONSTANTS
  Workers = {w1, w2}
  Servers = {}
  Tasks = {auto}
  MaxClock = 2
  MaxResets = 0
  Snapshots = {0, 1, 2}
SPECIFICATION FairSpec
INVARIANTS TypeOK OverrunBound LockStepClocks
PROPERTIES ImplementsLockStep RoundCompletes
