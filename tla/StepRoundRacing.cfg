\* The auto-step loop and a controller step the cluster at the same time,
\* while a worker may be re-initialized or a snapshot loaded.
CONSTANTS
  Workers = {w1}
  Servers = {s1}
  Tasks = {auto, ctl}
  MaxClock = 2
  MaxResets = 1
  Snapshots = {0, 1, 2}
SPECIFICATION Spec
SYMMETRY Symmetry
INVARIANT NeverAhead
