\* Two blocking clients that advance, leave and retry at any time, and a
\* passive one.
CONSTANTS
  Servers = {s1}
  Clients = {c1, c2, c3}
  Blocking = {c1, c2}
  Advancing = {c1, c2}
  Slots = 1
  ServerOf <- MCServerOf
  Calls <- MCCalls
  CallerOf <- MCCallerOf
  MaxClock = 2
  MaxStepCount = 1
SPECIFICATION Spec
SYMMETRY Symmetry
INVARIANTS BlockAccounting MonitorAgrees
