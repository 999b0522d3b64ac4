\* Two entities, migrating between two peers and a worker behind the leader.
CONSTANTS
  a = a b = b c = c
  Workers = {a, b, c}
  NetWorkers = {b}
  Peers <- MCPeers
  Setups <- MCSetups
  Pulls <- MCPulls
  Names = {n1, n2}
  Values = {0, 1}
  Default = 0
  Reorgs = {r1}
  None = None
SPECIFICATION Spec
SYMMETRY Symmetry
CONSTRAINT Quiet
INVARIANTS NothingLost OneHome CopiesAgree BehaviorsFollow
