\* Scripts of up to three blocks, two of them nested.
CONSTANTS
  Programs <- MCPrograms
  StateNames = {"start", "next", "_main"}
  ProcNames = {"p"}
  CompNames = {"c"}
  VarNames = {"x"}
  Depth = 3
  None = None
SPECIFICATION FairSpec
INVARIANTS EndsFound
PROPERTIES ImplementsScript RunEnds
CHECK_DEADLOCK FALSE
