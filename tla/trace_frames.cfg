CONSTANTS
  Slots = {s1, s2}
  Cells = {c1}
  Instrs = {"call", "memory"}
  CellKeys = 3
  MaxDepth = 3
  MaxCalls = 3
  MaxTime = 2
  MaxLeft = 0
SPECIFICATION Spec
CHECK_DEADLOCK FALSE
SYMMETRY Symmetry
INVARIANTS
  IInv
  LoadedTempAlive
  ProvenanceKept
  OperandsAlive
