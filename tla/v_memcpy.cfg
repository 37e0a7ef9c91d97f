CONSTANTS
  Slots = {s1}
  Cells = {c1, c2}
  Instrs = {"call", "memory", "memcpy"}
  CellKeys = 1024
  MaxDepth = 2
  MaxCalls = 2
  MaxTime = 2
  MaxLeft = 0
SPECIFICATION Spec
CHECK_DEADLOCK FALSE
INVARIANTS
  LoadedTempAlive
