CONSTANTS
  Slots = {s1, s2}
  Cells = {c1, c2}
  Instrs = {"memory", "phi", "negate", "memcpy", "check", "debugger"}
  CellKeys = 1024
  MaxDepth = 1
  MaxCalls = 1
  MaxTime = 3
  MaxLeft = 1
SPECIFICATION FairSpec
CHECK_DEADLOCK FALSE
INVARIANTS
  OperandIntact
PROPERTIES
  TraceEnds
