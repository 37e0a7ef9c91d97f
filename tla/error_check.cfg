CONSTANTS
  ExpBits = 2
  MantBits = 2
  Extra = 1
  ERRORTHRESHOLD = 2
  Operands <- Plausible
  Results <- FewResults
  MaxOps = 2
  MaxSlices = 2
SPECIFICATION Spec
CHECK_DEADLOCK FALSE
INVARIANTS
  IInv
  ErrorsCounted
  FlipsCounted
  CancellationDetected
  NoFalseCancellation
  ReportIsOwn
