\* Which shadow a clone reads, over loops with phis and selects.
SPECIFICATION Spec
CONSTANTS
  Functions <- AllFunctions
  MaxJumps = 6
INVARIANTS
  RInv
  EntriesFit
  NothingMissing
  RightShadows
  LeftOnce
CHECK_DEADLOCK FALSE
