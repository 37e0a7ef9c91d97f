CONSTANTS
  Workers = {w1, w2}
  Main = main
  BufSize = 2
  Programs <- AnyPrograms
SPECIFICATION FairSpec
CHECK_DEADLOCK FALSE
INVARIANTS
  IInv
  SInv
  CompleteAtExit
  OwnShadowState
  CloneMapUnshared
PROPERTIES
  StreamsSpec
  Terminates
