CONSTANTS
  Workers = {}
  Main = main
  BufSize = 3
  Programs <- SmallPrograms
SPECIFICATION FairSpec
INVARIANTS
  IInv
  CompleteAtExit
PROPERTIES
  StreamsSpec
  Terminates
