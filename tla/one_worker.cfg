CONSTANTS
  Workers = {w1}
  Main = main
  BufSize = 2
  Programs <- OneWorkerPrograms
SPECIFICATION FairSpec
INVARIANTS
  TypeOK
  OneOwner
  NoOrphanContinuation
  PushesDoNotBlock
  ShadowStateReady
  CalleeKnown
PROPERTIES
  StreamsSpec
  Terminates
