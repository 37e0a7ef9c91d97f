CONSTANTS
  Workers = {w1}
  Main = main
  BufSize = 2
  Programs <- BoundaryCall
SPECIFICATION FairSpec
CHECK_DEADLOCK FALSE
PROPERTY ConsumerResumes
