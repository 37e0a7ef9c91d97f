CONSTANTS
  Workers = {w1, w2}
  Main = main
  BufSize = 1
  Programs <- TwoOverflows
SPECIFICATION Spec
CHECK_DEADLOCK FALSE
INVARIANT OwnValuesOnly
