SPECIFICATION Spec
CONSTANTS
  Bodies <- LateLoad
  Workers = {w1}
  NumBufs = 3
  BufSize = 12
  MaxSlices = 1
INVARIANT Mirrored
CHECK_DEADLOCK FALSE
