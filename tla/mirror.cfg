SPECIFICATION Spec
CONSTANTS
  Bodies <- EveryBody
  Workers = {w1, w2}
  NumBufs = 2
  BufSize = 12
  MaxSlices = 2
SYMMETRY Symmetry
INVARIANTS IInv Mirrored ReadsAll
PROPERTY OwnBufferOnly
