SPECIFICATION Spec
CONSTANTS
  b1 = b1
  b2 = b2
  b3 = b3
  b4 = b4
  b5 = b5
  gpu = gpu
  Buffer = {b1, b2, b3, b4, b5}
  Device = {gpu}
  Bytes = {3, 10}
  NumCalls = 3
  MaxBufs = 2
  BlockSize = 2
  L2Cnt = 2
SYMMETRY BufferSymmetry
INVARIANTS LifetimesDisjoint PlanPaysOff HeapsConsistent
