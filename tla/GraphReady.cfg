SPECIFICATION Spec
CONSTANTS
  gpu1 = gpu1
  gpu2 = gpu2
  gpu3 = gpu3
  Device = {gpu1, gpu2, gpu3}
  Cpu = {}
  InOrder = {gpu1, gpu2, gpu3}
  Chaining = {}
  Buffer <- TwoOnOne
  Lane <- MCLane
  Shared = {gpu3}
  MaxCalls = 3
  MaxReplays = 1
INVARIANT DevicesExclusive
CHECK_DEADLOCK FALSE
