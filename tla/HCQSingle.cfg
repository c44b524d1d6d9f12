SPECIFICATION FairSpec
CONSTANTS
  Device = {gpu}
  CpuDevice = {}
  NoDevice = NoDevice
  Buffer = {buf}
  NoBuffer = NoBuffer
  NumSlots = 2
  KernargsCap = 4
  KernargsAlign = 2
  KernargsSizes = {1, 3}
  WrapAt = 2
  Expires = {}
  MaxSubmit = 6
INVARIANTS OperandsIntact TagTellsSafe
PROPERTIES WorkEnds
