SPECIFICATION Spec
CONSTANTS
  Device = {gpu1, gpu2, cpu}
  CpuDevice = {cpu}
  NoDevice = NoDevice
  Buffer = {buf1, buf2}
  NoBuffer = NoBuffer
  NumSlots = 1
  KernargsCap = 2
  KernargsAlign = 1
  KernargsSizes = {1}
  WrapAt = 2
  Expires = {gpu1, cpu}
  MaxSubmit = 3
SYMMETRY BufferSymmetry
INVARIANTS OperandsIntact SyncIsBarrier NoUseAfterUnmap
PROPERTIES InProgramOrder
