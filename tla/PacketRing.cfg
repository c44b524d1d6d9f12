SPECIFICATION MCSpec
CONSTANTS
  Programs <- MCPrograms
  Graphs <- MCGraphs
  Copies = {}
  IBCap = 12
  IBAlign = 4
  AqlSlots = 8
  SdmaSize = 10
  MaxSubmit = 5
  Fifo = {"compute", "dma"}
  Entries <- MCEntries
  Lists <- MCLists
  Bound <- MCBound
  CmdqSize = 11
  CmdqAlign = 2
  gpu1 = gpu1
  gpu2 = gpu2
  cpu = cpu
  Device = {gpu1, gpu2, cpu}
  Cpu = {cpu}
  InOrder = {gpu1}
  Chaining = {gpu2}
  Buffer <- OneEach
  Lane <- MCLane
  Shared = {gpu2}
  MaxCalls = 3
  MaxReplays = 2
PROPERTY SyncIsBarrier
CHECK_DEADLOCK FALSE
