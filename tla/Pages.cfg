SPECIFICATION Spec
CONSTANTS
  BlockSize = 2
  L2Cnt = 2
  Page = 4
  LvlMsb <- MCLvlMsb
  PallocRanges <- MCPallocRanges
  Physical = 36
  Virtual = 48
  HugeFrom = 1
  HugeAligned = FALSE
  Sizes = {4, 8, 16}
  MaxMaps = 2
INVARIANTS ReachesOnlyItsOwn EverythingAccountedFor
PROPERTIES PhysicalIsIntervals
CHECK_DEADLOCK FALSE
