SPECIFICATION MCSpec
CONSTANTS
  FileSize = 9
  PageSize = 2
  SegLen = 4
  NumSlots = 2
  Ranges <- MCRanges
  Faulty = {"read", "wait", "signal"}
  Cut = {0, 2}
  Again = FALSE
  MaxCalls = 2
  Threads = {1, 3}
  MayRaise = TRUE
  MaxTasks = 3
  Lengths = {1, 3}
  PipeSize = 2
  DiesWriting = FALSE
  Helpers = TRUE
  MayIgnore = {"child", "helper"}
  small = small
  large = large
  Thread = {t1, t2}
  NoThread = NoThread
  Model = {small, large}
  NoModel = NoModel
  Limit <- MCLimit
  PromptLen = {1, 3}
  MaxNew = 2
INVARIANTS CopiesAreRight ReadsAreWhole KernelsInOrder VerdictIsTrue ChildIsGone ModelIsMine RegistryTellsLoaded
PROPERTIES CallsEnd CancelledWasAsked LockComesBack
CHECK_DEADLOCK FALSE
