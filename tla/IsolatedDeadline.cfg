SPECIFICATION FairSpec
CONSTANTS
  Lengths = {1, 3}
  PipeSize = 2
  DiesWriting = TRUE
  Helpers = TRUE
  MayIgnore = {"child", "helper"}
PROPERTIES Returns
CHECK_DEADLOCK FALSE
