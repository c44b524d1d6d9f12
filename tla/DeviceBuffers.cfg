SPECIFICATION Spec
CONSTANTS
  Base = {b1, b2}
  View = {v1, v2}
  Memory = {m1, m2}
  Peer = {gpu}
  Jit = {j1, j2}
  Size = {1, 2}
  Options = {plain, nolru}
  NoLRU = {nolru}
  Capacity = 2
  Shared = FALSE
SYMMETRY BufferSymmetry
INVARIANTS EachHasOneOwner ViewsFollowBases FailsOnlyWhenFull GraphsAreFresh
CHECK_DEADLOCK FALSE
