SPECIFICATION Spec
CONSTANTS
  quiet = quiet
  busy = busy
  other = other
  NoHash = NoHash
  Start = 2
  MaxHeight = 5
  Blocks <- BlocksOfPaths
INVARIANTS
  OneHistory
  ProjectionIsReplay
