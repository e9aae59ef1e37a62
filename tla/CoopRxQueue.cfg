SPECIFICATION FairSpec
CONSTANTS
  f1 = f1
  f2 = f2
  f3 = f3
  h1 = h1
  h2 = h2
  w1 = w1
  w2 = w2
  NULL = NULL
  Frames <- ThreeFrames
  Helpers <- OneHelper
  Writers <- TwoWriters
  COOP_PENDING_MAX = 1
  COOP_BATCH_SIZE = 1
  MayLoseHelpers = TRUE
  MayLosePrimary = TRUE
INVARIANTS TypeOK FrameOwned CountNeverOverstates
PROPERTY UnbindCompletes
CHECK_DEADLOCK FALSE
