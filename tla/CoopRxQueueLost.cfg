SPECIFICATION Spec
CONSTANTS
  f1 = f1
  f2 = f2
  f3 = f3
  h1 = h1
  h2 = h2
  w1 = w1
  w2 = w2
  NULL = NULL
  Frames <- ThreeFrames
  Helpers <- MCHelpers
  Writers <- OneWriter
  COOP_PENDING_MAX = 1
  COOP_BATCH_SIZE = 2
  MayLoseHelpers = FALSE
  MayLosePrimary = FALSE
INVARIANT FramesComeBack
CHECK_DEADLOCK FALSE
