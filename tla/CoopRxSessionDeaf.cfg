SPECIFICATION SessionSpec
CONSTANTS
  w1 = w1
  h1 = h1
  NULL = NULL
  Writers <- MCWriters
  Helpers <- MCHelpers
  Channels <- MCChannels
  Bandwidths <- MCBandwidths
  Offsets <- MCOffsets
INVARIANT HelpersKeepReceiving
CHECK_DEADLOCK FALSE
