SPECIFICATION MergeSpec
CONSTANTS
  primary = primary
  drain = drain
  h1 = h1
  Primary <- primary
  Drain <- drain
  Contexts <- BothContexts
  Helpers <- OneHelper
  Flows <- MCFlows
  SN_MOD = 16
  WSize = 2
  Lag = 3
  Jump = 4
  MaxSN = 2
  COOP_NONQOS_SEQ_CACHE_SZ = 2
  QueueMax = 1
INVARIANTS MergeTypeOK ClaimHonoured
PROPERTIES PassedUpInOrder WindowDropsOnlyOld
CHECK_DEADLOCK FALSE
