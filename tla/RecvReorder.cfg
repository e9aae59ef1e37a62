SPECIFICATION FairSpec
CONSTANTS
  primary = primary
  drain = drain
  Contexts <- OneContext
  SN_MOD = 16
  WSize = 3
  Lag = 4
  Jump = 3
  MaxSN = 20
INVARIANTS TypeOK BufferOrdered TimerCovers
PROPERTIES PassedUpInOrder BufferedLeaves
CHECK_DEADLOCK FALSE
