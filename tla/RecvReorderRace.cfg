SPECIFICATION FairSpec
CONSTANTS
  primary = primary
  drain = drain
  Contexts <- TwoContexts
  SN_MOD = 16
  WSize = 3
  Lag = 4
  Jump = 3
  MaxSN = 20
PROPERTY BufferedLeaves
CHECK_DEADLOCK FALSE
