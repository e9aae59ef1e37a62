SPECIFICATION CmdFairSpec
CONSTANTS
  k1 = k1
  k2 = k2
  o1 = o1
  o2 = o2
  NULL = NULL
  Clients <- TwoClients
  Cmds <- TwoCmds
  SemaMax = 2
INVARIANTS CmdTypeOK ContextPaired NoLostWakeup
PROPERTIES CommandLeaves CallReturns StopCompletes
CHECK_DEADLOCK FALSE
