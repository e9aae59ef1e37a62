SPECIFICATION FairSpec
CONSTANTS
  a1 = a1
  a2 = a2
  t1 = t1
  t2 = t2
  NULL = NULL
  Adapters <- MCAdapters
  Tasks <- MCTasks
  COOP_MAX_HELPERS = 1
  Unplugged <- OneAdapter
  Deletable <- MCAdapters
  MayUnload = FALSE
PROPERTY DisconnectNeverDeadlocks
CHECK_DEADLOCK FALSE
