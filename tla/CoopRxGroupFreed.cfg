SPECIFICATION Spec
CONSTANTS
  a1 = a1
  a2 = a2
  t1 = t1
  t2 = t2
  NULL = NULL
  Adapters <- MCAdapters
  Tasks <- MCTasks
  COOP_MAX_HELPERS = 2
  Unplugged <- MCAdapters
  Deletable <- NoAdapters
  MayUnload = TRUE
INVARIANT NothingFreedInUse
CHECK_DEADLOCK FALSE
