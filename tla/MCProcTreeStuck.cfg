CONSTANTS
  LastFrame = 11
  Task <- MCTask
  Node <- MCNode
  NULL = null
  Idle = 0
  InitTask = 1
  Quantum = 1
  Others = 2
  NUM_SHARED_PAGES = 1
  MaxPid = 3
  MaxPending = 1
SPECIFICATION TreeSpec
INVARIANT UnblockReturns
CHECK_DEADLOCK FALSE
