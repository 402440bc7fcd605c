CONSTANTS
  idle = idle
  init = init
  a = a
  b = b
  Task <- MCTask
  Idle = idle
  InitTask = init
  Quantum = 1
  Char = {x}
  NoChar = nul
  KEYBOARD_BUF_SIZE = 3
  BUFF_SIZE = 3
SPECIFICATION KbdReadSpec
INVARIANTS KbdReadTypeOK PlacedOnce NoLostWakeup CountMatchesPositions OnlyKeysWait
PROPERTIES ReadersInOrder ClientOfScheduler WokenReaderReturns ImplementsFifo
