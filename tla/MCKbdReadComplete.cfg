CONSTANTS
  idle = idle
  init = init
  a = a
  b = b
  Task <- MCTask
  Idle = idle
  InitTask = init
  Quantum = 2
  Char = {x}
  NoChar = nul
  KEYBOARD_BUF_SIZE = 2
  BUFF_SIZE = 2
SPECIFICATION KbdReadSpec
PROPERTY BlockedReadIsComplete
