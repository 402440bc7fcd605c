CONSTANTS
  Words = 16
  PAGE_SIZE = 2
  PAG_LOG_INIT_DATA = 2
  NUM_PAG_DATA = 1
  NUM_PAG_CODE = 1
  NUM_COLUMNS = 3
  NUM_ROWS = 2
  FirstRow = 1
  BUFF_SIZE = 2
  Char = {a, newline}
  Newline = newline
  Foreground = {2, 16}
  Background = {0, 1}
SPECIFICATION ConsoleSpec
INVARIANTS ConsoleTypeOK BlocksAvoidKernel PartsFit
PROPERTY ImplementsTerminal
