CONSTANTS
  TOTAL_PAGES = 9
  NUM_PAG_DATA = 1
  NUM_SHARED_PAGES = 2
  ShmSlots = 2
  TempPage = 0
SPECIFICATION MemSpec
INVARIANT NoFrameLost
CHECK_DEADLOCK FALSE
