CONSTANTS
  TOTAL_PAGES = 9
  NUM_PAG_DATA = 1
  NUM_SHARED_PAGES = 2
  ShmSlots = 2
  TempPage = 5
SPECIFICATION MemSpec
INVARIANT KernelFramesMapped
CHECK_DEADLOCK FALSE
