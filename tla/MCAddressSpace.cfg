CONSTANTS
  TOTAL_PAGES = 13
  NUM_PAG_DATA = 2
  NUM_PAG_CODE = 1
  NUM_SHARED_PAGES = 1
  ShmSlots = 2
  TempPage = 9
  Word = {w1}
  Garbage = garbage
  MaxForks = 3
SPECIFICATION ASSpec
INVARIANTS ASTypeOK TablesAgree NoStaleTranslation UserReachesItsOwn KernelReachesStructures MemTypeOK RefsCountMappings NoDanglingMapping FramesOwnedOnce MarkedPagesAreUsed
PROPERTIES ImplementsPrivateMemory OnlyFailedForksLose
CHECK_DEADLOCK FALSE
