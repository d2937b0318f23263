CONSTANTS
  NUM_CHANNEL = 2
  NUM_BANK = 4
  NUM_ACC = 2
  FifoDepth = 4
  Task <- ThreeTasks
  Access <- LoadsAndAtomics
  NoRequest = NoRequest
  NoBank = NoBank
SPECIFICATION FairSpec
INVARIANTS TypeOK OnePlaceEach LockedIsHeld
PROPERTIES RefinesMemory RequestsAnswered
