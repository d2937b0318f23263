CONSTANTS
  NUM_CHANNEL = 2
  NUM_BANK = 4
  NUM_ACC = 2
  FifoDepth = 4
  Task <- ThreeTasks
  Access <- WithStores
  NoRequest = NoRequest
  NoBank = NoBank
SPECIFICATION Spec
INVARIANT StoresKeptOut
