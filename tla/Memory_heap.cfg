CONSTANTS
  HeaderSize = 2
  PoolSize = 18
  MinPoolAlloc = 3
  Word = 256
  Pool = 3
  Base = 1
  Sizes = {0, 5}
  Counts = {3, 8}
  Alignments = {2, 3}
SPECIFICATION FairSpec
INVARIANTS TypeOK FreeListInOrder HeapTiled EnoughForTheRequest
PROPERTIES FailsOnlyWhenFull RefinesHeap CallsReturn
