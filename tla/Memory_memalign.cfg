CONSTANTS
  HeaderSize = 2
  PoolSize = 18
  MinPoolAlloc = 3
  Word = 256
  Pool = 3
  Base = 1
  Sizes = {2, 5}
  Counts = {3}
  Alignments = {4}
SPECIFICATION Spec
INVARIANTS Tiled
