CONSTANTS
  top = top
  a = a
  b = b
  lib = lib
  Function <- MCFunction
  Root <- MCRoot
  WithBody <- MCWithBody
  Body <- MCBody
  NewCalls <- MCNewCalls
  Synthesised = {top}
  MaxChanges = 2
SPECIFICATION FairSpec
INVARIANTS TypeOK AcyclicIsAcyclic ReachedIsCurrent NothingMissed
PROPERTY PassesSettle
CHECK_DEADLOCK FALSE
