CONSTANTS
  KERN_NUM = 2
  NUM_TASKS = 2
  MaxLoop = 4
  Loops = {1, 4}
  Calls = 1
SPECIFICATION FairSpec
INVARIANTS TypeOK NoTaskForgotten SlotsInPlace StartsAreHeard
PROPERTIES RefinesLoop CallReturns
