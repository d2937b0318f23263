CONSTANTS
  KERN_NUM = 2
  MaxLoop = 5
  Loops = {1, 2, 5}
  Calls = 2
SPECIFICATION FairSpec
INVARIANTS TypeOK SignalsAreFinal NeverOverrun
PROPERTIES RefinesLoop CallReturns
