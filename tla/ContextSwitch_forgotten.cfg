CONSTANTS
  KERN_NUM = 2
  NUM_TASKS = 4
  MaxLoop = 4
  Loops = {4}
  Calls = 1
SPECIFICATION Spec
INVARIANT NoTaskForgotten
