CONSTANTS
  NUM_TASKS = 4
  Addresses = 4
  Undefined = Undefined
SPECIFICATION Spec
INVARIANT TypeOK
PROPERTY RefinesQueue
