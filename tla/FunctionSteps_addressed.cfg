CONSTANTS
  top = top
  a = a
  b = b
  lib = lib
  Function <- MCFunction
  Root <- MCRoot
  WithBody <- MCWithBody
  Body <- MCBody
  NewCalls <- MCNewCalls
  Synthesised = {top}
  MaxChanges = 1
SPECIFICATION Spec
INVARIANT AddressedIsAddressTaken
CHECK_DEADLOCK FALSE
