CONSTANTS
  a = a
  b = b
  c = c
  d = d
  Entry = Entry
  Exit = Exit
  Step <- Steps
  Composed = {c}
  Requested = {b, d}
  Dependence <- FixedDependence
  Precedence <- FixedPrecedence
  Invalidation <- FixedInvalidation
  ExecResult = {"SUCCESS"}
  MaxInvalidations = 2
  HaveAsserts = TRUE
  RandomFlow = FALSE
SPECIFICATION FairSpec
INVARIANT NothingLeftUndone
PROPERTIES ExecEnds NecessaryIsExecuted
