CONSTANTS
  a = a
  b = b
  c = c
  d = d
  Entry = Entry
  Exit = Exit
  Step <- Steps
  Composed = {c}
  Requested = {d}
  Dependence <- SkippedDependence
  Precedence <- FixedPrecedence
  Invalidation <- SkippedToOne
  ExecResult = {"SUCCESS"}
  MaxInvalidations = 1
  HaveAsserts = FALSE
  RandomFlow = FALSE
SPECIFICATION Spec
PROPERTIES DependencesExecuted
