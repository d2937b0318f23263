CONSTANTS
  a = a
  b = b
  c = c
  d = d
  Entry = Entry
  Exit = Exit
  Step <- Steps
  Composed = {c}
  Requested = {d}
  Dependence <- ChangingDependence
  Precedence <- ChangingPrecedence
  Invalidation <- ChangingInvalidation
  ExecResult = {"SUCCESS"}
  MaxInvalidations = 2
  HaveAsserts = TRUE
  RandomFlow = TRUE
SPECIFICATION Spec
INVARIANTS TypeOK KeysFresh NoReadyStepLost OnlyNeededIsExecuted ResultsStand
PROPERTIES DependencesExecuted RefinesStepOrdering
