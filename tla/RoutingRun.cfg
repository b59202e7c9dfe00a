SPECIFICATION Spec
CONSTANTS
  Validator = {1, 2}
  Owner <- MCOwner
  Inputs <- MCInputs
  Edited <- MCEdited
  MaxEdits = 1
  MaxKills = 1
INVARIANTS
  RoutesClose
  PlanIsTheRouting
CHECK_DEADLOCK FALSE
