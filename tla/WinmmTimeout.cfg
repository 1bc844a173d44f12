\* The same, for one property that does not hold.
SPECIFICATION Spec
CONSTANTS
  Inputs = {b1, b2}
  Capacity = 1
  Scenarios <- MCScenarios
  MaxFaults = 1
INVARIANTS
  TimeoutReported
CHECK_DEADLOCK FALSE
