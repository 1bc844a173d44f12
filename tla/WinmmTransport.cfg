\* A queue of one event, two input buffers, up to three calls before the destructor, two faults.
SPECIFICATION FairSpec
CONSTANTS
  Inputs = {b1, b2}
  Capacity = 1
  Scenarios <- MCScenarios
  MaxFaults = 2
INVARIANTS
  LossSeparates
  OwnedUntilReturned
PROPERTIES
  QuietAfterClose
  CallsReturn
CHECK_DEADLOCK FALSE
