\* A queue of two messages, an endpoint that sends four to seven.
SPECIFICATION WmsFairSpec
CONSTANTS
  Midi1 = midi1
  g1 = g1
  g2 = g2
  GroupOrder <- MCGroups
  ReceiveCapacity = 2
  Selected = g1
  EndpointScripts <- MCScripts
INVARIANTS
  WholeButUnmarked
  CloseDelivers
PROPERTIES
  CloseReturns
CHECK_DEADLOCK FALSE
