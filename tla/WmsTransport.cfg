\* Three connections, three messages from the endpoints.
SPECIFICATION Spec
CONSTANTS
  NoRoute = NoRoute
  Synth = Synth
  Drums = Drums
  Requests <- MCRequests
  MaxOpens = 3
  MaxMessages = 3
INVARIANTS
  ConnectedAsRequested
PROPERTIES
  NothingAfterClose
CHECK_DEADLOCK FALSE
