\* A queue of two events, scripts of four or five, two commands.
SPECIFICATION FairSpec
CONSTANTS
  Midi1 = midi1
  g1 = g1
  g2 = g2
  GroupOrder <- MCGroups
  Capacity = 2
  Scripts <- MCScripts
  MaxCommands = 2
INVARIANTS
  EachEventOrItsMarker
  WholeUnlessBlurred
  ExitLeavesNothing
PROPERTIES
  StopKeepsEarlierFrames
  StopReturns
CHECK_DEADLOCK FALSE
