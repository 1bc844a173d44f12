\* Two clicks on the page, one request of the connection bar or lost device.
SPECIFICATION Spec
CONSTANTS
  claimed = claimed
  plain = plain
  broken = broken
  p1 = p1
  p2 = p2
  t1 = t1
  t2 = t2
  Frames <- MCFrames
  Verified <- MCVerified
  Profiles <- MCProfiles
  Prints <- MCPrints
  Fallback = generic
  Totals <- MCTotals
  TxRoutes <- MCRoutes
  Connections <- MCConnections
  Files <- MCFiles
  Start <- MCStart
  MaxFrames = 1
  MaxClicks = 2
  MaxRequests = 1
INVARIANTS
  TransferIsolated
  MatchCurrent
PROPERTIES
  ActsAsShown
  ActionAnswered
  EventuallyAccurate
