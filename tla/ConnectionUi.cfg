\* All backends report lost routes; three requests after the first, one device
\* disappears.
SPECIFICATION Spec
CONSTANTS
  Wms = Wms
  Winmm = Winmm
  Backends <- MCBackends
  Devices <- MCDevices
  r1 = r1
  r2 = r2
  r3 = r3
  Routes <- MCRoutes
  Reporting <- MCBackends
  MaxClicks = 3
  MaxRemovals = 1
INVARIANTS
  HonestConnection
  NoHiddenConnection
PROPERTIES
  ReplacedOnlyWhenClosed
  RequestAnswered
  EventuallyAccurate
