\* As ConnectionUi.cfg.
SPECIFICATION Spec
CONSTANTS
  Wms = Wms
  Winmm = Winmm
  Backends <- MCBackends
  Devices <- MCDevices
  r1 = r1
  r2 = r2
  r3 = r3
  Routes <- MCRoutes
  Reporting <- MCBackends
  MaxClicks = 3
  MaxRemovals = 1
INVARIANTS
  ConnectReachesDevice
