\* Three clicks that do more than select, one act of another program, two starts of the program.
SPECIFICATION Spec
CONSTANTS
  First = First
  Second = Second
  SettingsPath = SettingsPath
  Dump = Dump
  Piece = Piece
  Bare = Bare
  Clock = Clock
  Garbled = Garbled
  Parsed <- MCParsed
  Paths <- MCPaths
  SyxPaths <- MCSyxPaths
  Bytes <- MCBytes
  Hash <- MCHash
  Size <- MCSize
  Hollow <- MCHollow
  Disks <- MCDisks
  Foreign <- MCForeign
  Dials <- MCDials
  BundlePath = BundlePath
  Observed <- MCObserved
  Empty = ""
  Broken = Broken
  Max16 = 2
  Max32 = 3
  MaxDocument = 5
  MaxAggregate = 9
  MaxClicks = 3
  MaxMeddling = 1
  MaxStarts = 2
INVARIANTS
  AppliedIsStored
  EvidenceTrue
PROPERTIES
  SavedWholeOrNotAtAll
CHECK_DEADLOCK FALSE
