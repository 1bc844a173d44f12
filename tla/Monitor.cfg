\* Five messages through a queue of two, drained two at a time; two clicks.
SPECIFICATION Spec
CONSTANTS
  Messages <- MCMessages
  Limits <- MCLimits
  Capacity = 2
  BatchLimit = 2
  MaxMessages = 5
  MaxClicks = 2
INVARIANTS
  Accounted
  HistoryFaithful
  PiecesListed
CHECK_DEADLOCK FALSE
