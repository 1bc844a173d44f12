\* Every feed of up to 4 or 5 events, captured from its first event.
SPECIFICATION CaptureSpec
CONSTANTS
  Midi1 = midi1
  g1 = g1
  g2 = g2
  GroupOrder <- MCGroups
  Feeds <- MCFeeds
INVARIANTS
  CompleteOnesWhole
  EveryWholeFrameKept
  PiecesConserved
  LossReported
