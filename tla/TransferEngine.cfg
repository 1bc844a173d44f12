\* One cancelling thread beside the owner, lists of 0 to 3 messages.
SPECIFICATION FairSpec
CONSTANTS
  Totals = {0, 1, 2, 3}
  Cancellers = {c1}
  Owner = own
INVARIANTS
  AcceptedPrefix
  ResultTruthful
  CancelStopsSending
  HandlerSeesEnd
PROPERTIES
  CancelEndsAttempt
  ImplementsOneShot
CHECK_DEADLOCK FALSE
