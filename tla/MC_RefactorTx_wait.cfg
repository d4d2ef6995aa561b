SPECIFICATION Spec
CONSTANTS
  From = from
  To = to
  Refs = {ref}
  StaleRetries = 1
  CancelInCommit = TRUE
  MaxWrites = 1
  MaxComments = 0
  MaxFails = 1
  MaxCancels = 1
  MaxCrashes = 0
PROPERTY ReturnsWholeOrUnchanged
CHECK_DEADLOCK FALSE
