SPECIFICATION Spec
CONSTANTS
  From = from
  To = to
  Refs = {ref}
  StaleRetries = 1
  CancelInCommit = TRUE
  MaxWrites = 0
  MaxComments = 0
  MaxFails = 0
  MaxCancels = 1
  MaxCrashes = 1
PROPERTY WholeOrUnchanged
CHECK_DEADLOCK FALSE
