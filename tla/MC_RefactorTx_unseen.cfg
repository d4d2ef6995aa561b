SPECIFICATION Spec
CONSTANTS
  From = from
  To = to
  Refs = {ref}
  StaleRetries = 1
  CancelInCommit = FALSE
  MaxWrites = 1
  MaxComments = 0
  MaxFails = 0
  MaxCancels = 0
  MaxCrashes = 0
PROPERTY NothingUnseenIsOverwritten
CHECK_DEADLOCK FALSE
