SPECIFICATION Spec
CONSTANTS
  From = from
  To = to
  Refs = {ref}
  StaleRetries = 0
  CancelInCommit = FALSE
  MaxWrites = 1
  MaxComments = 1
  MaxFails = 1
  MaxCancels = 1
  MaxCrashes = 1
INVARIANTS TypeOK QuietIsCommitted
PROPERTIES ImplementsAtomic WholeOrUnchanged ReviewedIsApplied
CHECK_DEADLOCK FALSE
