SPECIFICATION Spec
CONSTANTS
  Channels = {general, design}
  ProtectedHistory = {design}
  Subscribed = {general}
  Catchers = {catcher}
  DirectMessage = dm
  BULK_CREATE_BATCH_SIZE = 1
  MaxMessages = 3
  MaxPending = 1
  MaxChanges = 3
CONSTANTS general = general design = design catcher = catcher dm = dm
INVARIANTS SameRowsAsTwin RowsOfKnownChannels
CHECK_DEADLOCK FALSE
