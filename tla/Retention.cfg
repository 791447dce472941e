SPECIFICATION FairSpec
CONSTANTS
  NumMessages = 2
  Files = {f1}
  ChunkSize = 1
  MaxTransactions = 2
  MaxVersions = 2
  MaxDeaths = 1
CONSTANT f1 = f1
INVARIANTS TypeOK FilesStay DeletionCanBeUndone
PROPERTIES ComesBackOnlyByUndo EventuallyCleaned
CHECK_DEADLOCK FALSE
