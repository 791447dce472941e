SPECIFICATION FairSpec
CONSTANTS
  NumMessages = 2
  Files = {f1}
  ChunkSize = 1
  MaxTransactions = 2
  MaxVersions = 3
  MaxDeaths = 1
CONSTANT f1 = f1
PROPERTY UndoIsClean
CHECK_DEADLOCK FALSE
