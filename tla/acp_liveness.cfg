SPECIFICATION FairSpec
CONSTANTS
  Keys = {"k1"}
  CallIds = {"c1", "c2"}
  QueueCap = 1
  Slots = 1
  MaxRounds = 1
  MaxCalls = 2
  MaxBatch = 2
  MaxChunks = 1
  MaxPrompts = 1
  MaxLines = 4
PROPERTIES EverythingEnds
CHECK_DEADLOCK FALSE
