SPECIFICATION FairSpec
CONSTANTS
  TurnIds = {"a", "b"}
  SessionOf <- OneSession
  BrokeredIds = {"a"}
  Calls = {1}
  WriteCalls = {}
  Pinned = TRUE
  MaxConcurrent = 2
  MaxRetained = 1
  MaxEvents = 4
  MaxOutput = 1
  FlushAt = 1
  MaxTurns = 2
  MaxRounds = 2
  Watched = {}
  None = None
INVARIANTS CheckpointIsResolved AdmissionIsSound
PROPERTIES TurnsGoAway
