SPECIFICATION Spec
CONSTANTS
  TurnIds = {"a"}
  SessionOf <- OneSession
  BrokeredIds = {"a"}
  Calls = {1, 2}
  WriteCalls = {2}
  Pinned = FALSE
  MaxConcurrent = 1
  MaxRetained = 1
  MaxEvents = 6
  MaxOutput = 3
  FlushAt = 2
  MaxTurns = 1
  MaxRounds = 3
  Watched = {1}
  None = None
INVARIANTS RetryIsSafe OutputsAnswerCalls StreamDoneIsHonest
PROPERTIES StreamsAreSound
