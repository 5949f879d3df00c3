SPECIFICATION Spec
CONSTANTS
  k1 = k1  k2 = k2  c1 = c1  c2 = c2
  Keys = {k1, k2}
  CallIds = {c1, c2}
  QueueCap = 2
  Slots = 1
  MaxRounds = 2
  MaxCalls = 2
  MaxBatch = 2
  MaxChunks = 1
  MaxPrompts = 2
  MaxLines = 5
SYMMETRY Symmetry
INVARIANTS NothingOutlivesThePrompt ConversationChains
PROPERTIES AnswersAreOwn RevokedBatchAdmitsNothing CardsOpenAndClose EndTurnIsEarned
CHECK_DEADLOCK FALSE
