SPECIFICATION Spec
CONSTANTS
  o1 = o1
  o2 = o2
  Owners = {o1, o2}
  i1 = i1
  i2 = i2
  i3 = i3
  s1 = s1
  s2 = s2
  r1 = r1
  Ids = {i1, i2, i3}
  SettleId <- MCSettleId
  RetireId = r1
  OpLimit = 3
  SessionLimit = 2
  PromptLimit = 2
  LedgerLimit = 25
  Reserve = 7
  Bytes <- MCBytes
SYMMETRY Symmetry
INVARIANTS SlotsForCleanup RoomForCleanup RecordedOnce
CHECK_DEADLOCK FALSE
