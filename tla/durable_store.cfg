SPECIFICATION Spec
CONSTANTS
  Procs = {p1, p2, p3}
  None = None
  Depth = 2
  MaxSaves = 3
INVARIANTS NothingAcknowledgedIsLost LockIsFair
