SPECIFICATION Spec
CONSTANTS
  p1 = p1
  p2 = p2
  None = None
  Owners = {o1}
  Prompts = {p1}
  Attempt <- One
  MaxSeq = 1
  MaxGeneration = 1
  MaxTime = 2
  MaxCreates = 1
  MaxLease = 1
  MaxBoots = 1
INVARIANTS StartupAccepts
CHECK_DEADLOCK FALSE
