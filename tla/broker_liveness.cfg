SPECIFICATION FairSpec
CONSTANTS
  p1 = p1
  p2 = p2
  None = None
  Owners = {o1}
  Prompts = {p1}
  Attempt <- One
  MaxSeq = 2
  MaxGeneration = 1
  MaxTime = 3
  MaxCreates = 1
  MaxLease = 1
  MaxBoots = 1
PROPERTIES CleanupEnds
CHECK_DEADLOCK FALSE
