SPECIFICATION Spec
CONSTANTS
  p1 = p1
  p2 = p2
  None = None
  Owners = {o1}
  Prompts = {p1,p2}
  Attempt <- Same
  MaxSeq = 2
  MaxGeneration = 3
  MaxTime = 3
  MaxCreates = 1
  MaxLease = 2
  MaxBoots = 1
INVARIANTS OnlyZeroLeaseIsRefused AcknowledgedRenewalIsOwned OneKeyPerAttempt
SYMMETRY Symmetry
CHECK_DEADLOCK FALSE
