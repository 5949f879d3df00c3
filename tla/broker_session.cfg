SPECIFICATION Spec
CONSTANTS
  p1 = p1
  p2 = p2
  None = None
  Owners = {o1}
  Prompts = {p1,p2}
  Attempt <- Distinct
  MaxSeq = 2
  MaxGeneration = 1
  MaxTime = 2
  MaxCreates = 2
  MaxLease = 1
  MaxBoots = 1
INVARIANTS OnlyZeroLeaseIsRefused SettledIsQuiet RetiredIsGone OneSession OwnedOnDisk OpenIsServed CleanupIsExclusive QuietAnswerIsTrue
PROPERTIES CallsAnsweredOnce SentOnce DispatchNeedsAuthority DeletionIsClean KeepsContract
SYMMETRY Symmetry
CHECK_DEADLOCK FALSE
