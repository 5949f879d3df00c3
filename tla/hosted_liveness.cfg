SPECIFICATION FairSpec
CONSTANTS
  MaxAttempts = 1
  MaxWrappers = 2
PROPERTIES LifetimeEnds
CHECK_DEADLOCK FALSE
