SPECIFICATION Spec
CONSTANTS
  MaxAttempts = 2
  MaxWrappers = 2
INVARIANTS OneLifetime
PROPERTIES OneCreation RelaysOutliveShutdown
CHECK_DEADLOCK FALSE
