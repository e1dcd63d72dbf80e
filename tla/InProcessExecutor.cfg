SPECIFICATION FairSpec
CONSTANTS
  Task <- MCTask
  Ref = {"r", "s"}
  Output <- MCOutput
  None = None
  MaxSubmits = 3
  MaxCancels = 2
CHECK_DEADLOCK FALSE
INVARIANTS FreeOnceAnswered QuietAfterShutdown
PROPERTIES ImplementsContract CallsReturn
