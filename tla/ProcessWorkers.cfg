SPECIFICATION FairSpec
CONSTANTS
  Task <- MCTask
  Ref = {"r", "s"}
  Output <- MCOutput
  None = None
  Workers = {"demo", "colmap"}
  Racing = {"demo"}
  IngestMayFail = TRUE
  MaxSubmits = 3
  MaxCancels = 1
  MaxDeaths = 1
CHECK_DEADLOCK FALSE
INVARIANTS FaithfulUntilCancelled
PROPERTIES ColmapAnswers
