SPECIFICATION Spec
CONSTANTS
  Task <- MCTask
  Ref = {"r", "s"}
  Output <- MCOutput
  None = None
  Workers = {"colmap"}
  Racing = {}
  IngestMayFail = FALSE
  MaxSubmits = 2
  MaxCancels = 1
  MaxDeaths = 0
CHECK_DEADLOCK FALSE
INVARIANTS AnswersFaithful
