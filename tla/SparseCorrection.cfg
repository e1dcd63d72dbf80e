SPECIFICATION CorrectionSpec
CONSTANTS
  Doc = {"d1", "d2"}
  HasPoints <- MCHasPoints
  OldDocs = {"d2"}
  Backend = "gtsam"
  MaxRuns = 3
  DetectionRuns = {2}
  MaxCrashes = 1
  FrameTime <- MCFrameTime
  MatchScore <- MCMatchScore
  VoteSamples <- MCVoteSamples
  Window = 2
  MinSeparation = 1
  MinScore = 1
  TopK = 1
CHECK_DEADLOCK FALSE
INVARIANTS SceneStaysCorrectable CorrectionWhole
PROPERTIES HistoryAppendOnly TaskEnds
