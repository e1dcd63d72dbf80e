SPECIFICATION EngineSpec
CONSTANTS
  Task <- PipeTask
  Job = {"j1", "j2"}
  JobOf <- PipeJobOf
  Deps <- PipeDeps
  Rank <- PipeRank
  Kind = {"x", "y"}
  KindOf <- PipeKindOf
  Ref <- PipeRef
  Placeholder <- PipePlaceholder
  DeclaredInputs <- PipeInputs
  Stored = {}
  Result <- PipeResult
  Cacheable <- PipeTask
  Strict = {}
  Validating = {"j1", "j2"}
  MaxAttempts = 2
  MaxIterations = 3
  MissLimit = 0
  MaxSilences = 1
  VerifiesInputs = TRUE
  MaxCrashes = 1
  MaxCancels = 1
  MaxLost = 1
  MaxIncidents = 2
  None = None
CHECK_DEADLOCK FALSE
INVARIANTS ProvenanceFaithful RecordsTruthful
PROPERTIES CacheHitDetectable RunEnds
