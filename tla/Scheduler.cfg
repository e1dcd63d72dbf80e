SPECIFICATION FairSpec
CONSTANTS
  Task <- MCTask
  Job = {"j"}
  JobOf <- MCJobOf
  Deps <- MCDeps
  Rank <- MCRank
  Kind <- MCKind
  KindOf <- MCKindOf
  Ref <- MCRef
  Placeholder <- MCPlaceholder
  DeclaredInputs <- MCDeclaredInputs
  Stored = {"ext"}
  Result <- MCResult
  Cacheable = {"a", "b", "d"}
  Strict = {"d"}
  MaxAttempts = 2
  MaxIterations = 4
  MissLimit = 1
  MaxSilences = 1
  VerifiesInputs = TRUE
  MaxCrashes = 1
  MaxCancels = 1
  MaxLost = 1
  MaxIncidents = 4
  None = None
CHECK_DEADLOCK FALSE
INVARIANTS RunsOnSucceededDeps SkipJustified ThrowsExplained
PROPERTIES ImplementsLifecycle CallsComplete
