CONSTANTS
    Build <- MCBuild
    PipeCapacity = 1
    MaxOutput <- MCOutput
    MaxAttempts = 2
    MaxDeaths = 1
SPECIFICATION Spec
INVARIANTS SubprocessClean AttemptTruthful
PROPERTIES AttemptEnds
CHECK_DEADLOCK FALSE
