CONSTANTS
    Programs = {"demo", "colmap"}
    PrefixSize = 2
    BodySize = 2
    PipeCapacity = 3
    MaxFrames <- MCFrames
    StderrCapacity = 1
    MaxDiagnostics = 2
    MaxSlices = 1
    MaxTimeouts = 1
SPECIFICATION Spec
INVARIANTS StreamFaithful NothingLeaks
PROPERTIES ChannelEnds
CHECK_DEADLOCK FALSE
