CONSTANTS
    Windows = {"left", "right"}
    MaxContents = 3
    MaxRequests = 3
SPECIFICATION SaveSpec
INVARIANTS CloudKept
PROPERTIES SavesKeepEachOther PostAnswered
CHECK_DEADLOCK FALSE
