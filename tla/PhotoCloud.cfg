CONSTANTS
    UserModes = {"dense-amd"}
    Installations <- MCInstallations
    MaxCommands = 3
    CameraModels <- MCModels
    Candidates <- MCCandidates
SPECIFICATION Spec
INVARIANTS JobsKeptApart ResultsTruthful
PROPERTIES OthersKept StopHonoured
CHECK_DEADLOCK FALSE
