SPECIFICATION Spec
CONSTANTS
    None = None
    p1 = p1
    p2 = p2
    cam = cam
    i1 = i1
    i2 = i2
    Infinity = 4
    Proc = {p1, p2}
    Sensor = {cam}
    Imports <- MCImports
    Tums <- MCTums
    Validity <- MCValidity
    MaxCommands = 3
    MaxCrashes = 1
INVARIANTS SceneConsistent RecordsWhole
PROPERTIES LockReleased
CHECK_DEADLOCK FALSE
