SPECIFICATION CacheSpec
CONSTANTS
  Hash = {"img", "feat"}
  Uuid = {"u1", "u2", "u3"}
  Inputs <- MCInputs
  None = None
  GcDuringWrite = FALSE
  MaxCrashes = 2
  MaxFlips = 2
  Key = {"k1", "k2"}
  OutputOf <- MCOutputOf
  MaxLost = 1
CHECK_DEADLOCK FALSE
INVARIANTS CacheHitBacked IndexTellsHistory
PROPERTIES GcKeepsReferenced GcLeavesNoGarbage
