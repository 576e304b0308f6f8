SPECIFICATION CallsSpec
CONSTANTS
  None = None
  Contents = {d1, d2, d3, d4}
  EvidenceSets = {e1, e2, e3, e4}
CHECK_DEADLOCK FALSE
INVARIANTS
  SendIsEarned
PROPERTIES
  CallsNeverRewrite
