SPECIFICATION FairSpec
CONSTANTS
  a1 = a1
  a2 = a2
  b1 = b1
  ha = ha
  hb = hb
  Callers = {a1, a2, b1}
  Handles = {ha, hb}
  HandleOf <- Shared
  Inserters = {a1, b1}
  Counts = {2}
  ExplicitKeys = {100}
  Last = 2
  MaxTotal = 3
  MaxAttempts = 1
  None = None
INVARIANTS RangesDisjoint LaterCallsGetLaterValues
PROPERTIES AssignedKeysAreFresh CallsReturn
CHECK_DEADLOCK FALSE
