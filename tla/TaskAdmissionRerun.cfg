SPECIFICATION Spec
CONSTANTS
  t1 = t1
  t2 = t2
  n1 = n1
  n2 = n2
  NoId = NoId
  TaskIds = {t1, t2}
  Nonces = {n1, n2}
  Requests <- BothTransports
  MaxConcurrent = 1
  Caps <- AllCaps
  TTL = 1
  MaxTime = 1
  SameTick = 1
  Idempotent = TRUE
  Faults = {"handler"}
INVARIANT ExecutedOnce
CHECK_DEADLOCK FALSE
