SPECIFICATION Spec
CONSTANTS
  t1 = t1
  t2 = t2
  n1 = n1
  n2 = n2
  NoId = NoId
  TaskIds = {t1, t2}
  Nonces = {n1, n2}
  Requests <- BothTransports
  MaxConcurrent = 1
  Caps <- AllCaps
  TTL = 1
  MaxTime = 2
  SameTick = 2
  Idempotent = TRUE
  Faults = {"handler", "result"}
INVARIANTS SlotAccounting OvershootBounded NoRepeatWithinTTL
PROPERTY EveryRequestAnswered
CHECK_DEADLOCK FALSE
