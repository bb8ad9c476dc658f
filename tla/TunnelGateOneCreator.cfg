SPECIFICATION TgSpec
CONSTANTS
  TgProcs = {"p", "q"}
  TgNobody = "nobody"
  TgLease = 2
  TgInterval = 2
  TgCooldown = 3
  TgStart = 1
  TgFaults = 2
INVARIANT TgOneCreator
CHECK_DEADLOCK FALSE
