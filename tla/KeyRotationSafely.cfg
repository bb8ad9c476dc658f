SPECIFICATION KrSpec
CONSTANTS
  KrCmds = {"a"}
  KrKeys = 3
  KrFaults = 1
INVARIANT KrSafely
CHECK_DEADLOCK FALSE
