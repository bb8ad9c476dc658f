SPECIFICATION TwSpec
CONSTANTS
  TwPolicies = {"retry", "stop", "exit"}
  TwRespawns = 2
  TwMaxFails = 2
  TwFaults = 2
INVARIANT TwNoOrphan
CHECK_DEADLOCK FALSE
