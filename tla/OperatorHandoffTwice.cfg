SPECIFICATION HoSpec
CONSTANTS
  Nodes = {"a", "b"}
  Supervised = {"a", "b"}
  HoBudget = 0
INVARIANT NeverRestartsTwice
CHECK_DEADLOCK FALSE
