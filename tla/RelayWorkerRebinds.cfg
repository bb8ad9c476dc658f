SPECIFICATION RwSpec
CONSTANTS
  RwEnds = {"fin"}
  RwFaults = 1
  RwTasks <- RelayTasks
PROPERTY RwRebinds
CHECK_DEADLOCK FALSE
