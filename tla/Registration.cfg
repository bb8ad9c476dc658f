SPECIFICATION RgSpec
CONSTANTS
  Ticks = {"tick1", "tick2"}
  Actors = {"relay", "tunnel"}
  Tokens = {1, 2, 3, 4, 5, 6, 7, 8, 9, 10, 11, 12, 13, 14, 15, 16, 17, 18, 19, 20}
  NoToken = 0
  Attempts = 2
  Grace = 2
  Budget = 2
  MayStop = TRUE
INVARIANT RegistrationSound
PROPERTY Recovers
CHECK_DEADLOCK FALSE
