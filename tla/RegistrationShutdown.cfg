SPECIFICATION RgSpec
CONSTANTS
  Ticks = {"tick"}
  Actors = {}
  Tokens = {1, 2, 3, 4, 5, 6, 7, 8, 9, 10, 11, 12, 13}
  NoToken = 0
  Attempts = 1
  Grace = 2
  Budget = 2
  MayStop = TRUE
INVARIANT GoneAfterShutdown
CHECK_DEADLOCK FALSE
