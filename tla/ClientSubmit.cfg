SPECIFICATION Spec
CONSTANTS
  a = a
  b = b
  c = c
  d = d
  e = e
  Nodes = {a, b, c, d, e}
  Routable = {a, b, c, e}
  Acceptable = {a, b, c, d}
  Keyed = {a, b, d, e}
  Browser = {b, c}
  Guarded = {a}
  Sloppy = {b}
  MaxRetries = 2
  Settings <- SomeSettings
INVARIANTS ExecutedOncePerGuard PromptGuarded NoVerdictPassedOver
PROPERTY SubmitEnds
CHECK_DEADLOCK FALSE
