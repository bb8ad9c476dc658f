SPECIFICATION Spec
CONSTANTS
  w1 = w1
  w2 = w2
  h1 = h1
  h2 = h2
  s1 = s1
  s2 = s2
  c1 = c1
  c2 = c2
  k1 = k1
  k2 = k2
  None = None
  Subject <- TicketsForW1
  Workers = {w1, w2}
  HttpSessions = {h1, h2}
  TcpSessions = {s1}
  Calls = {c1}
  Tickets = {k1}
  Capacity = 1
  RateLimit = 1
  StrictTickets = FALSE
  MaxPulls = 2
INVARIANTS BindsLimited
PROPERTIES CallsHandedOver EntriesKept QueuedCallTaken
CHECK_DEADLOCK FALSE
