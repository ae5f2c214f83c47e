\* Three flows in a ring of two, a client that polls.
SPECIFICATION MCSpec
CONSTANTS
  s1 = s1
  s2 = s2
  h1 = h1
  p1 = p1
  MaxId = 3
  Cap = 2
  PerFlow = 2
  Budget = 2
  Session = {s1}
  WebSockets = {}
  Cleaner = {}
  Poller = {p1}
\* The instance stops: its flows are over.
CHECK_DEADLOCK FALSE
PROPERTY NothingPassedOver
