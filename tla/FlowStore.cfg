\* Three flows in a ring of two, and two sessions or a client that polls.
SPECIFICATION MCSpec
CONSTANTS
  s1 = s1
  s2 = s2
  h1 = h1
  p1 = p1
  MaxId = 3
  Cap = 2
  PerFlow = 2
  Budget = 2
  Session = {s1, s2}
  WebSockets = {1, 2}
  Cleaner = {h1}
  Poller = {p1}
\* The instance stops: its flows are over.
CHECK_DEADLOCK FALSE
INVARIANTS RingInOrder LogFollowsRing LogBounded GoneIsGone GivenOnce
SYMMETRY MCSymmetry
