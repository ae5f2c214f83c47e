\* Three connections for one place.
SPECIFICATION Spec
CONSTANTS
  Conn = {c1, c2, c3}
  Own = {c3}
  MaxConns = 1
\* The instance stops: its connections are over and the server is closed.
CHECK_DEADLOCK FALSE
INVARIANTS PlacesAreHeld
PROPERTIES WholeSplice TunnelEnds StopCuts
