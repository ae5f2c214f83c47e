\* A tunnel that stays counted.
SPECIFICATION Spec
CONSTANTS
  Conn = {c1, c2}
  Own = {}
  MaxConns = 1
\* The instance stops: its connections are over and the server is closed.
CHECK_DEADLOCK FALSE
PROPERTIES CountsOpen
