\* Four events of two exchanges, for two readers that may come and go.
SPECIFICATION FairSpec
CONSTANTS
  x = x
  y = y
  all = all
  one = one
  Exchange = {x, y}
  Reader = {all, one}
  Wants <- MCWants
  Size <- MCSize
  MaxSeq = 4
  Nobody = Nobody
\* The instance stops: its events are published.
CHECK_DEADLOCK FALSE
INVARIANTS MadeRoom
PROPERTIES KeepsPromise PublishEnds
