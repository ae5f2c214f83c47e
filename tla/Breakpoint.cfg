SPECIFICATION FairSpec
CONSTANTS
  x = x
  y = y
  Exchange = {x, y}
  Caller = {cli, tui}
  Hits <- MCHits
  Nobody = Nobody
\* The instance stops: its exchanges have come and gone.
CHECK_DEADLOCK FALSE
INVARIANTS SendNeverBlocks OnlyParkedListed
PROPERTIES KeepsPromise HoldEnds Stops
