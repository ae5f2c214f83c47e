\* Two exchanges, bodies of two reads, a budget for less than both.
SPECIFICATION Spec
CONSTANTS
  Exchange = {x, y}
  MaxBody = 3
  Budget = 4
  Chunk = {2}
  MaxRead = 4
\* The instance stops: its exchanges are over.
CHECK_DEADLOCK FALSE
SYMMETRY Symmetry
INVARIANTS BudgetHolds RecordTruthful
PROPERTY NoHole
