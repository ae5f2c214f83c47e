\* One rule and its editions, two exchanges.
SPECIFICATION Spec
CONSTANTS
  a = a
  x = x
  y = y
  Id = {a}
  Exchange = {x, y}
  Limits = {1}
  Editions = 2
  MaxClock = 1
  MaxFaults = 1
  MaxCrashes = 1
  MaxTrouble = 1
  NoRule = NoRule
  NoImage = NoImage
  Nobody = Nobody
\* The instance stops: its rules have been compiled.
CHECK_DEADLOCK FALSE
INVARIANTS LimitKept AckedIsDurable RestIsDurable
PROPERTIES RulesStay
SYMMETRY MCSymmetry
