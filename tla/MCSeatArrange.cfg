SPECIFICATION Spec
CONSTANTS
  p0 = p0
  p1 = p1
  p2 = p2
  p3 = p3
  Ids <- MCIds
  Modes <- MCModes
  MaxMoves = 4
SYMMETRY MCSymmetry
INVARIANTS
  EverybodySits
  TeamsAreKept
  ModesFit
CHECK_DEADLOCK FALSE
