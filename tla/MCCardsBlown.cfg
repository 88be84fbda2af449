SPECIFICATION Spec
CONSTANTS
  c1 = c1 c2 = c2 c3 = c3 c4 = c4
  p1 = p1 p2 = p2
  red = red blue = blue
  CardIds = {c1, c2, c3, c4}
  Poison = {c1, c2}
  Weaken = {c3}
  Players = {p1, p2}
  Colors = {red, blue}
  Color <- MCColor
  Deal = 2
  HandMax = 2
  HandMaxes <- MCHandMaxes
  CoverMax = 1
  WeakenDraw = 2
  WuXiShuFu = {0, 1}
  InitMorale = 2
  MaxDraw = 2
  MaxMoves = 3
CHECK_DEADLOCK FALSE
INVARIANT CardsStayInGame
