SPECIFICATION FairSpec
CONSTANTS
  NumPlayers = 4
  TeamOf <- MCTeamOf
  EnergyMax = 3
  MaxHooks = 1
  MaxCounter = 2
  MaxRelays = 4
  InitAreas <- MCInitAreas
  InitCross <- MCInitCross
  InitShield = {3}
  FirstPlayers = {1}
  MaxTurns = 2
  MaxIdle = 1
INVARIANTS
  OneTurn
  AttacksSettleOnce
  RightWinner
  MissileGoesRound
PROPERTIES
  FollowsTurnLife
  GoesOnWithoutAnswers
CHECK_DEADLOCK FALSE
