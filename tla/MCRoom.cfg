SPECIFICATION FairSpec
CONSTANTS
  s1 = s1
  s2 = s2
  ann = ann
  bob = bob
  SessionIds <- MCTwo
  Users <- MCTwoUsers
  LogIns <- MCTwoLogIns
  MaxPlayers <- MCSeats
  MaxRoom = 2
  NoUser = NoUser
INVARIANTS
  OneSeatPerUser
  ConnectedSeatHasSession
PROPERTIES
  AbandonedRoomsGo
CHECK_DEADLOCK FALSE
