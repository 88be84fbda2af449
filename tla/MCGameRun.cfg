SPECIFICATION FairSpec
CONSTANTS
  MaxPlayers = 4
  MaxDepth = 3
INVARIANTS
  PollIsOnTop
  PollAnswersFindTheirPoll
  NoPlayWithMissing
  ResultRecordedOnce
PROPERTIES
  EmptyRoomEnds
  GameResumes
  FollowsRoomLife
CHECK_DEADLOCK FALSE
