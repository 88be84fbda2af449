SPECIFICATION FairSpec
CONSTANTS
  MaxPlayers = 2
  OneKinds = {"attacked"}
  AllKinds = {"draft"}
  ConnectedKinds = {"poll"}
  MaxReply = 2
INVARIANTS
  AnswersAreKept
  RepliesOwnedOnce
  ReturningPlayerIsAsked
PROPERTIES
  
  WaitEnds
