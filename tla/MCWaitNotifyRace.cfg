SPECIFICATION Spec
CONSTANTS
  MaxPlayers = 2
  OneKinds = {"attacked", "hand"}
  AllKinds = {"draft"}
  ConnectedKinds = {"poll"}
  MaxReply = 2
INVARIANTS
  AnswerFitsQuestion
CHECK_DEADLOCK FALSE
