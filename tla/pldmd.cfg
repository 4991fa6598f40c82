SPECIFICATION FairSpec
CONSTANTS
  c1 = c1 c2 = c2 c3 = c3
  Gone = Gone NoClient = NoClient
  Conn <- Connections
  MayConnect <- Sockets
  MaySend = {c2}
  maxInstanceIds = 2
INVARIANTS PollfdsMatch NothingLeaks UpdateTracked AnswerFindsOwner
PROPERTIES ConnectionTaken GoneIsRemoved
CHECK_DEADLOCK FALSE
