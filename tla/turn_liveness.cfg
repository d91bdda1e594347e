\* Two requests for two conversations, under fairness.
SPECIFICATION FairSpec
CONSTANTS
  c1 = c1
  c2 = c2
  t1 = t1
  t2 = t2
  t3 = t3
  Conversations <- TwoConversations
  Turns <- TwoTurns
  NoTurn = NoTurn
  NoConversation = NoConversation
  Server = Server
  MaxActive = 2
  MaxHistory = 1
  Fits = {1}
CHECK_DEADLOCK FALSE
INVARIANTS
  SeatAccounting
PROPERTIES
  SeatIsReturned
