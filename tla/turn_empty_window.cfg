\* A long question may leave room for no earlier turn at all.
SPECIFICATION Spec
CONSTANTS
  c1 = c1
  c2 = c2
  t1 = t1
  t2 = t2
  t3 = t3
  Conversations <- OneConversation
  Turns <- ThreeTurns
  NoTurn = NoTurn
  NoConversation = NoConversation
  Server = Server
  MaxActive = 1
  MaxHistory = 2
  Fits = {0, 1}
CHECK_DEADLOCK FALSE
INVARIANTS
  RecoveryAccepts
