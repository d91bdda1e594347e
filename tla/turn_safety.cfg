\* Three requests for one conversation: each may recover what the others left.
SPECIFICATION Spec
CONSTANTS
  c1 = c1
  c2 = c2
  t1 = t1
  t2 = t2
  t3 = t3
  Conversations <- OneConversation
  Turns <- ThreeTurns
  NoTurn = NoTurn
  NoConversation = NoConversation
  Server = Server
  MaxActive = 1
  MaxHistory = 1
  Fits = {0, 1, 2}
SYMMETRY TurnSymmetry
CHECK_DEADLOCK FALSE
INVARIANTS
  WritesUnderGuard
  DoneIsDurable
  CheckpointNeverAhead
  HistoryIsTail
  RecoveryHeals
PROPERTIES
  TerminalIsFinal
  PromiseSpec
