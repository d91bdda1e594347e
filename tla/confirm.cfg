\* Two turns of a conversation and two concurrent confirmations of any of their
\* actions, under fairness.
SPECIFICATION OrderedSpec
CONSTANTS
  t1 = t1
  t2 = t2
  q1 = q1
  q2 = q2
  Turns <- TwoTurns
  Confirms <- TwoConfirms
  NoTurn = NoTurn
  NoOne = NoOne
  Server = Server
  MaxAttempts = 2
CHECK_DEADLOCK FALSE
INVARIANTS
  TicketWasConfirmable
  ReplyTruth
  AttemptsDoNotOverlap
PROPERTIES
  OffersAreKept
  Answered
