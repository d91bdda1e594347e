\* The model proposes what it likes, more decisions than tools; one request
\* costs more than the budget.
SPECIFICATION FairSpec
CONSTANTS
  MaxDecisions = 3
  MaxTools = 2
  Budget = 7
  Costs = {1, 2, 4, 8}
CHECK_DEADLOCK FALSE
INVARIANTS
  Limits
  AuditKeepsPace
  AnswerFollowsEvidence
PROPERTIES
  EndsInTime
