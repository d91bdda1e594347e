\* Three callers, two texts of which one was said, two failing statements.
SPECIFICATION FairSpec
CONSTANTS
  Callers = {c1, c2, c3}
  Questions = {right, wrong}
  Said = {right}
  None = none
  MaxFaults = 2
CHECK_DEADLOCK FALSE
INVARIANTS
  AnswersAreTrue
PROPERTIES
  CallsEnd
  PromiseSpec
