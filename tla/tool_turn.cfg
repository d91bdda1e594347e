\* Two operations at a time, of which one may be an anext of the tool, one caller
\* of drain; a call of two attempts and two ticks with a queue of one.
SPECIFICATION FairTogether
CONSTANTS
  Ops = {o1, o2}
  Iterators = {execution}
  Callers = {c1}
  None = none
  Execution = execution
  Deadline = 2
  Timeout = 1
  Attempts = 2
  Capacity = 1
  Stages = 2
CHECK_DEADLOCK FALSE
INVARIANTS
  DrainSafety
  ToolStops
  AttemptsAreSound
PROPERTIES
  SealedForGood
  EverythingReturns
