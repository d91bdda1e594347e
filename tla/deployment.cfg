\* Three kinds of start-up with a cleanup that outlives its request, one
\* operator beside them; or two operators over three messages, filled two at
\* a time, and perhaps an old writer.
SPECIFICATION Deployed
CONSTANTS
  Modes = {"workflow", "legacy", "injected"}
  Cleanups = {c1}
  Runs = {r1, app}
  App = app
  MaxId = 3
  Batch = 2
CHECK_DEADLOCK FALSE
INVARIANTS
  LifespanSafety
  SchemaSafety
PROPERTIES
  DatabaseIsKept
  LifespanEnds
