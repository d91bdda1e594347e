\* A long and a short call or three short ones for a queue of one, two closers or one; the
\* store with two or three operations on its two places and a closer.
SPECIFICATION Spec
CONSTANTS
  m1 = m1
  Callers = {1, 2, 3}
  Closers = {1, 2}
  MaxBatches = 2
  QueueSize = 1
  MaxTime = 1
  Demands <- AllCalls
  Ops = {1, 2, 3}
  StoreClosers = {m1}
  Places = 2
  StoreDemands <- AllRpc
  Scenes <- AllScenes
CHECK_DEADLOCK FALSE
INVARIANTS
  WorkerSafety
  StoreSafety
PROPERTIES
  AllSettle
