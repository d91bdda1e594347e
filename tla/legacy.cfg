\* One turn of any kind, or two turns of one conversation that are answered
\* without a tool; anything may be interrupted, fail or hang.
SPECIFICATION FairLegacySpec
CONSTANTS
  Crowds = {{t1}, {t1, t2}}
  Kinds = {"answer", "tool", "knowledge"}
CHECK_DEADLOCK FALSE
INVARIANTS
  LegacySafety
PROPERTIES
  EndsForGood
