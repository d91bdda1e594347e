\* Two rows of two contents in three scenes, see MCKnowledgeIndex.
SPECIFICATION IndexSpec
CONSTANTS
  i1 = i1
  i2 = i2
  s1 = s1
  s2 = s2
  t2 = t2
  Chunks = {c1, c2}
  Texts = {t1, t2}
  None = None
  IndexScenes <- AllScenes
CHECK_DEADLOCK FALSE
INVARIANTS
  IndexInv
PROPERTIES
  ReportsAreTrue
