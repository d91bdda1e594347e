\* Four scenes, see MCKnowledgeAnswer; one source fewer than there may be
\* candidates.
SPECIFICATION Spec
CONSTANTS
  Chunks <- FourChunks
  Texts <- TwoTexts
  None = none
  Threshold = 2
  Upper = 3
  MaxSources = 3
  Words = {w1, w2}
  Terms = {t1, t2}
  Scenes <- AllScenes
CHECK_DEADLOCK FALSE
INVARIANTS
  SourcesFitTheQuestion
  NoStaleText
  OutcomeIsGrounded
