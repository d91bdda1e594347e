-------------------------- MODULE MCKnowledgeAnswer ---------------------------
(***************************************************************************)
(* The scenes of KnowledgeAnswer that the run goes through: numbers for    *)
(* ids and scores, which lie below, between and above the two thresholds.  *)
(***************************************************************************)
EXTENDS KnowledgeAnswer

FourChunks == 1..4
TwoTexts == {"old", "new"}

\* Every rewriting of a question that is long or is not; one chunk that stays
\* as it is.
Rewriting(long) ==
  [chunks |-> {1}, texts |-> {"old"}, changes |-> 0, hits |-> 1, scores |-> {1},
   hitScores |-> {1}, words |-> Words, terms |-> Terms, synonyms |-> 2,
   long |-> long]

\* Two chunks that change three times while one question is answered.
Changing ==
  [chunks |-> {1, 2}, texts |-> TwoTexts, changes |-> 3, hits |-> 2, scores |-> {1, 3, 4},
   hitScores |-> {1}, words |-> {Question.words}, terms |-> Question.terms, synonyms |-> 0,
   long |-> FALSE]

\* Four chunks that stay as they are, hits in any order and twice.
Ranking ==
  [chunks |-> FourChunks, texts |-> {"old"}, changes |-> 0, hits |-> 4, scores |-> {3, 4},
   hitScores |-> {3}, words |-> {Question.words}, terms |-> Question.terms, synonyms |-> 0,
   long |-> FALSE]

AllScenes == {Rewriting(FALSE), Rewriting(TRUE), Changing, Ranking}
=============================================================================
