--------------------------- MODULE MCWorkflowTurn ---------------------------
(* Model values and symmetry for the runs of WorkflowTurn. *)
EXTENDS WorkflowTurn, TLC

CONSTANTS c1, c2, t1, t2, t3

OneConversation == {c1}
TwoConversations == {c1, c2}
TwoTurns == {t1, t2}
ThreeTurns == {t1, t2, t3}

\* Turn ids are fresh uuids.
TurnSymmetry == Permutations(Turns)
=============================================================================
