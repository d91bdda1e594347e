--------------------------- MODULE MCActionConfirm ---------------------------
(***************************************************************************)
(* The instance of ActionConfirm.  Turn ids are fresh uuids and requests   *)
(* to confirm are alike, so that nothing is lost when both are numbered in *)
(* the order in which they first appear.  Unlike a SYMMETRY this is sound  *)
(* for liveness too.                                                       *)
(***************************************************************************)
EXTENDS ActionConfirm

CONSTANTS t1, t2, q1, q2

TwoTurns == {t1, t2}
TwoConfirms == {q1, q2}

Appeared(t) == tpc[t] # "idle" \/ \E q \in Confirms : target[q] = t
InOrder ==
  /\ Appeared(t2) => Appeared(t1)
  /\ pc[q2] # "idle" => pc[q1] # "idle"

OrderedSpec == Init /\ [][Next /\ InOrder']_vars /\ Fairness
=============================================================================
