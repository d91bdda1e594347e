------------------------------- MODULE WriteOnce -------------------------------
(***************************************************************************)
(* What an idempotent write promises its callers: of the values that may   *)
(* be written at most one ever is, for good; each caller is answered at    *)
(* most once, with that value or with a refusal.                           *)
(***************************************************************************)
CONSTANTS
  Callers,   \* who asks for the write
  Values,    \* what may be written
  Waiting,   \* not answered yet
  Refusals   \* answers that are no value

VARIABLES
  written,  \* the set of values written, empty or of one element
  told      \* caller: Waiting, a refusal or the value it was told

onceVars == <<written, told>>

Init ==
  /\ written = {}
  /\ told = [c \in Callers |-> Waiting]

(* The write may take effect without its caller hearing of it, with the    *)
(* answer, or with a refusal: the caller then does not know of it.         *)
MayWrite ==
  \/ UNCHANGED written
  \/ /\ written = {}
     /\ \E v \in written' : v \in Values /\ written' = {v}

MayAnswer(c) ==
  \/ UNCHANGED told
  \/ /\ told[c] = Waiting
     /\ \E w \in written' \union Refusals : told' = [told EXCEPT ![c] = w]

Next == MayWrite /\ \E c \in Callers : MayAnswer(c)

Spec == Init /\ [][Next]_onceVars
=============================================================================
