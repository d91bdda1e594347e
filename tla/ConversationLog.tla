--------------------------- MODULE ConversationLog ---------------------------
(***************************************************************************)
(* What a conversation promises: its completed turns form a log that only  *)
(* grows at its end; a turn is opened, then either joins the log or is     *)
(* closed without an answer, for good; and a client that was told "done"   *)
(* has its turn in the log.                                                *)
(***************************************************************************)
EXTENDS Sequences, FiniteSets

CONSTANTS Conversations, Turns

VARIABLES log, open, closed, told

logVars == <<log, open, closed, told>>

InLog(t, c) == \E i \in DOMAIN log[c] : log[c][i] = t
New(t) == t \notin open \union closed /\ \A c \in Conversations : ~InLog(t, c)

Init ==
  /\ log = [c \in Conversations |-> <<>>]
  /\ open = {}
  /\ closed = {}
  /\ told = {}

Open(t) ==
  /\ New(t)
  /\ open' = open \union {t}
  /\ UNCHANGED <<log, closed, told>>

Complete(t, c) ==
  /\ t \in open
  /\ open' = open \ {t}
  /\ log' = [log EXCEPT ![c] = Append(@, t)]
  /\ UNCHANGED <<closed, told>>

Close(t) ==
  /\ t \in open
  /\ open' = open \ {t}
  /\ closed' = closed \union {t}
  /\ UNCHANGED <<log, told>>

Report(t) ==
  /\ \E c \in Conversations : InLog(t, c)
  /\ told' = told \union {t}
  /\ UNCHANGED <<log, open, closed>>

Next ==
  \E t \in Turns :
    \/ Open(t) \/ Close(t) \/ Report(t)
    \/ \E c \in Conversations : Complete(t, c)

Spec == Init /\ [][Next]_logVars
=============================================================================
