----------------------------- MODULE ActionConfirm -----------------------------
(***************************************************************************)
(* A ticket suggestion from its offer to its ticket: the persist node      *)
(* offers an action and closes its turn (ActionRepository.offer_once, then *)
(* ConversationRepository.finish_turn); confirmations of that action run   *)
(* concurrently, each as get_confirmable, then TicketRepository.create_once*)
(* under the retries and timeouts of ToolExecutor.run, then                *)
(* mark_completed.  All turns are of one conversation, so `owner' is its   *)
(* row lock; confirmations take no session guard and no such lock.         *)
(***************************************************************************)
EXTENDS Naturals, FiniteSets

CONSTANTS
  Turns,        \* a turn offers at most one action: its id names both
  Confirms,     \* confirmation requests
  NoTurn,       \* a free row lock, or a request that has not arrived
  NoOne,        \* nobody has inserted or is marking
  Server,       \* a transaction whose client connection is gone
  MaxAttempts   \* ToolExecutor max_attempts

ASSUME ActorsAssumption ==
  /\ NoTurn \notin Turns
  /\ Server \notin Turns \union Confirms
  /\ NoOne \notin Confirms \union {Server}
  /\ NoTurn # Server
ASSUME AttemptsAssumption == MaxAttempts \in Nat \ {0}

VARIABLES
  closed,    \* MySQL: the conversation's status is 'closed'
  audit,     \* MySQL: turn_status of each turn's rows
  action,    \* MySQL: status of each turn's conversation_actions row
  ticket,    \* MySQL: tickets that exist, by the turn whose action made them
  owner,     \* MySQL: transaction that holds the conversation row lock
  inserter,  \* MySQL: holder of an uncommitted ticket row
  marker,    \* MySQL: holder of the action row lock
  offers,    \* turns whose persist node holds an offer for the client
  tpc,       \* turn: where its persist node and cleanup are
  pc,        \* confirmation: where its coroutine is
  target,    \* confirmation: the turn whose action it confirms
  attempt,   \* confirmation: attempt of ToolExecutor.run
  reply      \* confirmation: what its client was answered

rows == <<closed, audit, action, ticket>>
locks == <<owner, inserter, marker>>
turns == <<offers, tpc>>
confirms == <<pc, target, attempt, reply>>
vars == <<closed, audit, action, ticket, owner, inserter, marker,
          offers, tpc, pc, target, attempt, reply>>

\* "over": the turn has ended; "shown": it ended and its offer was sent
Persisting == {"offer", "offering", "finish", "finishing", "save"}
LiveTurn == Persisting \union {"cleanup", "cleaning"}
TurnPCs == LiveTurn \union {"idle", "shown", "over"}
Attempting == {"look", "insert", "committing", "verify"}
Marking == {"mark", "marking", "remark"}
LiveConfirm == {"confirmable"} \union Attempting \union Marking
ConfirmPCs == LiveConfirm \union {"idle", "over", "dead"}

Lock == [turn: Turns \union {NoTurn}, to: {"none", "offered", "completed", "ended"},
         by: Turns \union {NoTurn, Server}]
Free == [turn |-> NoTurn, to |-> "none", by |-> NoTurn]

TypeOK ==
  /\ closed \in BOOLEAN
  /\ audit \in [Turns -> {"none", "pending", "completed", "ended"}]
  /\ action \in [Turns -> {"none", "offered", "completed"}]
  /\ ticket \subseteq Turns
  /\ owner \in Lock
  /\ inserter \in [Turns -> Confirms \union {NoOne, Server}]
  /\ marker \in [Turns -> Confirms \union {NoOne, Server}]
  /\ offers \subseteq Turns
  /\ tpc \in [Turns -> TurnPCs]
  /\ pc \in [Confirms -> ConfirmPCs]
  /\ target \in [Confirms -> Turns \union {NoTurn}]
  /\ attempt \in [Confirms -> 0..MaxAttempts]
  /\ reply \in [Confirms -> {"none", "ok", "refused", "error"}]

Init ==
  /\ closed = FALSE
  /\ audit = [t \in Turns |-> "none"]
  /\ action = [t \in Turns |-> "none"]
  /\ ticket = {}
  /\ owner = Free
  /\ inserter = [t \in Turns |-> NoOne]
  /\ marker = [t \in Turns |-> NoOne]
  /\ offers = {}
  /\ tpc = [t \in Turns |-> "idle"]
  /\ pc = [q \in Confirms |-> "idle"]
  /\ target = [q \in Confirms |-> NoTurn]
  /\ attempt = [q \in Confirms |-> 0]
  /\ reply = [q \in Confirms |-> "none"]

-----------------------------------------------------------------------------
(* The turn: start_turn, then persist, then _finish.  Its COMMITs race as  *)
(* in WorkflowTurn; here they also race with confirmations.                *)

TurnGoto(t, p) == tpc' = [tpc EXCEPT ![t] = p]
Owns(t) == owner.by = t
Write(t, to, by) == owner' = [turn |-> t, to |-> to, by |-> by]

\* The session guard lets one turn of the conversation run at a time.
Start(t) ==
  /\ tpc[t] = "idle"
  /\ \A u \in Turns : tpc[u] \notin LiveTurn
  /\ ~closed
  /\ owner = Free
  /\ audit' = [audit EXCEPT ![t] = "pending"]
  /\ TurnGoto(t, "offer")
  /\ UNCHANGED <<closed, action, ticket, locks, offers, confirms>>

\* The answer suggests no ticket.
NoOffer(t) ==
  /\ tpc[t] = "offer"
  /\ TurnGoto(t, "finish")
  /\ UNCHANGED <<rows, locks, offers, confirms>>

\* offer_once, under the conversation row lock.  The id of the action comes
\* from the fresh turn id, so that the row is not there yet.
Offer(t) ==
  /\ tpc[t] = "offer"
  /\ owner = Free
  /\ \/ /\ ~closed
        /\ audit[t] \in {"pending", "completed"}
        /\ Write(t, "offered", t)
        /\ TurnGoto(t, "offering")
     \/ /\ closed \/ audit[t] \notin {"pending", "completed"}
        /\ TurnGoto(t, "cleanup")
        /\ UNCHANGED owner
  /\ UNCHANGED <<rows, inserter, marker, offers, confirms>>

\* Mutant: persist goes on although offer_once raised.
OfferUnchecked(t) ==
  /\ tpc[t] = "offering"
  /\ ~Owns(t)
  /\ offers' = offers \union {t}
  /\ TurnGoto(t, "finish")
  /\ UNCHANGED <<rows, locks, confirms>>

\* The COMMIT is acknowledged, or the row is looked up again without a lock.
OfferAck(t) ==
  /\ tpc[t] = "offering"
  /\ ~Owns(t)
  /\ \/ /\ action[t] # "none"
        /\ offers' = offers \union {t}
        /\ TurnGoto(t, "finish")
     \/ /\ action[t] = "none"
        /\ TurnGoto(t, "cleanup")
        /\ UNCHANGED offers
  /\ UNCHANGED <<rows, locks, confirms>>

\* finish_turn: a closed conversation and a turn that has ended are refused.
CloseTurn(t, to, p, q) ==
  /\ owner = Free
  /\ \/ /\ audit[t] = "pending" /\ ~closed
        /\ Write(t, to, t)
        /\ TurnGoto(t, p)
     \/ /\ audit[t] # "pending" \/ closed
        /\ TurnGoto(t, q)
        /\ UNCHANGED owner

Finish(t) ==
  /\ tpc[t] = "finish"
  /\ CloseTurn(t, "completed", "finishing", "cleanup")
  /\ UNCHANGED <<rows, inserter, marker, offers, confirms>>

FinishAck(t) ==
  /\ tpc[t] = "finishing"
  /\ ~Owns(t)
  /\ TurnGoto(t, IF audit[t] = "completed" THEN "save" ELSE "cleanup")
  /\ UNCHANGED <<rows, locks, offers, confirms>>

\* The checkpoint is final and verified: the actions event is sent if the
\* turn has an offer.
Show(t) ==
  /\ tpc[t] = "save"
  /\ TurnGoto(t, IF t \in offers THEN "shown" ELSE "over")
  /\ UNCHANGED <<rows, locks, offers, confirms>>

\* Cancellation, the deadline or an error; _finish waits for the transaction
\* the turn still has with the server, then closes the audit.
Fail(t) ==
  /\ tpc[t] \in Persisting
  /\ TurnGoto(t, "cleanup")
  /\ UNCHANGED <<rows, locks, offers, confirms>>

Cleanup(t) ==
  /\ tpc[t] = "cleanup"
  /\ CloseTurn(t, "ended", "cleaning", "over")
  /\ UNCHANGED <<rows, inserter, marker, offers, confirms>>

CleanupAck(t) ==
  /\ tpc[t] = "cleaning"
  /\ ~Owns(t)
  /\ TurnGoto(t, "over")
  /\ UNCHANGED <<rows, locks, offers, confirms>>

\* Recovery by a later request cancels a turn that was left pending.
Interrupt(t) ==
  /\ tpc[t] = "over"
  /\ \A u \in Turns : tpc[u] \notin LiveTurn
  /\ audit[t] = "pending"
  /\ ~closed
  /\ owner = Free
  /\ Write(t, "ended", Server)
  /\ UNCHANGED <<rows, inserter, marker, turns, confirms>>

\* An operator closes the conversation; no handler of the service does.
Close ==
  /\ owner = Free
  /\ ~closed
  /\ closed' = TRUE
  /\ UNCHANGED <<audit, action, ticket, locks, turns, confirms>>

\* The server decides a transaction of the turn.
Commit ==
  /\ owner # Free
  /\ \/ /\ owner.to = "offered"
        /\ action' = [action EXCEPT ![owner.turn] = "offered"]
        /\ UNCHANGED audit
     \/ /\ owner.to # "offered"
        /\ audit' = [audit EXCEPT ![owner.turn] = owner.to]
        /\ UNCHANGED action
  /\ owner' = Free
  /\ UNCHANGED <<closed, ticket, inserter, marker, turns, confirms>>

Rollback ==
  /\ owner # Free
  /\ owner' = Free
  /\ UNCHANGED <<rows, inserter, marker, turns, confirms>>

\* The connection is gone with the COMMIT on its way.
Disown ==
  /\ owner.by \in Turns
  /\ owner' = [owner EXCEPT !.by = Server]
  /\ UNCHANGED <<rows, inserter, marker, turns, confirms>>

-----------------------------------------------------------------------------
(* ActionService.confirm *)

Goto(q, p) == pc' = [pc EXCEPT ![q] = p]
Answer(q, what) ==
  /\ Goto(q, "over")
  /\ reply' = [reply EXCEPT ![q] = what]

\* Any action id may be sent, also one that no offer was made for.
Ask(q, t) ==
  /\ pc[q] = "idle"
  /\ Goto(q, "confirmable")
  /\ target' = [target EXCEPT ![q] = t]
  /\ UNCHANGED <<rows, locks, turns, attempt, reply>>

\* Mutant: the turn of the action need not be complete.
OfferedIsEnough(t) == action[t] # "none" /\ (closed => action[t] = "completed")

\* get_confirmable reads owner, action and rows in one transaction.
IsConfirmable(t) ==
  /\ action[t] # "none"
  /\ audit[t] = "completed"
  /\ closed => action[t] = "completed"

Confirmable(q) ==
  /\ pc[q] = "confirmable"
  /\ \/ /\ IsConfirmable(target[q])
        /\ Goto(q, "look")
        /\ attempt' = [attempt EXCEPT ![q] = 1]
        /\ UNCHANGED reply
     \/ /\ ~IsConfirmable(target[q])
        /\ Answer(q, "refused")
        /\ UNCHANGED attempt
  /\ UNCHANGED <<rows, locks, turns, target>>

\* The ticket is there: run returns, and the attempt count goes with it.
Found(q) ==
  /\ Goto(q, "mark")
  /\ attempt' = [attempt EXCEPT ![q] = 0]

\* One attempt of create_once: read, then INSERT (which waits for another
\* uncommitted row of that key), then COMMIT, then, after any database error,
\* read again.  Neither read takes a lock.
Look(q) ==
  /\ pc[q] = "look"
  /\ \/ target[q] \in ticket /\ Found(q)
     \/ target[q] \notin ticket /\ Goto(q, "insert") /\ UNCHANGED attempt
  /\ UNCHANGED <<rows, locks, turns, target, reply>>

Insert(q) ==
  LET t == target[q] IN
  /\ pc[q] = "insert"
  /\ inserter[t] = NoOne
  /\ \/ /\ t \notin ticket
        /\ inserter' = [inserter EXCEPT ![t] = q]
        /\ Goto(q, "committing")
     \/ /\ t \in ticket
        /\ Goto(q, "verify")
        /\ UNCHANGED inserter
  /\ UNCHANGED <<rows, owner, marker, turns, target, attempt, reply>>

\* A lock wait timeout, a deadlock or a lost connection.
InsertFails(q) ==
  /\ pc[q] = "insert"
  /\ Goto(q, "verify")
  /\ UNCHANGED <<rows, locks, turns, target, attempt, reply>>

CreateAck(q) ==
  /\ pc[q] = "committing"
  /\ inserter[target[q]] # q
  /\ \/ target[q] \in ticket /\ Found(q)
     \/ target[q] \notin ticket /\ Goto(q, "verify") /\ UNCHANGED attempt
  /\ UNCHANGED <<rows, locks, turns, target, reply>>

\* Mutant: an attempt that failed is not counted.
RetryForever(q) ==
  \/ /\ Goto(q, "look")
     /\ UNCHANGED <<attempt, reply>>
  \/ /\ Answer(q, "error")
     /\ attempt' = [attempt EXCEPT ![q] = 0]

\* A transient failure is retried while attempts and the deadline allow it;
\* any other ends the run.
Retry(q) ==
  \/ /\ attempt[q] < MaxAttempts
     /\ Goto(q, "look")
     /\ attempt' = [attempt EXCEPT ![q] = @ + 1]
     /\ UNCHANGED reply
  \/ /\ Answer(q, "error")
     /\ attempt' = [attempt EXCEPT ![q] = 0]

Verify(q) ==
  /\ pc[q] = "verify"
  /\ \/ /\ target[q] \in ticket
        /\ Found(q)
        /\ UNCHANGED reply
     \/ /\ target[q] \notin ticket
        /\ Retry(q)
  /\ UNCHANGED <<rows, locks, turns, target>>

\* Mutant: the executor retries without waiting for the attempt it cancelled.
TimeoutAtOnce(q) ==
  /\ pc[q] \in Attempting
  /\ Retry(q)
  /\ UNCHANGED <<rows, locks, turns, target>>

\* The attempt or the whole request is out of time: run cancels the attempt
\* and waits until it has let go of its connection.
Timeout(q) ==
  /\ pc[q] \in Attempting
  /\ inserter[target[q]] # q
  /\ Retry(q)
  /\ UNCHANGED <<rows, locks, turns, target>>

\* mark_completed: lock the action row and check its ticket.  A repeated
\* confirmation writes the same status again.
Mark(q) ==
  LET t == target[q] IN
  /\ pc[q] = "mark"
  /\ marker[t] = NoOne
  /\ \/ /\ t \in ticket
        /\ marker' = [marker EXCEPT ![t] = q]
        /\ Goto(q, "marking")
        /\ UNCHANGED reply
     \/ /\ t \notin ticket
        /\ Answer(q, "error")
        /\ UNCHANGED marker
  /\ UNCHANGED <<rows, owner, inserter, turns, target, attempt>>

\* A database error while the row is locked or waited for.
MarkFails(q) ==
  /\ pc[q] = "mark"
  /\ Goto(q, "remark")
  /\ UNCHANGED <<rows, locks, turns, target, attempt, reply>>

\* Mutant: the answer does not wait for the COMMIT of the mark.
MarkAckEarly(q) ==
  /\ pc[q] = "marking"
  /\ Answer(q, "ok")
  /\ UNCHANGED <<rows, locks, turns, target, attempt>>

MarkAck(q) ==
  /\ pc[q] = "marking"
  /\ marker[target[q]] # q
  /\ \/ /\ action[target[q]] = "completed"
        /\ Answer(q, "ok")
     \/ /\ Goto(q, "remark")
        /\ UNCHANGED reply
  /\ UNCHANGED <<rows, locks, turns, target, attempt>>

\* verify(recovery=True): the row lock waits for an undecided COMMIT.
Remark(q) ==
  /\ pc[q] = "remark"
  /\ marker[target[q]] = NoOne
  /\ Answer(q, IF action[target[q]] = "completed" THEN "ok" ELSE "error")
  /\ UNCHANGED <<rows, locks, turns, target, attempt>>

\* A store that cannot be reached at all: the error goes to the client.
GiveUp(q) ==
  /\ pc[q] \in {"confirmable", "remark"}
  /\ Answer(q, "error")
  /\ UNCHANGED <<rows, locks, turns, target, attempt>>

\* The server decides a ticket and a mark.
CommitTicket(t) ==
  /\ inserter[t] # NoOne
  /\ ticket' = ticket \union {t}
  /\ inserter' = [inserter EXCEPT ![t] = NoOne]
  /\ UNCHANGED <<closed, audit, action, owner, marker, turns, confirms>>

RollbackTicket(t) ==
  /\ inserter[t] # NoOne
  /\ inserter' = [inserter EXCEPT ![t] = NoOne]
  /\ UNCHANGED <<rows, owner, marker, turns, confirms>>

CommitMark(t) ==
  /\ marker[t] # NoOne
  /\ action' = [action EXCEPT ![t] = "completed"]
  /\ marker' = [marker EXCEPT ![t] = NoOne]
  /\ UNCHANGED <<closed, audit, ticket, owner, inserter, turns, confirms>>

RollbackMark(t) ==
  /\ marker[t] # NoOne
  /\ marker' = [marker EXCEPT ![t] = NoOne]
  /\ UNCHANGED <<rows, owner, inserter, turns, confirms>>

\* A connection is lost, or closed by the cancelled attempt.
Disconnect(t) ==
  /\ \/ /\ inserter[t] \in Confirms
        /\ inserter' = [inserter EXCEPT ![t] = Server]
        /\ UNCHANGED marker
     \/ /\ marker[t] \in Confirms
        /\ marker' = [marker EXCEPT ![t] = Server]
        /\ UNCHANGED inserter
  /\ UNCHANGED <<rows, owner, turns, confirms>>

\* The process dies: coroutines are lost with their locals, MySQL keeps what
\* it has.
Crash ==
  /\ \/ \E t \in Turns : tpc[t] \in LiveTurn
     \/ \E q \in Confirms : pc[q] \in LiveConfirm
  /\ tpc' = [t \in Turns |-> IF tpc[t] \in LiveTurn THEN "over" ELSE tpc[t]]
  /\ pc' = [q \in Confirms |-> IF pc[q] \in LiveConfirm THEN "dead" ELSE pc[q]]
  /\ target' = [q \in Confirms |-> IF pc[q] \in LiveConfirm THEN NoTurn ELSE target[q]]
  /\ attempt' = [q \in Confirms |-> 0]
  /\ owner' = IF owner.by \in Turns THEN [owner EXCEPT !.by = Server] ELSE owner
  /\ inserter' = [t \in Turns |->
                    IF inserter[t] \in Confirms THEN Server ELSE inserter[t]]
  /\ marker' = [t \in Turns |->
                  IF marker[t] \in Confirms THEN Server ELSE marker[t]]
  /\ UNCHANGED <<rows, offers, reply>>

-----------------------------------------------------------------------------
TurnStep(t) ==
  \/ Offer(t) \/ NoOffer(t) \/ OfferAck(t) \/ Finish(t) \/ FinishAck(t)
  \/ Show(t) \/ Fail(t) \/ Cleanup(t) \/ CleanupAck(t)

\* What a confirmation's coroutine does next.
Step(q) ==
  \/ Confirmable(q) \/ Look(q) \/ Insert(q) \/ InsertFails(q) \/ CreateAck(q)
  \/ Verify(q) \/ Timeout(q) \/ Mark(q) \/ MarkFails(q) \/ MarkAck(q)
  \/ Remark(q) \/ GiveUp(q)

Resolve == Commit \/ Rollback
ResolveTicket(t) == CommitTicket(t) \/ RollbackTicket(t)
ResolveMark(t) == CommitMark(t) \/ RollbackMark(t)

Next ==
  \/ \E t \in Turns : \/ Start(t) \/ TurnStep(t) \/ Interrupt(t) \/ Disconnect(t)
                      \/ ResolveTicket(t) \/ ResolveMark(t)
  \/ \E q \in Confirms : Step(q) \/ \E t \in Turns : Ask(q, t)
  \/ Resolve \/ Disown \/ Close \/ Crash

Spec == Init /\ [][Next]_vars

\* A confirmation that can run does so, and the server decides every
\* transaction.  Nothing is fair about turns, clients or operators.
Fairness ==
  /\ \A q \in Confirms : WF_vars(Step(q))
  /\ \A t \in Turns : WF_vars(ResolveTicket(t)) /\ WF_vars(ResolveMark(t))
FairSpec == Spec /\ Fairness

-----------------------------------------------------------------------------
(* Properties *)

\* A ticket exists only for an action that was offered by a turn which
\* completed: no failed, cancelled or interrupted turn leaves a ticket, even
\* when its offer was committed late or its id was guessed.
TicketWasConfirmable ==
  \A t \in ticket : audit[t] = "completed" /\ action[t] # "none"

\* A client that was answered "completed" has its ticket and its action on
\* disk, whatever COMMIT was lost or undecided on the way.
ReplyTruth ==
  \A q \in Confirms : reply[q] = "ok" =>
    target[q] \in ticket /\ action[target[q]] = "completed"

\* The attempts of one confirmation do not overlap: while it has a ticket row
\* with the server, it is still in the attempt that inserted it.
AttemptsDoNotOverlap ==
  \A t \in Turns : inserter[t] \in Confirms =>
    /\ pc[inserter[t]] = "committing"
    /\ target[inserter[t]] = t

\* Once the conversation is closed no action appears, not by a COMMIT that was
\* on its way either: offer_once holds the row lock that closing needs.
NoOfferAfterClose ==
  [][\A t \in Turns : closed /\ action[t] = "none" => action'[t] = "none"]_vars

\* An offer that was sent to the client can be confirmed as long as the
\* conversation is open: persist committed the action and then the turn before
\* the actions event, and neither is undone.
ShownIsConfirmable ==
  [][\A q \in Confirms :
       /\ pc[q] = "confirmable"
       /\ tpc[target[q]] = "shown"
       /\ ~closed
       => reply'[q] # "refused"]_vars

\* An offer is made while the conversation is open or never, and one that was
\* shown can be taken up.
OffersAreKept == NoOfferAfterClose /\ ShownIsConfirmable

\* Every confirmation is answered, or its process dies: retries are bounded
\* and no lock is held for ever.
Answered == \A q \in Confirms : pc[q] \in LiveConfirm ~> pc[q] \notin LiveConfirm
=============================================================================
