---------------------------- MODULE WorkflowTurn ----------------------------
(***************************************************************************)
(* One customer turn through the workflow service: SessionGuard, the MySQL *)
(* turn audit (ConversationRepository), the LangGraph checkpoint in        *)
(* PostgreSQL, WorkflowChatService.prepare / stream / _finish and          *)
(* recover_conversation.                                                   *)
(*                                                                         *)
(* MySQL and PostgreSQL share no transaction.  A turn is opened in MySQL,  *)
(* run by the graph (which saves a checkpoint before every node), closed   *)
(* in MySQL by the persist node, and only then saved as completed in the   *)
(* checkpoint.  A request may be cancelled, time out or fail anywhere, a   *)
(* COMMIT may take effect after its caller has given up, and the process   *)
(* may die between any two steps.                                          *)
(***************************************************************************)
EXTENDS Naturals, Sequences, FiniteSets

CONSTANTS
  Conversations,  \* conversation ids
  Turns,          \* requests; prepare() gives each one a fresh turn id
  NoTurn,         \* no turn: an empty checkpoint, a free row lock
  NoConversation, \* the conversation of a request that has not arrived
  Server,         \* holder of a transaction whose client connection is gone
  MaxActive,      \* SessionGuard max_active
  MaxHistory,     \* Settings.max_history_turns
  Fits            \* how many turns the token window may leave room for

ASSUME NamesAssumption ==
  /\ NoTurn \notin Turns
  /\ Server \notin Turns
  /\ Server # NoTurn
  /\ NoConversation \notin Conversations
ASSUME TurnsAssumption == IsFiniteSet(Turns)
ASSUME ConversationsAssumption == IsFiniteSet(Conversations)
ASSUME BoundsAssumption ==
  /\ MaxActive \in Nat \ {0}
  /\ MaxHistory \in Nat \ {0}
  /\ Fits \subseteq Nat
  /\ Fits # {}

VARIABLES
  active,   \* SessionGuard._active
  created,  \* MySQL: conversations that exist
  audit,    \* MySQL: turn_status of each turn's rows
  row,      \* MySQL: place of the turn's first row in its conversation
  txn,      \* MySQL: the transaction that holds the conversation row lock
  ckpt,     \* PostgreSQL: newest checkpoint of the conversation's thread
  conv,     \* request: its conversation
  pc,       \* request: where its coroutine is
  cause,    \* request: the status _finish was first called with
  hist,     \* request: recovered history, then the retained window
  todo,     \* request: pending turns that recovery still has to cancel
  branch,   \* request: the branch recovery took
  seen      \* what the request's client has observed

mysql == <<created, audit, row, txn>>
reconciling == <<hist, todo, branch>>
vars == <<active, created, audit, row, txn, ckpt,
          conv, pc, cause, hist, todo, branch, seen>>

-----------------------------------------------------------------------------
(* "interrupted" is turn_status 'cancelled' written by recovery, which the *)
(* idempotency check of _write tells from a cancellation by _finish.       *)
Terminal == {"completed", "failed", "cancelled", "interrupted"}
AuditStatus == {"none", "pending"} \union Terminal
GraphStatus == {"pending", "completed", "cancelled"}
Causes == {"none", "complete", "failed", "conflict", "cancelled"}
Observations == {"none", "open", "done", "error", "gone", "refused"}

\* await points at which the request still does its own work
Working ==
  {"create", "recover", "settle", "settling", "update", "window", "start",
   "starting", "opened", "input", "fresh", "work", "persist", "persisting",
   "saveWrites", "saveFinal", "ended"}
\* await points of the shielded cleanup task
Finishing == {"closing", "audit", "cleanup", "cleaning", "release"}
\* the request holds the guard of its conversation
Live == Working \union Finishing
PCs == Live \union {"idle", "over", "dead"}

Checkpoint ==
  [turn: Turns \union {NoTurn}, status: GraphStatus, answered: BOOLEAN,
   history: Seq(Turns), tasks: BOOLEAN]
NoCheckpoint ==
  [turn |-> NoTurn, status |-> "pending", answered |-> FALSE,
   history |-> <<>>, tasks |-> FALSE]

Transaction ==
  [turn: Turns \union {NoTurn}, to: AuditStatus,
   by: Turns \union {NoTurn, Server}]
Free == [turn |-> NoTurn, to |-> "none", by |-> NoTurn]

Owns(r) == txn[conv[r]].by = r
LockFree(r) == txn[conv[r]] = Free

RowsOf(c) == {t \in Turns : conv[t] = c /\ audit[t] # "none"}
PendingOf(c) == {t \in RowsOf(c) : audit[t] = "pending"}
CompletedOf(c) == {t \in RowsOf(c) : audit[t] = "completed"}

\* The completed turns in row order, mysql_history of recover_conversation:
\* a set with one element.
Listings(c) ==
  {h \in [1..Cardinality(CompletedOf(c)) -> CompletedOf(c)] :
     \A i, j \in DOMAIN h : i < j => row[h[i]] < row[h[j]]}

\* s[-k:] of Python, for k > 0; the empty sequence for k = 0
LastOf(s, k) == SubSeq(s, Len(s) - (IF k < Len(s) THEN k ELSE Len(s)) + 1, Len(s))
Has(s, t) == \E i \in 1..Len(s) : s[i] = t

TypeOK ==
  /\ active \subseteq Conversations
  /\ created \subseteq Conversations
  /\ audit \in [Turns -> AuditStatus]
  /\ row \in [Turns -> Nat]
  /\ txn \in [Conversations -> Transaction]
  /\ ckpt \in [Conversations -> Checkpoint]
  /\ conv \in [Turns -> Conversations \union {NoConversation}]
  /\ pc \in [Turns -> PCs]
  /\ cause \in [Turns -> Causes]
  /\ hist \in [Turns -> Seq(Turns)]
  /\ todo \in [Turns -> SUBSET Turns]
  /\ branch \in [Turns -> {"none", "reset", "repair"}]
  /\ seen \in [Turns -> Observations]

Init ==
  /\ active = {}
  /\ created = {}
  /\ audit = [t \in Turns |-> "none"]
  /\ row = [t \in Turns |-> 0]
  /\ txn = [c \in Conversations |-> Free]
  /\ ckpt = [c \in Conversations |-> NoCheckpoint]
  /\ conv = [t \in Turns |-> NoConversation]
  /\ pc = [t \in Turns |-> "idle"]
  /\ cause = [t \in Turns |-> "none"]
  /\ hist = [t \in Turns |-> <<>>]
  /\ todo = [t \in Turns |-> {}]
  /\ branch = [t \in Turns |-> "none"]
  /\ seen = [t \in Turns |-> "none"]

-----------------------------------------------------------------------------
(* Control of one coroutine. *)

At(r, p) == pc[r] = p
Goto(r, p) == pc' = [pc EXCEPT ![r] = p]

\* An exception leaves the body: _finish runs next, with this status.
Leave(r, why) ==
  /\ Goto(r, "closing")
  /\ cause' = [cause EXCEPT ![r] = why]

\* Continue at p if the awaited call did what was asked, else raise.
Resume(r, ok, p) ==
  \/ /\ ok
     /\ Goto(r, p)
     /\ UNCHANGED cause
  \/ /\ ~ok
     /\ Leave(r, "failed")

\* The client has gone, or is still there to be told what happened.
Tell(r, what) ==
  seen' = [seen EXCEPT ![r] = IF @ = "gone" THEN "gone" ELSE what]

-----------------------------------------------------------------------------
(* SessionGuard *)

Admit(r, c) ==
  /\ c \notin active
  /\ Cardinality(active) < MaxActive
  /\ active' = active \union {c}
  /\ conv' = [conv EXCEPT ![r] = c]

\* No session_id in the request: prepare draws a fresh conversation id.
PrepareNew(r, c) ==
  /\ At(r, "idle")
  /\ c \notin created
  /\ \A u \in Turns : conv[u] # c
  /\ Admit(r, c)
  /\ Goto(r, "create")
  /\ UNCHANGED <<mysql, ckpt, cause, reconciling, seen>>

\* A session_id in the request, of any conversation, known or not.
PrepareExisting(r, c) ==
  /\ At(r, "idle")
  /\ Admit(r, c)
  /\ Goto(r, "recover")
  /\ UNCHANGED <<mysql, ckpt, cause, reconciling, seen>>

\* Mutant: the finally block releases a seat that was never acquired.
RefuseReleases(r, c) ==
  /\ At(r, "idle")
  /\ c \in active \/ Cardinality(active) >= MaxActive
  /\ active' = active \ {c}
  /\ Goto(r, "over")
  /\ seen' = [seen EXCEPT ![r] = "refused"]
  /\ UNCHANGED <<mysql, ckpt, conv, cause, reconciling>>

\* SESSION_BUSY and SESSION_CAPACITY: nothing was acquired.
Refuse(r, c) ==
  /\ At(r, "idle")
  /\ c \in active \/ Cardinality(active) >= MaxActive
  /\ Goto(r, "over")
  /\ seen' = [seen EXCEPT ![r] = "refused"]
  /\ UNCHANGED <<active, mysql, ckpt, conv, cause, reconciling>>

\* The locals of the coroutines that end go with them.
Forget(R) ==
  /\ cause' = [r \in Turns |-> IF r \in R THEN "none" ELSE cause[r]]
  /\ hist' = [r \in Turns |-> IF r \in R THEN <<>> ELSE hist[r]]
  /\ todo' = [r \in Turns |-> IF r \in R THEN {} ELSE todo[r]]
  /\ branch' = [r \in Turns |-> IF r \in R THEN "none" ELSE branch[r]]

\* The last finally of prepare.
Release(r) ==
  /\ At(r, "release")
  /\ active' = active \ {conv[r]}
  /\ Goto(r, "over")
  /\ Forget({r})
  /\ UNCHANGED <<mysql, ckpt, conv, seen>>

-----------------------------------------------------------------------------
(* ConversationRepository on the MySQL server.  A writer takes the owner   *)
(* row lock, checks the rows under it, and sends COMMIT; what the server   *)
(* does with the COMMIT and whether the client hears of it are separate.   *)

Begin(r, t, to) ==
  txn' = [txn EXCEPT ![conv[r]] = [turn |-> t, to |-> to, by |-> r]]

\* Mutant: finish_turn overwrites rows that are no longer pending.
FinishAnyway(r, t, to, p, q) ==
  /\ LockFree(r)
  /\ Begin(r, t, to)
  /\ Goto(r, p)
  /\ UNCHANGED cause

\* finish_turn under the row lock: write, accept an equal event, or raise.
\* p is where the acknowledgement is awaited, q where an equal event leads.
FinishTurn(r, t, to, p, q) ==
  /\ LockFree(r)
  /\ \/ /\ audit[t] = "pending"
        /\ Begin(r, t, to)
        /\ Goto(r, p)
        /\ UNCHANGED cause
     \/ /\ audit[t] # "pending"
        /\ Resume(r, audit[t] = to, q)
        /\ UNCHANGED txn

Commit(c) ==
  LET x == txn[c] IN
  /\ x # Free
  /\ audit' = [audit EXCEPT ![x.turn] = x.to]
  /\ row' = IF audit[x.turn] = "none"
            THEN [row EXCEPT ![x.turn] = Cardinality(RowsOf(c)) + 1]
            ELSE row
  /\ txn' = [txn EXCEPT ![c] = Free]
  /\ UNCHANGED <<active, created, ckpt, conv, pc, cause, reconciling, seen>>

Rollback(c) ==
  /\ txn[c] # Free
  /\ txn' = [txn EXCEPT ![c] = Free]
  /\ UNCHANGED <<active, created, audit, row, ckpt,
                 conv, pc, cause, reconciling, seen>>

\* The connection is lost, or terminated by the cancelled task, with the
\* COMMIT on its way: the server decides alone.
Disown(c) ==
  /\ txn[c].by \in Turns
  /\ txn' = [txn EXCEPT ![c].by = Server]
  /\ UNCHANGED <<active, created, audit, row, ckpt,
                 conv, pc, cause, reconciling, seen>>

-----------------------------------------------------------------------------
(* prepare: create or recover, choose the window, open the turn. *)

Create(r) ==
  /\ At(r, "create")
  /\ created' = created \union {conv[r]}
  /\ Goto(r, "start")
  /\ UNCHANGED <<active, audit, row, txn, ckpt, conv, cause, reconciling, seen>>

\* Mutant: recovery allows only prior_ids.
PermittedPrior(c) == ckpt[c].history

\* prior_ids and the turn id that recovery may find committed but not saved
Current(c) == ckpt[c].turn
CurrentCompleted(c) == audit[Current(c)] = "completed"
Permitted(c) ==
  IF CurrentCompleted(c) /\ ~Has(ckpt[c].history, Current(c))
  THEN Append(ckpt[c].history, Current(c))
  ELSE ckpt[c].history

IsTail(s, e) == Len(s) <= Len(e) /\ LastOf(e, Len(s)) = s
EndsWith(s, t) == s # <<>> /\ s[Len(s)] = t

Repaired(c) ==
  [turn |-> Current(c), status |-> "completed", answered |-> TRUE,
   history |-> Permitted(c), tasks |-> FALSE]
Reset(c) ==
  [turn |-> Current(c), status |-> "cancelled", answered |-> FALSE,
   history |-> ckpt[c].history, tasks |-> FALSE]

Settled(c) == ckpt[c].status = "completed" /\ ~ckpt[c].tasks

\* verify_completed_turn, applied to a checkpoint k and the audit of t
Verified(k, t) ==
  /\ k.status = "completed" /\ ~k.tasks /\ k.turn = t
  /\ audit[t] = "completed"
  /\ EndsWith(k.history, t)

\* WORKFLOW_RECOVERY_CONFLICT: e is the history MySQL holds
Conflict(c, e) ==
  \/ Current(c) \notin RowsOf(c)
  \/ \E i \in 1..Len(ckpt[c].history) : ckpt[c].history[i] \notin CompletedOf(c)
  \/ Permitted(c) # <<>> /\ ~IsTail(Permitted(c), e)
  \/ Permitted(c) = <<>> /\ e # <<>>
  \/ CurrentCompleted(c) /\ Settled(c) /\ ~Verified(ckpt[c], Current(c))
  \/ CurrentCompleted(c) /\ ~Settled(c)
       /\ \/ ~ckpt[c].answered
          \/ ~Verified(Repaired(c), Current(c))
          \/ /\ ckpt[c].status = "completed"
             /\ ~Verified([ckpt[c] EXCEPT !.tasks = FALSE], Current(c))
  \/ ~CurrentCompleted(c) /\ ckpt[c].status = "completed"

Plan(r, p, b, h) ==
  /\ Goto(r, p)
  /\ branch' = [branch EXCEPT ![r] = b]
  /\ hist' = [hist EXCEPT ![r] = h]
  /\ todo' = [todo EXCEPT ![r] = PendingOf(conv[r])]
  /\ UNCHANGED cause

\* recover_conversation up to its first write.  It reads MySQL in several
\* transactions, but each turn's status once, and at most one transaction of the
\* conversation is in flight: it sees the state before or after that COMMIT.
Recover(r) ==
  LET c == conv[r] IN
  /\ At(r, "recover")
  /\ \/ /\ c \notin created
        /\ Leave(r, "failed")
        /\ UNCHANGED reconciling
     \/ /\ c \in created
        /\ Current(c) = NoTurn
        /\ \E e \in Listings(c) : Plan(r, "settle", "none", e)
     \/ /\ c \in created
        /\ Current(c) # NoTurn
        /\ \E e \in Listings(c) : Conflict(c, e)
        /\ Leave(r, "conflict")
        /\ UNCHANGED reconciling
     \/ /\ c \in created
        /\ Current(c) # NoTurn
        /\ \E e \in Listings(c) : ~Conflict(c, e)
        /\ \/ /\ CurrentCompleted(c) /\ Settled(c)
              /\ Plan(r, "settle", "none", ckpt[c].history)
           \/ /\ CurrentCompleted(c) /\ ~Settled(c)
              /\ Plan(r, "update", "repair", Permitted(c))
           \/ /\ ~CurrentCompleted(c)
              /\ Plan(r, "settle", "reset", ckpt[c].history)
  /\ UNCHANGED <<active, mysql, ckpt, conv, seen>>

\* The pending turns are cancelled in row order.
IsNext(r, t) == t \in todo[r] /\ \A u \in todo[r] : row[t] <= row[u]

Settle(r) ==
  /\ At(r, "settle")
  /\ \E t \in Turns :
       /\ IsNext(r, t)
       /\ FinishTurn(r, t, "interrupted", "settling", "settle")
       /\ todo' = [todo EXCEPT ![r] =
                     IF audit[t] = "interrupted" THEN @ \ {t} ELSE @]
  /\ UNCHANGED <<active, created, audit, row, ckpt, conv, hist, branch, seen>>

SettleAck(r) ==
  /\ At(r, "settling")
  /\ ~Owns(r)
  /\ \E t \in Turns :
       /\ IsNext(r, t)
       /\ Resume(r, audit[t] = "interrupted", "settle")
       /\ todo' = [todo EXCEPT ![r] = @ \ {t}]
  /\ UNCHANGED <<active, mysql, ckpt, conv, hist, branch, seen>>

SettleDone(r) ==
  /\ At(r, "settle")
  /\ todo[r] = {}
  /\ Goto(r, IF branch[r] = "reset" /\ ckpt[conv[r]] # Reset(conv[r])
             THEN "update" ELSE "window")
  /\ UNCHANGED <<active, mysql, ckpt, conv, cause, reconciling, seen>>

\* aupdate_state(..., as_node='persist')
Update(r) ==
  LET c == conv[r] IN
  /\ At(r, "update")
  /\ \/ /\ branch[r] = "reset"
        /\ ckpt' = [ckpt EXCEPT ![c] = Reset(c)]
        /\ Goto(r, "window")
     \/ /\ branch[r] = "repair"
        /\ ckpt' = [ckpt EXCEPT ![c] = Repaired(c)]
        /\ Goto(r, "settle")
  /\ UNCHANGED <<active, mysql, conv, cause, reconciling, seen>>

\* Mutant: the slice keeps the oldest turns.
WindowOldest(r) ==
  /\ At(r, "window")
  /\ \E k \in Fits :
       hist' = [hist EXCEPT ![r] =
                  SubSeq(@, 1, IF Len(@) < MaxHistory THEN Len(@) ELSE MaxHistory)]
  /\ Goto(r, "start")
  /\ UNCHANGED <<active, mysql, ckpt, conv, cause, todo, branch, seen>>

\* history[-max_history_turns:], then build_tool_context drops the oldest
\* turns until the request fits the token window.
Window(r) ==
  /\ At(r, "window")
  /\ \E k \in Fits :
       hist' = [hist EXCEPT ![r] = LastOf(LastOf(@, MaxHistory), k)]
  /\ Goto(r, "start")
  /\ UNCHANGED <<active, mysql, ckpt, conv, cause, todo, branch, seen>>

\* start_turn
Start(r) ==
  /\ At(r, "start")
  /\ LockFree(r)
  /\ Begin(r, r, "pending")
  /\ Goto(r, "starting")
  /\ UNCHANGED <<active, created, audit, row, ckpt, conv, cause, reconciling, seen>>

StartAck(r) ==
  /\ At(r, "starting")
  /\ ~Owns(r)
  /\ Resume(r, audit[r] = "pending", "opened")
  /\ UNCHANGED <<active, mysql, ckpt, conv, reconciling, seen>>

-----------------------------------------------------------------------------
(* stream: the graph run, saved with durability='sync'. *)

\* The meta event.
Stream(r) ==
  /\ At(r, "opened")
  /\ Tell(r, "open")
  /\ Goto(r, "input")
  /\ UNCHANGED <<active, mysql, ckpt, conv, cause, reconciling>>

Save(r, k) == ckpt' = [ckpt EXCEPT ![conv[r]] = k]

\* The input checkpoint: the old values, with the entry task pending.
Input(r) ==
  /\ At(r, "input")
  /\ Save(r, [ckpt[conv[r]] EXCEPT !.tasks = TRUE])
  /\ Goto(r, "fresh")
  /\ UNCHANGED <<active, mysql, conv, cause, reconciling, seen>>

\* The entry task has written fresh_state.
Fresh(r) ==
  /\ At(r, "fresh")
  /\ Save(r, [turn |-> r, status |-> "pending", answered |-> FALSE,
              history |-> hist[r], tasks |-> TRUE])
  /\ Goto(r, "work")
  /\ UNCHANGED <<active, mysql, conv, cause, reconciling, seen>>

\* resolve ... the node that settles the answer, up to the checkpoint whose
\* next task is persist.
Work(r) ==
  /\ At(r, "work")
  /\ Save(r, [ckpt[conv[r]] EXCEPT !.answered = TRUE])
  /\ Goto(r, "persist")
  /\ UNCHANGED <<active, mysql, conv, cause, reconciling, seen>>

\* The persist node closes the audit first ...
Persist(r) ==
  /\ At(r, "persist")
  /\ FinishTurn(r, r, "completed", "persisting", "saveWrites")
  /\ UNCHANGED <<active, created, audit, row, ckpt, conv, reconciling, seen>>

\* Mutant: persist goes on although finish_turn raised.
PersistUnchecked(r) ==
  /\ At(r, "persisting")
  /\ ~Owns(r)
  /\ Goto(r, "saveWrites")
  /\ UNCHANGED <<active, mysql, ckpt, conv, cause, reconciling, seen>>

PersistAck(r) ==
  /\ At(r, "persisting")
  /\ ~Owns(r)
  /\ Resume(r, audit[r] = "completed", "saveWrites")
  /\ UNCHANGED <<active, mysql, ckpt, conv, reconciling, seen>>

\* ... then its writes are saved, visible in a snapshot that still has tasks,
SaveWrites(r) ==
  /\ At(r, "saveWrites")
  /\ Save(r, [ckpt[conv[r]] EXCEPT
                !.status = "completed",
                !.history = LastOf(Append(@, r), MaxHistory)])
  /\ Goto(r, "saveFinal")
  /\ UNCHANGED <<active, mysql, conv, cause, reconciling, seen>>

\* ... and the last checkpoint has none.
SaveFinal(r) ==
  /\ At(r, "saveFinal")
  /\ Save(r, [ckpt[conv[r]] EXCEPT !.tasks = FALSE])
  /\ Goto(r, "ended")
  /\ UNCHANGED <<active, mysql, conv, cause, reconciling, seen>>

\* The stream is exhausted and calls _finish.
End(r) ==
  /\ At(r, "ended")
  /\ Leave(r, "complete")
  /\ UNCHANGED <<active, mysql, ckpt, conv, reconciling, seen>>

-----------------------------------------------------------------------------
(* _finish: one shielded cleanup task. *)

\* Mutant: _finish does not wait for the physical operations of the turn.
DrainNothing(r) ==
  /\ At(r, "closing")
  /\ Goto(r, "audit")
  /\ UNCHANGED <<active, mysql, ckpt, conv, cause, reconciling, seen>>

\* drain() returns once no physical operation of the turn is left.
Drain(r) ==
  /\ At(r, "closing")
  /\ ~Owns(r)
  /\ Goto(r, "audit")
  /\ UNCHANGED <<active, mysql, ckpt, conv, cause, reconciling, seen>>

\* Mutant: done is sent for every turn whose audit is completed.
AuditReadTrusting(r) ==
  /\ At(r, "audit")
  /\ \/ /\ audit[r] = "pending"
        /\ Goto(r, "cleanup")
        /\ UNCHANGED seen
     \/ /\ audit[r] # "pending"
        /\ Tell(r, IF audit[r] = "completed" THEN "done" ELSE "error")
        /\ Goto(r, "release")
  /\ UNCHANGED <<active, mysql, ckpt, conv, cause, reconciling>>

\* get_turn; a turn that is not pending needs no audit.  done is sent only
\* when the graph ended and both stores are verified.
AuditRead(r) ==
  /\ At(r, "audit")
  /\ \/ /\ audit[r] = "pending"
        /\ Goto(r, "cleanup")
        /\ UNCHANGED seen
     \/ /\ audit[r] # "pending"
        /\ Tell(r, IF cause[r] = "complete" /\ Verified(ckpt[conv[r]], r)
                   THEN "done" ELSE "error")
        /\ Goto(r, "release")
  /\ UNCHANGED <<active, mysql, ckpt, conv, cause, reconciling>>

FinalStatus(r) == IF cause[r] = "cancelled" THEN "cancelled" ELSE "failed"

\* Mutants: the cleanup closes the audit whatever its status is by now, or
\* tries until it has written it.
CleanupAnyway(r) ==
  /\ At(r, "cleanup")
  /\ LockFree(r)
  /\ Begin(r, r, FinalStatus(r))
  /\ Goto(r, "cleaning")
  /\ UNCHANGED <<active, created, audit, row, ckpt, conv, cause, reconciling, seen>>
CleanupInsists(r) ==
  /\ At(r, "cleanup")
  /\ LockFree(r)
  /\ audit[r] = "pending"
  /\ Begin(r, r, FinalStatus(r))
  /\ Goto(r, "cleaning")
  /\ UNCHANGED <<active, created, audit, row, ckpt, conv, cause, reconciling, seen>>

\* finish_turn of the cleanup.  Whatever its outcome the client is told of an
\* error: the audit that verification would use was read as pending.
Cleanup(r) ==
  /\ At(r, "cleanup")
  /\ LockFree(r)
  /\ \/ /\ audit[r] = "pending"
        /\ Begin(r, r, FinalStatus(r))
        /\ Goto(r, "cleaning")
        /\ UNCHANGED seen
     \/ /\ audit[r] # "pending"
        /\ Tell(r, "error")
        /\ Goto(r, "release")
        /\ UNCHANGED txn
  /\ UNCHANGED <<active, created, audit, row, ckpt, conv, cause, reconciling>>

CleanupAck(r) ==
  /\ At(r, "cleaning")
  /\ ~Owns(r)
  /\ Tell(r, "error")
  /\ Goto(r, "release")
  /\ UNCHANGED <<active, mysql, ckpt, conv, cause, reconciling>>

\* The cleanup task raises: an iterator failed to close, or a store did not
\* answer.  A pending turn is left to the next recovery.
CleanupFails(r) ==
  /\ pc[r] \in {"audit", "cleanup"}
  /\ Tell(r, "error")
  /\ Goto(r, "release")
  /\ UNCHANGED <<active, mysql, ckpt, conv, cause, reconciling>>

-----------------------------------------------------------------------------
(* What may happen to a request or to the process at any await. *)

\* The deadline passes, or a node, a tool or a store raises.
Fail(r) ==
  /\ pc[r] \in Working
  /\ Leave(r, "failed")
  /\ UNCHANGED <<active, mysql, ckpt, conv, reconciling, seen>>

\* The client disconnects: before the cleanup it interrupts the request, from
\* then on it only means that nobody reads the last event.
Disconnect(r) ==
  /\ seen[r] \in {"none", "open"}
  /\ \/ pc[r] \in Working /\ Leave(r, "cancelled")
     \/ pc[r] \in Finishing /\ UNCHANGED <<pc, cause>>
  /\ seen' = [seen EXCEPT ![r] = "gone"]
  /\ UNCHANGED <<active, mysql, ckpt, conv, reconciling>>

\* The process dies: guard and coroutines are lost, the stores remain, and
\* an open transaction is left to the server.
Crash ==
  /\ \E r \in Turns : pc[r] \in Live
  /\ Forget({r \in Turns : pc[r] \in Live})
  /\ active' = {}
  /\ pc' = [r \in Turns |-> IF pc[r] \in Live THEN "dead" ELSE pc[r]]
  /\ seen' = [r \in Turns |->
                IF pc[r] \in Live /\ seen[r] \in {"none", "open"}
                THEN "gone" ELSE seen[r]]
  /\ txn' = [c \in Conversations |->
               IF txn[c].by \in Turns THEN [txn[c] EXCEPT !.by = Server]
               ELSE txn[c]]
  /\ UNCHANGED <<created, audit, row, ckpt, conv>>

-----------------------------------------------------------------------------
Arrive(r) ==
  \E c \in Conversations : PrepareNew(r, c) \/ PrepareExisting(r, c) \/ Refuse(r, c)

\* What the request's own coroutine does next.
Step(r) ==
  \/ Create(r) \/ Recover(r) \/ Settle(r) \/ SettleAck(r) \/ SettleDone(r)
  \/ Update(r) \/ Window(r) \/ Start(r) \/ StartAck(r)
  \/ Stream(r) \/ Input(r) \/ Fresh(r) \/ Work(r) \/ Persist(r) \/ PersistAck(r)
  \/ SaveWrites(r) \/ SaveFinal(r) \/ End(r)
  \/ Drain(r) \/ AuditRead(r) \/ Cleanup(r) \/ CleanupAck(r) \/ Release(r)

Resolve(c) == Commit(c) \/ Rollback(c)

Next ==
  \/ \E r \in Turns :
       Arrive(r) \/ Step(r) \/ Fail(r) \/ CleanupFails(r) \/ Disconnect(r)
  \/ \E c \in Conversations : Resolve(c) \/ Disown(c)
  \/ Crash

Spec == Init /\ [][Next]_vars

\* A coroutine that can run does so or is ended by its deadline, and the
\* server decides every transaction.  Nothing makes clients arrive.
Fairness ==
  /\ \A r \in Turns : WF_vars(Step(r) \/ Fail(r))
  /\ \A c \in Conversations : WF_vars(Resolve(c))
FairSpec == Spec /\ Fairness

-----------------------------------------------------------------------------
(* Properties *)

\* The guard holds exactly the conversations of the live requests, and no two
\* live requests share one: no path out of prepare leaks a seat or frees the
\* seat of another request (sessions.py, prepare's finally blocks).
SeatAccounting ==
  /\ active = {conv[r] : r \in {s \in Turns : pc[s] \in Live}}
  /\ \A r, s \in Turns :
       pc[r] \in Live /\ pc[s] \in Live /\ conv[r] = conv[s] => r = s

\* A transaction still owned by a request runs under that request's guard:
\* the guard outlives the physical work (drain before release).
WritesUnderGuard ==
  \A c \in Conversations : txn[c].by \in Turns =>
    conv[txn[c].by] = c /\ c \in active /\ pc[txn[c].by] \in Live

\* done was sent only for a turn committed in MySQL and, at that moment,
\* saved as completed by the graph with the turn last in its history.
DoneIsDurable ==
  \A r \in Turns : seen[r] = "done" =>
    /\ audit[r] = "completed"
    /\ pc[r] = "release" => Verified(ckpt[conv[r]], r)

\* The checkpoint never runs ahead of the audit: what it calls completed and
\* what it offers as history is committed in MySQL (persist commits first).
CheckpointNeverAhead ==
  \A c \in Conversations :
    /\ ckpt[c].status = "completed" => audit[Current(c)] = "completed"
    /\ \A i \in 1..Len(ckpt[c].history) : ckpt[c].history[i] \in CompletedOf(c)

\* History, with the turn a repair would add, is the end of the conversation's
\* committed turns in order: no crash, retry or late COMMIT leaves a gap.
CheckpointIsTail ==
  \A c \in Conversations : Current(c) # NoTurn =>
    \A e \in Listings(c) : IsTail(Permitted(c), e)

\* A committed turn that the checkpoint still calls unfinished can be repaired
\* without running it again: its answer was saved before the COMMIT.
RepairIsPossible ==
  \A c \in Conversations :
    Current(c) # NoTurn /\ CurrentCompleted(c) => ckpt[c].answered

\* A model never gets more than max_history_turns turns of history; a repaired
\* checkpoint may hold one more than that, because repair does not trim.
HistoryBounded ==
  /\ \A r \in Turns :
       pc[r] \in {"start", "starting", "opened", "input", "fresh"} =>
         Len(hist[r]) <= MaxHistory
  /\ \A c \in Conversations : Len(ckpt[c].history) <= MaxHistory + 1

\* When a request is about to start the graph, the only other turns still
\* pending are ones the graph never saw (a start_turn whose COMMIT took effect
\* after its request had gone): recovery settled the rest.
RecoverySettles ==
  \A r, t \in Turns :
    /\ pc[r] \in {"start", "starting", "opened", "input"}
    /\ t # r /\ conv[t] = conv[r] /\ audit[t] = "pending"
    => Current(conv[r]) # t

\* Recovery accepts every state the program itself can leave behind.
RecoveryAccepts == \A r \in Turns : cause[r] # "conflict"

\* It refuses only one kind of them: the token window left the checkpoint no
\* history although MySQL has completed turns.  Every other pair of stores is
\* recovered, whatever was lost, late or cut (recovery.py compares the ends of
\* the two histories).
RefusesOnlyEmptied ==
  \A r \in Turns : cause[r] = "conflict" =>
    ckpt[conv[r]].history = <<>> /\ CompletedOf(conv[r]) # {}

\* A turn that has ended in MySQL keeps its status (finish_turn refuses rows
\* that are not pending), whatever commits late.
TerminalIsFinal ==
  [][\A t \in Turns : audit[t] \in Terminal => audit'[t] = audit[t]]_vars

\* Every admitted request gives its seat back, although the stores may be
\* slow, commits may be lost and the client may vanish.
SeatIsReturned == \A r \in Turns : pc[r] \in Live ~> pc[r] \notin Live

\* What the next model request gets as history, and what a repair would add to
\* it, is the bounded end of the committed turns.
HistoryIsTail == CheckpointIsTail /\ HistoryBounded

\* The next request heals whatever the last ones left in the two stores, but
\* for an emptied history (recover_conversation).
RecoveryHeals == RepairIsPossible /\ RecoverySettles /\ RefusesOnlyEmptied

-----------------------------------------------------------------------------
(* What a conversation promises its readers, whatever the stores do. *)
Promise == INSTANCE ConversationLog WITH
  log    <- [c \in Conversations |-> CHOOSE h \in Listings(c) : TRUE],
  open   <- {t \in Turns : audit[t] = "pending"},
  closed <- {t \in Turns : audit[t] \in Terminal \ {"completed"}},
  told   <- {t \in Turns : seen[t] = "done"}
PromiseSpec == Promise!Spec
=============================================================================
