------------------------------ MODULE LegacyTurn -------------------------------
(***************************************************************************)
(* A turn of the earlier ChatService under the SSE transport: prepare and  *)
(* stream run one bounded operation after another, and _cleanup has one    *)
(* second to settle what was interrupted before the guard is released.     *)
(* All turns are of one conversation; the transport gives the closing of   *)
(* the stream 1.1 seconds.  Timers may fire late, in any order.            *)
(* A COMMIT lives as long as its task: that the server may still make one  *)
(* whose task has ended is in WorkflowTurn (Disown) and not here.          *)
(***************************************************************************)
EXTENDS Naturals, FiniteSets

CONSTANTS
  Crowds,  \* bound: the sets of requests of which one comes to the conversation
  Kinds    \* what the model may choose, of {"answer", "tool", "knowledge"}

Turns == UNION Crowds

VARIABLES
  crowd,     \* the requests that come; chosen at the start
  conv,      \* MySQL: the conversation exists
  rows,      \* MySQL: event keys of each turn's rows
  status,    \* MySQL: turn_status of its rows
  recorded,  \* MySQL: turns in low_confidence_questions
  pc,        \* turn: the step its coroutine is at
  kind,      \* turn: what the model chose: "answer", "tool", "knowledge"
  verdict,   \* turn: what the tool found
  op,        \* turn: its physical operation of bounded(): its state
  what,      \* turn: the step that operation belongs to
  applied,   \* turn: that operation has committed
  fin,       \* turn: the finish_turn of its cleanup
  ending,    \* turn: the status its cleanup is to save
  iters,     \* turn: its iterators are not closed yet
  flags,     \* turn: "started", "finalized", "interrupted", "gaveUp", "left"
  out        \* turn: the last event its client was sent

mysql == <<crowd, conv, rows, status, recorded>>
choice == <<kind, verdict>>
work == <<op, what, applied>>
legacy == <<crowd, conv, rows, status, recorded, pc, kind, verdict, op, what, applied,
          fin, ending, iters, flags, out>>

Preparing == {"load", "create", "start"}
Streaming == {"select", "call", "tool", "record", "result", "reply", "finish", "refuse"}
Steps == Preparing \union Streaming
Mutations == {"create", "start", "call", "record", "result", "finish", "refuse"}
Holding == Steps \union {"fail", "told", "cleanup", "ended"}
Terminal == {"completed", "failed", "cancelled"}
Set(f, t, v) == [f EXCEPT ![t] = v]
Flag(t, f) == flags' = [flags EXCEPT ![t] = @ \union {f}]

\* Bound: a turn that shares its conversation is answered without a tool.
Choices == IF Cardinality(crowd) = 1 THEN Kinds ELSE Kinds \intersect {"answer"}

LegacyTypeOK ==
  /\ crowd \in Crowds
  /\ conv \in BOOLEAN
  /\ rows \in [Turns -> SUBSET {"user", "call", "result", "final"}]
  /\ status \in [Turns -> {"none", "pending"} \union Terminal]
  /\ recorded \subseteq Turns
  /\ pc \in [Turns -> Holding \union {"idle", "busy", "over"}]
  /\ kind \in [Turns -> Kinds \union {"answer"}]
  /\ verdict \in [Turns -> {"none", "found", "refused", "failed"}]
  /\ op \in [Turns -> {"none", "running", "cancelled"}]
  /\ what \in [Turns -> Steps]
  /\ applied \in [Turns -> BOOLEAN]
  /\ fin \in [Turns -> {"none", "running", "cancelled", "ended"}]
  /\ ending \in [Turns -> {"failed", "cancelled"}]
  /\ iters \subseteq Turns
  /\ flags \in [Turns -> SUBSET {"started", "finalized", "interrupted", "gaveUp", "left"}]
  /\ out \in [Turns -> {"none", "meta", "done", "refusal", "error"}]
  \* final is the last row, and rows end together
  /\ \A t \in Turns : ("final" \in rows[t]) = (status[t] \in Terminal)

LegacyInit ==
  /\ crowd \in Crowds
  /\ conv \in BOOLEAN
  /\ rows = [t \in Turns |-> {}]
  /\ status = [t \in Turns |-> "none"]
  /\ recorded = {}
  /\ pc = [t \in Turns |-> "idle"]
  /\ kind = [t \in Turns |-> "answer"]
  /\ verdict = [t \in Turns |-> "none"]
  /\ op = [t \in Turns |-> "none"]
  /\ what = [t \in Turns |-> "load"]
  /\ applied = [t \in Turns |-> FALSE]
  /\ fin = [t \in Turns |-> "none"]
  /\ ending = [t \in Turns |-> "cancelled"]
  /\ iters = {}
  /\ flags = [t \in Turns |-> {}]
  /\ out = [t \in Turns |-> "none"]

\* The guard holds the conversation of a live request.
Busy == \E t \in Turns : pc[t] \in Holding

-----------------------------------------------------------------------------
(* The database: ConversationRepository's keyed writes.                    *)

Complete(t) == rows[t] \in {{"user"}, {"user", "call", "result"}}

\* What a write of a step finds acceptable.
Valid(t, s) ==
  CASE s = "create" -> TRUE
    [] s = "start" -> conv /\ rows[t] = {}
    [] s = "call" -> rows[t] = {"user"} /\ status[t] = "pending"
    [] s = "result" -> rows[t] = {"user", "call"} /\ status[t] = "pending"
    [] s \in {"finish", "refuse"} -> Complete(t) /\ status[t] = "pending"
    [] s = "record" -> TRUE

Key(s) == CASE s = "start" -> {"user"} [] s = "call" -> {"call"}
            [] s = "result" -> {"result"} [] s \in {"finish", "refuse"} -> {"final"}
            [] OTHER -> {}

\* The operation's transaction commits, while it runs or while its
\* cancellation unwinds.
CommitOperation(t) ==
  LET s == what[t]
  IN  /\ op[t] # "none" /\ s \in Mutations /\ ~applied[t]
      /\ Valid(t, s)
      /\ applied' = Set(applied, t, TRUE)
      /\ conv' = (conv \/ s = "create")
      /\ rows' = Set(rows, t, rows[t] \union Key(s))
      /\ status' = CASE s = "start" -> Set(status, t, "pending")
                     [] s \in {"finish", "refuse"} -> Set(status, t, "completed")
                     [] OTHER -> status
      /\ recorded' = IF s = "record" THEN recorded \union {t} ELSE recorded
  /\ UNCHANGED <<crowd, pc, choice, op, what, fin, ending, iters, flags, out>>

CommitFinish(t) ==
  /\ fin[t] \in {"running", "cancelled"}
  /\ rows[t] # {} /\ status[t] = "pending"
  /\ rows' = Set(rows, t, rows[t] \union {"final"})
  /\ status' = Set(status, t, ending[t])
  /\ fin' = Set(fin, t, "ended")
  /\ UNCHANGED <<crowd, conv, recorded, pc, choice, work, ending, iters, flags, out>>

-----------------------------------------------------------------------------
(* prepare and stream.                                                     *)

Arrive(t) ==
  /\ t \in crowd /\ pc[t] = "idle"
  /\ IF Busy THEN pc' = Set(pc, t, "busy")
     ELSE \/ pc' = Set(pc, t, "load")
          \/ ~conv /\ pc' = Set(pc, t, "create")
  /\ UNCHANGED <<mysql, choice, work, fin, ending, iters, flags, out>>

Idle(t) == op[t] = "none"

\* bounded() starts the step's physical operation; a turn is started once
\* its first row may exist.  tool and reply track their iterator.
Launch(t) ==
  /\ pc[t] \in Steps /\ Idle(t) /\ "interrupted" \notin flags[t]
  /\ op' = Set(op, t, "running")
  /\ what' = Set(what, t, pc[t])
  /\ applied' = Set(applied, t, FALSE)
  /\ IF pc[t] = "start" THEN Flag(t, "started") ELSE UNCHANGED flags
  /\ iters' = IF pc[t] \in {"tool", "reply"} THEN iters \union {t} ELSE iters
  /\ UNCHANGED <<mysql, pc, choice, fin, ending, out>>

\* Where a step's success leads.
AfterResult(t) ==
  CASE kind[t] = "knowledge" /\ verdict[t] = "refused" -> "refuse"
    [] kind[t] = "knowledge" /\ verdict[t] = "failed" -> "fail"
    [] OTHER -> "reply"

After(t, s) ==
  CASE s \in {"load", "create"} -> "start"
    [] s = "start" -> "select"
    [] s = "select" -> IF kind'[t] = "answer" THEN "reply" ELSE "call"
    [] s = "call" -> "tool"
    [] s = "tool" -> IF kind[t] = "knowledge" /\ verdict'[t] = "refused"
                     THEN "record" ELSE "result"
    [] s = "record" -> "result"
    [] s = "result" -> AfterResult(t)
    [] s = "reply" -> "finish"
    [] s \in {"finish", "refuse"} -> "told"

\* The operation ends well and wakes its caller: a write has committed.
Succeed(t) ==
  LET s == pc[t]
  IN  /\ s \in Steps /\ op[t] = "running" /\ what[t] = s
      /\ s \in Mutations => applied[t]
      /\ s = "load" => conv
      /\ op' = Set(op, t, "none")
      /\ IF s = "select" THEN \E k \in Choices : kind' = Set(kind, t, k)
         ELSE UNCHANGED kind
      /\ IF s = "tool"
         THEN \E v \in {"found", "failed"} \union
                       (IF kind[t] = "knowledge" THEN {"refused"} ELSE {}) :
                verdict' = Set(verdict, t, v)
         ELSE UNCHANGED verdict
      /\ pc' = Set(pc, t, After(t, s))
      /\ CASE s = "start" -> out' = Set(out, t, "meta") /\ UNCHANGED flags
           [] s \in {"finish", "refuse"} -> Flag(t, "finalized") /\ UNCHANGED out
           [] OTHER -> UNCHANGED <<out, flags>>
  /\ UNCHANGED <<mysql, what, applied, fin, ending, iters>>

\* The operation raises, though its write may have committed.  A refusal
\* that cannot be recorded is the tool's failure.
Raise(t) ==
  /\ pc[t] \in Steps /\ op[t] = "running"
  /\ op' = Set(op, t, "none")
  /\ IF pc[t] = "record"
     THEN pc' = Set(pc, t, "result") /\ verdict' = Set(verdict, t, "failed")
     ELSE pc' = Set(pc, t, "fail") /\ UNCHANGED verdict
  /\ UNCHANGED <<mysql, kind, what, applied, fin, ending, iters, flags, out>>

\* The deadline passes: bounded cancels its operation and leaves it.
Timeout(t) ==
  /\ pc[t] \in Steps
  /\ op' = Set(op, t, IF op[t] = "running" THEN "cancelled" ELSE op[t])
  /\ pc' = Set(pc, t, "fail")
  /\ UNCHANGED <<mysql, choice, what, applied, fin, ending, iters, flags, out>>

\* The last answer event, after finish_turn was acknowledged.
Tell(t) ==
  /\ pc[t] = "told" /\ "interrupted" \notin flags[t]
  /\ out' = Set(out, t, IF verdict[t] = "refused" THEN "refusal" ELSE "done")
  /\ pc' = Set(pc, t, "cleanup")
  /\ UNCHANGED <<mysql, choice, work, fin, ending, iters, flags>>

FailTurn(t) ==
  /\ pc[t] = "fail"
  /\ ending' = Set(ending, t, "failed")
  /\ pc' = Set(pc, t, "cleanup")
  /\ UNCHANGED <<mysql, choice, work, fin, iters, flags, out>>

\* The client leaves, the transport's deadline passes or the request is
\* cancelled: the coroutine is cancelled where it is.
Interrupt(t) ==
  /\ pc[t] \in Steps \union {"fail", "told", "cleanup"}
  /\ "interrupted" \notin flags[t]
  /\ Flag(t, "interrupted")
  /\ op' = Set(op, t, IF op[t] = "running" THEN "cancelled" ELSE op[t])
  /\ pc' = Set(pc, t, "cleanup")
  /\ UNCHANGED <<mysql, choice, what, applied, fin, ending, iters, out>>

-----------------------------------------------------------------------------
(* _cleanup: two jobs under one second, then the guard.                    *)

\* An operation that was left ends whenever it does.
Unwind(t) ==
  /\ op[t] = "cancelled"
  /\ op' = Set(op, t, "none")
  /\ UNCHANGED <<mysql, pc, choice, what, applied, fin, ending, iters, flags, out>>

\* finish(): every mutation has settled.
Finish(t) ==
  /\ pc[t] = "cleanup" /\ "gaveUp" \notin flags[t]
  /\ "started" \in flags[t] /\ "finalized" \notin flags[t]
  /\ fin[t] = "none"
  /\ op[t] = "none" \/ what[t] \notin Mutations
  /\ fin' = Set(fin, t, "running")
  /\ UNCHANGED <<mysql, pc, choice, work, ending, iters, flags, out>>

FinishFails(t) ==
  /\ fin[t] \in {"running", "cancelled"}
  /\ fin' = Set(fin, t, "ended")
  /\ UNCHANGED <<mysql, pc, choice, work, ending, iters, flags, out>>

\* drain_and_close(): no iterator is closed under its anext.
CloseIterators(t) ==
  /\ pc[t] = "cleanup" /\ op[t] = "none" /\ t \in iters
  /\ iters' = iters \ {t}
  /\ UNCHANGED <<mysql, pc, choice, work, fin, ending, flags, out>>

\* Both jobs are done; a failure that nobody interrupted is told.
Settle(t) ==
  /\ pc[t] = "cleanup" /\ op[t] = "none" /\ t \notin iters
  /\ fin[t] = "ended" \/ "started" \notin flags[t] \/ "finalized" \in flags[t]
  /\ pc' = Set(pc, t, "ended")
  /\ out' = IF ending[t] = "failed" /\ "interrupted" \notin flags[t]
            THEN Set(out, t, "error") ELSE out
  /\ UNCHANGED <<mysql, choice, work, fin, ending, iters, flags>>

\* Mutant: the grace ends only if the turn was interrupted.
GiveUpInterrupted(t) ==
  /\ pc[t] = "cleanup" /\ "interrupted" \in flags[t]
  /\ Flag(t, "gaveUp")
  /\ fin' = Set(fin, t, IF fin[t] = "running" THEN "cancelled" ELSE fin[t])
  /\ pc' = Set(pc, t, "ended")
  /\ UNCHANGED <<mysql, choice, work, ending, iters, out>>

\* The second is over: both jobs are cancelled, and with them once more the
\* operation they wait for.
GiveUp(t) ==
  /\ pc[t] = "cleanup"
  /\ Flag(t, "gaveUp")
  /\ fin' = Set(fin, t, IF fin[t] = "running" THEN "cancelled" ELSE fin[t])
  /\ pc' = Set(pc, t, "ended")
  /\ out' = IF ending[t] = "failed" /\ "interrupted" \notin flags[t]
            THEN Set(out, t, "error") ELSE out
  /\ UNCHANGED <<mysql, choice, work, ending, iters>>

\* The transport gives up first: the request ends under the cleanup.
Leave(t) ==
  /\ pc[t] = "cleanup" /\ "interrupted" \in flags[t] /\ what[t] \in Streaming
  /\ Flag(t, "left")
  /\ UNCHANGED <<mysql, pc, choice, work, fin, ending, iters, out>>

\* Mutant: the request releases the guard without looking at the cleanup.
ReleaseAtOnce(t) ==
  /\ pc[t] \in {"cleanup", "ended"}
  /\ pc' = Set(pc, t, "over")
  /\ UNCHANGED <<mysql, choice, work, fin, ending, iters, flags, out>>

\* prepare's finally: _cleanup has been started, the guard is released.  The
\* request's own state goes with it.
Release(t) ==
  /\ pc[t] = "ended" \/ (pc[t] = "cleanup" /\ "left" \in flags[t])
  /\ pc' = Set(pc, t, "over")
  /\ kind' = Set(kind, t, "answer")
  /\ verdict' = Set(verdict, t, "none")
  /\ what' = Set(what, t, IF op[t] = "none" THEN "load" ELSE what[t])
  /\ applied' = Set(applied, t, op[t] # "none" /\ applied[t])
  /\ flags' = Set(flags, t, flags[t] \intersect {"gaveUp", "left"})
  /\ UNCHANGED <<mysql, op, fin, ending, iters, out>>

Step(t) == Launch(t) \/ Succeed(t) \/ Raise(t) \/ Tell(t) \/ FailTurn(t)
LegacyNext ==
  \E t \in Turns :
    \/ Arrive(t) \/ Step(t) \/ Timeout(t) \/ Interrupt(t)
    \/ CommitOperation(t) \/ CommitFinish(t) \/ Unwind(t)
    \/ Finish(t) \/ FinishFails(t) \/ CloseIterators(t) \/ Settle(t)
    \/ GiveUp(t) \/ Leave(t) \/ Release(t)

LegacySpec == LegacyInit /\ [][LegacyNext]_legacy

\* Only timers and ready coroutines are fair: no operation need ever end.
Fairness ==
  \A t \in Turns : WF_legacy(Timeout(t)) /\ WF_legacy(Tell(t)) /\ WF_legacy(FailTurn(t))
                   /\ WF_legacy(GiveUp(t)) /\ WF_legacy(Release(t))
FairLegacySpec == LegacySpec /\ Fairness

-----------------------------------------------------------------------------
(* Properties.                                                             *)

\* Writes of a turn that may still commit.
InFlight(t) ==
  (IF op[t] # "none" /\ what[t] \in Mutations THEN {what[t]} ELSE {})
  \union (IF fin[t] \in {"running", "cancelled"} THEN {"cleanup"} ELSE {})

\* The cleanup's finish never competes with a write of the turn that is
\* still unwinding, not even after the grace: at most one may commit.
OneWriteAtATime == \A t \in Turns : Cardinality(InFlight(t)) <= 1

\* done and refusal are sent only for a turn that is completed with a
\* complete audit, and a refusal only once it has been recorded.
AnswerIsDurable ==
  \A t \in Turns : out[t] \in {"done", "refusal"} =>
    /\ status[t] = "completed"
    /\ "call" \in rows[t] <=> "result" \in rows[t]
    /\ out[t] = "refusal" => t \in recorded

\* A request whose cleanup was given its time leaves no task behind when the
\* guard is released: no write, no operation, no open iterator.  Of what
\* happens to tasks, only the two grace periods break this, and both are
\* remembered.
QuietUnlessGivenUp ==
  \A t \in Turns : pc[t] \in {"ended", "over"} /\ flags[t] \intersect {"gaveUp", "left"} = {} =>
    /\ op[t] = "none" /\ t \notin iters /\ InFlight(t) = {}

\* No task of an earlier turn may write while a turn holds the conversation,
\* unless the earlier one was left at the end of a grace.
AloneUnlessGivenUp ==
  \A t, u \in Turns : t # u /\ pc[u] \in Holding /\ InFlight(t) # {} =>
    flags[t] \intersect {"gaveUp", "left"} # {}

\* What a turn saves and answers stays right when the grace runs out, and only
\* a grace that ran out leaves a task to the next turn.
LegacySafety ==
  /\ LegacyTypeOK /\ OneWriteAtATime /\ AnswerIsDurable
  /\ QuietUnlessGivenUp /\ AloneUnlessGivenUp

\* Whatever commits late, after a grace or from an operation that was left,
\* a turn that has ended keeps its status and gets no more rows.
EndIsFinal ==
  [][\A t \in Turns : status[t] \in Terminal =>
       status'[t] = status[t] /\ rows'[t] = rows[t]]_legacy

\* The conversation is free again although operations hang for ever: the
\* price of the grace that QuietUnlessGivenUp names.
GuardIsReturned == \A t \in Turns : pc[t] \in Holding ~> pc[t] = "over"

\* A turn ends once and for good, and its conversation is free again.
EndsForGood == EndIsFinal /\ GuardIsReturned
=============================================================================
