-------------------------------- MODULE ToolRun --------------------------------
(***************************************************************************)
(* One ToolExecutor.run: an async generator that announces an attempt,     *)
(* runs the tool as a task of its own, passes on its progress, retries     *)
(* what is temporary, and ends with one outcome.  The consumer takes its   *)
(* time between two steps, may be cancelled or may close the generator; a  *)
(* tool may ignore its cancellation, commit late, or hang until then.      *)
(***************************************************************************)
EXTENDS Naturals, FiniteSets

CONSTANTS
  Deadline,   \* the turn's deadline, in ticks
  Timeout,    \* timeout_seconds of one attempt
  Attempts,   \* max_attempts of the executor
  Capacity,   \* size of the progress queue
  Stages      \* bound: stages the knowledge tool reports

VARIABLES
  tool,      \* the called tool: "unknown", "query", "ticket", "query_faq"
  args,      \* its arguments: "none" (no object), "invalid", "valid"
  now,       \* time.monotonic(), up to one tick past the deadline
  pc,        \* where the generator is
  attempt,   \* the running attempt, 0 before the first
  task,      \* attempt: its invoke task
  res,       \* attempt: what the task ended with
  expired,   \* attempts whose time ran out
  start,     \* attempt: when its task was created
  due,       \* attempt_deadline
  emitted,   \* stages put into the progress queue
  taken,     \* stages taken from it
  tickets,   \* MySQL: ticket numbers that were inserted
  outcome,   \* the ToolOutcome: [status, code, attempt]
  hits       \* consumer: cancelled or closed the generator

call == <<tool, args>>
invoke == <<task, res, tickets>>
progress == <<emitted, taken>>
vars == <<tool, args, now, pc, attempt, task, res, expired, start, due,
          emitted, taken, tickets, outcome, hits>>

Tries == 1..Attempts
Answers == {"ok", "not_found", "error", "garbage", "huge"}
Temporary == {"transient", "timeout"}
Raised == Temporary \union {"validation", "service", "permanent"}
NoOutcome == [status |-> "none", code |-> "none", attempt |-> 0]

\* registry.policy: only the knowledge tool has one of its own.
MaxAttempts == IF tool = "query_faq" THEN 1 ELSE Attempts
Shared == tool = "query_faq"
TicketNo == 0   \* ToolContext: one number for the whole turn
AtMost(a, b) == IF a < b THEN a ELSE b

TypeOK ==
  /\ tool \in {"unknown", "query", "ticket", "query_faq"}
  /\ args \in {"none", "invalid", "valid"}
  /\ now \in 0..(Deadline + 1)
  /\ pc \in {"entry", "loop", "announced", "wait", "shown", "drain", "settle",
             "retry", "closing", "outcome", "closed"}
  /\ attempt \in 0..MaxAttempts
  /\ task \in [Tries -> {"none", "running", "cancelling", "ended"}]
  /\ res \in [Tries -> Answers \union Raised \union {"none", "cancelled"}]
  /\ expired \subseteq Tries
  /\ start \in [Tries -> 0..(Deadline + 1)]
  /\ due \in 0..Deadline
  /\ emitted \in 0..Stages /\ taken \in 0..emitted
  /\ emitted - taken <= Capacity
  /\ tickets \subseteq Nat
  /\ outcome.attempt \in 0..attempt
  /\ outcome # NoOutcome <=> pc \in {"settle", "outcome"}
  /\ hits \in 0..2

Init ==
  /\ tool \in {"unknown", "query", "ticket", "query_faq"}
  /\ args \in {"none", "invalid", "valid"}
  /\ now \in {0, Deadline}
  /\ pc = "entry"
  /\ attempt = 0
  /\ task = [a \in Tries |-> "none"]
  /\ res = [a \in Tries |-> "none"]
  /\ expired = {}
  /\ start = [a \in Tries |-> 0]
  /\ due = 0
  /\ emitted = 0 /\ taken = 0
  /\ tickets = {}
  /\ outcome = NoOutcome
  /\ hits = 0

Tick ==
  /\ now <= Deadline
  /\ now' = now + 1
  /\ UNCHANGED <<call, pc, attempt, invoke, expired, start, due, progress, outcome, hits>>

-----------------------------------------------------------------------------
(* The tool's task.                                                        *)

Alive(a) == task[a] \in {"running", "cancelling"}

\* create_once under the turn's number commits, perhaps after cancellation.
Commit(a) ==
  /\ tool = "ticket" /\ Alive(a) /\ TicketNo \notin tickets
  /\ tickets' = tickets \union {TicketNo}
  /\ UNCHANGED <<call, now, pc, attempt, task, res, expired, start, due, progress, outcome, hits>>

\* emit: a stage goes into the queue, when there is room.
Emit(a) ==
  /\ tool = "query_faq" /\ task[a] = "running"
  /\ emitted < Stages /\ emitted - taken < Capacity
  /\ emitted' = emitted + 1
  /\ UNCHANGED <<call, now, pc, attempt, invoke, expired, start, due, taken, outcome, hits>>

\* What a tool can end with by itself.
Possible ==
  CASE tool = "ticket" -> Raised \union (IF tickets # {} THEN {"ok"} ELSE {})
    [] tool = "query_faq" -> Answers \union Raised
    [] OTHER -> Answers \union Raised

EndTask(a) ==
  /\ task[a] = "running"
  /\ \E r \in Possible : res' = [res EXCEPT ![a] = r]
  /\ task' = [task EXCEPT ![a] = "ended"]
  /\ UNCHANGED <<call, now, pc, attempt, expired, start, due, progress, tickets, outcome, hits>>

\* A cancelled tool ends; whatever it returned is not looked at.
EndCancelled(a) ==
  /\ task[a] = "cancelling"
  /\ res' = [res EXCEPT ![a] = "cancelled"]
  /\ task' = [task EXCEPT ![a] = "ended"]
  /\ UNCHANGED <<call, now, pc, attempt, expired, start, due, progress, tickets, outcome, hits>>

-----------------------------------------------------------------------------
(* The generator.                                                          *)

\* The outcome of a failure; it is only given once the task has settled.
Failure(code, n) == outcome' = [status |-> "failed", code |-> code, attempt |-> n]

Enter ==
  /\ pc = "entry"
  /\ IF tool = "unknown" THEN Failure("UNKNOWN_TOOL", 0) /\ pc' = "outcome"
     ELSE IF args = "none" THEN Failure("INVALID_TOOL_ARGUMENTS", 0) /\ pc' = "outcome"
     ELSE pc' = "loop" /\ UNCHANGED outcome
  /\ UNCHANGED <<call, now, attempt, invoke, expired, start, due, progress, hits>>

\* The head of the loop: announce the attempt while there is time.
Announce ==
  /\ pc = "loop"
  /\ IF now >= Deadline
     THEN Failure("TOOL_DEADLINE_EXCEEDED", attempt) /\ pc' = "outcome" /\ UNCHANGED attempt
     ELSE attempt' = attempt + 1 /\ pc' = "announced" /\ UNCHANGED outcome
  /\ UNCHANGED <<call, now, invoke, expired, start, due, progress, hits>>

Invoke ==
  /\ task' = [task EXCEPT ![attempt] = "running"]
  /\ start' = [start EXCEPT ![attempt] = now]
  /\ due' = IF Shared THEN Deadline ELSE AtMost(Deadline, now + Timeout)
  /\ pc' = "wait"
  /\ UNCHANGED outcome

\* Mutant: the time that passed at the yield is not looked at.
ResumeLate ==
  /\ pc = "announced"
  /\ IF args = "invalid"
     THEN Failure("INVALID_TOOL_ARGUMENTS", attempt) /\ pc' = "outcome"
          /\ UNCHANGED <<task, start, due>>
     ELSE Invoke
  /\ UNCHANGED <<call, now, attempt, res, expired, progress, tickets, hits>>

\* The consumer comes back from the announcement.
Resume ==
  /\ pc = "announced"
  /\ IF now >= Deadline \/ args = "invalid"
     THEN /\ Failure(IF now >= Deadline THEN "TOOL_DEADLINE_EXCEEDED"
                     ELSE "INVALID_TOOL_ARGUMENTS", attempt)
          /\ pc' = "outcome"
          /\ UNCHANGED <<task, start, due>>
     ELSE Invoke
  /\ UNCHANGED <<call, now, attempt, res, expired, progress, tickets, hits>>

\* A stage arrives before the tool's end is seen; the consumer returns.
Show ==
  /\ pc = "wait" /\ taken < emitted
  /\ taken' = taken + 1
  /\ pc' = "shown"
  /\ UNCHANGED <<call, now, attempt, invoke, expired, start, due, emitted, outcome, hits>>

Shown ==
  /\ pc = "shown"
  /\ pc' = "wait"
  /\ UNCHANGED <<call, now, attempt, invoke, expired, start, due, progress, outcome, hits>>

\* A temporary failure: the deadline, another attempt, or the last word.
Again(code) ==
  IF now >= Deadline THEN Failure("TOOL_DEADLINE_EXCEEDED", attempt) /\ pc' = "settle"
  ELSE IF attempt < MaxAttempts THEN pc' = "retry" /\ UNCHANGED outcome
  ELSE Failure(code, attempt) /\ pc' = "settle"

\* Mutant: a call with a shared deadline waits for its tool alone.
ExpireOwn ==
  /\ pc = "wait" /\ task[attempt] # "ended" /\ now >= due /\ ~Shared
  /\ Again("TOOL_TIMEOUT")
  /\ expired' = expired \union {attempt}
  /\ task' = [task EXCEPT ![attempt] = "cancelling"]
  /\ UNCHANGED <<call, now, attempt, res, start, due, progress, tickets, hits>>

\* The attempt's time is over: the task is cancelled.
Expire ==
  /\ pc = "wait" /\ task[attempt] # "ended" /\ now >= due
  /\ Again("TOOL_TIMEOUT")
  /\ expired' = expired \union {attempt}
  /\ task' = [task EXCEPT ![attempt] = "cancelling"]
  /\ UNCHANGED <<call, now, attempt, res, start, due, progress, tickets, hits>>

\* The tool has raised.  Its own TimeoutError counts as one of the attempt.
Catch ==
  /\ pc = "wait" /\ task[attempt] = "ended" /\ res[attempt] \in Raised
  /\ CASE res[attempt] = "timeout" -> Again("TOOL_TIMEOUT")
       [] res[attempt] = "transient" -> Again("TOOL_TEMPORARY_FAILURE")
       [] res[attempt] = "validation" -> Failure("INVALID_TOOL_ARGUMENTS", attempt) /\ pc' = "settle"
       [] res[attempt] = "service" -> Failure("SERVICE_ERROR", attempt) /\ pc' = "settle"
       [] res[attempt] = "permanent" -> Failure("TOOL_EXECUTION_FAILED", attempt) /\ pc' = "settle"
  /\ UNCHANGED <<call, now, attempt, invoke, expired, start, due, progress, hits>>

\* The tool has answered: first hand over the stages still queued.
Answer ==
  /\ pc = "wait" /\ task[attempt] = "ended" /\ res[attempt] \in Answers
  /\ pc' = "drain"
  /\ UNCHANGED <<call, now, attempt, invoke, expired, start, due, progress, outcome, hits>>

DrainOne ==
  /\ pc = "drain" /\ taken < emitted
  /\ taken' = taken + 1
  /\ UNCHANGED <<call, now, pc, attempt, invoke, expired, start, due, emitted, outcome, hits>>

\* _successful_outcome: a large answer must be a knowledge decision, a small
\* one is cut until it fits or fails.
Judge(r) ==
  CASE r = "ok" -> [status |-> "succeeded", code |-> "none", attempt |-> attempt]
    [] r = "not_found" -> [status |-> "not_found", code |-> "none", attempt |-> attempt]
    [] r = "error" /\ ~Shared -> [status |-> "failed", code |-> "none", attempt |-> attempt]
    [] r = "huge" /\ ~Shared -> [status |-> "failed", code |-> "TOOL_RESULT_TOO_LARGE", attempt |-> attempt]
    [] OTHER -> [status |-> "failed", code |-> "INVALID_TOOL_RESULT", attempt |-> attempt]

Judged ==
  /\ pc = "drain" /\ taken = emitted
  /\ outcome' = Judge(res[attempt]) /\ pc' = "settle"
  /\ UNCHANGED <<call, now, attempt, invoke, expired, start, due, progress, hits>>

\* Mutant: the outcome does not wait for the task.
SettleAtOnce ==
  /\ pc \in {"settle", "retry", "closing"}
  /\ pc' = CASE pc = "settle" -> "outcome" [] pc = "retry" -> "loop" [] OTHER -> "closed"
  /\ UNCHANGED <<call, now, attempt, invoke, expired, start, due, progress, outcome, hits>>

\* finally: the task has ended, whatever it was told.
Settle ==
  /\ pc \in {"settle", "retry", "closing"} /\ task[attempt] = "ended"
  /\ pc' = CASE pc = "settle" -> "outcome" [] pc = "retry" -> "loop" [] OTHER -> "closed"
  /\ UNCHANGED <<call, now, attempt, invoke, expired, start, due, progress, outcome, hits>>

\* The consumer is cancelled in a wait or closes the generator at a yield.
\* A gather that is cancelled cancels the task again, but still awaits it.
Leave ==
  /\ hits < 2 /\ pc \notin {"outcome", "closed", "entry", "loop"}
  /\ hits' = hits + 1
  /\ pc' = IF pc = "announced" THEN "closed" ELSE "closing"
  /\ task' = IF task[attempt] = "running" THEN [task EXCEPT ![attempt] = "cancelling"] ELSE task
  /\ outcome' = NoOutcome
  /\ UNCHANGED <<call, now, attempt, res, expired, start, due, progress, tickets>>

Step == Enter \/ Announce \/ Resume \/ Shown \/ Expire \/ Catch \/ Answer \/ DrainOne
        \/ Judged \/ Settle \/ Show
Next ==
  \/ Tick \/ Step \/ Leave
  \/ \E a \in Tries : Commit(a) \/ Emit(a) \/ EndTask(a) \/ EndCancelled(a)

Spec == Init /\ [][Next]_vars

-----------------------------------------------------------------------------
(* Properties.                                                             *)

\* Attempts never overlap, and when the outcome is given or the generator
\* has ended, however it was left, no task of the tool runs that could change
\* anything; a COMMIT that a task left with the server is not its work any more.
NothingRunsOn ==
  /\ pc \in {"entry", "loop", "announced", "outcome", "closed"} => \A a \in Tries : ~Alive(a)
  /\ \A a \in Tries : Alive(a) => a = attempt

\* A second attempt follows a temporary failure or an attempt whose time
\* ran out, never an answer or an error that would only repeat itself.
RetriesAreTemporary ==
  \A a \in Tries : a > 1 /\ task[a] # "none" =>
    res[a - 1] \in Temporary \/ (a - 1) \in expired

\* However often it is tried and however late it commits, a turn's ticket
\* is inserted once, and success is only reported when it was.
TicketOnce ==
  /\ Cardinality(tickets) <= 1
  /\ tool = "ticket" /\ outcome.status = "succeeded" => tickets # {}

\* A knowledge answer comes after every stage its tool has reported.
StagesBeforeAnswer ==
  pc = "outcome" /\ outcome.status \in {"succeeded", "not_found"} => taken = emitted

\* No task is created at or after the deadline, whenever the consumer
\* returned from the announcement.
NoLateStart == \A a \in Tries : task[a] # "none" => start[a] < Deadline
=============================================================================
