------------------------------- MODULE TurnDrain -------------------------------
(***************************************************************************)
(* TurnOperations of one turn: run() starts physical work that outlives    *)
(* its caller, track_iterator() hands over generators, and drain() seals   *)
(* both, cancels what is left, waits for its physical end and only then    *)
(* closes the generators.  Callers of drain may be cancelled again and     *)
(* again; operations and closes may take for ever.                         *)
(***************************************************************************)
EXTENDS Naturals, FiniteSets

CONSTANTS
  Ops,        \* bound: tasks of run() that exist at a time
  Iterators,  \* generators the turn may track
  Callers,    \* coroutines that await drain()
  None        \* no iterator

ASSUME NoneAssumption == None \notin Iterators

VARIABLES
  op,        \* operation: "idle", "running" or "cancelling"
  on,        \* operation: the iterator whose anext it is inside, or None
  cancels,   \* operation: how often its task was cancelled
  tracked,   \* iterators of _iterators
  closed,    \* iterators whose aclose has ended
  failed,    \* iterators whose aclose has raised
  pending,   \* operations of the drain task's snapshot
  drain,     \* _drain_task: "none", "created", "waiting", "closing", "ended"
  caller,    \* caller: "out", "waiting", "returned", "failed", "cancelled"
  hit        \* callers that were cancelled while they waited

work == <<op, on, cancels>>
iters == <<tracked, closed, failed>>
waiters == <<caller, hit>>
vars == <<op, on, cancels, tracked, closed, failed, pending, drain, caller, hit>>

TypeOK ==
  /\ op \in [Ops -> {"idle", "running", "cancelling"}]
  /\ on \in [Ops -> Iterators \union {None}]
  /\ cancels \in [Ops -> Nat]
  /\ tracked \subseteq Iterators
  /\ closed \subseteq tracked
  /\ failed \subseteq closed
  /\ pending \subseteq Ops
  /\ drain \in {"none", "created", "waiting", "closing", "ended"}
  /\ caller \in [Callers -> {"out", "waiting", "returned", "failed", "cancelled"}]
  /\ hit \subseteq Callers

Init ==
  /\ op = [o \in Ops |-> "idle"]
  /\ on = [o \in Ops |-> None]
  /\ cancels = [o \in Ops |-> 0]
  /\ tracked = {} /\ closed = {} /\ failed = {}
  /\ pending = {}
  /\ drain = "none"
  /\ caller = [c \in Callers |-> "out"]
  /\ hit = {}

Live(o) == op[o] \in {"running", "cancelling"}

-----------------------------------------------------------------------------
(* The turn's side.                                                        *)

\* track_iterator: refused once a drain was asked for.
Track(i) ==
  /\ drain = "none" /\ i \notin tracked
  /\ tracked' = tracked \union {i}
  /\ UNCHANGED <<work, closed, failed, pending, drain, waiters>>

\* Mutant: only a drain that has looked at the operations seals them.
RunLate(o) ==
  /\ drain \in {"none", "created", "waiting"} /\ op[o] = "idle"
  /\ \E i \in tracked \union {None} :
       /\ \A p \in Ops : Live(p) => on[p] = None \/ on[p] # i
       /\ on' = [on EXCEPT ![o] = i]
  /\ op' = [op EXCEPT ![o] = "running"]
  /\ UNCHANGED <<cancels, iters, pending, drain, waiters>>

\* run: a plain operation, or the anext of an iterator no one is inside.
Run(o) ==
  /\ drain = "none" /\ op[o] = "idle"
  /\ \E i \in tracked \union {None} :
       /\ \A p \in Ops : Live(p) => on[p] = None \/ on[p] # i
       /\ on' = [on EXCEPT ![o] = i]
  /\ op' = [op EXCEPT ![o] = "running"]
  /\ UNCHANGED <<cancels, iters, pending, drain, waiters>>

\* bounded's caller leaves: its deadline has passed or it was cancelled.
Leave(o) ==
  /\ op[o] = "running" /\ cancels[o] = 0
  /\ op' = [op EXCEPT ![o] = "cancelling"]
  /\ cancels' = [cancels EXCEPT ![o] = @ + 1]
  /\ UNCHANGED <<on, iters, pending, drain, waiters>>

\* The operation ends, by itself or after its cancellation has unwound, and
\* finished() discards its task.
End(o) ==
  /\ Live(o)
  /\ op' = [op EXCEPT ![o] = "idle"]
  /\ on' = [on EXCEPT ![o] = None]
  /\ cancels' = [cancels EXCEPT ![o] = 0]
  /\ UNCHANGED <<iters, pending, drain, waiters>>

-----------------------------------------------------------------------------
(* drain.                                                                  *)

\* The first caller creates the drain task, every caller awaits that one.
Drain(c) ==
  /\ caller[c] = "out"
  /\ caller' = [caller EXCEPT ![c] = "waiting"]
  /\ drain' = IF drain = "none" THEN "created" ELSE drain
  /\ UNCHANGED <<work, iters, pending, hit>>

\* _drain's first step: cancel whatever nobody has cancelled yet.
Snapshot ==
  /\ drain = "created"
  /\ pending' = {o \in Ops : Live(o)}
  /\ op' = [o \in Ops |-> IF Live(o) THEN "cancelling" ELSE op[o]]
  /\ cancels' = [o \in Ops |-> IF op[o] = "running" /\ cancels[o] = 0
                               THEN cancels[o] + 1 ELSE cancels[o]]
  /\ drain' = "waiting"
  /\ UNCHANGED <<on, iters, waiters>>

\* gather: the whole snapshot has ended.
Gathered ==
  /\ drain = "waiting" /\ \A o \in pending : ~Live(o)
  /\ drain' = "closing"
  /\ UNCHANGED <<work, iters, pending, waiters>>

\* One aclose after another; one that raises does not stop the loop.
Close(i) ==
  /\ drain = "closing" /\ i \in tracked \ closed
  /\ closed' = closed \union {i}
  /\ failed' \in {failed, failed \union {i}}
  /\ UNCHANGED <<work, tracked, pending, drain, waiters>>

Closed ==
  /\ drain = "closing" /\ closed = tracked
  /\ drain' = "ended"
  /\ UNCHANGED <<work, iters, pending, waiters>>

\* A waiting caller is cancelled: it remembers that and waits on.
Hit(c) ==
  /\ caller[c] = "waiting" /\ drain # "ended"
  /\ hit' = hit \union {c}
  /\ UNCHANGED <<work, iters, pending, drain, caller>>

\* Mutant: the remembered cancellation hides what the drain raised.
LeaveDrainCancelled(c) ==
  /\ caller[c] = "waiting" /\ drain = "ended"
  /\ caller' = [caller EXCEPT ![c] = IF c \in hit THEN "cancelled"
                                     ELSE IF failed # {} THEN "failed" ELSE "returned"]
  /\ UNCHANGED <<work, iters, pending, drain, hit>>

\* task.result() first, the remembered cancellation after it.
LeaveDrain(c) ==
  /\ caller[c] = "waiting" /\ drain = "ended"
  /\ caller' = [caller EXCEPT ![c] = IF failed # {} THEN "failed"
                                     ELSE IF c \in hit THEN "cancelled" ELSE "returned"]
  /\ UNCHANGED <<work, iters, pending, drain, hit>>

Next ==
  \/ \E i \in Iterators : Track(i) \/ Close(i)
  \/ \E o \in Ops : Run(o) \/ Leave(o) \/ End(o)
  \/ \E c \in Callers : Drain(c) \/ Hit(c) \/ LeaveDrain(c)
  \/ Snapshot \/ Gathered \/ Closed

Spec == Init /\ [][Next]_vars

\* The event loop runs what is ready; operations and closes are assumed to
\* end, which is what the class's comment asks for.
Fairness ==
  /\ WF_vars(Snapshot) /\ WF_vars(Gathered) /\ WF_vars(Closed)
  /\ \A o \in Ops : WF_vars(End(o))
  /\ \A i \in Iterators : WF_vars(Close(i))
  /\ \A c \in Callers : WF_vars(LeaveDrain(c))
FairSpec == Spec /\ Fairness

-----------------------------------------------------------------------------
(* Properties.                                                             *)

\* The delayed commit in a cancellation handler is never interrupted:
\* deadline, caller and drain together cancel a task at most once.
CancelledOnce == \A o \in Ops : cancels[o] <= 1

\* No generator is closed while some operation is inside its anext.
ClosedOutside == \A o \in Ops : Live(o) => on[o] \notin closed

\* Whoever comes back from drain, however often it was cancelled, leaves a
\* turn in which nothing runs and everything tracked was closed; it reports
\* a close that failed before its own cancellation.
Left(c) == caller[c] \in {"returned", "failed", "cancelled"}
DrainedMeansQuiet ==
  \A c \in Callers : Left(c) =>
    /\ \A o \in Ops : ~Live(o)
    /\ closed = tracked
    /\ (caller[c] = "failed") <=> (failed # {})

\* What drain promises a turn: no task is interrupted twice, no generator is
\* closed under its user, and nothing is left when it comes back.
DrainSafety == CancelledOnce /\ ClosedOutside /\ DrainedMeansQuiet

\* Once a drain was asked for, the turn gets no new work.
SealedForGood ==
  [][drain # "none" => /\ tracked' = tracked
                       /\ \A o \in Ops : ~Live(o) => op'[o] = "idle"]_vars

\* If what runs ends, so does every drain.
DrainEnds == \A c \in Callers : caller[c] = "waiting" ~> Left(c)
=============================================================================
