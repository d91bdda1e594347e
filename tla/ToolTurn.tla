------------------------------- MODULE ToolTurn -------------------------------
(***************************************************************************)
(* A turn that runs a tool: execute_tools tracks the generator of          *)
(* ToolExecutor.run with the turn's TurnOperations and takes each of its   *)
(* events by an operation of its own, operations.run(anext).  TurnDrain    *)
(* says what becomes of operations and generators, ToolRun what the        *)
(* generator does; here the generator only moves while an anext, or the    *)
(* aclose of the drain, is inside it, an anext ends where the generator    *)
(* yields, and a cancelled anext is a cancellation at the generator's      *)
(* await.                                                                  *)
(*                                                                         *)
(* The workflow runs query tools only.  The other consumers of the         *)
(* executor, the earlier chat service and the confirmation of an action,   *)
(* use every tool and no TurnOperations: ToolRun alone.                    *)
(***************************************************************************)
EXTENDS TurnDrain

CONSTANTS
  Execution,  \* the iterator that is the tool's generator
  Deadline, Timeout, Attempts, Capacity, Stages   \* of ToolRun

ASSUME ExecutionAssumption ==
  /\ Execution \in Iterators
  /\ Deadline \in Nat \ {0} /\ Timeout \in Nat \ {0} /\ Attempts \in {1, 2}
  /\ Capacity \in Nat \ {0} /\ Stages \in Nat

VARIABLES tool, args, now, pc, attempt, task, res, expired, start, due,
          emitted, taken, tickets, outcome, hits,
          consumer    \* who called the executor: "workflow" or "other"

T == INSTANCE ToolRun
run == <<tool, args, now, pc, attempt, task, res, expired, start, due,
         emitted, taken, tickets, outcome, hits>>
all == <<vars, run, consumer>>

\* The places where the generator is suspended at a yield, has not been
\* started or has ended; "loop" is code between two awaits.
Suspended == {"entry", "announced", "shown", "drain", "outcome", "closed"}
Awaiting == {"wait", "settle", "retry"}
Inside(o) == Live(o) /\ on[o] = Execution
Idle == pc # "loop"

Workflow == consumer = "workflow"
Begin ==
  /\ Init /\ T!Init
  /\ consumer \in {"workflow", "other"}
  /\ Workflow => tool = "query" /\ args # "none"

-----------------------------------------------------------------------------
(* The turn, next to a generator that does not move.                       *)

TurnSide ==
  /\ Idle
  /\ \/ \E i \in Iterators : Track(i)
     \/ \E i \in Iterators \ {Execution} : Close(i)
     \/ \E o \in Ops : Run(o) \/ Leave(o) \/ (~Inside(o) /\ End(o))
     \/ \E c \in Callers : Drain(c) \/ Hit(c) \/ LeaveDrain(c)
     \/ Snapshot \/ Gathered \/ Closed
  /\ UNCHANGED run

\* Time and the tool's own task.
ToolSide ==
  /\ Idle
  /\ \/ T!Tick
     \/ \E a \in T!Tries :
          T!Commit(a) \/ T!Emit(a) \/ T!EndTask(a) \/ T!EndCancelled(a)
  /\ UNCHANGED vars

-----------------------------------------------------------------------------
(* An anext inside the generator.                                          *)

\* The generator has yielded, or has come to its end.
Yields ==
  \/ pc' \in {"announced", "shown", "outcome", "closed"}
  \/ pc = "drain" /\ pc' = "drain"

\* An anext runs the generator up to its next yield.
Advance(o) ==
  /\ Inside(o) /\ op[o] = "running"
  /\ T!Step
  /\ IF Yields THEN End(o) ELSE UNCHANGED vars

\* An anext of a generator that has given its outcome or was left.
Exhausted(o) ==
  /\ Inside(o) /\ pc \in {"outcome", "closed"}
  /\ End(o)
  /\ UNCHANGED run

\* The task is cancelled before it has run: the generator hears nothing.
NeverRan(o) ==
  /\ Inside(o) /\ op[o] = "cancelling" /\ pc \in Suspended
  /\ End(o)
  /\ UNCHANGED run

\* A cancellation arrives at the generator's await; its finally runs, and a
\* second one would arrive there.
Cancelled(o) ==
  /\ Inside(o) /\ pc \in Awaiting \union {"closing"} /\ hits < cancels[o]
  /\ T!Leave
  /\ UNCHANGED vars

Unwound(o) ==
  /\ Inside(o) /\ op[o] = "cancelling" /\ pc = "closing"
  /\ T!Settle
  /\ End(o)

-----------------------------------------------------------------------------
(* The drain closes the generator: GeneratorExit at its yield.             *)

\* aclose returns when nothing of the generator is left.
Shut ==
  /\ pc \in {"entry", "outcome", "closed"}
  /\ Close(Execution)
  /\ UNCHANGED run

Exit ==
  /\ drain = "closing" /\ Execution \in tracked \ closed
  /\ pc \in Suspended /\ T!Leave
  /\ UNCHANGED vars

ExitSettled ==
  /\ drain = "closing" /\ Execution \in tracked \ closed
  /\ pc = "closing" /\ T!Settle
  /\ UNCHANGED vars

Anext(o) == Advance(o) \/ Exhausted(o) \/ NeverRan(o) \/ Cancelled(o) \/ Unwound(o)
Aclose == Shut \/ Exit \/ ExitSettled
NextTogether ==
  /\ \/ Workflow /\ (TurnSide \/ ToolSide \/ (\E o \in Ops : Anext(o)) \/ Aclose)
     \/ ~Workflow /\ T!Next /\ UNCHANGED vars
  /\ UNCHANGED consumer

Together == Begin /\ [][NextTogether]_all

Turns(A) == Workflow /\ Idle /\ A /\ UNCHANGED consumer

\* The event loop runs what is ready and time passes.  Operations other than
\* the anext end, a tool ends once it is cancelled: the class asks for no more.
FairTogether ==
  /\ Together
  /\ WF_all(Turns((Snapshot \/ Gathered \/ Closed) /\ UNCHANGED run))
  /\ WF_all(Turns((\E i \in Iterators \ {Execution} : Close(i)) /\ UNCHANGED run))
  /\ \A o \in Ops : WF_all(Turns(~Inside(o) /\ End(o) /\ UNCHANGED run))
  /\ \A c \in Callers : WF_all(Turns(LeaveDrain(c) /\ UNCHANGED run))
  /\ WF_all(Workflow /\ Aclose /\ UNCHANGED consumer)
  /\ WF_all(Workflow /\ (\E o \in Ops : Anext(o)) /\ UNCHANGED consumer)
  /\ WF_all((~Workflow \/ Idle) /\ T!Tick /\ UNCHANGED <<vars, consumer>>)
  /\ WF_all(/\ ~Workflow \/ Idle
            /\ \E a \in T!Tries : T!EndCancelled(a)
            /\ UNCHANGED <<vars, consumer>>)
  /\ WF_all(~Workflow /\ T!Step /\ UNCHANGED <<vars, consumer>>)

-----------------------------------------------------------------------------
(* Properties.                                                             *)

\* Back from drain a turn has no tool that could still write: the chain from
\* drain over aclose and the generator's finally down to the tool's task has
\* no gap, wherever the cancellation met it.
NoToolSurvives ==
  \A c \in Callers : Left(c) => \A a \in T!Tries : ~T!Alive(a)

\* The generator's finally, which waits for the tool, is entered once: no
\* deadline, disconnect or drain interrupts it a second time.
UnwindsOnce == Workflow => hits <= 1

\* A run ends, although its tool hangs or waits for room in the progress queue
\* that nobody empties: the attempt's own time ends it.
RunEnds == ~Workflow /\ pc = "entry" ~> pc \in {"outcome", "closed"}

\* From drain and from the generator alike: a tool is stopped once, and what
\* was stopped or has answered changes nothing any more.
ToolStops == NoToolSurvives /\ UnwindsOnce /\ T!NothingRunsOn

\* Whoever drives the generator, its attempts start in time, follow only from
\* what may be repeated, insert one ticket and report every stage (see ToolRun).
AttemptsAreSound ==
  /\ T!TypeOK /\ T!RetriesAreTemporary /\ T!TicketOnce
  /\ T!StagesBeforeAnswer /\ T!NoLateStart

\* Neither anext nor drain waits for ever.
EverythingReturns == DrainEnds /\ RunEnds
=============================================================================
