-------------------------------- MODULE Lifespan -------------------------------
(***************************************************************************)
(* The application's lifespan: a start-up of many awaits that takes        *)
(* ownership of one resource after another, may fail or be cancelled at    *)
(* each, serves, and hands everything it owns to close_resources, which    *)
(* closes in reverse order although closes fail and the caller is          *)
(* cancelled again and again.  Models are initialized on a thread that     *)
(* cannot be cancelled.                                                    *)
(***************************************************************************)
EXTENDS Naturals, Sequences, SequencesExt

CONSTANTS
  Modes,     \* start-ups tried, of {"workflow", "legacy", "injected"}
  Cleanups   \* turns whose cleanup outlives their request

ASSUME ModesAssumption == Modes \subseteq {"workflow", "legacy", "injected"}

VARIABLES
  mode,      \* what create_app was given
  at,        \* the step of the start-up that is next or under way
  phase,     \* "starting", "draining", "serving", "closing", "ended"
  owned,     \* owned_resources
  held,      \* resources that hold connections, threads or memory
  thread,    \* warmup's thread: "none", "running", "ended"
  cleanup,   \* turn: its cleanup task
  closed,    \* resources whose close has ended, in that order
  bad,       \* some close has failed
  cancelled, \* the lifespan was cancelled
  failure,   \* the start-up has failed
  result     \* what the lifespan ended with

boot == <<mode, at, owned>>
turns == <<cleanup>>
vars == <<mode, at, phase, owned, held, thread, cleanup, closed, bad, cancelled,
          failure, result>>

\* lifespan, build_knowledge_components and CheckpointStore, step by step:
\* what a step takes ownership of, and what it makes that hold.
Step(name, own, hold) == [name |-> name, own |-> own, hold |-> hold]
Gateway == Step("gateway", <<"gateway">>, {"gateway"})
Given == Step("given", <<"given">>, {"given"})
Database == Step("database", <<"database">>, {})
Connect == Step("check", <<>>, {"database"})
Migrate == Step("migration", <<>>, {})
\* build_knowledge_components: the store opens in "collection".
Knowledge == Step("knowledge", <<"store", "models">>, {})
Tables == Step("tables", <<>>, {})
Collection == Step("collection", <<>>, {"store"})
Corpus == Step("corpus", <<>>, {})
Warmup == Step("warmup", <<>>, {"models"})
\* CheckpointStore: created, opened and checked.
Checkpoint == Step("checkpoint", <<"checkpoint">>, {})
Connected == Step("open", <<>>, {"checkpoint"})
Verified == Step("schema", <<>>, {})
\* build_workflow_dependencies is part of the last step.
Service == Step("service", <<"service">>, {"service"})
Steps ==
  CASE mode = "injected" -> <<Given>>
    [] mode = "legacy" -> <<Gateway, Given, Database, Connect>>
    [] mode = "workflow" -> <<Gateway, Database, Connect, Migrate, Knowledge, Tables, Collection,
                              Corpus, Warmup, Checkpoint, Connected, Verified, Service>>

Resources == {"gateway", "given", "database", "store", "models", "checkpoint", "service"}
\* Steps that await something, and may be cancelled there.
Awaits == {"check", "migration", "tables", "collection", "corpus", "warmup", "open", "schema"}
Here == Steps[at]

TypeOK ==
  /\ mode \in Modes
  /\ at \in 1..(Len(Steps) + 1)
  /\ phase \in {"starting", "draining", "serving", "closing", "ended"}
  /\ owned \in Seq(Resources) /\ IsInjective(owned)
  /\ held \subseteq Resources
  /\ thread \in {"none", "running", "ended"}
  /\ cleanup \in [Cleanups -> {"none", "running", "done", "failed"}]
  /\ closed \in Seq(Resources)
  /\ {bad, cancelled, failure} \subseteq BOOLEAN
  /\ result \in {"none", "stopped", "failed", "closeError", "cancelled"}
  /\ result # "none" <=> phase = "ended"

Init ==
  /\ mode \in Modes
  /\ at = 1
  /\ phase = "starting"
  /\ owned = <<>>
  /\ held = {}
  /\ thread = "none"
  /\ cleanup = [c \in Cleanups |-> "none"]
  /\ closed = <<>>
  /\ bad = FALSE /\ cancelled = FALSE /\ failure = FALSE
  /\ result = "none"

-----------------------------------------------------------------------------
(* Start-up.                                                               *)

\* A step succeeds.  What it creates is owned before anything is awaited.
Advance ==
  /\ phase = "starting" /\ at <= Len(Steps)
  /\ Here.name = "warmup" => thread = "ended"
  /\ owned' = owned \o Here.own
  /\ held' = held \union Here.hold
  /\ at' = at + 1
  /\ phase' = IF at = Len(Steps) THEN "serving" ELSE phase
  /\ UNCHANGED <<mode, thread, turns, closed, bad, cancelled, failure, result>>

\* warmup_local_models: to_thread; the models load while it runs.
Warm ==
  /\ phase = "starting" /\ at <= Len(Steps) /\ Here.name = "warmup" /\ thread = "none"
  /\ thread' = "running"
  /\ held' = held \union {"models"}
  /\ UNCHANGED <<boot, phase, turns, closed, bad, cancelled, failure, result>>

\* A constructor or a check raises: missing configuration, tables, corpus,
\* collection, factory, or a service that does not answer.
Raise ==
  /\ phase = "starting" /\ at <= Len(Steps)
  /\ Here.name = "warmup" => thread = "ended"
  /\ failure' = TRUE
  /\ phase' = "closing"
  /\ UNCHANGED <<boot, held, thread, turns, closed, bad, cancelled, result>>

ThreadEnds ==
  /\ thread = "running"
  /\ thread' = "ended"
  /\ UNCHANGED <<boot, phase, held, turns, closed, bad, cancelled, failure, result>>

\* Mutant: cancellation leaves the warm-up to its thread.
CancelAtOnce ==
  /\ \/ phase = "starting" /\ at <= Len(Steps) /\ Here.name \in Awaits
     \/ phase = "serving"
  /\ cancelled' = TRUE
  /\ phase' = "closing"
  /\ UNCHANGED <<boot, held, thread, turns, closed, bad, failure, result>>

\* The lifespan is cancelled while it starts or serves.
Cancel ==
  /\ \/ phase = "starting" /\ at <= Len(Steps) /\ Here.name \in Awaits
     \/ phase = "serving"
  /\ cancelled' = TRUE
  /\ phase' = IF phase = "starting" /\ thread = "running" THEN "draining" ELSE "closing"
  /\ UNCHANGED <<boot, held, thread, turns, closed, bad, failure, result>>

\* _drain_task: the thread's end is awaited through every cancellation.
Drained ==
  /\ phase = "draining" /\ thread = "ended"
  /\ phase' = "closing"
  /\ UNCHANGED <<boot, held, thread, turns, closed, bad, cancelled, failure, result>>

-----------------------------------------------------------------------------
(* Serving and closing.                                                    *)

\* A request ends under a cleanup task that is retained by the service.
Retain(c) ==
  /\ phase = "serving" /\ mode = "workflow" /\ cleanup[c] = "none"
  /\ cleanup' = [cleanup EXCEPT ![c] = "running"]
  /\ UNCHANGED <<boot, phase, held, thread, closed, bad, cancelled, failure, result>>

CleanedUp(c) ==
  /\ cleanup[c] = "running"
  /\ \E r \in {"done", "failed"} : cleanup' = [cleanup EXCEPT ![c] = r]
  /\ UNCHANGED <<boot, phase, held, thread, closed, bad, cancelled, failure, result>>

Shutdown ==
  /\ phase = "serving"
  /\ phase' = "closing"
  /\ UNCHANGED <<boot, held, thread, turns, closed, bad, cancelled, failure, result>>

\* reversed(resources_to_close): what is still to close, the next one last.
Open == SubSeq(owned, 1, Len(owned) - Len(closed))

\* Mutant: a cleanup that failed stays among those the service waits for.
CloseAfterSuccess ==
  /\ phase = "closing" /\ Open # <<>>
  /\ Last(Open) = "service" => \A c \in Cleanups : cleanup[c] \in {"none", "done"}
  /\ closed' = Append(closed, Last(Open))
  /\ held' = held \ {Last(Open)}
  /\ bad' \in {bad, TRUE}
  /\ UNCHANGED <<boot, phase, thread, turns, cancelled, failure, result>>

\* _close_resources_once closes the youngest resource that is open, well or
\* badly; the service's close waits for every cleanup it retains.
CloseNext ==
  /\ phase = "closing" /\ Open # <<>>
  /\ Last(Open) = "service" => \A c \in Cleanups : cleanup[c] # "running"
  /\ closed' = Append(closed, Last(Open))
  /\ held' = held \ {Last(Open)}
  /\ bad' \in {bad, TRUE}
  /\ UNCHANGED <<boot, phase, thread, turns, cancelled, failure, result>>

\* close_resources is cancelled: it remembers and waits on.
CancelClosing ==
  /\ phase \in {"draining", "closing"}
  /\ cancelled' = TRUE
  /\ UNCHANGED <<boot, phase, held, thread, turns, closed, bad, failure, result>>

\* Cancellation first, the error of closing, then what ended the start-up.
End ==
  /\ phase = "closing" /\ Open = <<>>
  /\ phase' = "ended"
  /\ result' = IF cancelled THEN "cancelled" ELSE IF bad THEN "closeError"
               ELSE IF failure THEN "failed" ELSE "stopped"
  /\ UNCHANGED <<boot, held, thread, turns, closed, bad, cancelled, failure>>

Next ==
  \/ Advance \/ Warm \/ Raise \/ ThreadEnds \/ Cancel \/ Drained \/ Shutdown
  \/ CloseNext \/ CancelClosing \/ End
  \/ \E c \in Cleanups : Retain(c) \/ CleanedUp(c)

Spec == Init /\ [][Next]_vars

\* Threads and cleanups end, and what is ready runs.
Fairness ==
  /\ WF_vars(ThreadEnds) /\ WF_vars(Drained) /\ WF_vars(CloseNext) /\ WF_vars(End)
  /\ \A c \in Cleanups : WF_vars(CleanedUp(c))
FairSpec == Spec /\ Fairness

-----------------------------------------------------------------------------
(* Properties.                                                             *)

\* However the lifespan ends, whatever held a connection, a thread or memory
\* was closed, once, and in the reverse of the order it was owned in.
ClosedInReverse ==
  /\ IsPrefix(closed, Reverse(owned))
  /\ phase = "ended" => held = {} /\ closed = Reverse(owned)

\* Nothing is closed under its user: not the models under the thread that
\* loads them, not a shared owner under a turn's cleanup.
NothingClosedInUse ==
  closed # <<>> =>
    /\ thread # "running"
    /\ \A c \in Cleanups : cleanup[c] # "running"

\* The server learns of its own cancellation, whatever failed before, and of
\* any failure if it was not cancelled.
EndIsTold ==
  phase = "ended" =>
    /\ cancelled <=> result = "cancelled"
    /\ result = "stopped" => ~bad /\ ~failure

\* However it ends, the lifespan closes what it holds, in order, under nobody,
\* and reports how it ended.
LifespanSafety == TypeOK /\ ClosedInReverse /\ NothingClosedInUse /\ EndIsTold

\* Once cancelled or failed, the lifespan ends, however often it is
\* cancelled again.
LifespanEnds == phase \in {"draining", "closing"} ~> phase = "ended"
=============================================================================
