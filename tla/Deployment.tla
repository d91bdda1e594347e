------------------------------- MODULE Deployment ------------------------------
(***************************************************************************)
(* A start-up of the application beside operators who migrate its          *)
(* database: the step "migration" of Lifespan is a run of Migration that   *)
(* only checks, and the start-up fails with it.  Also the operators alone, *)
(* over more messages, before any application starts.                      *)
(***************************************************************************)
EXTENDS Lifespan, FiniteSets

CONSTANTS
  Runs,      \* operators that run the migration, and the application
  App,       \* the one of Runs that is the application, if it starts
  MaxId,     \* bound: message ids
  Batch      \* LIMIT of one back-fill transaction

ASSUME DeploymentAssumption ==
  App \in Runs /\ MaxId \in Nat \ {0} /\ Batch \in Nat \ {0}

VARIABLES
  scene,     \* "start": the application starts; "migrate": all Runs are operators
  column, data, index, actions, odd, old, keys, pc, saw, only, alone, ended

M == INSTANCE Migration

schema == <<column, data, index, actions, odd, old, keys>>
runs == <<pc, saw, only, alone, ended>>
database == <<schema, runs>>
Fixed == UNCHANGED scene

DatabaseTypeOK == M!TypeOK /\ scene \in {"start", "migrate"}

\* Bounds: a start-up is beside a database of one message; where there is
\* no check of the schema, the database is one that no check passes.  A table
\* of actions that lacks both keys or one of them is refused alike, and what
\* is odd is refused whatever that table is.
TogetherInit ==
  /\ scene \in {"start", "migrate"}
  /\ Init /\ M!Init
  /\ actions # 2 /\ (odd => actions = 0)
  /\ scene = "start" => DOMAIN keys = {1}
  /\ scene = "start" /\ mode # "workflow" => odd /\ ~old /\ column = "absent" /\ ~data
  /\ scene = "migrate" => mode = "workflow"

-----------------------------------------------------------------------------
Checking ==
  phase = "starting" /\ at <= Len(Steps) /\ Here.name = "migration"

\* The start-up runs migrate_workflow once, and only to check.
CheckBegins ==
  /\ scene = "start" /\ Checking /\ ended[App] = "none"
  /\ M!Begin(App) /\ only'[App]
  /\ UNCHANGED vars /\ Fixed

CheckWorks ==
  /\ scene = "start" /\ Checking
  /\ M!Work(App)
  /\ UNCHANGED vars /\ Fixed

\* Mutant: the start-up goes on whatever the check has returned.
GoOnUnchecked ==
  /\ scene = "start" /\ Advance
  /\ Checking => ended[App] \notin {"none", "refused", "failed"}
  /\ UNCHANGED database /\ Fixed

\* Every step of the start-up, that of the migration if it is ready.
GoOn ==
  /\ scene = "start" /\ Advance
  /\ Checking => ended[App] = "ready"
  /\ UNCHANGED database /\ Fixed

\* A step raises: the check if it was refused or not ready, or with its
\* connection.
GiveUp ==
  /\ scene = "start" /\ Raise
  /\ IF Checking /\ pc[App] # "idle" THEN M!Crash(App) ELSE UNCHANGED database
  /\ Checking => pc[App] # "idle" \/ ended[App] \in {"unready", "refused", "failed"}
  /\ Fixed

\* Cancellation ends the check under way.
GiveIn ==
  /\ scene = "start" /\ Cancel
  /\ IF pc[App] # "idle" THEN M!Crash(App) ELSE UNCHANGED database
  /\ Fixed

RunsOn ==
  /\ scene = "start"
  /\ \/ Warm \/ ThreadEnds \/ Drained \/ Shutdown \/ CloseNext \/ CancelClosing \/ End
     \/ \E c \in Cleanups : Retain(c) \/ CleanedUp(c)
  /\ UNCHANGED database /\ Fixed

\* An operator's run.  Bound: beside a start-up it acts while the schema is
\* checked or relied on.
Watched == Checking \/ phase = "serving"
Operate ==
  /\ scene = "start" => Watched
  /\ \E r \in Runs \ (IF scene = "start" THEN {App} ELSE {}) :
       M!Begin(r) \/ M!Work(r) \/ M!Crash(r)
  /\ UNCHANGED vars /\ Fixed

Write ==
  /\ scene = "start" => Watched
  /\ M!Write
  /\ UNCHANGED vars /\ Fixed

TogetherNext ==
  CheckBegins \/ CheckWorks \/ GoOn \/ GiveUp \/ GiveIn \/ RunsOn \/ Operate \/ Write

everything == <<vars, database, scene>>

\* Threads and cleanups end, and what is ready runs.
Ready == scene = "start" /\ (Drained \/ CloseNext \/ End) /\ UNCHANGED database /\ Fixed
Thread == scene = "start" /\ ThreadEnds /\ UNCHANGED database /\ Fixed
Clean(c) == scene = "start" /\ CleanedUp(c) /\ UNCHANGED database /\ Fixed
Deployed ==
  /\ TogetherInit /\ [][TogetherNext]_everything
  /\ WF_everything(Ready) /\ WF_everything(Thread)
  /\ \A c \in Cleanups : WF_everything(Clean(c))

-----------------------------------------------------------------------------
(* Properties.                                                             *)

\* The workflow service opens its resources, and serves, only over a schema
\* that is complete, with a key on every message, whatever operators and old
\* writers do beside it.
ServesOverReadySchema ==
  scene = "start" /\ mode = "workflow" /\ Contains(owned, "store") =>
    /\ column = "required" /\ data /\ index /\ actions = M!Whole /\ ~odd
    /\ \A i \in DOMAIN keys : keys[i] # M!Null

\* Ready is ready for operators and application alike, and running again
\* heals what a dead run has left, except half a table of actions (see
\* Migration).
SchemaSafety == DatabaseTypeOK /\ ServesOverReadySchema /\ M!ReadyIsReady /\ M!RerunHeals

\* A conflicting database is not touched, by a start-up or an operator, and no
\* message is lost or gets another key.
DatabaseIsKept == M!ConflictUntouched /\ M!KeysAreKept
=============================================================================
