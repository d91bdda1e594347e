# A verification model of the e-commerce support agent

The service under `src/app` answers customers' questions: a turn is routed by a
model, answered from a knowledge base or by an agent with tools, recorded in
MySQL, and kept in a LangGraph checkpoint in PostgreSQL. These modules model how
its parts keep two databases, a process-local guard, cancelled coroutines and an
unreliable model consistent. TLC checks them on small instances, TLAPS proves the
safety properties and refinements for every value of the constants.

## 1. The system

| part (source) | state | operations | what makes it correct |
|---|---|---|---|
| `SessionGuard` (`sessions.py`) | set of active conversations | acquire, release | one live turn per conversation; no seat leaks |
| `WorkflowChatService` (`services/workflow_chat.py`) | one coroutine per request, one shielded cleanup task | prepare, stream, `_finish` | the guard outlives the physical work; `done` only for durable turns |
| `TurnOperations` (`services/turn_operations.py`) | tasks and iterators of one turn | run, track_iterator, drain | nothing of the turn runs after drain; a task is cancelled at most once |
| `ConversationRepository` (`db/conversations.py`) | conversations, messages | create, start_turn, append_call/result, finish_turn, get_turn, audit | a turn ends once; an uncertain COMMIT is looked up |
| recovery (`workflow/recovery.py`) | both stores | recover_conversation, verify_completed_turn | settles what a crash left; never refuses what the program itself wrote |
| graph and nodes (`workflow/graph.py`, `nodes.py`, `routing.py`, `state.py`) | `WorkflowState`, saved before every node | resolve, classify, ..., persist | the audit is committed before the checkpoint; the answer saved before the audit |
| agent (`workflow/agent.py`), budget (`workflow/budget.py`) | counters, reservations | decide, execute_tools, final, reserve | limits hold whatever the model proposes |
| window and evidence budget (`context.py`, `knowledge/evidence.py`, `workflow/gateway.py`) | none | build a request, choose evidence | what a window drops never makes the stores irreconcilable |
| knowledge stage, pipeline (`workflow/knowledge.py`, `knowledge/pipeline.py`, `query.py`, `retrieval.py`, `evidence.py`) | a retrieval in the checkpoint | normalize, search, read, rerank, decide, answer, open a citation | no stale text, no answer without evidence, no invented citation |
| actions (`db/actions.py`, `services/actions.py`) | conversation_actions | offer_once, get_confirmable, mark_completed, confirm | a ticket only for an offer of a completed turn |
| tickets, tools (`db/tickets.py`, `tools/executor.py`) | tickets; attempts | create_once, run | one ticket per action; attempts do not overlap |
| low confidence (`db/low_confidence.py`) | questions that were refused | record_once | one record per turn, the same id for everyone |
| inference worker (`knowledge/worker.py`, `local_models.py`) | executor, `_inflight` | run, aclose | capacity is always returned; models outlive their work |
| Milvus store (`knowledge/milvus_store.py`) | executor, client, collection | `_call`, ensure_schema, prepare, upsert, search, aclose | no RPC outlives its caller |
| indexer (`knowledge/indexer.py`, `db/knowledge.py`) | chunk rows, vectors, lock file | run, mark_done_if_current, insert_seed | a row marked done has its own vector |
| legacy chat (`services/chat.py`), transport (`api/streaming.py`) | as the workflow service | prepare, stream, `_cleanup`, close | as the workflow service, with a one second grace |
| lifespan (`main.py`, `resource_lifecycle.py`, `workflow/bootstrap.py`) | owned resources | start, drain, close_resources | everything closed once, in reverse, despite cancellation |
| migrations (`db/workflow_migrations.py`) | schema | migrate_workflow, its check | running again heals all but a half-made table of actions; ready means ready; a conflict is left alone |
| evaluation (`knowledge/evaluation*.py`, `workflow/evaluation.py`, `scripts/evaluate_*.py`) | files of one operator | evaluate, calibrate | not modelled, see 6 |

The parts meet in these places. Requests share the guard, the row lock of a
conversation (`SELECT ... FOR UPDATE` in `_write` and `offer_once`) and the
conversation's thread in PostgreSQL; no transaction spans both databases.
Confirmations of actions run beside the turns and take neither the guard nor that
row lock. A cancelled coroutine's COMMIT may take effect later than anything its
caller does next. The process may die between any two steps; it is a single
worker, so that the guard is empty after a restart.

`PROJECT.json` lists all components, also those that are not modelled, and every
hazard with its line. The hard behaviours are: late COMMITs, two stores without a
common transaction, cancellation at any await, recovery that fails half way,
retries of work whose outcome is unknown, and limits that have to hold against a
model that may propose anything.

## 2. The modules

| module | models | extends or instantiates |
|---|---|---|
| `WorkflowTurn` | guard, turn audit, checkpoint, prepare / stream / `_finish`, recovery, crash | instantiates `ConversationLog` |
| `ConversationLog` | what a conversation promises its readers | |
| `MCWorkflowTurn` | model values and symmetry | `WorkflowTurn` |
| `WorkflowTurnProofs` | its theorems, the refinement of `ConversationLog` among them | `WorkflowTurn`, `TLAPS` |
| `ActionConfirm` | offer, end of turn, concurrent confirmations, tickets, retries | |
| `MCActionConfirm` | model values, the order in which requests are numbered | `ActionConfirm` |
| `ActionConfirmProofs` | its theorems | `ActionConfirm`, `TLAPS` |
| `TurnGraph` | outer graph, agent loop, budget, deadlines | |
| `TurnGraphProofs` | its theorems | `TurnGraph`, `TLAPS` |
| `TurnDrain` | `TurnOperations` of one turn | |
| `ToolRun` | one `ToolExecutor.run` with its consumer and its tool | |
| `ToolTurn` | a turn that runs a tool through its operations | extends `TurnDrain`, instantiates `ToolRun` |
| `ToolTurnProofs` | theorems about `TurnDrain`, `ToolRun` and both together | `ToolTurn`, `TLAPS` |
| `LowConfidence` | `record_once` by several callers | instantiates `WriteOnce` |
| `WriteOnce` | what an idempotent write promises | |
| `LegacyTurn` | turns of the earlier `ChatService` under the SSE transport | |
| `LowConfidenceProofs` | theorems about both, the refinement of `WriteOnce` among them | `LowConfidence`, `LegacyTurn`, `TLAPS` |
| `InferenceWorker` | the inference thread, its callers and closers | |
| `MilvusStore` | the vector store's client | |
| `Executors`, `MCExecutors` | both of them on one event loop, and the demands they are checked under | extends `InferenceWorker`, instantiates `MilvusStore` |
| `KnowledgeIndex`, `MCKnowledgeIndex` | indexer, seeder, editors over MySQL and Milvus | |
| `KnowledgeBaseProofs` | theorems about the two executors and the index | `Executors`, `KnowledgeIndex`, `TLAPS` |
| `KnowledgeAnswer`, `MCKnowledgeAnswer` | one question from rewriting to citation | |
| `KnowledgeAnswerProofs` | its theorems | `KnowledgeAnswer`, `TLAPS` |
| `Lifespan` | start-up, shutdown, `close_resources` | |
| `Migration` | `migrate_workflow` and its check | |
| `Deployment` | a start-up beside operators who migrate its database | extends `Lifespan`, instantiates `Migration` |
| `DeploymentProofs` | theorems about `Lifespan`, `Migration` and both together | `Deployment`, `TLAPS` |

How they compose. Three modules put components together whose steps interleave. In `ToolTurn`
the iterator of a turn's operations is the generator of a running tool: it moves only while an
operation, or the `aclose` of the drain, is inside it, and a cancelled operation is a cancellation
at the generator's await. In `Deployment` the start-up step "migration" is a run of `Migration` that only
checks, while another operator migrates and an old writer writes. `Executors` puts the two
executors of the knowledge base on one event loop; they share nothing else, and a scene keeps one of them
idle, so that this module is there to check two like things in one run.

`WorkflowTurn`, `TurnGraph` and `ActionConfirm` take the contracts of the
smaller parts as steps, and the modules of those parts show the contracts: `TurnDrain` that
after drain nothing of the turn runs (`DrainedMeansQuiet`, used by `WorkflowTurn!Drain`),
`ToolRun` that a run waits for its attempt (`NothingRunsOn`, used by `ActionConfirm!Timeout`),
`LowConfidence` that a refusal can be recorded once, `KnowledgeAnswer` which results the
knowledge stage has (used by `TurnGraph`'s evidence), `MilvusStore` that an upsert leaves nothing
behind (`NothingLeftBehind`, `KnowledgeIndex` without "late"). `DrainedMeansQuiet`, `NothingRunsOn` and `NothingLeftBehind`
are about the tasks and work items of this process; what a server still does with what it was sent is in
`WorkflowTurn!Disown`, `ActionConfirm!Disown` and the index's "late".

Four modules have a variable that is chosen in `Init` and never changes (`scene`, `crowd`): it says
which bounds a behaviour has, so that one run covers several instances of a module that would be too large
together.

### WorkflowTurn

An element of `Turns` is a request and, because `prepare` draws a fresh uuid, also
the id of its turn. `pc[r]` is the await its coroutine is at. The MySQL variables
are `created`, `audit` (the `turn_status` shared by a turn's rows), `row` (the
order of the turns' first rows) and `txn` (the transaction that holds a
conversation's row lock, with what it will write). `ckpt[c]` is the newest
checkpoint: whose turn it is, its status, whether the answer is in it, its history,
and whether LangGraph still has tasks for it. A write is three steps: take the lock
and check the rows (`FinishTurn`, `Start`), the server's `Commit` or `Rollback`,
and the coroutine hearing of it (`...Ack`); between them the request may be
cancelled (`Disconnect`), fail (`Fail`), lose its connection (`Disown`) or die
(`Crash`), and the COMMIT may still happen. `Ack` actions look at the row and not
at the transaction: that is the verification read after a `DBAPIError`.

The graph run appears as the checkpoints it saves (`Input`, `Fresh`, `Work`,
`SaveWrites`, `SaveFinal`) around `Persist`, which commits the audit. The nodes
before `Persist` are one step here because they neither touch the audit's status
nor the history; `TurnGraph` opens them.

`recover_conversation` is `Recover` (its reads, the conflict tests and the choice
of a branch), `Settle`/`SettleAck`/`SettleDone` (cancelling pending turns) and
`Update` (`aupdate_state`). One step for all reads is exact: recovery holds the
guard, so that at most one transaction, one left by an earlier request, can commit
meanwhile, and each turn's status is read once.

A status `interrupted` stands for the `cancelled` rows that recovery writes; their
event data differs from a cancellation by `_finish`, and `_write` compares it.

### ConversationLog

The abstract specification: turns are opened, then appended to the log or closed
for good, and a client is told of success only for a turn in the log. `WorkflowTurn`
implements it under the mapping at its end (`PromiseSpec`, which TLC checks and
TLAPS proves): the log is the completed turns in row order. The map is to MySQL alone; that the checkpoint agrees
is what `CheckpointNeverAhead`, `CheckpointIsTail` and `RepairIsPossible` say.

### ActionConfirm

Turns of one conversation and confirmation requests. `owner` is the conversation's
row lock with the write of the turn that holds it, `inserter[t]` the holder of an
uncommitted ticket row (a second INSERT of that key waits for it), `marker[t]` the
lock of an action row. A confirmation is `Confirmable`, attempts of `Look`,
`Insert`, `CreateAck`, `Verify`, and `Mark`, `MarkAck`, `Remark`. `Timeout` waits for
the attempt's own transaction because `ToolExecutor.run` gathers the cancelled task
before it retries; the transaction may meanwhile be left to the server. A turn's id
stands for its action and its ticket number, which are derived from it. `Close` is
external: nothing in the service writes `closed`, but three of its checks read it.

### TurnGraph

One turn. `node` is a node of the graph or an await inside one. The model is the
environment: it chooses the route, the evidence, each decision, what a request
costs. `spent` is `RequestBudget._reserved`; a request reserves its cost and is
never refunded. `clock` has three values: before the request timeout, after it,
after the knowledge timeout; `deadline` is `TurnRuntime.deadline` and `waiting` the
value under which the service awaits the next event. That value is passed to
`operations.run` before the wait, so that an extension by `Classify` reaches the
service only with the next event (`Await`).

### TurnDrain

`op[o]` is a slot for a task of `run()`: "idle", "running" or "cancelling", and idle again once its
task has ended and has left the set. `on[o]` is the iterator whose `anext` it is inside, `tracked` is
`_iterators`, `drain` the `_drain_task` every caller shares. `Leave` is a caller that stops
waiting (deadline or cancellation) and cancels its task; `Snapshot` is the drain task's
first step, which cancels whatever nobody has cancelled; `Gathered` its `gather`, `Close` and
`Closed` the closing of the iterators; `Hit` and `LeaveDrain` are the loop that remembers a
cancellation and waits on.

### ToolRun and ToolTurn

The generator (`pc`), its tool's task per attempt (`task`, `res`), the clock, the bounded
progress queue (`emitted` minus `taken`), the tickets in MySQL. The consumer takes its time at
every yield, so that time may pass between the announcement of an attempt and its start
(`Resume`), and may be cancelled or close the generator anywhere (`Leave`). A tool may commit
after its cancellation, ignore it, or hang until then. `Settle` is the `finally`.

`ToolTurn` has two consumers. "workflow" is `execute_tools`, which runs query tools and takes every event by an
operation of its own: there the consumer's part of `ToolRun` is not free but follows from `TurnDrain`. "other" is
the earlier chat service and the confirmation of an action, which use every tool and no operations.

### LowConfidence and WriteOnce

Each caller runs `record_once`: `ValidateTurn` is the first read and fixes the snapshot
(`view`), `Existing` the lookup in it, `Insert` the flush under the unique key, which waits for
whoever holds it, `Commit` the end of the `with` block. `Fail` is a `DBAPIError` at any statement, with a
COMMIT that may have been made, and leads to `_recover_unique_race`, a fresh transaction with a fresh
snapshot. `WriteOnce` is the promise: at most one value is ever written, and each caller is
told that value or a refusal, once. The mapping takes the committed rows for what is written
and the return values for what was told; TLC checks it and TLAPS proves it.

### LegacyTurn

`op[t]` is the physical operation of `bounded()` and `what[t]` the step it belongs to; a
cancelled operation unwinds when it does and may still commit. `_cleanup` is `Finish`,
`CloseIterators`, `Settle`, and `GiveUp` when its second is over; the guard is then released
(`Release`) whatever still runs. The transport's 1.1 s close and second cancellation are
`Leave`. `flags[t]` remembers who gave up, so that the properties can say that only this breaks
them. They are about tasks: a COMMIT ends with its task here, while in the program (`conversations.py:180-191`) the server may
make one whose connection was lost; it takes a second failure, of `finish_turn` itself, for such a COMMIT to meet the next turn. Rows are sets of event keys, which is what makes a repeated write idempotent. `crowd` says which turns
there are: one of any kind, or two of one conversation that answer without a tool.

### InferenceWorker and MilvusStore

Both put a bounded counter in front of one executor thread. `stage` follows a work item from
"queued" over the thread to its two done callbacks: the first releases the capacity, the second
wakes the caller, and both are steps of their own because the event loop runs in between.
`value` is what the item's future holds, `abandoned` the `threading.Event`s, `inflight` the
counter, `kpc` the coroutines inside `aclose`. They differ in what a caller does that gives
up: one of `InferenceWorker` leaves at once and the thread skips its item, one of
`MilvusStore` drains its RPC first (`Drained`), however often it is cancelled. `Check`/`Begin`
and `Skip`/`Connect`/`Send` keep the reads of the event and of the clock apart. In
`MilvusStore` an operation is a sequence of RPCs (`After`), and the collection may be absent,
compatible or not; there the two callbacks are one step (`Tell`), since no property looks between them.

### KnowledgeIndex

`text` and `done` are the rows in MySQL, `vec` is the text each vector in Milvus was made from,
which is what `source_hash` compares. A run is `List`, `Compare` and `Reset` with `--repair`,
`Embed`, `Upsert`, `Confirm` (the fingerprints after the flush), `Mark` row by row, `End`, with
`Fail` and `Crash`. A scene says who runs, whether the runs share the lock file (`oneHost`), which texts are too
long, and what else may happen: "careless" edits leave the status as it is, "loss" removes vectors, "late" applies an
upsert after its error. The seeder is `Seed` (locks), `Insert`, `Recover`. `IndexInv` is the types and what a
row marked done promises and what a run under way knows, on one host and without disorder; with two hosts or disorder only
what a clean `--repair` leaves is claimed (`CleanRunIndexes`), for which `CleanOK` says what a run that nobody disturbed
knows of each row of its list.

### KnowledgeAnswer

One question through `QueryNormalizer` (`Prepare`), `KnowledgeRetriever` (`Search`, `ReadRows`,
`Rerank`, `Sort`), `decide_evidence` (`Decide`, `Assess`) and the answer (`Render`, `Generate`), by
either entry point; `Save` is the workflow's checkpoint of a retrieval and the check when it is
read back. `Edit`, `Lose`, `Upsert` and `Mark` change the stores between any two stages, and `Open`
follows a citation at any time afterwards. `Sort` and `ReadRows` say what the code's loops leave
(an order by score, the rows that are still current, once per chunk) and not how. A query is a wording, the protected terms and whether it is
negated; the model may give any. `BM25Query` is the set of texts the full-text search is for, with the code's two cuts: of a
question that is "long" (more than 1,024 characters; it may have 32,000) only the start is searched for, and because a
rewriting has at most 512, a plan without one looks for that start only. `ValidSnapshot` is the part of the check that relates
ids, ranks, order and counts; its tests of types and of the range of scores are left out.

### Lifespan, Migration and Deployment

`Lifespan`: `at` is the next step of the start-up, `owned` the list handed to
`close_resources`, `held` what really holds something, `closed` the order in which closes ended.
`Migration`: each DDL statement is a step that commits by itself; `conversation_actions` takes three, the CREATE
TABLE and one CREATE UNIQUE INDEX for each of its two keys (`CreateTable`, `CreateUnique`), and `actions` counts them. `HalfMade` is a
table that lacks a key, which `_inspect_schema` refuses; `Abandoned` is one whose creator has died. `Init` is every database a
migration may meet, half-migrated, half-made and conflicting ones included; `old` says that an old writer was not stopped and
`Write` is its insert. `Deployment` joins them: `CheckBegins` and `CheckWorks` are the check of the start-up,
`GoOn` takes its step only if it is ready, `GiveUp` and `GiveIn` end it with the start-up. In the scene "migrate" no
application starts and two operators work on up to three messages.

## 3. The runs

| run | question | bounds |
|---|---|---|
| `turn_safety` | Are both stores reconcilable, is `done` true, does recovery refuse nothing but an emptied history, and is the abstract log implemented, under all interleavings of cancellations, lost COMMITs and crashes? | 3 requests, 1 conversation, history of 1, windows of 0 to 2 turns |
| `turn_liveness` | Are the guard's books right with several conversations, and does every request give its seat back? | 2 requests, 2 conversations, 2 seats, fairness |
| `turn_empty_window` | Does recovery accept whatever the program leaves? **No**: see 5. | 3 requests, history of 2, windows of 0 and 1 |
| `confirm` | Do tickets, actions and answers agree, and is every confirmation answered? | 2 turns, 2 confirmations, 2 attempts, fairness |
| `graph` | Do limits, audit order, evidence order and deadlines hold, and does every turn end? | 3 decisions, 2 tools, budget 7, costs 1, 2, 4 and 8, fairness |
| `tool_turn` | Is nothing interrupted twice, closed under its user, tried in vain or left running, from drain down to the tool's task? | 2 operations at a time, 1 caller of drain, 2 attempts, 2 ticks, queue of 1, 2 stages, fairness |
| `low_confidence` | One record, one id, no false failure; is `WriteOnce` implemented? | 3 callers, 2 texts, 2 failures, fairness |
| `legacy` | What can go wrong when the grace runs out, what does the next turn meet, and is the guard returned although operations hang? | 1 turn of any kind, or 2 turns; fair timers only |
| `executors` | Is capacity exact, is close quiet, does an operation leave an RPC behind, is only a good collection loaded; do calls end, although inference may hang? | a call of 2 batches and one of 1 with two closers, or 3 calls of 1, for a queue of 1; or ensure and prepare, upsert and search with a closer, or 3 searches, for 2 places |
| `index` | Does a done row have its own vector, does a clean `--repair` heal what disorder did, do racing seeds tell the truth? | 2 rows, 2 texts; two runs on one host and 2 edits, or on two hosts and 1 event, or 1 run and 2 seeders |
| `answer` | Does what is searched keep the question, cut or not, is evidence current while rows change, are the sources the best, the answer grounded, refusal and link true? | every rewriting of a short and of a long question; or 2 chunks and 3 changes; or 4 chunks in any order, some twice, for 3 sources |
| `deployment` | Is everything closed once, in reverse, and nothing served over a schema that is not ready; does running the migration again heal what is not a half-made table of actions, is a conflict left alone? | 3 kinds of start-up, 1 cleanup, 1 operator, 1 message; or 2 operators and 3 messages, batches of 2 |

What the runs check are conjunctions of named parts where several things are one promise:

| run | properties, with their parts |
|---|---|
| `turn_safety` | `WritesUnderGuard`, `DoneIsDurable`, `CheckpointNeverAhead`; `HistoryIsTail` (`CheckpointIsTail`, `HistoryBounded`); `RecoveryHeals` (`RepairIsPossible`, `RecoverySettles`, `RefusesOnlyEmptied`); `TerminalIsFinal`; `PromiseSpec` |
| `turn_liveness` | `SeatAccounting`, `SeatIsReturned` |
| `confirm` | `TicketWasConfirmable`, `ReplyTruth`, `AttemptsDoNotOverlap`; `OffersAreKept` (`NoOfferAfterClose`, `ShownIsConfirmable`); `Answered` |
| `graph` | `Limits`, `AuditKeepsPace`; `AnswerFollowsEvidence` (`OneAnswer`, `EvidenceFirst`); `EndsInTime` (`Ends`, `KnowledgeHasItsTime`) |
| `tool_turn` | `DrainSafety` (`CancelledOnce`, `ClosedOutside`, `DrainedMeansQuiet`); `ToolStops` (`NoToolSurvives`, `UnwindsOnce`, `NothingRunsOn`); `AttemptsAreSound` (`RetriesAreTemporary`, `TicketOnce`, `StagesBeforeAnswer`, `NoLateStart`); `SealedForGood`; `EverythingReturns` (`DrainEnds`, `RunEnds`) |
| `low_confidence` | `AnswersAreTrue` (`ReturnedIsDurable`, `OnlyWhatWasSaid`, `LosersFindTheRecord`); `CallsEnd`; `PromiseSpec` |
| `legacy` | `LegacySafety` (`OneWriteAtATime`, `AnswerIsDurable`, `QuietUnlessGivenUp`, `AloneUnlessGivenUp`); `EndsForGood` (`EndIsFinal`, `GuardIsReturned`) |
| `executors` | `WorkerSafety` (`WorkerInv`, `CapacityIsExact`, `OwnWorkIsReleased`, `WaiterIsNotAbandoned`, `CloseIsQuiet`, `ModelsOutliveWork`); `StoreSafety` (`CapacityIsExact`, `NothingLeftBehind`, `CancellationIsHeard`, `ClientOutlivesWork`, `LoadedIsCompatible`); `AllSettle` (`AbandonedIsSkipped`, `OnlyEnsureCreates`, `EveryCallEnds`, `EverythingSettles`, `EverythingEnds`) |
| `index` | `IndexInv`; `ReportsAreTrue` (`CleanRunIndexes`, `SeedTruth`, `SeedsOnlyAdd`) |
| `answer` | `SourcesFitTheQuestion` (`SearchKeepsTheQuestion`, `SourcesAreTheBest`); `NoStaleText` (`EvidenceWasCurrent`, `LinkShowsTheCitedText`); `OutcomeIsGrounded` (`RefusalNamesItsCause`, `AnswerIsGrounded`, `OwnSnapshotIsValid`) |
| `deployment` | `LifespanSafety` (`ClosedInReverse`, `NothingClosedInUse`, `EndIsTold`); `SchemaSafety` (`ServesOverReadySchema`, `ReadyIsReady`, `RerunHeals`); `DatabaseIsKept` (`ConflictUntouched`, `KeysAreKept`); `LifespanEnds` |

Some type invariants are parts of these properties (`WorkerInv`, `StoreInv`, `IndexInv`, `LegacySafety`); those of the turn,
the confirmation, the graph, the drain and the low-confidence record stand by themselves, proved.

Why the bounds are enough. Three requests let one leave a turn behind, a second
recover it and fail in turn, and a third find what both left; a history of one or
two turns with windows smaller, equal and larger makes every slice cut, keep and
miss. Two seats for two conversations let requests take, keep and give back seats in every order and refuse the second
request of a busy conversation; that all seats are taken needs a third conversation and is left to the
proof, which is for any number of seats (`SeatsAccounted`). Two
confirmations race for a ticket; two attempts give a retry after every outcome.
Every tool call takes a decision, so
that with more decisions than tools only the tool limit stops the loop (three and two, as
the default five and four); the budget runs out at each of the nodes with the given costs (one request
alone may exceed it: `turn_model_budget` may be as small as 1). Turn ids are interchangeable, which is the symmetry
of `turn_safety`; runs with liveness properties use none, and `confirm` numbers turns and confirmations in the order in
which they appear instead, which is sound for liveness too. Runs do not check for
deadlock, because a system whose requests are all answered does stop.

In the other modules two of a kind are enough to race and a third to lose to the winner
after both. Two operation slots are used again and again, so that one is snapshotted by drain while the other is
cancelled or has ended; the proof is for any number. Three inference calls fill thread and queue and are refused, and
so do three searches the store's two places; three callers of `record_once`
let a loser meet another loser. A queue of one is full after one
item, with one more to be refused. Two batches make a call meet its own released capacity.
Three messages with batches of two make a second transaction of the back-fill and leave one for
the old writer behind it. The table of actions is found absent, whole or with one key missing,
which is refused like one with both missing, and a database with an odd definition, always refused, without that table. With three sources for four chunks some chunk is always left out.

`MaxActive`, `MaxHistory`, `MaxAttempts`, `MaxDecisions`, `MaxTools` and `Budget` are
settings of the program, not bounds of the model. What bounds the state is the number
of requests, and `Fits` and `Costs`, the choices of the environment. `clock` stops at 2
because no deadline lies beyond it. The scenes and demands are bounds, named in the MC modules; a
demand on the store also says which collections it may find: searches find a good one or none,
which is all they could tell apart.

### Fairness

`WorkflowTurn!Fairness`: a coroutine that can run does so, or its deadline ends it
(`Step \/ Fail`), as the event loop and `timeout_at` ensure; and MySQL decides each
transaction. `ActionConfirm!Fairness` is the same for confirmations; turns are under no
fairness there, since no confirmation waits for one. `TurnGraph!Fairness`: the graph
goes on, fails or times out, and time passes. Streaming tokens is not fair: a stream
that never ends is ended by its deadline. No fairness is assumed of clients, operators,
retries that succeed or commits that succeed. Two facts are taken from outside: MySQL's
lock wait ends, and a cancelled checkpoint save is settled when `drain` returns.

In the other modules: `ToolTurn!FairTogether` assumes that what was cancelled ends
(asyncio unwinds it, and the handlers of the code are bounded), that the loop runs ready
callbacks and that time passes; a tool that is not cancelled, and a consumer's next cancellation, are not
fair. `Executors!Spec` is fair to the event loop, the clock, the threads' own steps and an RPC, which ends by its own
timeout argument; an inference that has begun need not end, so that `EveryCallEnds` is about a model that hangs too, while
`EverythingSettles` has the premise that none hangs (`NoHang`). It is one condition on the union of these steps because each call has finitely
many of them. `LegacyTurn!Fairness` is timers and ready coroutines only: no operation need
end, which is what the grace is for. `Deployment!Deployed`: threads and cleanups end, and a shutdown that can go on does.
`LowConfidence!FairSpec`: the database answers each statement that waits for no lock.

## 4. The proofs

TLAPS proves every safety property the passing runs check, invariants and action properties, and
both refinements, for every value of the constants that satisfies the named assumptions. Each
proof module has the inductive invariant of its component, one lemma per part of it or per group of
actions, and the theorems that follow. `PROJECT.json` lists the theorems.

**`WorkflowTurnProofs`**, any conversations, turns, limits and windows.
The first half proves `TypeOK`, `SeatAccounting`, `WritesUnderGuard`, `TerminalIsFinal`,
`CheckpointNeverAhead` and `DoneIsDurable`. Its invariant `IInv` says what a lock protects (a
transaction that will end a turn found it pending, and nobody else can write that conversation), which
seat each coroutine holds, and what a coroutine knows at each `pc`.

The second half proves `HistoryIsTail`, `RecoveryHeals` and `PromiseSpec` from `TailInv`, which TLC was
asked about first. None of them is inductive: a checkpoint's history is right because of what recovery took
over, what the graph appended and what may still commit. So `TailInv` says:

* `RowsOK`: each turn of a conversation has a place of its own in the row order;
* `ThreadOK`: no turn was completed after that of the checkpoint, and what a repair would leave of its
  history is *unbroken*: committed turns in row order, with no committed turn left out behind its first;
* `FlightOK`: what is in flight opens a turn or ends a pending one, and completes only the checkpoint's
  turn, whose answer is saved;
* `HealsOK`, `RunsOK`: what a recovery and a graph run have established at each `pc`;
* and that the committed turns of a conversation can be listed in row order.

An unbroken history of bounded length is the end of that list (`UnbrokenIsTail`): were it not, they would
differ at some place, counted from the end, and at the first such place the history would leave a turn out.
"First" is `Least`: a set of numbers that is not empty has a least one, from the library's theorem on
well-founded relations. Steps of one coroutine that leave the rows alone are handled together (`Local`, `TailLocal`).
For the refinement the log is a `CHOOSE` among listings; there is exactly one (`LogIs`), a COMMIT that completes a
turn appends to it because that turn is the newest (`ThreadOK`), and every other step leaves every log alone
(`LogStays`). `PromiseStep` then maps a COMMIT to `Open`, `Complete` or `Close`, the audit read that
says "done" to `Report`, and all else to a stutter.

**`ActionConfirmProofs`**, any turns, confirmations and attempts: `TypeOK`, `TicketWasConfirmable`,
`ReplyTruth`, `AttemptsDoNotOverlap`, `OffersAreKept`. `IInv` says that a locked write is the
first of its kind, that uncommitted ticket and mark rows belong to accepted actions, and what a
confirmation has established at each `pc`; a terminal turn staying terminal is what makes an accepted
action remain accepted while its confirmation is retried. `OfferInv` adds that what a turn showed is on
disk, and that closing waits for an offer on its way.

**`TurnGraphProofs`**, any limits, budget and costs: `TypeOK`, `Limits`, `AuditKeepsPace`, `OneAnswer` and
`EvidenceFirst` (`AnswerFollowsEvidence`), `KnowledgeHasItsTime`. The counters' invariant ties calls, results and tools to
the node: a call is one ahead only while its tool is being settled, and a tool was left when it was proposed. `LongWait`
says under which deadline the service waits; proving it showed that a turn may end at `retrieve` under the
shorter one, the window section 5 names.

**`ToolTurnProofs`**, any operations, iterators, callers, deadline, timeout, queue and stages, one or two
attempts: for `TurnDrain` alone, `CancelledOnce`, `ClosedOutside`, `DrainedMeansQuiet`
(`DrainSafety`) and `SealedForGood`, from what the drain task knows at each stage; for `ToolRun` alone, the parts of
`AttemptsAreSound`, from what the generator knows of its attempts (`RunInv`). Then each step of `ToolTurn` is
a step of either or a stutter (`ToolTurnIsATurn`, `ToolTurnIsARun`), so that both promises carry over, and `JointOK`
says from where a generator that is not at a yield is being run: an operation inside it, or the drain's `aclose`. Hence
`ToolStops`: no tool outlives its turn.

**`LowConfidenceProofs`**, any callers, texts and failures: `TypeOK`, `OneRecord`, `ReturnedIsDurable`,
`OnlyWhatWasSaid` and `LosersFindTheRecord` (`AnswersAreTrue`), and `PromiseSpec`, the refinement of `WriteOnce`: an
uncommitted row is the only row anywhere, snapshots show only committed rows, whoever knows an id has said the text, and
a caller in recovery without a failure of its own lost to a committed record (`Race`).
For `LegacyTurn`, any turns: `LegacySafety`, from who holds the guard, what `finish` still owes (`FinishOK`), what is saved when
an answer is told (`SavedOK`) and what may run for a turn that nobody gave up (`QuietOK`); and `EndIsFinal`.

**`KnowledgeBaseProofs`**, finite sets of callers and operations, any sizes and demands: `WorkerSafety` and
`StoreSafety`. The counter in front of each thread is the number of items that are held, queued or on the thread (a cardinality), and
each step moves an item and the counter together; the queue's elements are distinct and are the items whose stage
says so. Besides, `AbandonedIsSkipped`, and `OnlyEnsureCreates` from the RPCs each method may be at (`RightKinds`).
For the index, any rows, texts and scenes: `IndexInv` is inductive as it stands; that a done row has its own vector
(`DoneIsIndexed`) follows for one host without disorder, and only there. And `ReportsAreTrue` follows from its last
part, `CleanOK`, at the step that ends a run, and from `PassOK` for the seeder.

**`KnowledgeAnswerProofs`**, any chunks, texts, scores, wordings and scenes: `SourcesFitTheQuestion`,
`NoStaleText`, `OutcomeIsGrounded`. `AnswerInv` follows a text from its hit to its citation: hits are of one text per chunk,
what is ranked was current when it was read, once per chunk, and with the stale ones is no more than the hits; so a
refusal for want of hits, of relevance or of current rows names its cause.

**`DeploymentProofs`**, any cleanups, operators, messages and batch: for `Lifespan` alone `LifespanSafety`: what is owned is a
function of the step of the start-up, what was closed is its end backwards, and who uses what (`UsersOK`). For
`Migration` alone `ReadyIsReady`, `RerunHeals`, `ConflictUntouched`, `KeysAreKept` (`DatabaseIsKept`): the schema only grows, a
run knows what it has seen of it, and the data stay good once counted as long as nobody inserts behind the run. Only one run can be
at the unique keys of the table of actions (`MakerOK`), and if it dies there every run that has looked before finds
all else done, every later one refuses (`AbandonedStays`). Then
`Deployment` is a behaviour of both, and `SchemaSafety` follows because a start-up past the step of the migration has heard
"ready" and that stays true.

The assumptions are the named ASSUMEs of the modules, which TLC evaluates in the runs: extra values
(`NoTurn`, `None`, ...) are not turns, confirmations or texts; the sets that are counted or bounded are finite; limits, sizes and
timeouts are numbers, positive where zero would stop the program; and for the modules with scenes and demands (`DemandsAssumption`, `ScenesAssumption`,
`IndexScenesAssumption`, `ModesAssumption`) what the fields of a scene are. None bounds a number from above but
`Attempts \in {1, 2}`, the values `ToolExecutor` accepts.

Not proved, and left to TLC: the liveness properties `SeatIsReturned`, `Answered`, `Ends`, `LifespanEnds`, `EveryCallEnds`,
`EverythingSettles`, `EverythingEnds`, `GuardIsReturned`, `CallsEnd`, `DrainEnds` and `RunEnds`, since liveness under
fairness and ENABLED are out of this prover's reach. `EndsInTime`, `AllSettle` and `EndsForGood` join such a
property with safety parts, and only those parts are proved. `RecoveryAccepts` is false (section 5).
The library's induction theorems take an operator and cannot be used here; where an argument needs induction over numbers, it
goes by a least counterexample (`Least`). No module declares a RECURSIVE operator.

## 5. What the checks found

* **An empty window makes a conversation unusable** (`turn_empty_window`). A long
  question makes the token window drop all earlier turns, the graph stores the empty
  history, and the turn ends before `persist`. The next request's recovery finds an empty
  history next to completed turns and raises `WORKFLOW_RECOVERY_CONFLICT`
  (`recovery.py:160`), as does every later one: nothing it does before raising changes
  either store. `RefusesOnlyEmptied` in `turn_safety` shows that this is the only state recovery refuses.

Seen while modelling, and not claimed by a run:

* a migration that dies after the CREATE TABLE of `conversation_actions` and before its second unique index
  (`workflow_migrations.py:118`, `workflow_models.py:11-12`) leaves a database that every later run and every start-up refuses
  with `MIGRATION_CONFLICT` (`:54-56`), although the docstring says "A crash can leave nullable event_key or partial backfill;
  rerunning resumes safely." (`:4`). `RerunHeals` names this one exception, and `ConflictUntouched` shows that no run mends
  it; the table has to be dropped by hand. While one operator's run is between these statements, another who looks
  is told of a conflict too;
* a long question that was not rewritten is searched for, in the full text, by its first 1,024 characters only, twice: the joined
  query is the start and the whole question cut at 2,048 (`retrieval.py:57`, `:66`). An identifier or a negation behind
  the cut is still in the text that is embedded and reranked (`SearchKeepsTheQuestion`);
* nothing makes `knowledge_request_timeout_seconds` at least `request_timeout_seconds`, as their defaults (240, 60) are and the
  model supposes;
* the agent prepares a fixed reply at the time limit, which `persist` cannot save under the same
  deadline, so that a time limit is answered with an error (`TurnGraph`, `clock` and `Timeout`);
* between `classify`, which extends the deadline, and the next event, the service waits under the old one, so
  that a knowledge question may end after the request timeout; `KnowledgeHasItsTime` says that this is
  possible in that window only;
* a COMMIT of `start_turn` that takes
  effect after its request has gone leaves a pending turn until the next recovery
  (`RecoverySettles` excludes these);
* a repaired history may be one longer than `max_history_turns`;
* a conversation that is closed between `get_confirmable` and
  `create_once` still gets its ticket (`TicketWasConfirmable` is about the offer and its turn);
* the earlier service releases its guard after one second
  although a write may still commit, which the next turn then meets (`AloneUnlessGivenUp` says that no other task is met).

## 6. Not modelled, and the plan

Texts, tokens and payloads are abstracted: equality of an answer in both stores is
whether it was saved, evidence is sufficient or not, a text stands for its hash, a window for the number of
turns it keeps. One worker process is modelled, as the deployment requires. The validity of what a model
returns appears only as an error that ends the turn, except where a property is about it
(`KnowledgeAnswer`).

Not modelled, and why:

* the fields of schemas, prompts, FAQ texts and configuration: validation of single values, without state;
* `bounded_result` (`tools/results.py`), which shrinks a payload until it fits: a loop over JSON text, of which
  `ToolRun!Judge` keeps that it fits or fails;
* estimates of tokens (`context.py`, the budget of `knowledge/evidence.py`): arithmetic over texts; what they decide, a
  window or a choice of evidence, is free in `WorkflowTurn!Fits` and in `KnowledgeAnswer`;
* the evaluations (`knowledge/evaluation*.py`, `workflow/evaluation.py`, `scripts/evaluate_*.py`), which run cases one
  by one, offline, and write the files of one operator; their metrics and reports;
* parsing and hashing of documents and model files (`knowledge/corpus.py`), which happen before anything is shared;
* encoding of SSE events, decoding of model output, token usage statistics;
* `aclose` of `WorkflowChatService` beyond its wait for cleanups, and the check of the checkpoint tables.

Next, in order:

1. Refinements not yet stated: `ActionConfirm`'s tickets implement `WriteOnce` (one ticket per action, one answer per
   confirmation), with the mapping checked by TLC first.
2. Contracts between modules that are now arguments in section 2 (`TurnDrain` for `WorkflowTurn!Drain`, `MilvusStore` for
   `KnowledgeIndex`) as theorems about a composition, as `ToolTurn` and `Deployment` are.
