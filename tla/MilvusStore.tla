------------------------------ MODULE MilvusStore ------------------------------
(***************************************************************************)
(* The vector store's client: operations of MilvusStore are sequences of   *)
(* RPCs under one deadline, each RPC a _call that waits for the single     *)
(* executor thread running _invoke.  A caller that is cancelled or times   *)
(* out drains its RPC before it leaves, unlike one of InferenceWorker.     *)
(***************************************************************************)
EXTENDS Naturals, Sequences, FiniteSets

CONSTANTS
  Ops,      \* operations, each of one caller
  Closers,  \* calls of aclose
  Capacity, \* RPCs that are queued or running: 2 in the code
  Demands   \* bounds of a behaviour: see demand

VARIABLES
  demand,     \* chosen at the start: which method each operation is, "none" if
              \* it does not begin, the closers that come, and the
              \* collections that an earlier deployment may have left
  pc,         \* operation: where its coroutine is, or how it ended
  rpc,        \* operation: the RPC it is at
  expired,    \* operations whose deadline has passed
  cancels,    \* operations whose task was cancelled
  stage,      \* operation: where its RPC's work item is
  value,      \* operation: what the item's future holds
  abandoned,  \* operations whose RPC's threading.Event is set
  queue,      \* the executor's queue
  inflight,   \* _inflight
  client,     \* _client: "none", "open" or "closed"
  closed,     \* _closed and _shutdown_task
  kpc,        \* closer: where its coroutine is
  coll,       \* Milvus: "absent", "good" or "bad" (incompatible) collection
  loaded,     \* Milvus: the collection was loaded by this process
  stored      \* Milvus: operation whose rows are stored

callers == <<demand, pc, rpc>>
work == <<stage, value, abandoned, queue, inflight>>
closing == <<closed, kpc>>
server == <<coll, loaded, stored>>
vars == <<demand, pc, rpc, expired, cancels, stage, value, abandoned, queue,
          inflight, client, closed, kpc, coll, loaded, stored>>

Rpcs == {"version", "has", "create", "describe", "list", "index", "load",
         "upsert", "flush", "query", "search"}
Draining == {"drain", "drainTimeout"}
Ended == {"ok", "error", "full", "closed", "deadline", "cancelled"}
OnThread == {"taken", "running", "done"}
Held == {"queued"} \union OnThread
Set(f, o, v) == [f EXCEPT ![o] = v]

TypeOK ==
  /\ demand \in Demands
  /\ pc \in [Ops -> {"idle", "call", "waiting"} \union Draining \union Ended]
  /\ rpc \in [Ops -> Rpcs]
  /\ expired \subseteq Ops /\ cancels \subseteq Ops /\ abandoned \subseteq Ops
  /\ stage \in [Ops -> {"none", "queued", "told"} \union OnThread]
  /\ value \in [Ops -> {"none", "yes", "no", "error", "timeout", "abandoned"}]
  /\ queue \in Seq(Ops)
  /\ inflight \in Nat
  /\ client \in {"none", "open", "closed"}
  /\ closed \in {"no", "waiting", "done"}
  /\ kpc \in [Closers -> {"idle", "waiting", "closed", "cancelled"}]
  /\ coll \in {"absent", "good", "bad"}
  /\ loaded \in BOOLEAN
  /\ stored \subseteq Ops /\ Cardinality(stored) <= 1

FirstRpc == [ensure |-> "has", prepare |-> "version", upsert |-> "upsert",
             search |-> "search", none |-> "search"]

\* The collection of an earlier deployment may be anything, or missing; a
\* demand may look at only some of the cases.
Init ==
  /\ demand \in Demands
  /\ pc = [o \in Ops |-> "idle"]
  /\ rpc = [o \in Ops |-> FirstRpc[demand.kind[o]]]
  /\ expired = {} /\ cancels = {} /\ abandoned = {}
  /\ stage = [o \in Ops |-> "none"]
  /\ value = [o \in Ops |-> "none"]
  /\ queue = <<>>
  /\ inflight = 0
  /\ client = "none"
  /\ closed = "no"
  /\ kpc = [k \in Closers |-> "idle"]
  /\ coll \in demand.colls
  /\ loaded = FALSE
  /\ stored = {}

-----------------------------------------------------------------------------
(* Operations.                                                             *)

\* The RPC that follows one that returned, or none: ensure_schema creates a
\* missing collection, both validate an existing one before they load it.
After(o) ==
  CASE rpc[o] = "version" -> "has"
    [] rpc[o] = "has" -> IF value[o] = "no" THEN "create" ELSE "describe"
    [] rpc[o] = "describe" -> "list"
    [] rpc[o] = "list" -> "index"
    [] rpc[o] \in {"index", "create"} -> "load"
    [] rpc[o] = "upsert" -> "flush"
    [] rpc[o] = "flush" -> "query"
    [] OTHER -> "none"

\* A wrong version or schema, a missing collection in
\* prepare_existing_collection, other fingerprints than the upserted ones.
Unexpected(o) ==
  /\ value[o] = "no"
  /\ rpc[o] = "has" => demand.kind[o] = "prepare"

\* What only concerns the operation and its RPC ends with it.
End(o, outcome) ==
  /\ pc' = Set(pc, o, outcome)
  /\ rpc' = Set(rpc, o, FirstRpc[demand.kind[o]])
  /\ expired' = expired \ {o}
  /\ abandoned' = abandoned \ {o}
  /\ value' = Set(value, o, "none")
  /\ stage' = IF stage[o] = "told" THEN Set(stage, o, "none") ELSE stage

\* upsert may find a row it cannot store, before any RPC.  Operations of one
\* method are alike and begin in order.
Start(o) ==
  /\ pc[o] = "idle" /\ demand.kind[o] # "none"
  /\ \A p \in Ops : p < o /\ demand.kind[p] = demand.kind[o] => pc[p] # "idle"
  /\ \/ pc' = Set(pc, o, "call")
     \/ demand.kind[o] = "upsert" /\ pc' = Set(pc, o, "error")
  /\ UNCHANGED <<demand, rpc, expired, cancels, work, client, closing, server>>

\* _call up to its await.  executor.submit may raise.
Refuse(o) ==
  /\ pc[o] = "call"
  /\ End(o, IF o \in expired THEN "deadline"
            ELSE IF closed # "no" THEN "closed"
            ELSE IF inflight >= Capacity THEN "full" ELSE "error")
  /\ UNCHANGED <<demand, cancels, queue, inflight, client, closing, server>>

Submit(o) ==
  /\ pc[o] = "call"
  /\ o \notin expired /\ closed = "no" /\ inflight < Capacity
  /\ pc' = Set(pc, o, "waiting")
  /\ inflight' = inflight + 1
  /\ stage' = Set(stage, o, "queued")
  /\ value' = Set(value, o, "none")
  /\ queue' = Append(queue, o)
  /\ UNCHANGED <<demand, rpc, expired, cancels, abandoned, client, closing, server>>

\* The future wakes its waiter: the next RPC, or the operation's end.  After
\* check(), prepare_existing_collection takes a new deadline.
Answered(o) ==
  /\ pc[o] = "waiting" /\ stage[o] = "told"
  /\ IF value[o] = "yes" \/ (value[o] = "no" /\ ~Unexpected(o))
     THEN IF After(o) = "none"
          THEN End(o, "ok")
          ELSE /\ pc' = Set(pc, o, "call")
               /\ rpc' = Set(rpc, o, After(o))
               /\ expired' = IF rpc[o] = "version" THEN expired \ {o} ELSE expired
               /\ UNCHANGED <<abandoned, stage, value>>
     ELSE End(o, IF value[o] \in {"timeout", "abandoned"} THEN "deadline" ELSE "error")
  /\ UNCHANGED <<demand, cancels, queue, inflight, client, closing, server>>

\* wait_for gives up; a TimeoutError of the RPC itself is raised at once.
Timeout(o) ==
  /\ pc[o] = "waiting" /\ o \in expired
  /\ IF stage[o] \in {"done", "told"} /\ value[o] = "timeout"
     THEN End(o, "deadline")
     ELSE /\ pc' = Set(pc, o, "drainTimeout")
          /\ abandoned' = abandoned \union {o}
          /\ UNCHANGED <<rpc, expired, stage, value>>
  /\ UNCHANGED <<demand, cancels, queue, inflight, client, closing, server>>

\* The caller's task is cancelled, any number of times: the drain goes on.
Cancel(o) ==
  /\ pc[o] \in {"waiting"} \union Draining
  /\ cancels' = cancels \union {o}
  /\ pc' = Set(pc, o, "drain")
  /\ abandoned' = abandoned \union {o}
  /\ UNCHANGED <<demand, rpc, expired, stage, value, queue, inflight, client,
                 closing, server>>

Drained(o) ==
  /\ pc[o] \in Draining /\ stage[o] = "told"
  /\ End(o, IF pc[o] = "drain" THEN "cancelled" ELSE "deadline")
  /\ UNCHANGED <<demand, cancels, queue, inflight, client, closing, server>>

\* The deadline of a running operation passes.
Expire(o) ==
  /\ pc[o] \in {"call", "waiting"} /\ o \notin expired
  /\ expired' = expired \union {o}
  /\ UNCHANGED <<callers, cancels, work, client, closing, server>>

-----------------------------------------------------------------------------
(* The thread: _invoke checks the event and the deadline, connects if      *)
(* there is no client yet, checks both again and sends.                    *)

Idle == \A o \in Ops : stage[o] \notin OnThread

Take ==
  /\ Idle /\ queue # <<>>
  /\ queue' = Tail(queue)
  /\ stage' = Set(stage, Head(queue), "taken")
  /\ UNCHANGED <<callers, expired, cancels, value, abandoned, inflight, client,
                 closing, server>>

Done(o, v) == stage' = Set(stage, o, "done") /\ value' = Set(value, o, v)

\* The event or the deadline, looked at before and after connecting.
Skip(o) ==
  /\ stage[o] = "taken"
  /\ \/ o \in abandoned /\ Done(o, "abandoned")
     \/ o \in expired \ abandoned /\ Done(o, "timeout")
  /\ UNCHANGED <<callers, expired, cancels, abandoned, queue, inflight, client,
                 closing, server>>

Connect(o) ==
  /\ stage[o] = "taken" /\ client = "none"
  /\ o \notin abandoned \union expired
  /\ \/ client' = "open" /\ UNCHANGED <<stage, value>>
     \/ Done(o, "error") /\ UNCHANGED client
  /\ UNCHANGED <<callers, expired, cancels, abandoned, queue, inflight, closing, server>>

Send(o) ==
  /\ stage[o] = "taken" /\ client # "none"
  /\ o \notin abandoned \union expired
  /\ stage' = Set(stage, o, "running")
  /\ UNCHANGED <<callers, expired, cancels, value, abandoned, queue, inflight,
                 client, closing, server>>

\* What Milvus answers, and what the RPC changes there.
Answer(o) ==
  CASE rpc[o] = "has" -> IF coll = "absent" THEN {"no"} ELSE {"yes"}
    [] rpc[o] = "version" -> {"yes", "no"}
    [] rpc[o] = "index" -> IF coll = "good" THEN {"yes"} ELSE {"no"}
    [] rpc[o] = "query" -> IF o \in stored THEN {"yes"} ELSE {"no"}
    [] rpc[o] = "create" /\ coll # "absent" -> {"error"}
    [] rpc[o] \in {"upsert", "flush", "search", "load", "describe", "list"}
         /\ coll = "absent" -> {"error"}
    [] OTHER -> {"yes"}
Change(o) ==
  /\ coll' = IF rpc[o] = "create" /\ coll = "absent" THEN "good" ELSE coll
  /\ loaded' = (loaded \/ (rpc[o] = "load" /\ coll # "absent"))
  /\ stored' = IF rpc[o] = "upsert" /\ coll # "absent" THEN {o} ELSE stored

\* An RPC that fails may have been applied.
Reply(o) ==
  /\ stage[o] = "running"
  /\ \/ \E v \in Answer(o) : Done(o, v) /\ Change(o)
     \/ Done(o, "error") /\ (Change(o) \/ UNCHANGED server)
  /\ UNCHANGED <<callers, expired, cancels, abandoned, queue, inflight, client, closing>>

\* Mutant: the item of a caller that gave up keeps its place.
ReleaseUnlessAbandoned(o) ==
  /\ stage[o] = "done"
  /\ stage' = Set(stage, o, "told")
  /\ inflight' = IF o \in abandoned THEN inflight ELSE inflight - 1
  /\ UNCHANGED <<callers, expired, cancels, value, abandoned, queue, client,
                 closing, server>>

\* The done callbacks release the capacity and wake the waiter.
Tell(o) ==
  /\ stage[o] = "done"
  /\ stage' = Set(stage, o, "told")
  /\ inflight' = inflight - 1
  /\ UNCHANGED <<callers, expired, cancels, value, abandoned, queue, client,
                 closing, server>>

-----------------------------------------------------------------------------
(* aclose and _shutdown_sync.                                              *)

Close(k) ==
  /\ k \in demand.closers /\ kpc[k] = "idle"
  /\ kpc' = Set(kpc, k, "waiting")
  /\ closed' = IF closed = "no" THEN "waiting" ELSE closed
  /\ UNCHANGED <<callers, expired, cancels, work, client, server>>

Shutdown ==
  /\ closed = "waiting" /\ Idle /\ queue = <<>>
  /\ closed' = "done"
  /\ client' = IF client = "open" THEN "closed" ELSE client
  /\ UNCHANGED <<callers, expired, cancels, work, kpc, server>>

Return(k) ==
  /\ kpc[k] = "waiting" /\ closed = "done"
  /\ kpc' = Set(kpc, k, "closed")
  /\ UNCHANGED <<callers, expired, cancels, work, client, closed, server>>

\* The shutdown is shielded and goes on.
CancelClose(k) ==
  /\ kpc[k] = "waiting"
  /\ kpc' = Set(kpc, k, "cancelled")
  /\ UNCHANGED <<callers, expired, cancels, work, client, closed, server>>

OpStep(o) == Start(o) \/ Refuse(o) \/ Submit(o) \/ Answered(o) \/ Timeout(o) \/ Drained(o)
ThreadStep(o) == Skip(o) \/ Connect(o) \/ Send(o) \/ Reply(o) \/ Tell(o)

Next ==
  \/ \E o \in Ops : OpStep(o) \/ Cancel(o) \/ Expire(o) \/ ThreadStep(o)
  \/ Take
  \/ \E k \in Closers : Close(k) \/ Return(k) \/ CancelClose(k)
  \/ Shutdown

\* The event loop and the thread run, and every RPC ends by its own timeout.
Ready ==
  \/ \E o \in Ops : OpStep(o) \/ ThreadStep(o)
  \/ Take \/ Shutdown
  \/ \E k \in Closers : Return(k)

-----------------------------------------------------------------------------
(* Properties.                                                             *)

HeldOps == {o \in Ops : stage[o] \in Held}

\* _inflight counts the RPCs that are queued or running, and no more than
\* two are, whatever failed, timed out or was cancelled.
CapacityIsExact == inflight = Cardinality(HeldOps) /\ inflight <= Capacity

\* An operation that has ended, by result, error, timeout or cancellation,
\* leaves no work item behind that could still send an RPC: the caller may let
\* go of what it protects (the indexer its lock, a turn its guard).  What the
\* server makes of an RPC after its error is KnowledgeIndex's "late".
NothingLeftBehind ==
  \A o \in Ops : pc[o] \in Ended => stage[o] \notin Held \ {"done"}

\* A cancellation is never turned into a mere timeout or a result, also when
\* it interrupts the drain of an RPC that had timed out.
CancellationIsHeard == \A o \in cancels : pc[o] \in Draining \union {"cancelled"}

\* Nothing uses the client once it is closed, and none is opened afterwards:
\* by then the thread has no item and gets none.
ClientOutlivesWork ==
  closed = "done" =>
    /\ client # "open"
    /\ queue = <<>>
    /\ \A o \in Ops : stage[o] \in {"none", "told"}

\* A collection is loaded only if its schema and indexes are the expected
\* ones, whichever operations created or validated it concurrently.
LoadedIsCompatible == loaded => coll = "good"

\* What these rest on: the queue holds the items whose stage says so, once
\* each, an operation between two RPCs has no item, one that drains is not
\* called a timeout once it was cancelled, and an RPC that found or made the
\* collection good, or follows one that did, has a good one before it.
QueueOK ==
  /\ \A n \in 1..Len(queue) : stage[queue[n]] = "queued"
  /\ \A n, m \in 1..Len(queue) : queue[n] = queue[m] => n = m
  /\ \A o \in Ops : stage[o] = "queued" => \E n \in 1..Len(queue) : queue[n] = o
PlaceOK ==
  \A o \in Ops :
    /\ pc[o] \in {"idle", "call"} => stage[o] \in {"none", "told"}
    /\ o \in cancels => pc[o] \in {"drain", "cancelled"}
PathOK ==
  \A o \in Ops : pc[o] \notin Ended /\ coll # "good" =>
    /\ rpc[o] # "load"
    /\ pc[o] # "call" /\ rpc[o] \in {"index", "create"} => value[o] # "yes"
StoreInv == TypeOK /\ QueueOK /\ PlaceOK /\ PathOK

\* Capacity, callers, client and collection are safe whatever RPCs do.
StoreSafety ==
  /\ StoreInv
  /\ CapacityIsExact /\ NothingLeftBehind /\ CancellationIsHeard
  /\ ClientOutlivesWork /\ LoadedIsCompatible

\* prepare_existing_collection and searches never change what is stored:
\* without an ensure_schema a missing collection stays missing.
OnlyEnsureCreates ==
  [][coll' # coll => \E o \in Ops : demand.kind[o] = "ensure" /\ stage[o] = "running"]_vars

\* Every operation ends, and so does every aclose that is not cancelled.
EverythingEnds ==
  <>[](/\ \A o \in Ops : pc[o] \in {"idle"} \union Ended
       /\ \A k \in Closers : kpc[k] # "waiting")
=============================================================================
