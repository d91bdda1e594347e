---------------------------- MODULE InferenceWorker ----------------------------
(***************************************************************************)
(* The single inference thread: InferenceWorker.run and aclose, under the  *)
(* batch loops of LocalModels.embed and score.  Callers and closers are    *)
(* coroutines of one event loop; the executor's thread takes the submitted *)
(* batches in order, and returns their capacity from a done callback.      *)
(***************************************************************************)
EXTENDS Naturals, Sequences, FiniteSets

CONSTANTS
  Callers,    \* embed or score calls
  Closers,    \* calls of aclose
  MaxBatches, \* bound on the batches of one call
  QueueSize,  \* knowledge_queue_size
  MaxTime,    \* bound on the clock and on the deadlines
  Demands     \* bounds of a behaviour: see demand

VARIABLES
  demand,     \* chosen at the start: for each caller the batches of its call,
              \* len(texts) / knowledge_batch_size or 0 if it does not call,
              \* and the closers that come
  now,        \* the monotonic clock
  deadline,   \* caller: the deadline of its call
  pc,         \* caller: where its coroutine is, or how its call ended
  batch,      \* caller: the batch it is at
  stage,      \* batch: where its work item is
  value,      \* batch: what the item's future holds
  abandoned,  \* batches whose threading.Event is set
  queue,      \* the executor's queue of batches
  inflight,   \* _inflight
  closed,     \* _closed
  shutdown,   \* _shutdown_task
  kpc,        \* closer: where its coroutine is
  loaded      \* LocalModels: _embedder and _reranker are set

items == <<stage, value, abandoned, queue, inflight>>
callers == <<demand, deadline, pc, batch>>
closing == <<closed, shutdown, kpc, loaded>>
vars == <<demand, now, deadline, pc, batch, stage, value, abandoned, queue, inflight,
          closed, shutdown, kpc, loaded>>

Items == Callers \X (1..MaxBatches)
Capacity == QueueSize + 1
Ended == {"ok", "error", "full", "closed", "unloaded", "deadline", "cancelled"}

\* The thread has the item from "taken" to "free"; "done": its future is
\* set, "free": the first callback ran, "told": so did the one that wakes
\* the event loop.
OnThread == {"taken", "checked", "running", "done", "free"}
Held == {"queued", "taken", "checked", "running", "done"}

TypeOK ==
  /\ demand \in Demands /\ demand.batches \in [Callers -> 0..MaxBatches]
  /\ now \in 0..MaxTime
  /\ deadline \in [Callers -> 0..MaxTime]
  /\ pc \in [Callers -> {"idle", "batch", "waiting"} \union Ended]
  /\ batch \in [Callers -> 1..MaxBatches]
  /\ stage \in [Items -> {"new", "queued", "told"} \union OnThread]
  /\ value \in [Items -> {"none", "value", "error", "timeout", "abandoned"}]
  /\ abandoned \subseteq Items
  /\ queue \in Seq(Items)
  /\ inflight \in Nat
  /\ closed \in BOOLEAN
  /\ shutdown \in {"none", "waiting", "done"}
  /\ kpc \in [Closers -> {"idle", "waiting", "closed", "cancelled"}]
  /\ loaded \in BOOLEAN

Init ==
  /\ demand \in Demands
  /\ now = 0
  /\ deadline = [c \in Callers |-> 0]
  /\ pc = [c \in Callers |-> "idle"]
  /\ batch = [c \in Callers |-> 1]
  /\ stage = [i \in Items |-> "new"]
  /\ value = [i \in Items |-> "none"]
  /\ abandoned = {}
  /\ queue = <<>>
  /\ inflight = 0
  /\ closed = FALSE
  /\ shutdown = "none"
  /\ kpc = [k \in Closers |-> "idle"]
  /\ loaded = TRUE

Current(c) == <<c, batch[c]>>
Expired(c) == now >= deadline[c]
Goto(c, p) == pc' = [pc EXCEPT ![c] = p]
Stage(i, s) == stage' = [stage EXCEPT ![i] = s]

-----------------------------------------------------------------------------
(* A caller: embed or score, and each batch's run.  The checks, the        *)
(* reservation and the submission have no await between them.              *)

\* Calls of one length are alike and begin in order.
Call(c) ==
  /\ pc[c] = "idle" /\ demand.batches[c] > 0
  /\ \A d \in Callers : d < c /\ demand.batches[d] = demand.batches[c] => pc[d] # "idle"
  /\ IF loaded
     THEN /\ \E d \in 0..MaxTime : deadline' = [deadline EXCEPT ![c] = d]
          /\ Goto(c, "batch")
     ELSE Goto(c, "unloaded") /\ UNCHANGED deadline
  /\ UNCHANGED <<demand, now, batch, items, closing>>

Refuse(c) ==
  /\ pc[c] = "batch"
  /\ \/ Expired(c) /\ Goto(c, "deadline")
     \/ ~Expired(c) /\ closed /\ Goto(c, "closed")
     \/ ~Expired(c) /\ ~closed /\ inflight >= Capacity /\ Goto(c, "full")
  /\ UNCHANGED <<demand, now, deadline, batch, items, closing>>

Admitted(c) == pc[c] = "batch" /\ ~Expired(c) /\ ~closed /\ inflight < Capacity

Submit(c) ==
  /\ Admitted(c)
  /\ inflight' = inflight + 1
  /\ Stage(Current(c), "queued")
  /\ queue' = Append(queue, Current(c))
  /\ Goto(c, "waiting")
  /\ UNCHANGED <<demand, now, deadline, batch, value, abandoned, closing>>

\* Mutant: a failed submission keeps the capacity it reserved.
SubmitLeaks(c) ==
  /\ Admitted(c)
  /\ inflight' = inflight + 1
  /\ Goto(c, "error")
  /\ UNCHANGED <<demand, now, deadline, batch, stage, value, abandoned, queue, closing>>

\* executor.submit raises (no thread can be started): the capacity that was
\* reserved is released again.
SubmitFails(c) ==
  /\ Admitted(c)
  /\ Goto(c, "error")
  /\ UNCHANGED <<demand, now, deadline, batch, items, closing>>

\* The wrapped future wakes its waiter with the value or the error.
Answered(c) ==
  /\ pc[c] = "waiting"
  /\ stage[Current(c)] = "told"
  /\ CASE value[Current(c)] = "abandoned" -> Goto(c, "cancelled") /\ UNCHANGED batch
       [] value[Current(c)] = "timeout" -> Goto(c, "deadline") /\ UNCHANGED batch
       [] value[Current(c)] = "error" -> Goto(c, "error") /\ UNCHANGED batch
       [] OTHER -> IF batch[c] = demand.batches[c]
                   THEN Goto(c, "ok") /\ UNCHANGED batch
                   ELSE /\ batch' = [batch EXCEPT ![c] = @ + 1]
                        /\ Goto(c, "batch")
  /\ UNCHANGED <<demand, now, deadline, items, closing>>

\* wait_for gives up, whether or not the result is on its way: only an
\* underlying TimeoutError is preferred to its own.
Timeout(c) ==
  /\ pc[c] = "waiting"
  /\ Expired(c)
  /\ Goto(c, "deadline")
  /\ abandoned' = IF /\ stage[Current(c)] \in {"done", "free", "told"}
                     /\ value[Current(c)] = "timeout"
                  THEN abandoned ELSE abandoned \union {Current(c)}
  /\ UNCHANGED <<demand, now, deadline, batch, stage, value, queue, inflight, closing>>

\* The caller's task is cancelled, at the await or between two batches.
Cancel(c) ==
  /\ pc[c] = "waiting"
  /\ Goto(c, "cancelled")
  /\ abandoned' = abandoned \union {Current(c)}
  /\ UNCHANGED <<demand, now, deadline, batch, stage, value, queue, inflight, closing>>

-----------------------------------------------------------------------------
(* The executor's thread.                                                  *)

Idle == \A i \in Items : stage[i] \notin OnThread

Take ==
  /\ Idle
  /\ queue # <<>>
  /\ queue' = Tail(queue)
  /\ Stage(Head(queue), "taken")
  /\ UNCHANGED <<now, callers, value, abandoned, inflight, closing>>

\* run_before_deadline reads the event, and then the clock: both may be
\* stale when fn begins.
Check(i) ==
  /\ stage[i] = "taken"
  /\ IF i \in abandoned
     THEN Stage(i, "done") /\ value' = [value EXCEPT ![i] = "abandoned"]
     ELSE Stage(i, "checked") /\ UNCHANGED value
  /\ UNCHANGED <<now, callers, abandoned, queue, inflight, closing>>

Begin(i) ==
  /\ stage[i] = "checked"
  /\ IF Expired(i[1])
     THEN Stage(i, "done") /\ value' = [value EXCEPT ![i] = "timeout"]
     ELSE Stage(i, "running") /\ UNCHANGED value
  /\ UNCHANGED <<now, callers, abandoned, queue, inflight, closing>>

\* encode or compute_score returns or raises.
Run(i) ==
  /\ stage[i] = "running"
  /\ Stage(i, "done")
  /\ \E v \in {"value", "error"} : value' = [value EXCEPT ![i] = v]
  /\ UNCHANGED <<now, callers, abandoned, queue, inflight, closing>>

\* The first done callback.
Release(i) ==
  /\ stage[i] = "done"
  /\ Stage(i, "free")
  /\ inflight' = inflight - 1
  /\ UNCHANGED <<now, callers, value, abandoned, queue, closing>>

\* The second: wrap_future's call_soon_threadsafe.
Tell(i) ==
  /\ stage[i] = "free"
  /\ Stage(i, "told")
  /\ UNCHANGED <<now, callers, value, abandoned, queue, inflight, closing>>

Work(i) == Check(i) \/ Begin(i) \/ Release(i) \/ Tell(i)

-----------------------------------------------------------------------------
(* LocalModels.aclose: _closed is set, and one task shuts the executor     *)
(* down for every closer.                                                  *)

\* Closers are alike, too.
Close(k) ==
  /\ k \in demand.closers /\ kpc[k] = "idle"
  /\ \A j \in demand.closers : j < k => kpc[j] # "idle"
  /\ closed' = TRUE
  /\ shutdown' = IF shutdown = "none" THEN "waiting" ELSE shutdown
  /\ kpc' = [kpc EXCEPT ![k] = "waiting"]
  /\ UNCHANGED <<now, callers, items, loaded>>

\* executor.shutdown(wait=True, cancel_futures=False) joins the thread.
Shutdown ==
  /\ shutdown = "waiting"
  /\ Idle /\ queue = <<>>
  /\ shutdown' = "done"
  /\ UNCHANGED <<now, callers, items, closed, kpc, loaded>>

Return(k) ==
  /\ kpc[k] = "waiting"
  /\ shutdown = "done"
  /\ kpc' = [kpc EXCEPT ![k] = "closed"]
  /\ loaded' = FALSE
  /\ UNCHANGED <<now, callers, items, closed, shutdown>>

\* Mutant: a cancelled closer takes the shutdown with it.
CancelUnshielded(k) ==
  /\ kpc[k] = "waiting"
  /\ kpc' = [kpc EXCEPT ![k] = "cancelled"]
  /\ shutdown' = "none"
  /\ UNCHANGED <<now, callers, items, closed, loaded>>

\* The shield keeps the shutdown going; the models stay loaded.
CancelClose(k) ==
  /\ kpc[k] = "waiting"
  /\ kpc' = [kpc EXCEPT ![k] = "cancelled"]
  /\ UNCHANGED <<now, callers, items, closed, shutdown, loaded>>

\* Time matters to a call that has begun.
Tick ==
  /\ now < MaxTime /\ \E c \in Callers : pc[c] \in {"batch", "waiting"}
  /\ now' = now + 1
  /\ UNCHANGED <<callers, items, closing>>

Next ==
  \/ \E c \in Callers : \/ Call(c) \/ Refuse(c) \/ Submit(c) \/ SubmitFails(c)
                        \/ Answered(c) \/ Timeout(c) \/ Cancel(c)
  \/ Take
  \/ \E i \in Items : Work(i) \/ Run(i)
  \/ \E k \in Closers : Close(k) \/ Return(k) \/ CancelClose(k)
  \/ Shutdown
  \/ Tick

\* What the event loop's ready callbacks, its timers and the thread do
\* without waiting for a model.
Ready ==
  \/ \E c \in Callers : Refuse(c) \/ Submit(c) \/ Answered(c) \/ Timeout(c)
  \/ Tick \/ Take \/ Shutdown
  \/ \E i \in Items : Work(i)
  \/ \E k \in Closers : Return(k)

-----------------------------------------------------------------------------
(* Properties.                                                             *)

HeldItems == {i \in Items : stage[i] \in Held}

\* The capacity counter is exactly the work the executor still has, and
\* never passes queue_size + 1, whoever timed out, was cancelled or failed
\* to submit: a leak would refuse every call after a few of those.
CapacityIsExact ==
  /\ inflight = Cardinality(HeldItems)
  /\ inflight <= Capacity

\* A caller that goes on to its next batch, or has its result, holds no
\* capacity any more: the callback that releases it comes before the one
\* that wakes it, so a long embed call cannot be refused by its own work.
OwnWorkIsReleased ==
  \A c \in Callers : pc[c] \in {"batch", "ok"} =>
    \A b \in 1..MaxBatches : stage[<<c, b>>] \notin Held

\* A waiting caller's item is not abandoned, so the thread's _ABANDONED
\* answer is never heard: only the caller's own cancellation cancels it.
WaiterIsNotAbandoned ==
  \A c \in Callers : pc[c] = "waiting" =>
    /\ Current(c) \notin abandoned
    /\ value[Current(c)] # "abandoned"

\* When aclose has returned to anyone the executor has nothing left, and
\* gets nothing more: the models may be dropped under it.
CloseIsQuiet ==
  (\E k \in Closers : kpc[k] = "closed") =>
    /\ closed
    /\ queue = <<>>
    /\ \A i \in Items : stage[i] \in {"new", "told"}

\* The models are not dropped under an inference that runs or waits.
ModelsOutliveWork == ~loaded => HeldItems = {}

\* What the counters rest on: the queue and the thread hold the items
\* that the stages say they hold, once each, and a caller's later batches
\* have not begun.
QueueOK ==
  /\ \A n \in 1..Len(queue) : stage[queue[n]] = "queued"
  /\ \A n, o \in 1..Len(queue) : queue[n] = queue[o] => n = o
  /\ \A i \in Items : stage[i] = "queued" => \E n \in 1..Len(queue) : queue[n] = i
ThreadOK == \A i, j \in Items : stage[i] \in OnThread /\ stage[j] \in OnThread => i = j
BatchAt(c, b) ==
  /\ b > batch[c] => stage[<<c, b>>] = "new"
  /\ b < batch[c] => stage[<<c, b>>] = "told"
  /\ pc[c] \in {"idle", "batch"} /\ b = batch[c] => stage[<<c, b>>] = "new"
  /\ pc[c] = "waiting" /\ b = batch[c] => stage[<<c, b>>] # "new"
  /\ pc[c] = "ok" /\ b <= demand.batches[c] => stage[<<c, b>>] = "told"
  /\ stage[<<c, b>>] = "new" =>
       <<c, b>> \notin abandoned /\ value[<<c, b>>] = "none"
BatchOK == \A c \in Callers, b \in 1..MaxBatches : BatchAt(c, b)
SpanOK ==
  \A c \in Callers :
    /\ pc[c] = "idle" => batch[c] = 1
    /\ pc[c] \in {"batch", "waiting", "ok"} => batch[c] <= demand.batches[c]
AbandonOK == \A i \in Items : value[i] = "abandoned" => i \in abandoned
ClosingOK ==
  /\ shutdown # "none" => closed
  /\ shutdown = "done" => queue = <<>> /\ \A i \in Items : stage[i] \in {"new", "told"}
  /\ \A k \in Closers : kpc[k] = "closed" => shutdown = "done"
  /\ ~loaded => shutdown = "done"
WorkerInv == TypeOK /\ QueueOK /\ ThreadOK /\ BatchOK /\ SpanOK /\ AbandonOK /\ ClosingOK

\* Capacity, waiters and models are safe whatever callers and closers do.
WorkerSafety ==
  /\ WorkerInv
  /\ CapacityIsExact /\ OwnWorkIsReleased /\ WaiterIsNotAbandoned
  /\ CloseIsQuiet /\ ModelsOutliveWork

\* An item abandoned before the thread looks at it is never run: only the
\* one the thread is about to run, or runs, can run for nobody.
AbandonedIsSkipped ==
  [][\A i \in Items : i \in abandoned /\ stage[i] \in {"queued", "taken"} =>
       stage'[i] \notin {"checked", "running"}]_vars

\* A call ends by its deadline even though an inference hangs for ever.
EveryCallEnds == <>[](\A c \in Callers : pc[c] \notin {"batch", "waiting"})

\* If no inference hangs, the capacity comes back and every aclose that is
\* not cancelled returns.
NoHang == []<>(\A i \in Items : stage[i] # "running")
EverythingSettles ==
  NoHang => <>[](inflight = 0 /\ \A k \in Closers : kpc[k] # "waiting")
=============================================================================
