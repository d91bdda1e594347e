-------------------------- MODULE KnowledgeBaseProofs --------------------------
(***************************************************************************)
(* Proofs about what keeps the knowledge base: the two executors of        *)
(* Executors, for any finite sets of callers and operations and any sizes, *)
(* and the indexer of KnowledgeIndex, for any rows, runs and scenes.  Each *)
(* executor has a counter beside a queue: it is the number of items that   *)
(* are held, and the invariants say which step of whom moves an item and   *)
(* the counter together.                                                   *)
(***************************************************************************)
EXTENDS Executors, KnowledgeIndex, FiniteSetTheorems, SequenceTheorems, TLAPS

-----------------------------------------------------------------------------
(* Queues whose elements are distinct, and counters of sets.               *)

\* What Append does to a queue.
LEMMA AppendFacts ==
  ASSUME NEW A, NEW q \in Seq(A), NEW x \in A
  PROVE  /\ Append(q, x) \in Seq(A)
         /\ Len(q) \in Nat /\ Len(Append(q, x)) = Len(q) + 1
         /\ \A n \in 1..Len(q) : Append(q, x)[n] = q[n]
         /\ Append(q, x)[Len(q) + 1] = x
  BY AppendProperties, LenProperties

\* What the thread takes, and what stays.
LEMMA TailFacts ==
  ASSUME NEW A, NEW q \in Seq(A), q # <<>>
  PROVE  /\ Head(q) = q[1] /\ Head(q) \in A
         /\ Tail(q) \in Seq(A)
         /\ Len(q) \in Nat \ {0} /\ Len(Tail(q)) = Len(q) - 1
         /\ \A n \in 1..Len(Tail(q)) : Tail(q)[n] = q[n + 1]
<1>1. Len(q) \in Nat /\ Len(q) # 0
  BY LenProperties, EmptySeq
<1>2. q[1] \in A
  BY <1>1, ElementOfSeq
<1> QED
  BY <1>1, <1>2, HeadTailProperties

\* The queue q holds the items whose stage is "queued", once each.
Holds(q, st, A) ==
  /\ q \in Seq(A)
  /\ \A n \in 1..Len(q) : st[q[n]] = "queued"
  /\ \A n, m \in 1..Len(q) : q[n] = q[m] => n = m
  /\ \A i \in A : st[i] = "queued" => \E n \in 1..Len(q) : q[n] = i

\* It does so after one more is submitted,
LEMMA HoldsAppend ==
  ASSUME NEW A, NEW q, NEW st, Holds(q, st, A), DOMAIN st = A,
         NEW i \in A, st[i] # "queued"
  PROVE  Holds(Append(q, i), [st EXCEPT ![i] = "queued"], A)
<1> DEFINE r == Append(q, i)
           su == [st EXCEPT ![i] = "queued"]
<1>1. q \in Seq(A)
  BY DEF Holds
<1>2. /\ r \in Seq(A)
      /\ Len(q) \in Nat /\ Len(r) = Len(q) + 1
      /\ \A n \in 1..Len(q) : r[n] = q[n]
      /\ r[Len(q) + 1] = i
  BY <1>1, AppendFacts
<1>3. \A n \in 1..Len(q) : q[n] \in A
  BY <1>1, ElementOfSeq
<1>4. \A n \in 1..Len(q) : q[n] # i
  BY DEF Holds
<1>5. \A j \in A : su[j] = IF j = i THEN "queued" ELSE st[j]
  OBVIOUS
<1> HIDE DEF r, su
<1>6. \A n \in 1..Len(r) : su[r[n]] = "queued"
  BY <1>2, <1>3, <1>5 DEF Holds
<1>7. \A n, m \in 1..Len(r) : r[n] = r[m] => n = m
  BY <1>2, <1>4 DEF Holds
<1>8. ASSUME NEW j \in A, su[j] = "queued" PROVE \E n \in 1..Len(r) : r[n] = j
  <2>1. CASE j = i
    BY <2>1, <1>2
  <2>2. CASE j # i
    <3>1. PICK n \in 1..Len(q) : q[n] = j
      BY <1>5, <1>8, <2>2 DEF Holds
    <3> QED
      BY <3>1, <1>2
  <2> QED
    BY <2>1, <2>2
<1> QED
  BY <1>2, <1>6, <1>7, <1>8 DEF Holds, r, su

\* and after its head is taken.
LEMMA HoldsTail ==
  ASSUME NEW A, NEW q, NEW st, Holds(q, st, A), DOMAIN st = A, q # <<>>
  PROVE  /\ Head(q) \in A /\ st[Head(q)] = "queued"
         /\ Holds(Tail(q), [st EXCEPT ![Head(q)] = "taken"], A)
<1> DEFINE h == Head(q)
           r == Tail(q)
           su == [st EXCEPT ![h] = "taken"]
<1>1. q \in Seq(A)
  BY DEF Holds
<1>2. /\ h = q[1] /\ h \in A
      /\ r \in Seq(A)
      /\ Len(q) \in Nat \ {0} /\ Len(r) = Len(q) - 1
      /\ \A n \in 1..Len(r) : r[n] = q[n + 1]
  BY <1>1, TailFacts
<1>3. \A n \in 1..Len(q) : q[n] \in A
  BY <1>1, ElementOfSeq
<1>4. st[h] = "queued"
  BY <1>2 DEF Holds
<1>5. \A j \in A : su[j] = IF j = h THEN "taken" ELSE st[j]
  BY <1>2
<1> HIDE DEF h, r, su
<1>6. \A n \in 1..Len(r) : r[n] \in A /\ r[n] # h
  BY <1>2, <1>3 DEF Holds
<1>7. \A n \in 1..Len(r) : su[r[n]] = "queued"
  BY <1>2, <1>5, <1>6 DEF Holds
<1>8. \A n, m \in 1..Len(r) : r[n] = r[m] => n = m
  BY <1>2 DEF Holds
<1>9. ASSUME NEW j \in A, su[j] = "queued" PROVE \E n \in 1..Len(r) : r[n] = j
  <2>1. j # h /\ st[j] = "queued"
    BY <1>5, <1>9
  <2>2. PICK n \in 1..Len(q) : q[n] = j
    BY <2>1 DEF Holds
  <2>3. n - 1 \in 1..Len(r) /\ r[n - 1] = j
    BY <2>1, <2>2, <1>2
  <2> QED
    BY <2>3
<1> QED
  BY <1>2, <1>4, <1>7, <1>8, <1>9 DEF Holds, h, r, su

\* An item that is neither queued nor becomes it leaves the queue as it is.
LEMMA HoldsAside ==
  ASSUME NEW A, NEW q, NEW st, Holds(q, st, A), DOMAIN st = A,
         NEW i \in A, st[i] # "queued", NEW s, s # "queued"
  PROVE  Holds(q, [st EXCEPT ![i] = s], A)
<1>1. q \in Seq(A) /\ \A n \in 1..Len(q) : q[n] \in A
  BY ElementOfSeq DEF Holds
<1> QED
  BY <1>1 DEF Holds

\* How many elements a set of some of A's has when one joins or leaves it.
LEMMA CountMoves ==
  ASSUME NEW A, IsFiniteSet(A), NEW H \in SUBSET A, NEW i \in A
  PROVE  /\ Cardinality(H) \in Nat
         /\ i \notin H => Cardinality(H \union {i}) = Cardinality(H) + 1
         /\ i \in H => /\ Cardinality(H \ {i}) = Cardinality(H) - 1
                       /\ Cardinality(H) > 0
<1>1. IsFiniteSet(H)
  BY FS_Subset
<1>2. Cardinality(H) \in Nat /\ (Cardinality(H) = 0 <=> H = {})
  BY <1>1, FS_CardinalityType, FS_EmptySet
<1>3. Cardinality(H \union {i}) = IF i \in H THEN Cardinality(H) ELSE Cardinality(H) + 1
  BY <1>1, FS_AddElement
<1>4. Cardinality(H \ {i}) = IF i \in H THEN Cardinality(H) - 1 ELSE Cardinality(H)
  BY <1>1, FS_RemoveElement
<1> QED
  BY <1>2, <1>3, <1>4

-----------------------------------------------------------------------------
(* The models' executor.                                                   *)

\* Who may move what: a caller only submits and abandons, the thread moves
\* one item, closers and time move none.
LEMMA ItemsOf == IsFiniteSet(Items) /\ \A c \in Callers, b \in 1..MaxBatches : <<c, b>> \in Items
<1>1. IsFiniteSet(1..MaxBatches)
  BY SizesAssumption, FS_Interval
<1> QED
  BY <1>1, SetsAssumption, FS_Product DEF Items

LEMMA WorkerInit == Init => WorkerSafety
<1> SUFFICES ASSUME Init PROVE WorkerSafety
  OBVIOUS
<1>1. TypeOK
  <2>1. 0 \in 0..MaxTime /\ 1 \in 1..MaxBatches
    BY SizesAssumption
  <2>2. demand \in Demands /\ demand.batches \in [Callers -> 0..MaxBatches]
    BY DemandsAssumption DEF Init
  <2>3. queue \in Seq(Items)
    BY DEF Init
  <2> QED
    BY <2>1, <2>2, <2>3 DEF Init, TypeOK
<1>2. Len(queue) = 0 /\ 1..0 = {}
  BY DEF Init
<1>3. QueueOK /\ ThreadOK /\ AbandonOK /\ ClosingOK
  BY <1>2, SMT DEF Init, QueueOK, ThreadOK, AbandonOK, ClosingOK, OnThread
<1>4. BatchOK /\ SpanOK
  <2>1. \A c \in Callers, b \in 1..MaxBatches :
          stage[<<c, b>>] = "new" /\ value[<<c, b>>] = "none"
    BY ItemsOf DEF Init
  <2> QED
    BY <2>1, SMT DEF Init, BatchOK, BatchAt, SpanOK
<1>5. HeldItems = {}
  BY SMT DEF Init, HeldItems, Held
<1>6. CapacityIsExact
  BY <1>5, SizesAssumption, FS_EmptySet DEF Init, CapacityIsExact, Capacity
<1>7. OwnWorkIsReleased /\ WaiterIsNotAbandoned /\ CloseIsQuiet /\ ModelsOutliveWork
  BY <1>5, ItemsOf, SMT DEF Init, OwnWorkIsReleased, WaiterIsNotAbandoned, CloseIsQuiet,
     ModelsOutliveWork, Held
<1> QED
  BY <1>1, <1>3, <1>4, <1>6, <1>7 DEF WorkerSafety, WorkerInv

LEMMA WorkerTypes == WorkerSafety /\ Next => TypeOK'
<1> SUFFICES ASSUME WorkerSafety, Next PROVE TypeOK'
  OBVIOUS
<1> USE DEF TypeOK, items, callers, closing, Goto, Stage, Ended, OnThread
<1>1. TypeOK /\ CapacityIsExact
  BY DEF WorkerSafety, WorkerInv
<1>2. ASSUME NEW c \in Callers PROVE Current(c) \in Items
  BY <1>1, <1>2 DEF Current, Items
<1>3. ASSUME NEW c \in Callers, Call(c) PROVE TypeOK'
  <2>1. CASE loaded
    BY <1>1, <1>3, <2>1 DEF Call
  <2>2. CASE ~loaded
    BY <1>1, <1>3, <2>2 DEF Call
  <2> QED
    BY <2>1, <2>2
<1>4. ASSUME NEW c \in Callers, Refuse(c) PROVE TypeOK'
  BY <1>1, <1>4 DEF Refuse
<1>5. ASSUME NEW c \in Callers, SubmitFails(c) PROVE TypeOK'
  BY <1>1, <1>5 DEF SubmitFails
<1>6. ASSUME NEW c \in Callers, Submit(c) PROVE TypeOK'
  <2>1. queue' \in Seq(Items)
    BY <1>1, <1>2, <1>6, AppendFacts DEF Submit
  <2> QED
    BY <1>1, <1>2, <1>6, <2>1 DEF Submit
<1>7. ASSUME NEW c \in Callers, Answered(c) PROVE TypeOK'
  <2>1. batch[c] # demand.batches[c] => batch[c] + 1 \in 1..MaxBatches
    <3>1. batch[c] \in 1..MaxBatches /\ demand.batches[c] \in 0..MaxBatches
      BY <1>1
    <3>2. batch[c] <= demand.batches[c]
      BY <1>7 DEF Answered, WorkerSafety, WorkerInv, SpanOK
    <3> QED
      BY <3>1, <3>2, SizesAssumption
  <2>2. CASE batch' = batch
    BY <1>1, <1>7, <2>2 DEF Answered
  <2>3. CASE batch' # batch
    BY <1>1, <1>7, <2>1, <2>3 DEF Answered
  <2> QED
    BY <2>2, <2>3
<1>8. ASSUME NEW c \in Callers, Timeout(c) PROVE TypeOK'
  BY <1>1, <1>2, <1>8 DEF Timeout
<1>9. ASSUME NEW c \in Callers, Cancel(c) PROVE TypeOK'
  BY <1>1, <1>2, <1>9 DEF Cancel
<1>10. CASE Take
  BY <1>1, <1>10, TailFacts DEF Take
<1>11. ASSUME NEW i \in Items, Check(i) PROVE TypeOK'
  BY <1>1, <1>11 DEF Check
<1>12. ASSUME NEW i \in Items, Begin(i) PROVE TypeOK'
  BY <1>1, <1>12 DEF Begin
<1>13. ASSUME NEW i \in Items, Run(i) PROVE TypeOK'
  BY <1>1, <1>13 DEF Run
<1>14. ASSUME NEW i \in Items, Tell(i) PROVE TypeOK'
  BY <1>1, <1>14 DEF Tell
<1>15. ASSUME NEW i \in Items, Release(i) PROVE TypeOK'
  <2>1. i \in HeldItems
    BY <1>15 DEF Release, HeldItems, Held
  <2>2. inflight > 0
    BY <1>1, <2>1, ItemsOf, CountMoves DEF CapacityIsExact, HeldItems
  <2> QED
    BY <1>1, <1>15, <2>2 DEF Release
<1>16. ASSUME NEW k \in Closers, Close(k) PROVE TypeOK'
  BY <1>1, <1>16 DEF Close
<1>17. ASSUME NEW k \in Closers, Return(k) \/ CancelClose(k) PROVE TypeOK'
  BY <1>1, <1>17 DEF Return, CancelClose
<1>18. CASE Shutdown
  BY <1>1, <1>18 DEF Shutdown
<1>19. CASE Tick
  <2>1. now + 1 \in 0..MaxTime
    BY <1>1, <1>19, SizesAssumption DEF Tick
  <2> QED
    BY <1>1, <1>19, <2>1 DEF Tick
<1> QED
  BY <1>3, <1>4, <1>5, <1>6, <1>7, <1>8, <1>9, <1>10, <1>11, <1>12, <1>13, <1>14, <1>15,
     <1>16, <1>17, <1>18, <1>19
  DEF Next, Work

LEMMA WorkerQueue == WorkerSafety /\ Next => QueueOK'
<1> SUFFICES ASSUME WorkerSafety, Next PROVE QueueOK'
  OBVIOUS
<1>1. TypeOK /\ BatchOK /\ QueueOK
  BY DEF WorkerSafety, WorkerInv
<1>2. Holds(queue, stage, Items) /\ DOMAIN stage = Items
  BY <1>1 DEF Holds, QueueOK, TypeOK
<1>3. Holds(queue', stage', Items) => QueueOK'
  BY DEF Holds, QueueOK
<1>4. ASSUME queue' = queue, stage' = stage PROVE QueueOK'
  BY <1>2, <1>3, <1>4
<1>5. ASSUME NEW c \in Callers, Submit(c) PROVE QueueOK'
  <2>1. Current(c) \in Items /\ stage[Current(c)] # "queued"
    BY <1>1, <1>5, ItemsOf DEF Submit, Admitted, Current, TypeOK, BatchOK, BatchAt
  <2> QED
    BY <1>2, <1>3, <1>5, <2>1, HoldsAppend DEF Submit, Stage
<1>6. CASE Take
  BY <1>2, <1>3, <1>6, HoldsTail DEF Take, Stage
<1>7. ASSUME NEW i \in Items, Work(i) \/ Run(i) PROVE QueueOK'
  <2>1. queue' = queue /\ stage[i] # "queued"
    BY <1>7 DEF Work, Check, Begin, Run, Release, Tell
  <2>2. PICK s \in {"checked", "running", "done", "free", "told"} : stage' = [stage EXCEPT ![i] = s]
    BY <1>7 DEF Work, Check, Begin, Run, Release, Tell, Stage
  <2> QED
    BY <1>2, <1>3, <2>1, <2>2, HoldsAside, Zenon
<1>8. ASSUME NEW c \in Callers, Call(c) \/ Refuse(c) \/ SubmitFails(c) \/ Answered(c)
                                 \/ Timeout(c) \/ Cancel(c)
      PROVE  QueueOK'
  BY <1>4, <1>8 DEF Call, Refuse, SubmitFails, Answered, Timeout, Cancel, items
<1>9. ASSUME NEW k \in Closers, Close(k) \/ Return(k) \/ CancelClose(k) PROVE QueueOK'
  BY <1>4, <1>9 DEF Close, Return, CancelClose, items
<1>10. CASE Shutdown \/ Tick
  BY <1>4, <1>10 DEF Shutdown, Tick, items
<1> QED
  BY <1>5, <1>6, <1>7, <1>8, <1>9, <1>10 DEF Next

\* The thread has one item at a time: it takes one when it has none, and
\* otherwise moves the one it has.
LEMMA WorkerThread == WorkerSafety /\ Next => ThreadOK'
<1> SUFFICES ASSUME WorkerSafety, Next PROVE ThreadOK'
  OBVIOUS
<1>1. TypeOK /\ ThreadOK
  BY DEF WorkerSafety, WorkerInv
<1>2. ASSUME stage' = stage PROVE ThreadOK'
  BY <1>1, <1>2 DEF ThreadOK
<1>3. ASSUME NEW c \in Callers, Submit(c) PROVE ThreadOK'
  <2>1. \A i \in Items : stage'[i] \in OnThread => stage[i] \in OnThread
    BY <1>1, <1>3, ItemsOf DEF Submit, Stage, Current, TypeOK, OnThread
  <2> QED
    BY <1>1, <2>1 DEF ThreadOK
<1>4. CASE Take
  <2>1. \A i \in Items : stage'[i] \in OnThread => i = Head(queue)
    BY <1>1, <1>4 DEF Take, Idle, Stage, TypeOK
  <2> QED
    BY <2>1 DEF ThreadOK
<1>5. ASSUME NEW i \in Items, Work(i) \/ Run(i) PROVE ThreadOK'
  <2>1. stage[i] \in OnThread /\ \A j \in Items : j # i => stage'[j] = stage[j]
    BY <1>1, <1>5 DEF Work, Check, Begin, Run, Release, Tell, Stage, TypeOK, OnThread
  <2> QED
    BY <1>1, <2>1 DEF ThreadOK
<1>6. ASSUME NEW c \in Callers, Call(c) \/ Refuse(c) \/ SubmitFails(c) \/ Answered(c)
                                 \/ Timeout(c) \/ Cancel(c)
      PROVE  ThreadOK'
  BY <1>2, <1>6 DEF Call, Refuse, SubmitFails, Answered, Timeout, Cancel, items
<1>7. ASSUME NEW k \in Closers, Close(k) \/ Return(k) \/ CancelClose(k) PROVE ThreadOK'
  BY <1>2, <1>7 DEF Close, Return, CancelClose, items
<1>8. CASE Shutdown \/ Tick
  BY <1>2, <1>8 DEF Shutdown, Tick, items
<1> QED
  BY <1>3, <1>4, <1>5, <1>6, <1>7, <1>8 DEF Next

\* The counter moves with the set it counts.
LEMMA WorkerCount == WorkerSafety /\ Next => CapacityIsExact'
<1> SUFFICES ASSUME WorkerSafety, Next PROVE CapacityIsExact'
  OBVIOUS
<1>1. TypeOK /\ CapacityIsExact /\ HeldItems \in SUBSET Items
  BY DEF WorkerSafety, WorkerInv, HeldItems
<1>2. ASSUME HeldItems' = HeldItems, inflight' = inflight PROVE CapacityIsExact'
  BY <1>1, <1>2 DEF CapacityIsExact, Capacity
<1>3. ASSUME stage' = stage, inflight' = inflight PROVE CapacityIsExact'
  BY <1>2, <1>3 DEF HeldItems
<1>4. ASSUME NEW c \in Callers, Submit(c) PROVE CapacityIsExact'
  <2> DEFINE i == Current(c)
  <2>1. i \in Items /\ stage[i] = "new"
    BY <1>1, <1>4, ItemsOf DEF Submit, Admitted, Current, TypeOK, WorkerSafety, WorkerInv, BatchOK, BatchAt
  <2>2. HeldItems' = HeldItems \union {i} /\ i \notin HeldItems
    BY <1>1, <1>4, <2>1 DEF Submit, Stage, HeldItems, Held, TypeOK
  <2>3. Cardinality(HeldItems') = Cardinality(HeldItems) + 1
    BY <1>1, <2>1, <2>2, ItemsOf, CountMoves
  <2> QED
    BY <1>1, <1>4, <2>3, SizesAssumption DEF Submit, Admitted, CapacityIsExact, Capacity, TypeOK
<1>5. CASE Take
  <2> DEFINE i == Head(queue)
  <2>1. i \in Items /\ stage[i] = "queued"
    BY <1>1, <1>5, TailFacts DEF Take, TypeOK, QueueOK, WorkerSafety, WorkerInv
  <2>2. HeldItems' = HeldItems
    BY <1>1, <1>5, <2>1 DEF Take, Stage, HeldItems, Held, TypeOK
  <2> QED
    BY <1>2, <1>5, <2>2 DEF Take
<1>6. ASSUME NEW i \in Items, Check(i) \/ Begin(i) \/ Run(i) \/ Tell(i) PROVE CapacityIsExact'
  <2>1. HeldItems' = HeldItems
    BY <1>1, <1>6 DEF Check, Begin, Run, Tell, Stage, HeldItems, Held, TypeOK
  <2> QED
    BY <1>2, <1>6, <2>1 DEF Check, Begin, Run, Tell
<1>7. ASSUME NEW i \in Items, Release(i) PROVE CapacityIsExact'
  <2>1. HeldItems' = HeldItems \ {i} /\ i \in HeldItems
    BY <1>1, <1>7 DEF Release, Stage, HeldItems, Held, TypeOK
  <2>2. Cardinality(HeldItems') = Cardinality(HeldItems) - 1
    BY <1>1, <2>1, ItemsOf, CountMoves
  <2> QED
    BY <1>1, <1>7, <2>2, SizesAssumption DEF Release, CapacityIsExact, Capacity, TypeOK
<1>8. ASSUME NEW c \in Callers, Call(c) \/ Refuse(c) \/ SubmitFails(c) \/ Answered(c)
                                 \/ Timeout(c) \/ Cancel(c)
      PROVE  CapacityIsExact'
  BY <1>3, <1>8 DEF Call, Refuse, SubmitFails, Answered, Timeout, Cancel, items
<1>9. ASSUME NEW k \in Closers, Close(k) \/ Return(k) \/ CancelClose(k) PROVE CapacityIsExact'
  BY <1>3, <1>9 DEF Close, Return, CancelClose, items
<1>10. CASE Shutdown \/ Tick
  BY <1>3, <1>10 DEF Shutdown, Tick, items
<1> QED
  BY <1>4, <1>5, <1>6, <1>7, <1>8, <1>9, <1>10 DEF Next, Work

\* A call's batches are counted from 1 to as many as it has.
LEMMA WorkerSpan == WorkerSafety /\ Next => SpanOK'
<1> SUFFICES ASSUME WorkerSafety, Next PROVE SpanOK'
  OBVIOUS
<1>1. TypeOK /\ SpanOK
  BY DEF WorkerSafety, WorkerInv
<1>2. ASSUME UNCHANGED callers PROVE SpanOK'
  BY <1>1, <1>2 DEF SpanOK, callers
<1>3. ASSUME NEW c \in Callers, Call(c) PROVE SpanOK'
  BY <1>1, <1>3 DEF Call, Goto, SpanOK, TypeOK
<1>4. ASSUME NEW c \in Callers, Refuse(c) PROVE SpanOK'
  BY <1>1, <1>4 DEF Refuse, Goto, SpanOK, TypeOK
<1>5. ASSUME NEW c \in Callers, Submit(c) \/ SubmitFails(c) PROVE SpanOK'
  BY <1>1, <1>5 DEF Submit, SubmitFails, Admitted, Goto, SpanOK, TypeOK
<1>6. ASSUME NEW c \in Callers, Answered(c) PROVE SpanOK'
  <2>1. batch[c] # demand.batches[c] => batch[c] + 1 <= demand.batches[c]
    BY <1>1, <1>6 DEF Answered, SpanOK, TypeOK
  <2>2. CASE batch' = batch
    BY <1>1, <1>6, <2>2 DEF Answered, Goto, SpanOK, TypeOK
  <2>3. CASE batch' # batch
    BY <1>1, <1>6, <2>1, <2>3 DEF Answered, Goto, SpanOK, TypeOK
  <2> QED
    BY <2>2, <2>3
<1>7. ASSUME NEW c \in Callers, Timeout(c) \/ Cancel(c) PROVE SpanOK'
  BY <1>1, <1>7 DEF Timeout, Cancel, Goto, SpanOK, TypeOK
<1>8. ASSUME NEW i \in Items, Work(i) \/ Run(i) PROVE SpanOK'
  BY <1>2, <1>8 DEF Work, Check, Begin, Run, Release, Tell
<1>9. ASSUME NEW k \in Closers, Close(k) \/ Return(k) \/ CancelClose(k) PROVE SpanOK'
  BY <1>2, <1>9 DEF Close, Return, CancelClose
<1>10. CASE Take \/ Shutdown \/ Tick
  BY <1>2, <1>10 DEF Take, Shutdown, Tick
<1> QED
  BY <1>3, <1>4, <1>5, <1>6, <1>7, <1>8, <1>9, <1>10 DEF Next

\* A call's items, in the order of its batches: those before the current one
\* are told, those after it are new.
LEMMA WorkerBatches == WorkerSafety /\ Next => BatchOK'
<1> SUFFICES ASSUME WorkerSafety, Next, NEW c \in Callers, NEW b \in 1..MaxBatches
             PROVE  BatchAt(c, b)'
  BY DEF BatchOK
<1> DEFINE i == <<c, b>>
<1>1. TypeOK /\ BatchAt(c, b) /\ BatchAt(c, batch[c]) /\ i \in Items /\ b \in Nat /\ batch[c] \in Nat
  BY ItemsOf DEF WorkerSafety, WorkerInv, BatchOK, TypeOK
<1>2. ASSUME UNCHANGED items, UNCHANGED callers PROVE BatchAt(c, b)'
  BY <1>1, <1>2 DEF BatchAt, items, callers
<1>4. ASSUME NEW d \in Callers, Call(d) PROVE BatchAt(c, b)'
  BY <1>1, <1>4 DEF Call, Goto, BatchAt, TypeOK, items
<1>5. ASSUME NEW d \in Callers, Refuse(d) \/ SubmitFails(d) PROVE BatchAt(c, b)'
  BY <1>1, <1>5 DEF Refuse, SubmitFails, Goto, BatchAt, TypeOK, items
<1>6. ASSUME NEW d \in Callers, Submit(d) PROVE BatchAt(c, b)'
  <2>1. Current(d) = i <=> d = c /\ b = batch[c]
    BY DEF Current
  <2>2. stage'[i] = (IF d = c /\ b = batch[c] THEN "queued" ELSE stage[i])
    BY <1>1, <1>6, <2>1 DEF Submit, Stage, TypeOK
  <2> QED
    BY <1>1, <1>6, <2>2 DEF Submit, Admitted, Goto, BatchAt, TypeOK
<1>7. ASSUME NEW d \in Callers, Answered(d) PROVE BatchAt(c, b)'
  <2>1. CASE d # c
    BY <1>1, <1>7, <2>1 DEF Answered, Goto, BatchAt, TypeOK, items
  <2>2. CASE d = c
    <3>1. stage[<<c, batch[c]>>] = "told"
      BY <1>7, <2>2 DEF Answered, Current
    <3>2. CASE batch' = batch
      <4>1. /\ pc'[c] \notin {"idle", "batch", "waiting"}
            /\ pc'[c] = "ok" => batch[c] = demand.batches[c]
        BY <1>1, <1>7, <2>2, <3>2 DEF Answered, Goto, TypeOK
      <4> QED
        BY <1>1, <1>7, <3>1, <3>2, <4>1 DEF Answered, BatchAt, items
    <3>3. CASE batch' # batch
      <4>1. batch'[c] = batch[c] + 1 /\ pc'[c] = "batch"
        BY <1>1, <1>7, <2>2, <3>3 DEF Answered, Goto, TypeOK
      <4> QED
        BY <1>1, <1>7, <3>1, <4>1 DEF Answered, BatchAt, items
    <3> QED
      BY <3>2, <3>3
  <2> QED
    BY <2>1, <2>2
<1>8. ASSUME NEW d \in Callers, Timeout(d) \/ Cancel(d) PROVE BatchAt(c, b)'
  <2>1. Current(d) = i <=> d = c /\ b = batch[c]
    BY DEF Current
  <2>2. i \in abandoned' => i \in abandoned \/ (d = c /\ b = batch[c])
    BY <1>8, <2>1 DEF Timeout, Cancel
  <2> QED
    BY <1>1, <1>8, <2>2 DEF Timeout, Cancel, Goto, BatchAt, TypeOK
<1>9. CASE Take
  <2>1. Head(queue) \in Items /\ stage[Head(queue)] = "queued"
    BY <1>1, <1>9, TailFacts DEF Take, TypeOK, QueueOK, WorkerSafety, WorkerInv
  <2>2. stage'[i] = (IF i = Head(queue) THEN "taken" ELSE stage[i])
    BY <1>1, <1>9 DEF Take, Stage, TypeOK
  <2> QED
    BY <1>1, <1>9, <2>1, <2>2 DEF Take, callers, BatchAt
<1>10. ASSUME NEW j \in Items, Work(j) \/ Run(j) PROVE BatchAt(c, b)'
  <2>1. stage[j] \in {"taken", "checked", "running", "done", "free"}
    BY <1>10 DEF Work, Check, Begin, Run, Release, Tell
  <2>2. i # j => stage'[i] = stage[i] /\ value'[i] = value[i]
    BY <1>1, <1>10 DEF Work, Check, Begin, Run, Release, Tell, Stage, TypeOK
  <2>3. i = j => stage'[i] # "new"
    BY <1>1, <1>10 DEF Work, Check, Begin, Run, Release, Tell, Stage, TypeOK
  <2>4. UNCHANGED callers /\ abandoned' = abandoned
    BY <1>10 DEF Work, Check, Begin, Run, Release, Tell
  <2>5. CASE i # j
    BY <1>1, <2>2, <2>4, <2>5 DEF callers, BatchAt
  <2>6. CASE i = j
    BY <1>1, <2>1, <2>3, <2>4, <2>6 DEF callers, BatchAt
  <2> QED
    BY <2>5, <2>6
<1>11. ASSUME NEW k \in Closers, Close(k) \/ Return(k) \/ CancelClose(k) PROVE BatchAt(c, b)'
  BY <1>2, <1>11 DEF Close, Return, CancelClose
<1>12. CASE Shutdown \/ Tick
  BY <1>2, <1>12 DEF Shutdown, Tick
<1> QED
  BY <1>4, <1>5, <1>6, <1>7, <1>8, <1>9, <1>10, <1>11, <1>12 DEF Next

\* What closers, waiters and abandoned items need of each other.
LEMMA WorkerCloses == WorkerSafety /\ Next => AbandonOK' /\ ClosingOK' /\ WaiterIsNotAbandoned'
<1> SUFFICES ASSUME WorkerSafety, Next
             PROVE  AbandonOK' /\ ClosingOK' /\ WaiterIsNotAbandoned'
  OBVIOUS
<1>1. TypeOK /\ AbandonOK /\ ClosingOK /\ WaiterIsNotAbandoned /\ BatchOK /\ QueueOK
  BY DEF WorkerSafety, WorkerInv
<1>2. ASSUME UNCHANGED <<stage, value, abandoned, queue, inflight>>,
             \A c \in Callers : pc'[c] = "waiting" => pc[c] = "waiting" /\ batch'[c] = batch[c],
             UNCHANGED closing
      PROVE  AbandonOK' /\ ClosingOK' /\ WaiterIsNotAbandoned'
  BY <1>1, <1>2 DEF AbandonOK, ClosingOK, WaiterIsNotAbandoned, Current, closing
<1>3. ASSUME NEW c \in Callers, Call(c) \/ Refuse(c) \/ SubmitFails(c)
      PROVE  AbandonOK' /\ ClosingOK' /\ WaiterIsNotAbandoned'
  <2>1. pc'[c] # "waiting" /\ \A d \in Callers : d # c => pc'[d] = pc[d]
    BY <1>1, <1>3 DEF Call, Refuse, SubmitFails, Goto, TypeOK
  <2> QED
    BY <1>2, <1>3, <2>1 DEF Call, Refuse, SubmitFails, items
<1>4. ASSUME NEW c \in Callers, Answered(c)
      PROVE  AbandonOK' /\ ClosingOK' /\ WaiterIsNotAbandoned'
  <2>1. pc'[c] # "waiting" /\ \A d \in Callers : d # c => pc'[d] = pc[d] /\ batch'[d] = batch[d]
    BY <1>1, <1>4 DEF Answered, Goto, TypeOK
  <2> QED
    BY <1>2, <1>4, <2>1 DEF Answered, items
<1>5. ASSUME NEW c \in Callers, Submit(c)
      PROVE  AbandonOK' /\ ClosingOK' /\ WaiterIsNotAbandoned'
  <2>1. Current(c) \in Items /\ Current(c) \notin abandoned /\ value[Current(c)] = "none"
    BY <1>1, <1>5, ItemsOf DEF Submit, Admitted, Current, TypeOK, BatchOK, BatchAt
  <2>2. ClosingOK'
    BY <1>1, <1>5 DEF Submit, Admitted, ClosingOK, closing
  <2>3. WaiterIsNotAbandoned'
    BY <1>1, <1>5, <2>1 DEF Submit, WaiterIsNotAbandoned, Goto, Current, TypeOK
  <2> QED
    BY <1>1, <1>5, <2>2, <2>3 DEF Submit, AbandonOK
<1>6. ASSUME NEW c \in Callers, Timeout(c) \/ Cancel(c)
      PROVE  AbandonOK' /\ ClosingOK' /\ WaiterIsNotAbandoned'
  <2>1. \A d \in Callers : d # c => Current(d) # Current(c)
    BY DEF Current
  <2>2. pc'[c] # "waiting" /\ \A d \in Callers : d # c => pc'[d] = pc[d]
    BY <1>1, <1>6 DEF Timeout, Cancel, Goto, TypeOK
  <2>3. WaiterIsNotAbandoned'
    BY <1>1, <1>6, <2>1, <2>2 DEF Timeout, Cancel, WaiterIsNotAbandoned, Current
  <2>4. abandoned \subseteq abandoned'
    BY <1>6 DEF Timeout, Cancel
  <2> QED
    BY <1>1, <1>6, <2>3, <2>4 DEF Timeout, Cancel, AbandonOK, ClosingOK, closing
<1>7. CASE Take
  <2>1. queue # <<>> /\ UNCHANGED <<callers, value, abandoned, closing>>
    BY <1>7 DEF Take
  <2> QED
    BY <1>1, <2>1 DEF AbandonOK, ClosingOK, WaiterIsNotAbandoned, Current, callers, closing
<1>8. ASSUME NEW i \in Items, Work(i) \/ Run(i)
      PROVE  AbandonOK' /\ ClosingOK' /\ WaiterIsNotAbandoned'
  <2>1. \A j \in Items : value'[j] = "abandoned" => j \in abandoned
    BY <1>1, <1>8 DEF Work, Check, Begin, Run, Release, Tell, AbandonOK, TypeOK
  <2>2. UNCHANGED <<callers, abandoned, queue, closing>> /\ stage[i] \notin {"new", "told"}
    BY <1>8 DEF Work, Check, Begin, Run, Release, Tell
  <2>3. ASSUME NEW c \in Callers PROVE Current(c) \in Items
    BY <1>1, <2>3, ItemsOf DEF Current, TypeOK
  <2> QED
    BY <1>1, <2>1, <2>2, <2>3 DEF AbandonOK, ClosingOK, WaiterIsNotAbandoned, Current, callers, closing
<1>9. ASSUME NEW k \in Closers, Close(k) \/ Return(k) \/ CancelClose(k)
      PROVE  AbandonOK' /\ ClosingOK' /\ WaiterIsNotAbandoned'
  <2>1. ClosingOK'
    BY <1>1, <1>9 DEF Close, Return, CancelClose, ClosingOK, items, TypeOK
  <2> QED
    BY <1>1, <1>9, <2>1 DEF Close, Return, CancelClose, AbandonOK, WaiterIsNotAbandoned, Current,
       items, callers
<1>10. CASE Shutdown
  <2>1. ASSUME NEW i \in Items PROVE stage[i] \in {"new", "told"}
    <3>1. stage[i] # "queued"
      BY <1>1, <1>10, <2>1, EmptySeq DEF Shutdown, QueueOK
    <3> QED
      BY <1>1, <1>10, <3>1 DEF Shutdown, Idle, TypeOK, OnThread
  <2> QED
    BY <1>1, <1>10, <2>1 DEF Shutdown, AbandonOK, ClosingOK, WaiterIsNotAbandoned, Current, items,
       callers
<1>11. CASE Tick
  BY <1>2, <1>11 DEF Tick, items, callers
<1> QED
  BY <1>3, <1>4, <1>5, <1>6, <1>7, <1>8, <1>9, <1>10, <1>11 DEF Next

\* The rest follows from where the items are.
LEMMA WorkerRest ==
  WorkerInv => OwnWorkIsReleased /\ CloseIsQuiet /\ ModelsOutliveWork
<1> SUFFICES ASSUME WorkerInv PROVE OwnWorkIsReleased /\ CloseIsQuiet /\ ModelsOutliveWork
  OBVIOUS
<1> USE DEF WorkerInv
<1>1. OwnWorkIsReleased
  <2> SUFFICES ASSUME NEW c \in Callers, pc[c] \in {"batch", "ok"}, NEW b \in 1..MaxBatches
               PROVE  stage[<<c, b>>] \in {"new", "told"}
    BY DEF OwnWorkIsReleased, Held
  <2>1. BatchAt(c, b) /\ b \in Nat /\ batch[c] \in Nat /\ demand.batches[c] \in Nat
    BY DEF BatchOK, TypeOK
  <2> QED
    BY <2>1 DEF BatchAt, SpanOK
<1>2. CloseIsQuiet /\ ModelsOutliveWork
  BY DEF ClosingOK, CloseIsQuiet, ModelsOutliveWork, HeldItems, Held
<1> QED
  BY <1>1, <1>2

LEMMA WorkerStep == WorkerSafety /\ [Next]_vars => WorkerSafety'
<1> SUFFICES ASSUME WorkerSafety, [Next]_vars PROVE WorkerSafety'
  OBVIOUS
<1>1. CASE Next
  <2>1. WorkerInv'
    BY <1>1, WorkerTypes, WorkerQueue, WorkerThread, WorkerBatches, WorkerSpan, WorkerCloses
    DEF WorkerInv
  <2>2. (OwnWorkIsReleased /\ CloseIsQuiet /\ ModelsOutliveWork)'
    BY <2>1, WorkerRest, PTL
  <2> QED
    BY <1>1, <2>1, <2>2, WorkerCount, WorkerCloses DEF WorkerSafety
<1>2. CASE UNCHANGED vars
  <2> USE <1>2 DEF WorkerSafety, WorkerInv, vars
  <2>1. TypeOK' /\ ThreadOK' /\ SpanOK' /\ AbandonOK' /\ ClosingOK'
    BY DEF TypeOK, ThreadOK, SpanOK, AbandonOK, ClosingOK
  <2>2. QueueOK'
    BY DEF QueueOK
  <2>3. BatchOK'
    BY DEF BatchOK, BatchAt
  <2>4. CapacityIsExact' /\ ModelsOutliveWork'
    BY DEF CapacityIsExact, HeldItems, ModelsOutliveWork
  <2>5. OwnWorkIsReleased' /\ WaiterIsNotAbandoned' /\ CloseIsQuiet'
    BY DEF OwnWorkIsReleased, WaiterIsNotAbandoned, Current, CloseIsQuiet
  <2> QED
    BY <2>1, <2>2, <2>3, <2>4, <2>5
<1> QED
  BY <1>1, <1>2

\* WorkerSafety: whatever callers time out, are cancelled or fail, the
\* capacity is exact, nobody waits for abandoned work, and the models are
\* dropped only when no inference is left.
THEOREM WorkerIsSafe == Spec => []WorkerSafety
<1>1. BothInit => WorkerSafety
  BY WorkerInit DEF BothInit
<1>2. WorkerSafety /\ [BothNext]_everything => WorkerSafety'
  <2>1. [BothNext]_everything => [Next]_vars
    BY DEF BothNext, everything
  <2> QED
    BY <2>1, WorkerStep
<1> QED
  BY <1>1, <1>2, PTL DEF Spec

\* run_before_deadline: an item abandoned before the thread looks at it is
\* not run.
THEOREM NothingRunsForNobody == Spec => AbandonedIsSkipped
<1> DEFINE Skipped == \A i \in Items : i \in abandoned /\ stage[i] \in {"queued", "taken"} =>
                        stage'[i] \notin {"checked", "running"}
<1>1. WorkerSafety /\ [BothNext]_everything => [Skipped]_vars
  <2> SUFFICES ASSUME WorkerSafety, Next, NEW i \in Items,
                      i \in abandoned, stage[i] \in {"queued", "taken"}
               PROVE  stage'[i] \notin {"checked", "running"}
    BY DEF BothNext, everything
  <2>1. TypeOK /\ QueueOK
    BY DEF WorkerSafety, WorkerInv
  <2>2. ASSUME stage' = stage PROVE stage'[i] \notin {"checked", "running"}
    BY <2>2
  <2>3. ASSUME NEW c \in Callers, Submit(c) PROVE stage'[i] \notin {"checked", "running"}
    BY <2>1, <2>3, ItemsOf DEF Submit, Stage, Current, TypeOK
  <2>4. CASE Take
    BY <2>1, <2>4, TailFacts DEF Take, Stage, TypeOK
  <2>5. ASSUME NEW j \in Items, Work(j) \/ Run(j) PROVE stage'[i] \notin {"checked", "running"}
    BY <2>1, <2>5 DEF Work, Check, Begin, Run, Release, Tell, Stage, TypeOK
  <2>6. ASSUME NEW c \in Callers, Call(c) \/ Refuse(c) \/ SubmitFails(c) \/ Answered(c)
                                  \/ Timeout(c) \/ Cancel(c)
        PROVE  stage'[i] \notin {"checked", "running"}
    BY <2>2, <2>6 DEF Call, Refuse, SubmitFails, Answered, Timeout, Cancel, items
  <2>7. ASSUME NEW k \in Closers, Close(k) \/ Return(k) \/ CancelClose(k)
        PROVE  stage'[i] \notin {"checked", "running"}
    BY <2>2, <2>7 DEF Close, Return, CancelClose, items
  <2>8. CASE Shutdown \/ Tick
    BY <2>2, <2>8 DEF Shutdown, Tick, items
  <2> QED
    BY <2>3, <2>4, <2>5, <2>6, <2>7, <2>8 DEF Next
<1> QED
  BY <1>1, WorkerIsSafe, PTL DEF Spec, AbandonedIsSkipped

-----------------------------------------------------------------------------
(* The store's executor.                                                   *)

\* The instance counts with an operator of its own, which is the same one.
LEMMA SameCount == \A T : S!Cardinality(T) = Cardinality(T)
  BY DEF S!Cardinality, Cardinality

LEMMA StoreInit == S!Init => StoreSafety
<1> SUFFICES ASSUME S!Init PROVE StoreSafety
  OBVIOUS
<1>1. sdemand.kind \in [Ops -> {"ensure", "prepare", "upsert", "search", "none"}]
  BY DemandsAssumption DEF S!Init
<1>2. S!TypeOK
  <2>1. squeue \in Seq(Ops)
    BY DEF S!Init
  <2>2. rpc \in [Ops -> S!Rpcs]
    BY <1>1 DEF S!Init, S!FirstRpc, S!Rpcs
  <2>3. S!Cardinality(stored) <= 1 /\ coll \in {"absent", "good", "bad"}
    BY FS_EmptySet, SameCount, DemandsAssumption DEF S!Init
  <2> QED
    BY <2>1, <2>2, <2>3 DEF S!Init, S!TypeOK, S!OnThread, S!Draining, S!Ended
<1>3. Len(squeue) = 0 /\ 1..0 = {}
  BY DEF S!Init
<1>4. S!QueueOK /\ S!PlaceOK /\ S!PathOK
  <2>1. \A o \in Ops : rpc[o] # "load"
    BY <1>1 DEF S!Init, S!FirstRpc
  <2> QED
    BY <1>3, <2>1 DEF S!Init, S!QueueOK, S!PlaceOK, S!PathOK
<1>5. S!HeldOps = {}
  BY DEF S!Init, S!HeldOps, S!Held, S!OnThread
<1>6. S!CapacityIsExact
  BY <1>5, SizesAssumption, FS_EmptySet, SameCount DEF S!Init, S!CapacityIsExact
<1> QED
  BY <1>2, <1>4, <1>6 DEF StoreSafety, S!StoreSafety, S!StoreInv, S!Init, S!NothingLeftBehind,
     S!CancellationIsHeard, S!ClientOutlivesWork, S!LoadedIsCompatible, S!Ended

\* What End leaves as it is: it only forgets an item that was told.
LEMMA EndFacts ==
  ASSUME S!TypeOK, NEW o \in Ops, NEW r, S!End(o, r)
  PROVE  /\ spc' = [spc EXCEPT ![o] = r]
         /\ rpc' \in [Ops -> S!Rpcs] /\ \A p \in Ops : p # o => rpc'[p] = rpc[p]
         /\ expired' \subseteq Ops /\ sabandoned' \subseteq Ops
         /\ svalue' = [svalue EXCEPT ![o] = "none"]
         /\ sstage' = sstage \/ (sstage[o] = "told" /\ sstage' = [sstage EXCEPT ![o] = "none"])
<1>1. S!FirstRpc[sdemand.kind[o]] \in S!Rpcs
  BY DemandsAssumption DEF S!TypeOK, S!FirstRpc, S!Rpcs
<1>2. rpc \in [Ops -> S!Rpcs]
  BY DEF S!TypeOK
<1>3. rpc' \in [Ops -> S!Rpcs] /\ \A p \in Ops : p # o => rpc'[p] = rpc[p]
  BY <1>1, <1>2 DEF S!End, S!Set
<1> QED
  BY <1>3 DEF S!End, S!TypeOK, S!Set

LEMMA StoreTypes == StoreSafety /\ S!Next => S!TypeOK'
<1> SUFFICES ASSUME StoreSafety, S!Next PROVE S!TypeOK'
  OBVIOUS
<1> USE DEF S!TypeOK, S!callers, S!work, S!closing, S!server, S!Set, S!OnThread, S!Draining
<1>1. S!TypeOK /\ S!CapacityIsExact
  BY DEF StoreSafety, S!StoreSafety, S!StoreInv
<1>2. ASSUME NEW o \in Ops, NEW r \in S!Ended, S!End(o, r),
             UNCHANGED <<sdemand, cancels, squeue, sinflight, client, sclosed, skpc, coll,
                         sloaded, stored>>
      PROVE  S!TypeOK'
  BY <1>1, <1>2, EndFacts
<1>3. ASSUME NEW o \in Ops, S!Start(o) PROVE S!TypeOK'
  BY <1>1, <1>3 DEF S!Start, S!Ended
<1>4. ASSUME NEW o \in Ops, S!Refuse(o) PROVE S!TypeOK'
  BY <1>2, <1>4 DEF S!Refuse, S!Ended
<1>5. ASSUME NEW o \in Ops, S!Submit(o) PROVE S!TypeOK'
  <2>1. squeue' \in Seq(Ops)
    BY <1>1, <1>5, AppendFacts DEF S!Submit
  <2> QED
    BY <1>1, <1>5, <2>1 DEF S!Submit
<1>6. ASSUME NEW o \in Ops, S!Answered(o) PROVE S!TypeOK'
  <2>1. ASSUME NEW r \in S!Ended, S!End(o, r) PROVE S!TypeOK'
    BY <1>2, <1>6, <2>1 DEF S!Answered
  <2>2. ASSUME S!After(o) # "none", spc' = [spc EXCEPT ![o] = "call"],
               rpc' = [rpc EXCEPT ![o] = S!After(o)],
               expired' = IF rpc[o] = "version" THEN expired \ {o} ELSE expired,
               UNCHANGED <<sabandoned, sstage, svalue>>
        PROVE  S!TypeOK'
    <3>1. S!After(o) \in S!Rpcs
      BY <2>2 DEF S!After, S!Rpcs
    <3> QED
      BY <1>1, <1>6, <2>2, <3>1 DEF S!Answered
  <2> QED
    BY <1>6, <2>1, <2>2 DEF S!Answered, S!Ended
<1>7. ASSUME NEW o \in Ops, S!Timeout(o) PROVE S!TypeOK'
  <2>1. CASE S!End(o, "deadline")
    BY <1>2, <1>7, <2>1 DEF S!Timeout, S!Ended
  <2>2. CASE ~S!End(o, "deadline")
    BY <1>1, <1>7, <2>2 DEF S!Timeout
  <2> QED
    BY <2>1, <2>2
<1>8. ASSUME NEW o \in Ops, S!Cancel(o) PROVE S!TypeOK'
  BY <1>1, <1>8 DEF S!Cancel
<1>9. ASSUME NEW o \in Ops, S!Drained(o) PROVE S!TypeOK'
  BY <1>2, <1>9 DEF S!Drained, S!Ended
<1>10. ASSUME NEW o \in Ops, S!Expire(o) PROVE S!TypeOK'
  BY <1>1, <1>10 DEF S!Expire
<1>11. CASE S!Take
  BY <1>1, <1>11, TailFacts DEF S!Take
<1>12. ASSUME NEW o \in Ops, S!Skip(o) PROVE S!TypeOK'
  BY <1>1, <1>12 DEF S!Skip, S!Done
<1>13. ASSUME NEW o \in Ops, S!Connect(o) PROVE S!TypeOK'
  BY <1>1, <1>13 DEF S!Connect, S!Done
<1>14. ASSUME NEW o \in Ops, S!Send(o) PROVE S!TypeOK'
  BY <1>1, <1>14 DEF S!Send
<1>15. ASSUME NEW o \in Ops, S!Reply(o) PROVE S!TypeOK'
  <2>1. PICK v \in {"yes", "no", "error"} : S!Done(o, v)
    BY <1>15 DEF S!Reply, S!Answer
  <2>2. /\ coll' \in {"absent", "good", "bad"} /\ sloaded' \in BOOLEAN
        /\ stored' \in {stored, {o}}
    BY <1>1, <1>15 DEF S!Reply, S!Change
  <2>3. stored' \subseteq Ops /\ S!Cardinality(stored') <= 1
    <3>1. S!Cardinality({o}) = 1
      BY FS_Singleton, SameCount
    <3>2. CASE stored' = stored
      BY <1>1, <3>2
    <3>3. CASE stored' = {o}
      BY <3>1, <3>3
    <3> QED
      BY <2>2, <3>2, <3>3
  <2> QED
    BY <1>1, <1>15, <2>1, <2>2, <2>3 DEF S!Reply, S!Done
<1>16. ASSUME NEW o \in Ops, S!Tell(o) PROVE S!TypeOK'
  <2>1. o \in S!HeldOps /\ S!HeldOps \in SUBSET Ops
    BY <1>16 DEF S!Tell, S!HeldOps, S!Held
  <2>2. sinflight > 0
    BY <1>1, <2>1, SetsAssumption, CountMoves, SameCount DEF S!CapacityIsExact
  <2> QED
    BY <1>1, <1>16, <2>2 DEF S!Tell
<1>17. ASSUME NEW k \in StoreClosers, S!Close(k) PROVE S!TypeOK'
  BY <1>1, <1>17 DEF S!Close
<1>18. ASSUME NEW k \in StoreClosers, S!Return(k) \/ S!CancelClose(k) PROVE S!TypeOK'
  BY <1>1, <1>18 DEF S!Return, S!CancelClose
<1>19. CASE S!Shutdown
  BY <1>1, <1>19 DEF S!Shutdown
<1> QED
  BY <1>3, <1>4, <1>5, <1>6, <1>7, <1>8, <1>9, <1>10, <1>11, <1>12, <1>13, <1>14, <1>15,
     <1>16, <1>17, <1>18, <1>19
  DEF S!Next, S!OpStep, S!ThreadStep

\* The caller's side only forgets items that were told or submits one.
LEMMA StoreQueue == StoreSafety /\ S!Next => S!QueueOK'
<1> SUFFICES ASSUME StoreSafety, S!Next PROVE S!QueueOK'
  OBVIOUS
<1> USE DEF S!Set
<1>1. S!TypeOK /\ S!QueueOK /\ S!PlaceOK
  BY DEF StoreSafety, S!StoreSafety, S!StoreInv
<1>2. Holds(squeue, sstage, Ops) /\ DOMAIN sstage = Ops
  BY <1>1 DEF Holds, S!QueueOK, S!TypeOK
<1>3. Holds(squeue', sstage', Ops) => S!QueueOK'
  BY DEF Holds, S!QueueOK
<1>4. ASSUME squeue' = squeue, sstage' = sstage PROVE S!QueueOK'
  BY <1>2, <1>3, <1>4
<1>5. ASSUME NEW o \in Ops, NEW r, S!End(o, r), squeue' = squeue PROVE S!QueueOK'
  <2>1. CASE sstage[o] = "told" /\ sstage' = [sstage EXCEPT ![o] = "none"]
    BY <1>2, <1>3, <1>5, <2>1, HoldsAside
  <2> QED
    BY <1>1, <1>4, <1>5, <2>1, EndFacts
<1>6. ASSUME NEW o \in Ops, S!Submit(o) PROVE S!QueueOK'
  <2>1. sstage[o] # "queued"
    BY <1>1, <1>6 DEF S!Submit, S!PlaceOK
  <2> QED
    BY <1>2, <1>3, <1>6, <2>1, HoldsAppend DEF S!Submit
<1>7. CASE S!Take
  BY <1>2, <1>3, <1>7, HoldsTail DEF S!Take
<1>8. ASSUME NEW o \in Ops, S!ThreadStep(o) PROVE S!QueueOK'
  <2>1. squeue' = squeue /\ sstage[o] # "queued"
    BY <1>8 DEF S!ThreadStep, S!Skip, S!Connect, S!Send, S!Reply, S!Tell
  <2>2. sstage' = sstage \/ \E s \in {"running", "done", "told"} : sstage' = [sstage EXCEPT ![o] = s]
    BY <1>8 DEF S!ThreadStep, S!Skip, S!Connect, S!Send, S!Reply, S!Tell, S!Done
  <2>3. ASSUME NEW s \in {"running", "done", "told"}, sstage' = [sstage EXCEPT ![o] = s]
        PROVE  S!QueueOK'
    BY <1>2, <1>3, <2>1, <2>3, HoldsAside
  <2> QED
    BY <1>4, <2>1, <2>2, <2>3
<1>9. ASSUME NEW o \in Ops, S!Start(o) \/ S!Cancel(o) \/ S!Expire(o) PROVE S!QueueOK'
  BY <1>4, <1>9 DEF S!Start, S!Cancel, S!Expire, S!work
<1>10. ASSUME NEW o \in Ops, S!Refuse(o) \/ S!Drained(o) PROVE S!QueueOK'
  BY <1>5, <1>10 DEF S!Refuse, S!Drained
<1>11. ASSUME NEW o \in Ops, S!Answered(o) \/ S!Timeout(o) PROVE S!QueueOK'
  BY <1>4, <1>5, <1>11 DEF S!Answered, S!Timeout
<1>12. ASSUME NEW k \in StoreClosers, S!Close(k) \/ S!Return(k) \/ S!CancelClose(k)
       PROVE  S!QueueOK'
  BY <1>4, <1>12 DEF S!Close, S!Return, S!CancelClose, S!work
<1>13. CASE S!Shutdown
  BY <1>4, <1>13 DEF S!Shutdown, S!work
<1> QED
  BY <1>6, <1>7, <1>8, <1>9, <1>10, <1>11, <1>12, <1>13 DEF S!Next, S!OpStep

LEMMA StoreCount == StoreSafety /\ S!Next => S!CapacityIsExact'
<1> SUFFICES ASSUME StoreSafety, S!Next PROVE S!CapacityIsExact'
  OBVIOUS
<1> USE DEF S!Set
<1>1. S!TypeOK /\ S!CapacityIsExact /\ S!PlaceOK /\ S!HeldOps \in SUBSET Ops
  BY DEF StoreSafety, S!StoreSafety, S!StoreInv, S!HeldOps
<1>2. ASSUME S!HeldOps' = S!HeldOps, sinflight' = sinflight PROVE S!CapacityIsExact'
  BY <1>1, <1>2, SameCount DEF S!CapacityIsExact
<1>3. ASSUME sstage' = sstage, sinflight' = sinflight PROVE S!CapacityIsExact'
  BY <1>2, <1>3 DEF S!HeldOps
<1>4. ASSUME NEW o \in Ops, NEW s, sstage' = [sstage EXCEPT ![o] = s], sinflight' = sinflight,
             sstage[o] \in S!Held <=> s \in S!Held
      PROVE  S!CapacityIsExact'
  <2>1. S!HeldOps' = S!HeldOps
    BY <1>1, <1>4 DEF S!HeldOps, S!TypeOK
  <2> QED
    BY <1>2, <1>4, <2>1
<1>5. ASSUME NEW o \in Ops, NEW r, S!End(o, r), sinflight' = sinflight PROVE S!CapacityIsExact'
  <2>1. CASE sstage[o] = "told" /\ sstage' = [sstage EXCEPT ![o] = "none"]
    BY <1>4, <1>5, <2>1 DEF S!Held, S!OnThread
  <2> QED
    BY <1>1, <1>3, <1>5, <2>1, EndFacts
<1>6. ASSUME NEW o \in Ops, S!Submit(o) PROVE S!CapacityIsExact'
  <2>1. S!HeldOps' = S!HeldOps \union {o} /\ o \notin S!HeldOps
    BY <1>1, <1>6 DEF S!Submit, S!PlaceOK, S!HeldOps, S!Held, S!OnThread, S!TypeOK
  <2>2. S!Cardinality(S!HeldOps') = S!Cardinality(S!HeldOps) + 1
    BY <1>1, <2>1, SetsAssumption, CountMoves, SameCount
  <2> QED
    BY <1>1, <1>6, <2>2, SizesAssumption DEF S!Submit, S!CapacityIsExact, S!TypeOK
<1>7. CASE S!Take
  <2>1. Head(squeue) \in Ops /\ sstage[Head(squeue)] = "queued"
    BY <1>1, <1>7, TailFacts DEF S!Take, S!TypeOK, S!QueueOK, StoreSafety, S!StoreSafety, S!StoreInv
  <2> QED
    BY <1>4, <1>7, <2>1 DEF S!Take, S!Held, S!OnThread
<1>8. ASSUME NEW o \in Ops, S!Skip(o) \/ S!Connect(o) \/ S!Send(o) \/ S!Reply(o)
      PROVE  S!CapacityIsExact'
  <2>1. sinflight' = sinflight /\ sstage[o] \in {"taken", "running"}
    BY <1>8 DEF S!Skip, S!Connect, S!Send, S!Reply
  <2>2. sstage' = sstage \/ \E s \in {"running", "done"} : sstage' = [sstage EXCEPT ![o] = s]
    BY <1>8 DEF S!Skip, S!Connect, S!Send, S!Reply, S!Done
  <2> QED
    BY <1>3, <1>4, <2>1, <2>2 DEF S!Held, S!OnThread
<1>9. ASSUME NEW o \in Ops, S!Tell(o) PROVE S!CapacityIsExact'
  <2>1. S!HeldOps' = S!HeldOps \ {o} /\ o \in S!HeldOps
    BY <1>1, <1>9 DEF S!Tell, S!HeldOps, S!Held, S!OnThread, S!TypeOK
  <2>2. S!Cardinality(S!HeldOps') = S!Cardinality(S!HeldOps) - 1
    BY <1>1, <2>1, SetsAssumption, CountMoves, SameCount
  <2> QED
    BY <1>1, <1>9, <2>2, SizesAssumption DEF S!Tell, S!CapacityIsExact, S!TypeOK
<1>10. ASSUME NEW o \in Ops, S!Start(o) \/ S!Cancel(o) \/ S!Expire(o) PROVE S!CapacityIsExact'
  BY <1>3, <1>10 DEF S!Start, S!Cancel, S!Expire, S!work
<1>11. ASSUME NEW o \in Ops, S!Refuse(o) \/ S!Drained(o) PROVE S!CapacityIsExact'
  BY <1>5, <1>11 DEF S!Refuse, S!Drained
<1>12. ASSUME NEW o \in Ops, S!Answered(o) \/ S!Timeout(o) PROVE S!CapacityIsExact'
  BY <1>3, <1>5, <1>12 DEF S!Answered, S!Timeout
<1>13. ASSUME NEW k \in StoreClosers, S!Close(k) \/ S!Return(k) \/ S!CancelClose(k)
       PROVE  S!CapacityIsExact'
  BY <1>3, <1>13 DEF S!Close, S!Return, S!CancelClose, S!work
<1>14. CASE S!Shutdown
  BY <1>3, <1>14 DEF S!Shutdown, S!work
<1> QED
  BY <1>6, <1>7, <1>8, <1>9, <1>10, <1>11, <1>12, <1>13, <1>14
  DEF S!Next, S!OpStep, S!ThreadStep

\* An operation between two RPCs, or after its end, has no item that could
\* still be sent; one that was cancelled is drained as such.
LEMMA StorePlace == StoreSafety /\ S!Next => S!PlaceOK' /\ S!NothingLeftBehind'
<1> SUFFICES ASSUME StoreSafety, S!Next, NEW p \in Ops
             PROVE  /\ spc'[p] \in {"idle", "call"} => sstage'[p] \in {"none", "told"}
                    /\ p \in cancels' => spc'[p] \in {"drain", "cancelled"}
                    /\ spc'[p] \in S!Ended => sstage'[p] \notin S!Held \ {"done"}
  BY DEF S!PlaceOK, S!NothingLeftBehind
<1> USE DEF S!Set, S!Held, S!OnThread, S!Draining, S!Ended
<1>1. /\ S!TypeOK
      /\ spc[p] \in {"idle", "call"} => sstage[p] \in {"none", "told"}
      /\ p \in cancels => spc[p] \in {"drain", "cancelled"}
      /\ spc[p] \in S!Ended => sstage[p] \notin S!Held \ {"done"}
  BY DEF StoreSafety, S!StoreSafety, S!StoreInv, S!PlaceOK, S!NothingLeftBehind
<1> DEFINE Goal == /\ spc'[p] \in {"idle", "call"} => sstage'[p] \in {"none", "told"}
                   /\ p \in cancels' => spc'[p] \in {"drain", "cancelled"}
                   /\ spc'[p] \in S!Ended => sstage'[p] \notin S!Held \ {"done"}
<1>2. ASSUME spc'[p] = spc[p], sstage'[p] = sstage[p], cancels' = cancels PROVE Goal
  BY <1>1, <1>2
<1>3. ASSUME NEW o \in Ops, NEW r \in S!Ended, S!End(o, r), cancels' = cancels,
             o \in cancels => r = "cancelled", sstage[o] \in {"none", "told", "done"}
      PROVE  Goal
  <2>1. CASE o = p
    <3>1. spc'[p] = r /\ sstage'[p] \in {"none", "told", "done"}
      BY <1>1, <1>3, <2>1, EndFacts DEF S!TypeOK
    <3> QED
      BY <1>3, <2>1, <3>1
  <2>2. CASE o # p
    BY <1>1, <1>2, <1>3, <2>2, EndFacts DEF S!TypeOK
  <2> QED
    BY <2>1, <2>2
<1>4. ASSUME NEW o \in Ops, S!Start(o) PROVE Goal
  BY <1>1, <1>4 DEF S!Start, S!TypeOK, S!work
<1>5. ASSUME NEW o \in Ops, S!Refuse(o) PROVE Goal
  <2>1. sstage[o] \in {"none", "told"} /\ o \notin cancels
    BY <1>5 DEF S!Refuse, StoreSafety, S!StoreSafety, S!StoreInv, S!PlaceOK
  <2> QED
    BY <1>3, <1>5, <2>1 DEF S!Refuse
<1>6. ASSUME NEW o \in Ops, S!Submit(o) PROVE Goal
  BY <1>1, <1>6 DEF S!Submit, S!TypeOK
<1>7. ASSUME NEW o \in Ops, S!Answered(o) PROVE Goal
  <2>1. sstage[o] = "told" /\ o \notin cancels /\ cancels' = cancels
    BY <1>7 DEF S!Answered, StoreSafety, S!StoreSafety, S!StoreInv, S!PlaceOK
  <2>2. ASSUME NEW r \in S!Ended, S!End(o, r) PROVE Goal
    BY <1>3, <2>1, <2>2
  <2>3. ASSUME spc' = [spc EXCEPT ![o] = "call"], sstage' = sstage PROVE Goal
    BY <1>1, <2>1, <2>3 DEF S!TypeOK
  <2> QED
    BY <1>7, <2>2, <2>3 DEF S!Answered
<1>8. ASSUME NEW o \in Ops, S!Timeout(o) PROVE Goal
  <2>1. o \notin cancels /\ cancels' = cancels
    BY <1>8 DEF S!Timeout, StoreSafety, S!StoreSafety, S!StoreInv, S!PlaceOK
  <2>2. CASE sstage[o] \in {"done", "told"} /\ S!End(o, "deadline")
    BY <1>3, <2>1, <2>2
  <2>3. CASE spc' = [spc EXCEPT ![o] = "drainTimeout"] /\ sstage' = sstage
    BY <1>1, <2>1, <2>3 DEF S!TypeOK
  <2> QED
    BY <1>8, <2>2, <2>3 DEF S!Timeout
<1>9. ASSUME NEW o \in Ops, S!Cancel(o) PROVE Goal
  BY <1>1, <1>9 DEF S!Cancel, S!TypeOK
<1>10. ASSUME NEW o \in Ops, S!Drained(o) PROVE Goal
  <2>1. o \in cancels => spc[o] \in {"drain", "cancelled"}
    BY DEF StoreSafety, S!StoreSafety, S!StoreInv, S!PlaceOK
  <2> QED
    BY <1>3, <1>10, <2>1 DEF S!Drained
<1>11. CASE S!Take
  <2>1. Head(squeue) \in Ops /\ sstage[Head(squeue)] = "queued"
    BY <1>1, <1>11, TailFacts DEF S!Take, S!TypeOK, S!QueueOK, StoreSafety, S!StoreSafety, S!StoreInv
  <2> QED
    BY <1>1, <1>11, <2>1 DEF S!Take, S!TypeOK, S!callers
<1>12. ASSUME NEW o \in Ops, S!ThreadStep(o) PROVE Goal
  <2>1. spc' = spc /\ cancels' = cancels /\ sstage[o] \in {"taken", "running", "done"}
    BY <1>12 DEF S!ThreadStep, S!Skip, S!Connect, S!Send, S!Reply, S!Tell, S!callers
  <2>2. sstage' = sstage \/ \E s \in {"running", "done", "told"} :
                              /\ sstage' = [sstage EXCEPT ![o] = s]
                              /\ s = "running" => sstage[o] = "taken"
    BY <1>12 DEF S!ThreadStep, S!Skip, S!Connect, S!Send, S!Reply, S!Tell, S!Done
  <2> QED
    BY <1>1, <2>1, <2>2 DEF S!TypeOK
<1>13. ASSUME NEW o \in Ops, S!Expire(o) PROVE Goal
  BY <1>2, <1>13 DEF S!Expire, S!callers, S!work
<1>14. ASSUME NEW k \in StoreClosers, S!Close(k) \/ S!Return(k) \/ S!CancelClose(k) PROVE Goal
  BY <1>2, <1>14 DEF S!Close, S!Return, S!CancelClose, S!callers, S!work
<1>15. CASE S!Shutdown
  BY <1>2, <1>15 DEF S!Shutdown, S!callers, S!work
<1> QED
  BY <1>4, <1>5, <1>6, <1>7, <1>8, <1>9, <1>10, <1>11, <1>12, <1>13, <1>14, <1>15
  DEF S!Next, S!OpStep

\* The collection is good before the RPC that loads it: an RPC found its
\* indexes as they should be, or created it.
LEMMA StorePath == StoreSafety /\ S!Next => S!PathOK' /\ S!LoadedIsCompatible'
<1> SUFFICES ASSUME StoreSafety, S!Next PROVE S!PathOK' /\ S!LoadedIsCompatible'
  OBVIOUS
<1> USE DEF S!Set, S!OnThread, S!Draining, S!Ended
<1>1. /\ S!TypeOK /\ S!PathOK /\ S!LoadedIsCompatible /\ S!PlaceOK /\ S!NothingLeftBehind
  BY DEF StoreSafety, S!StoreSafety, S!StoreInv
<1> DEFINE At(p) == spc'[p] \notin S!Ended /\ coll' # "good" =>
                      /\ rpc'[p] # "load"
                      /\ spc'[p] # "call" /\ rpc'[p] \in {"index", "create"} => svalue'[p] # "yes"
           Was(p) == spc[p] \notin S!Ended /\ coll # "good" =>
                       /\ rpc[p] # "load"
                       /\ spc[p] # "call" /\ rpc[p] \in {"index", "create"} => svalue[p] # "yes"
<1>2. \A p \in Ops : Was(p)
  BY <1>1 DEF S!PathOK
<1>3. (\A p \in Ops : At(p)) => S!PathOK'
  BY DEF S!PathOK
<1>4. ASSUME S!server' = S!server PROVE coll' = coll /\ S!LoadedIsCompatible'
  BY <1>1, <1>4 DEF S!LoadedIsCompatible, S!server
<1>5. ASSUME NEW p \in Ops, coll' = coll \/ coll' = "good", spc'[p] = spc[p], rpc'[p] = rpc[p],
             svalue'[p] = svalue[p] \/ svalue'[p] # "yes"
      PROVE  At(p)
  BY <1>2, <1>5
<1>6. ASSUME NEW o \in Ops, NEW r \in S!Ended, S!End(o, r), S!server' = S!server
      PROVE  S!PathOK' /\ S!LoadedIsCompatible'
  <2>1. ASSUME NEW p \in Ops PROVE At(p)
    <3>1. CASE p = o
      BY <1>1, <1>6, <3>1, EndFacts DEF S!TypeOK
    <3>2. CASE p # o
      BY <1>1, <1>4, <1>5, <1>6, <3>2, EndFacts DEF S!TypeOK
    <3> QED
      BY <3>1, <3>2
  <2> QED
    BY <1>3, <1>4, <1>6, <2>1
<1>7. ASSUME UNCHANGED <<spc, rpc, svalue>>, S!server' = S!server
      PROVE  S!PathOK' /\ S!LoadedIsCompatible'
  BY <1>3, <1>4, <1>5, <1>7
<1>8. ASSUME NEW o \in Ops, S!Start(o) PROVE S!PathOK' /\ S!LoadedIsCompatible'
  <2>1. ASSUME NEW p \in Ops PROVE At(p)
    BY <1>1, <1>2, <1>4, <1>8, <2>1 DEF S!Start, S!TypeOK, S!work
  <2> QED
    BY <1>3, <1>4, <1>8, <2>1 DEF S!Start
<1>9. ASSUME NEW o \in Ops, S!Refuse(o) \/ S!Drained(o) PROVE S!PathOK' /\ S!LoadedIsCompatible'
  BY <1>6, <1>9 DEF S!Refuse, S!Drained
<1>10. ASSUME NEW o \in Ops, S!Submit(o) PROVE S!PathOK' /\ S!LoadedIsCompatible'
  <2>1. ASSUME NEW p \in Ops PROVE At(p)
    BY <1>1, <1>2, <1>4, <1>10, <2>1 DEF S!Submit, S!TypeOK
  <2> QED
    BY <1>3, <1>4, <1>10, <2>1 DEF S!Submit
<1>11. ASSUME NEW o \in Ops, S!Answered(o) PROVE S!PathOK' /\ S!LoadedIsCompatible'
  <2>1. S!server' = S!server
    BY <1>11 DEF S!Answered, S!server
  <2>2. ASSUME NEW r \in S!Ended, S!End(o, r) PROVE S!PathOK' /\ S!LoadedIsCompatible'
    BY <1>6, <2>1, <2>2
  <2>3. ASSUME spc' = [spc EXCEPT ![o] = "call"], rpc' = [rpc EXCEPT ![o] = S!After(o)],
               svalue' = svalue, S!After(o) # "none",
               svalue[o] = "yes" \/ (svalue[o] = "no" /\ ~S!Unexpected(o))
        PROVE  S!PathOK' /\ S!LoadedIsCompatible'
    <3>1. ASSUME coll # "good" PROVE S!After(o) # "load"
      <4>1. spc[o] = "waiting"
        BY <1>11 DEF S!Answered
      <4>2. rpc[o] \in {"index", "create"} => svalue[o] # "yes" /\ svalue[o] # "no"
        BY <1>2, <2>3, <3>1, <4>1 DEF S!Unexpected
      <4> QED
        BY <2>3, <4>2 DEF S!After
    <3>2. ASSUME NEW p \in Ops PROVE At(p)
      <4>1. CASE p = o
        BY <1>1, <1>4, <2>1, <2>3, <3>1, <4>1 DEF S!TypeOK
      <4>2. CASE p # o
        BY <1>1, <1>4, <1>5, <2>1, <2>3, <4>2 DEF S!TypeOK
      <4> QED
        BY <4>1, <4>2
    <3> QED
      BY <1>3, <1>4, <2>1, <3>2
  <2> QED
    BY <1>11, <2>2, <2>3 DEF S!Answered
<1>12. ASSUME NEW o \in Ops, S!Timeout(o) \/ S!Cancel(o) PROVE S!PathOK' /\ S!LoadedIsCompatible'
  <2>1. S!server' = S!server
    BY <1>12 DEF S!Timeout, S!Cancel, S!server
  <2>2. CASE S!End(o, "deadline")
    BY <1>6, <2>1, <2>2
  <2>3. ASSUME NEW r \in {"drain", "drainTimeout"}, spc' = [spc EXCEPT ![o] = r],
               UNCHANGED <<rpc, svalue>>, spc[o] \in {"waiting", "drain", "drainTimeout"}
        PROVE  S!PathOK' /\ S!LoadedIsCompatible'
    <3>1. ASSUME NEW p \in Ops PROVE At(p)
      BY <1>1, <1>2, <1>4, <2>1, <2>3, <3>1 DEF S!TypeOK
    <3> QED
      BY <1>3, <1>4, <2>1, <3>1
  <2> QED
    BY <1>12, <2>2, <2>3 DEF S!Timeout, S!Cancel
<1>13. ASSUME NEW o \in Ops, S!Reply(o) PROVE S!PathOK' /\ S!LoadedIsCompatible'
  <2>1. /\ sstage[o] = "running" /\ spc' = spc /\ rpc' = rpc
        /\ coll' = coll \/ (coll = "absent" /\ coll' = "good")
        /\ sloaded' # sloaded => sloaded' = TRUE /\ rpc[o] = "load" /\ coll # "absent"
    BY <1>1, <1>13 DEF S!Reply, S!Change, S!callers, S!server, S!TypeOK
  <2>2. spc[o] \notin S!Ended
    BY <1>1, <2>1 DEF S!NothingLeftBehind, S!Held
  <2>3. S!LoadedIsCompatible'
    BY <1>1, <1>2, <2>1, <2>2 DEF S!LoadedIsCompatible, S!TypeOK
  <2>4. \A p \in Ops : p # o => svalue'[p] = svalue[p]
    BY <1>1, <1>13 DEF S!Reply, S!Done, S!TypeOK
  <2>5. svalue'[o] = "yes" /\ rpc[o] \in {"create", "index"} => coll' = "good"
    BY <1>1, <1>13 DEF S!Reply, S!Done, S!Answer, S!Change, S!TypeOK
  <2>6. ASSUME NEW p \in Ops PROVE At(p)
    BY <1>2, <1>5, <2>1, <2>2, <2>4, <2>5, <2>6
  <2> QED
    BY <1>3, <2>3, <2>6
<1>14. ASSUME NEW o \in Ops, S!Skip(o) \/ S!Connect(o) \/ S!Send(o) \/ S!Tell(o)
       PROVE  S!PathOK' /\ S!LoadedIsCompatible'
  <2>1. /\ spc' = spc /\ rpc' = rpc /\ S!server' = S!server
        /\ svalue' = svalue \/ \E v \in {"abandoned", "timeout", "error"} : svalue' = [svalue EXCEPT ![o] = v]
    BY <1>14 DEF S!Skip, S!Connect, S!Send, S!Tell, S!Done, S!callers, S!server
  <2>2. ASSUME NEW p \in Ops PROVE At(p)
    BY <1>1, <1>4, <1>5, <2>1, <2>2 DEF S!TypeOK
  <2> QED
    BY <1>3, <1>4, <2>1, <2>2
<1>15. ASSUME NEW o \in Ops, S!Expire(o) PROVE S!PathOK' /\ S!LoadedIsCompatible'
  BY <1>7, <1>15 DEF S!Expire, S!callers, S!work, S!server
<1>16. ASSUME NEW k \in StoreClosers, S!Close(k) \/ S!Return(k) \/ S!CancelClose(k)
       PROVE  S!PathOK' /\ S!LoadedIsCompatible'
  BY <1>7, <1>16 DEF S!Close, S!Return, S!CancelClose, S!callers, S!work, S!server
<1>17. CASE S!Take \/ S!Shutdown
  BY <1>7, <1>17 DEF S!Take, S!Shutdown, S!callers, S!work, S!server
<1> QED
  BY <1>8, <1>9, <1>10, <1>11, <1>12, <1>13, <1>14, <1>15, <1>16, <1>17
  DEF S!Next, S!OpStep, S!ThreadStep

\* Once the thread is joined it has no item and gets none, so that nobody
\* opens or uses the client.
LEMMA StoreCloses == StoreSafety /\ S!Next => S!ClientOutlivesWork'
<1> SUFFICES ASSUME StoreSafety, S!Next PROVE S!ClientOutlivesWork'
  OBVIOUS
<1> USE DEF S!Set, S!OnThread
<1>1. S!TypeOK /\ S!ClientOutlivesWork /\ S!QueueOK
  BY DEF StoreSafety, S!StoreSafety, S!StoreInv
<1>2. ASSUME sclosed' = sclosed, squeue' = squeue, client' = client,
             \A p \in Ops : sstage[p] \in {"none", "told"} => sstage'[p] \in {"none", "told"}
      PROVE  S!ClientOutlivesWork'
  BY <1>1, <1>2 DEF S!ClientOutlivesWork
<1>3. ASSUME NEW o \in Ops, NEW r, S!End(o, r), UNCHANGED <<sclosed, squeue, client>>
      PROVE  S!ClientOutlivesWork'
  <2>1. \A p \in Ops : sstage[p] \in {"none", "told"} => sstage'[p] \in {"none", "told"}
    BY <1>1, <1>3, EndFacts DEF S!TypeOK
  <2> QED
    BY <1>2, <1>3, <2>1
<1>4. ASSUME NEW o \in Ops, S!Start(o) \/ S!Cancel(o) \/ S!Expire(o) PROVE S!ClientOutlivesWork'
  BY <1>2, <1>4 DEF S!Start, S!Cancel, S!Expire, S!work, S!closing
<1>5. ASSUME NEW o \in Ops, S!Refuse(o) \/ S!Drained(o) PROVE S!ClientOutlivesWork'
  BY <1>3, <1>5 DEF S!Refuse, S!Drained, S!closing
<1>6. ASSUME NEW o \in Ops, S!Answered(o) \/ S!Timeout(o) PROVE S!ClientOutlivesWork'
  <2>1. UNCHANGED <<sclosed, squeue, client>>
    BY <1>6 DEF S!Answered, S!Timeout, S!closing
  <2>2. sstage' = sstage \/ \E r \in S!Ended : S!End(o, r)
    BY <1>6 DEF S!Answered, S!Timeout, S!Ended
  <2> QED
    BY <1>2, <1>3, <2>1, <2>2
<1>7. ASSUME NEW o \in Ops, S!Submit(o) PROVE S!ClientOutlivesWork'
  BY <1>7 DEF S!Submit, S!closing, S!ClientOutlivesWork
<1>8. CASE S!Take
  BY <1>1, <1>8 DEF S!Take, S!closing, S!ClientOutlivesWork
<1>9. ASSUME NEW o \in Ops, S!ThreadStep(o) PROVE S!ClientOutlivesWork'
  <2>1. sclosed' = sclosed /\ sstage[o] \notin {"none", "told"}
    BY <1>9 DEF S!ThreadStep, S!Skip, S!Connect, S!Send, S!Reply, S!Tell, S!closing
  <2> QED
    BY <1>1, <2>1 DEF S!ClientOutlivesWork
<1>10. ASSUME NEW k \in StoreClosers, S!Close(k) PROVE S!ClientOutlivesWork'
  BY <1>1, <1>10 DEF S!Close, S!work, S!ClientOutlivesWork
<1>11. ASSUME NEW k \in StoreClosers, S!Return(k) \/ S!CancelClose(k) PROVE S!ClientOutlivesWork'
  BY <1>2, <1>11 DEF S!Return, S!CancelClose, S!work
<1>12. CASE S!Shutdown
  <2>1. ASSUME NEW p \in Ops PROVE sstage[p] \in {"none", "told"}
    <3>1. sstage[p] # "queued"
      BY <1>1, <1>12, <2>1, EmptySeq DEF S!Shutdown, S!QueueOK
    <3> QED
      BY <1>1, <1>12, <3>1 DEF S!Shutdown, S!Idle, S!TypeOK
  <2>2. client' # "open" /\ squeue' = <<>> /\ sstage' = sstage
    BY <1>12 DEF S!Shutdown, S!work
  <2> QED
    BY <2>1, <2>2 DEF S!ClientOutlivesWork
<1> QED
  BY <1>4, <1>5, <1>6, <1>7, <1>8, <1>9, <1>10, <1>11, <1>12 DEF S!Next, S!OpStep

LEMMA StoreStep == StoreSafety /\ [S!Next]_store => StoreSafety'
<1> SUFFICES ASSUME StoreSafety, [S!Next]_store PROVE StoreSafety'
  OBVIOUS
<1>1. CASE S!Next
  <2>1. S!StoreInv'
    BY <1>1, StoreTypes, StoreQueue, StorePlace, StorePath DEF S!StoreInv
  <2>2. S!CancellationIsHeard'
    BY <2>1 DEF S!StoreInv, S!TypeOK, S!PlaceOK, S!CancellationIsHeard, S!Draining
  <2> QED
    BY <1>1, <2>1, <2>2, StoreCount, StorePlace, StorePath, StoreCloses
    DEF StoreSafety, S!StoreSafety
<1>2. CASE UNCHANGED store
  <2> USE <1>2 DEF StoreSafety, S!StoreSafety, S!StoreInv, store
  <2>1. S!TypeOK'
    BY SameCount DEF S!TypeOK
  <2>2. S!QueueOK' /\ S!PlaceOK' /\ S!PathOK'
    BY DEF S!QueueOK, S!PlaceOK, S!PathOK
  <2>3. S!CapacityIsExact'
    BY SameCount DEF S!CapacityIsExact, S!HeldOps
  <2>4. S!NothingLeftBehind' /\ S!CancellationIsHeard' /\ S!ClientOutlivesWork' /\ S!LoadedIsCompatible'
    BY DEF S!NothingLeftBehind, S!CancellationIsHeard, S!ClientOutlivesWork, S!LoadedIsCompatible
  <2> QED
    BY <2>1, <2>2, <2>3, <2>4
<1> QED
  BY <1>1, <1>2

\* StoreSafety: the capacity is exact, no operation leaves an RPC behind that
\* could be sent, cancellations are heard, and what is loaded is compatible,
\* whatever RPCs fail, time out or are applied although they failed.
THEOREM StoreIsSafe == Spec => []StoreSafety
<1>1. BothInit => StoreSafety
  BY StoreInit DEF BothInit
<1>2. StoreSafety /\ [BothNext]_everything => StoreSafety'
  <2>1. [BothNext]_everything => [S!Next]_store
    BY DEF BothNext, everything
  <2> QED
    BY <2>1, StoreStep
<1> QED
  BY <1>1, <1>2, PTL DEF Spec

\* Only ensure_schema comes to the RPC that creates a collection:
\* prepare_existing_collection looks for one and gives up without it.
RightKinds ==
  \A o \in Ops :
    /\ rpc[o] = "version" => sdemand.kind[o] = "prepare"
    /\ rpc[o] = "has" => sdemand.kind[o] \in {"ensure", "prepare"}
    /\ rpc[o] = "create" => sdemand.kind[o] = "ensure"

\* An operation is at an RPC of its method, whatever it is answered.
LEMMA KindsStep == StoreSafety /\ RightKinds /\ [S!Next]_store => RightKinds'
<1> SUFFICES ASSUME StoreSafety, RightKinds, [S!Next]_store PROVE RightKinds'
  OBVIOUS
<1>1. S!TypeOK
  BY DEF StoreSafety, S!StoreSafety, S!StoreInv
<1>2. sdemand.kind \in [Ops -> {"ensure", "prepare", "upsert", "search", "none"}]
  BY <1>1, DemandsAssumption DEF S!TypeOK
<1>3. ASSUME UNCHANGED <<sdemand, rpc>> PROVE RightKinds'
  BY <1>3 DEF RightKinds
<1>4. ASSUME NEW o \in Ops, NEW r, S!End(o, r), UNCHANGED sdemand PROVE RightKinds'
  <2>1. rpc' = [rpc EXCEPT ![o] = S!FirstRpc[sdemand.kind[o]]]
    BY <1>4 DEF S!End, S!Set
  <2> QED
    BY <1>1, <1>2, <1>4, <2>1 DEF RightKinds, S!FirstRpc, S!TypeOK
<1>5. ASSUME NEW o \in Ops, S!Answered(o) PROVE RightKinds'
  <2>1. CASE \E r : S!End(o, r)
    BY <1>4, <1>5, <2>1 DEF S!Answered, S!callers
  <2>2. CASE ~\E r : S!End(o, r)
    <3>1. /\ rpc' = [rpc EXCEPT ![o] = S!After(o)] /\ UNCHANGED sdemand
          /\ svalue[o] = "no" => ~S!Unexpected(o)
          /\ svalue[o] \in {"yes", "no"}
      BY <1>5, <2>2 DEF S!Answered, S!Set
    <3>2. /\ S!After(o) # "version"
          /\ S!After(o) = "has" => rpc[o] = "version"
          /\ S!After(o) = "create" => rpc[o] = "has" /\ sdemand.kind[o] # "prepare"
      BY <3>1 DEF S!After, S!Unexpected
    <3> QED
      BY <1>1, <3>1, <3>2 DEF RightKinds, S!TypeOK
  <2> QED
    BY <2>1, <2>2
<1>6. ASSUME NEW o \in Ops, S!Refuse(o) \/ S!Timeout(o) \/ S!Drained(o) PROVE RightKinds'
  BY <1>3, <1>4, <1>6 DEF S!Refuse, S!Timeout, S!Drained
<1>7. ASSUME NEW o \in Ops, S!Start(o) \/ S!Submit(o) \/ S!Cancel(o) \/ S!Expire(o) \/ S!ThreadStep(o)
      PROVE  RightKinds'
  BY <1>3, <1>7 DEF S!Start, S!Submit, S!Cancel, S!Expire, S!ThreadStep, S!Skip, S!Connect,
     S!Send, S!Reply, S!Tell, S!callers
<1>8. CASE S!Take \/ S!Shutdown \/ UNCHANGED store
  BY <1>3, <1>8 DEF S!Take, S!Shutdown, S!callers, store
<1>9. ASSUME NEW k \in StoreClosers, S!Close(k) \/ S!Return(k) \/ S!CancelClose(k)
      PROVE  RightKinds'
  BY <1>3, <1>9 DEF S!Close, S!Return, S!CancelClose, S!callers
<1> QED
  BY <1>5, <1>6, <1>7, <1>8, <1>9 DEF S!Next, S!OpStep

\* A collection appears only while ensure_schema waits for the RPC that creates
\* it: neither prepare_existing_collection nor a search makes one.
THEOREM OnlyEnsureSchemaCreates == Spec => S!OnlyEnsureCreates
<1>1. BothInit => RightKinds
  <2> SUFFICES ASSUME S!Init PROVE RightKinds
    BY DEF BothInit
  <2>1. sdemand.kind \in [Ops -> {"ensure", "prepare", "upsert", "search", "none"}]
    BY DemandsAssumption DEF S!Init
  <2> QED
    BY <2>1 DEF S!Init, S!FirstRpc, RightKinds
<1>2. [BothNext]_everything => [S!Next]_store
  BY DEF BothNext, everything
<1>3. StoreSafety /\ RightKinds /\ [BothNext]_everything => RightKinds'
  BY <1>2, KindsStep
<1>4. StoreSafety /\ RightKinds /\ [BothNext]_everything
        => [coll' # coll => \E o \in Ops : sdemand.kind[o] = "ensure" /\ sstage[o] = "running"]_(S!vars)
  <2> SUFFICES ASSUME RightKinds, S!Next, coll' # coll
               PROVE  \E o \in Ops : sdemand.kind[o] = "ensure" /\ sstage[o] = "running"
    BY <1>2 DEF store, S!vars
  <2>1. PICK o \in Ops : S!Reply(o)
    BY DEF S!Next, S!OpStep, S!ThreadStep, S!Start, S!Refuse, S!Submit, S!Answered, S!Timeout,
       S!Drained, S!Cancel, S!Expire, S!Skip, S!Connect, S!Send, S!Tell, S!Take, S!Shutdown,
       S!Close, S!Return, S!CancelClose, S!server
  <2>2. sstage[o] = "running" /\ rpc[o] = "create"
    BY <2>1 DEF S!Reply, S!Change, S!server
  <2> QED
    BY <2>2 DEF RightKinds
<1> QED
  BY <1>1, <1>3, <1>4, StoreIsSafe, PTL DEF Spec, S!OnlyEnsureCreates

-----------------------------------------------------------------------------
(* The index: rows and vectors, under any number of runs, edits and seeds. *)

LEMMA IndexInitInv == IndexInit => IndexInv
<1> SUFFICES ASSUME IndexInit PROVE IndexInv
  OBVIOUS
<1>1. IndexTypeOK
  <2>1. 0 \in 0..scene.maxEvents
    BY IndexScenesAssumption DEF IndexInit
  <2>2. [c \in Chunks |-> None] \in Rows
    BY DEF Rows
  <2> QED
    BY <2>1, <2>2 DEF IndexInit, IndexTypeOK, Present
<1>2. Running = {}
  BY DEF IndexInit, Running, Active
<1>3. DoneIsIndexed
  BY DEF IndexInit, DoneIsIndexed
<1> QED
  BY <1>1, <1>2, <1>3 DEF IndexInit, IndexInv, IndexOK, PassOK, CleanOK

\* Types.  What a run has listed stays within its list, and only rows that
\* are there are done.
LEMMA IndexTypes == IndexTypeOK /\ PassOK /\ IndexNext => IndexTypeOK'
<1> SUFFICES ASSUME IndexTypeOK, PassOK, IndexNext PROVE IndexTypeOK'
  OBVIOUS
<1> USE DEF stores, runs, seeds, GotoStep, Active
<1>1. text \in Rows /\ vec \in Rows /\ snap \in [Indexers -> Rows]
  BY DEF IndexTypeOK
<1>2. ASSUME NEW r \in Rows, NEW c \in Chunks PROVE r[c] \in Texts \union {None}
  BY <1>2 DEF Rows
<1>3. ASSUME UNCHANGED <<scene, text, done, vec, late, events>>,
             UNCHANGED <<seedpc, seed, existing>>,
             ipc' \in [Indexers -> Active \union {"idle", "ended", "refused", "error"}],
             repair' \subseteq Indexers, failed' \subseteq Indexers,
             disturbed' \subseteq Indexers,
             snap' = snap, stale' = stale, todo' \in [Indexers -> SUBSET Chunks],
             \A i \in Indexers : todo'[i] \subseteq todo[i]
      PROVE  IndexTypeOK'
  BY <1>3 DEF IndexTypeOK, Present
<1>4. ASSUME NEW i \in Indexers, BeginRun(i) PROVE IndexTypeOK'
  BY <1>3, <1>4 DEF BeginRun, IndexTypeOK
<1>5. ASSUME NEW i \in Indexers, List(i) PROVE IndexTypeOK'
  <2>1. stale[i] = {}
    BY <1>5 DEF List, PassOK
  <2>2. \A j \in Indexers : todo'[j] \union stale'[j] \subseteq Present(snap'[j])
    BY <1>1, <1>5, <2>1 DEF List, IndexTypeOK
  <2>3. Present(text) \subseteq Chunks
    BY DEF Present
  <2> QED
    BY <1>5, <2>2, <2>3 DEF List, IndexTypeOK
<1>6. ASSUME NEW i \in Indexers, Compare(i) PROVE IndexTypeOK'
  <2>1. Stale(i) \subseteq Present(snap[i]) /\ Present(snap[i]) \subseteq Chunks
    BY DEF Stale, Present
  <2> QED
    BY <1>6, <2>1 DEF Compare, IndexTypeOK
<1>7. ASSUME NEW i \in Indexers, Reset(i) PROVE IndexTypeOK'
  <2>1. disturbed' \subseteq Indexers
    BY <1>7 DEF Reset, Disturb, Running, IndexTypeOK
  <2> QED
    BY <1>7, <2>1 DEF Reset, IndexTypeOK
<1>8. ASSUME NEW i \in Indexers, Fail(i) \/ Confirm(i) \/ End(i) PROVE IndexTypeOK'
  BY <1>3, <1>8 DEF Fail, Confirm, End, IndexTypeOK
<1>9. ASSUME NEW i \in Indexers, Embed(i) PROVE IndexTypeOK'
  <2> DEFINE valid == {c \in todo[i] : snap[i][c] \notin scene.tooLong}
  <2>1. todo' = todo \/ todo' = [todo EXCEPT ![i] = valid]
    BY <1>9 DEF Embed
  <2>2. todo' \in [Indexers -> SUBSET Chunks] /\ \A j \in Indexers : todo'[j] \subseteq todo[j]
    BY <2>1 DEF IndexTypeOK
  <2>3. failed' \subseteq Indexers
    BY <1>9 DEF Embed, IndexTypeOK
  <2>4. ipc' \in [Indexers -> Active \union {"idle", "ended", "refused", "error"}]
    BY <1>9 DEF Embed, IndexTypeOK
  <2> QED
    BY <1>3, <1>9, <2>2, <2>3, <2>4 DEF Embed, IndexTypeOK
<1>10. ASSUME NEW i \in Indexers, Upsert(i) PROVE IndexTypeOK'
  <2>1. \A c \in todo[i] : snap[i][c] \in Texts /\ c \in Chunks
    BY <1>1, <1>2 DEF IndexTypeOK, Present
  <2>2. Upserted(i) \in Rows
    BY <1>1, <1>2 DEF Upserted, Rows
  <2>3. {<<c, snap[i][c]>> : c \in todo[i]} \subseteq Chunks \X Texts
    BY <2>1
  <2>4. /\ vec' = vec \/ vec' = Upserted(i)
        /\ late' = late \/ late' = late \union {<<c, snap[i][c]>> : c \in todo[i]}
        /\ disturbed' = disturbed \union (Running \ {i})
        /\ failed' = failed \/ failed' = failed \union {i}
        /\ ipc' = [ipc EXCEPT ![i] = "confirm"] \/ ipc' = [ipc EXCEPT ![i] = "ended"]
    BY <1>10 DEF Upsert, Disturb
  <2>5. vec' \in Rows /\ late' \subseteq Chunks \X Texts
    BY <2>2, <2>3, <2>4 DEF IndexTypeOK
  <2> QED
    BY <1>10, <2>4, <2>5 DEF Upsert, IndexTypeOK, Running
<1>11. ASSUME NEW i \in Indexers, NEW c \in Chunks, Mark(i, c) PROVE IndexTypeOK'
  <2>1. snap[i][c] # None
    BY <1>11 DEF Mark, IndexTypeOK, Present
  <2>2. done' \subseteq Present(text)
    BY <1>11, <2>1 DEF Mark, IndexTypeOK, Present
  <2>3. failed' \subseteq Indexers /\ disturbed' \subseteq Indexers
    BY <1>11 DEF Mark, Disturb, Running, IndexTypeOK
  <2> QED
    BY <1>11, <2>2, <2>3 DEF Mark, IndexTypeOK
<1>12. ASSUME NEW i \in Indexers, Crash(i) PROVE IndexTypeOK'
  <2>1. \A c \in todo[i] : snap[i][c] \in Texts /\ c \in Chunks
    BY <1>1, <1>2 DEF IndexTypeOK, Present
  <2>2. {<<c, snap[i][c]>> : c \in todo[i]} \subseteq Chunks \X Texts
    BY <2>1
  <2>3. late' = late \/ late' = late \union {<<c, snap[i][c]>> : c \in todo[i]}
    BY <1>12 DEF Crash
  <2> QED
    BY <1>12, <2>2, <2>3 DEF Crash, IndexTypeOK
<1>13. ASSUME NEW s \in Seeders, Seed(s) PROVE IndexTypeOK'
  <2>1. PICK r \in Rows :
          /\ seed' = [seed EXCEPT ![s] = r]
          /\ \/ seedpc' = [seedpc EXCEPT ![s] = "conflict"] /\ existing' = existing
             \/ /\ seedpc' = [seedpc EXCEPT ![s] = "insert"]
                /\ existing' = [existing EXCEPT ![s] = Present(r) \intersect Present(text)]
    BY <1>13 DEF Seed
  <2>2. Present(r) \intersect Present(text) \subseteq Chunks
    BY DEF Present
  <2> QED
    BY <1>13, <2>1, <2>2 DEF Seed, IndexTypeOK
<1>14. ASSUME NEW s \in Seeders, Insert(s) PROVE IndexTypeOK'
  <2>1. text' \in Rows /\ Present(text) \subseteq Present(text')
    <3>1. seed[s] \in Rows
      BY DEF IndexTypeOK
    <3>2. CASE text' = text
      BY <1>1, <3>2
    <3>3. CASE /\ text' = [c \in Chunks |-> IF c \in Missing(s) THEN seed[s][c] ELSE text[c]]
               /\ Missing(s) \intersect Present(text) = {}
      <4>1. text' \in Rows
        BY <1>1, <1>2, <3>1, <3>3 DEF Rows
      <4>2. \A c \in Present(text) : text'[c] = text[c]
        BY <3>3 DEF Present
      <4> QED
        BY <4>1, <4>2 DEF Present
    <3> QED
      BY <1>14, <3>2, <3>3 DEF Insert
  <2>2. disturbed' \subseteq Indexers
    BY <1>14 DEF Insert, Disturb, Running, IndexTypeOK
  <2> QED
    BY <1>14, <2>1, <2>2 DEF Insert, IndexTypeOK
<1>15. ASSUME NEW s \in Seeders, Recover(s) PROVE IndexTypeOK'
  BY <1>15 DEF Recover, IndexTypeOK
<1>16. ASSUME NEW c \in Chunks, Edit(c) PROVE IndexTypeOK'
  <2>1. PICK t \in Texts : text' = [text EXCEPT ![c] = t]
    BY <1>16 DEF Edit
  <2>2. text' \in Rows /\ Present(text) \subseteq Present(text')
    BY <1>1, <2>1, TextsAssumption DEF Rows, Present
  <2>3. disturbed' \subseteq Indexers /\ done' \subseteq done
    BY <1>16 DEF Edit, Disturb, Running, IndexTypeOK
  <2>4. events' \in 0..scene.maxEvents
    BY <1>16, IndexScenesAssumption DEF Edit, IndexTypeOK
  <2> QED
    BY <1>16, <2>2, <2>3, <2>4 DEF Edit, IndexTypeOK
<1>17. ASSUME NEW c \in Chunks, Lose(c) PROVE IndexTypeOK'
  <2>1. vec' \in Rows
    BY <1>1, <1>17 DEF Lose, Rows
  <2>2. disturbed' \subseteq Indexers
    BY <1>17 DEF Lose, Disturb, Running, IndexTypeOK
  <2>3. events' \in 0..scene.maxEvents
    BY <1>17, IndexScenesAssumption DEF Lose, IndexTypeOK
  <2> QED
    BY <1>17, <2>1, <2>2, <2>3 DEF Lose, IndexTypeOK
<1>18. CASE ApplyLate
  <2>1. PICK u \in late : late' = late \ {u} /\ vec' = [vec EXCEPT ![u[1]] = u[2]]
    BY <1>18 DEF ApplyLate
  <2>2. u[1] \in Chunks /\ u[2] \in Texts
    BY DEF IndexTypeOK
  <2>3. vec' \in Rows
    BY <1>1, <2>1, <2>2 DEF Rows
  <2>4. disturbed' \subseteq Indexers
    BY <1>18 DEF ApplyLate, Disturb, Running, IndexTypeOK
  <2>5. events' \in 0..scene.maxEvents
    BY <1>18, IndexScenesAssumption DEF ApplyLate, IndexTypeOK
  <2> QED
    BY <1>18, <2>1, <2>3, <2>4, <2>5 DEF ApplyLate, IndexTypeOK
<1> QED
  BY <1>4, <1>5, <1>6, <1>7, <1>8, <1>9, <1>10, <1>11, <1>12, <1>13, <1>14, <1>15, <1>16,
     <1>17, <1>18
  DEF IndexNext

-----------------------------------------------------------------------------
\* The lists of a run are those of its own pass; what a seeder has locked,
\* nobody edits, and no insert is made over it.
LEMMA IndexPass == IndexTypeOK /\ PassOK /\ IndexNext => PassOK'
<1> SUFFICES ASSUME IndexTypeOK, PassOK, IndexNext PROVE PassOK'
  OBVIOUS
<1> USE DEF stores, runs, seeds, GotoStep
<1>1. ASSUME NEW i \in Indexers, ipc'[i] \in {"idle", "list"} PROVE stale'[i] = {}
  <2>1. CASE stale' = stale
    <3>1. ipc[i] \in {"idle", "list"}
      BY <1>1
      DEF IndexNext, IndexTypeOK, BeginRun, List, Compare, Reset, Fail, Embed, Upsert,
         Confirm, End, Crash, Mark, Seed, Insert, Recover, Edit, Lose,
         ApplyLate, Active
    <3> QED
      BY <1>1, <2>1, <3>1 DEF PassOK
  <2>2. CASE stale' # stale
    <3>1. PICK j \in Indexers : Compare(j)
      BY <2>2
      DEF IndexNext, BeginRun, List, Reset, Fail, Embed, Upsert, Confirm, End,
         Crash, Mark, Seed, Insert, Recover, Edit, Lose, ApplyLate
    <3> QED
      BY <1>1, <3>1 DEF Compare, PassOK, IndexTypeOK
  <2> QED
    BY <2>1, <2>2
<1>2. ASSUME NEW s \in Seeders, seedpc'[s] = "insert", NEW c \in existing'[s]
      PROVE  c \in Present(text') /\ text'[c] = seed'[s][c]
  <2>1. CASE text' = text /\ seedpc'[s] = seedpc[s] /\ seed'[s] = seed[s] /\ existing'[s] = existing[s]
    BY <1>2, <2>1 DEF PassOK
  <2>2. CASE \E u \in Seeders : Seed(u)
    <3>1. PICK u \in Seeders : Seed(u)
      BY <2>2
    <3>2. CASE u # s
      BY <2>1, <3>1, <3>2 DEF Seed, IndexTypeOK
    <3>3. CASE u = s
      <4>1. PICK r \in Rows :
              /\ seed' = [seed EXCEPT ![s] = r]
              /\ LET other == Present(r) \intersect Present(text)
                 IN  IF \E d \in other : text[d] # r[d]
                     THEN seedpc' = [seedpc EXCEPT ![s] = "conflict"] /\ UNCHANGED existing
                     ELSE /\ seedpc' = [seedpc EXCEPT ![s] = "insert"]
                          /\ existing' = [existing EXCEPT ![s] = other]
        BY <3>1, <3>3 DEF Seed
      <4>2. seed'[s] = r /\ text' = text
        BY <3>1, <4>1 DEF Seed, IndexTypeOK
      <4>3. CASE \E d \in Present(r) \intersect Present(text) : text[d] # r[d]
        BY <1>2, <4>1, <4>3 DEF IndexTypeOK
      <4>4. CASE ~ \E d \in Present(r) \intersect Present(text) : text[d] # r[d]
        <5>1. existing'[s] = Present(r) \intersect Present(text)
          BY <4>1, <4>4 DEF IndexTypeOK
        <5> QED
          BY <1>2, <4>2, <4>4, <5>1
      <4> QED
        BY <4>3, <4>4
    <3> QED
      BY <3>2, <3>3
  <2>3. CASE \E u \in Seeders : Insert(u)
    <3>1. PICK u \in Seeders : Insert(u)
      BY <2>3
    <3>2. u # s /\ seedpc'[s] = seedpc[s] /\ seed'[s] = seed[s] /\ existing'[s] = existing[s]
      BY <1>2, <3>1 DEF Insert, IndexTypeOK
    <3>3. c \in Present(text) /\ text[c] = seed[s][c]
      BY <1>2, <3>2 DEF PassOK
    <3>4. text'[c] = text[c]
      BY <3>1, <3>3 DEF Insert, Present
    <3> QED
      BY <3>2, <3>3, <3>4 DEF Present
  <2>4. CASE \E u \in Seeders : Recover(u)
    BY <1>2, <2>1, <2>4 DEF Recover, IndexTypeOK
  <2>5. CASE \E d \in Chunks : Edit(d)
    <3>1. PICK d \in Chunks : Edit(d)
      BY <2>5
    <3>2. c \in Present(text) /\ text[c] = seed[s][c] /\ seed' = seed
      BY <1>2, <3>1 DEF PassOK, Edit
    <3>3. d # c
      BY <1>2, <3>1 DEF Edit, Locked
    <3>4. text'[c] = text[c]
      BY <3>1, <3>3 DEF Edit, IndexTypeOK, Rows
    <3> QED
      BY <3>2, <3>4 DEF Present
  <2>6. CASE UNCHANGED <<text, seedpc, seed, existing>>
    BY <2>1, <2>6
  <2> QED
    BY <2>2, <2>3, <2>4, <2>5, <2>6
    DEF IndexNext, BeginRun, List, Compare, Reset, Fail, Embed, Upsert, Confirm,
       End, Crash, Mark, Lose, ApplyLate
<1> QED
  BY <1>1, <1>2 DEF PassOK, Present
-----------------------------------------------------------------------------
\* One run at a time.  Its list is pending until it marks it, so nothing it
\* upserts is the vector of a done row, and what it marks is in Milvus.
Ordered(i) ==
  ipc[i] # "list" =>
    /\ ipc[i] # "mark" => todo[i] \intersect done = {}
    /\ ipc[i] = "mark" => \A c \in todo[i] : vec[c] = snap[i][c]

LEMMA IndexStep == IndexInv /\ IndexTypeOK' /\ IndexNext => IndexOK'
<1> SUFFICES ASSUME IndexInv, IndexTypeOK', IndexNext, scene'.oneHost, scene'.disorder = {}
             PROVE  /\ DoneIsIndexed'
                    /\ \A j, k \in Running' : j = k
                    /\ late' = {}
                    /\ \A j \in Running' : Ordered(j)'
  BY DEF IndexOK, Ordered
<1> USE DEF stores, runs, seeds, GotoStep
<1>1. scene' = scene
  BY DEF IndexNext, BeginRun, List, Compare, Reset, Fail, Embed, Upsert, Confirm,
     End, Crash, Mark, Seed, Insert, Recover, Edit, Lose, ApplyLate
<1>2. /\ DoneIsIndexed /\ late = {} /\ scene.oneHost /\ scene.disorder = {}
      /\ \A j, k \in Running : j = k
      /\ \A j \in Running : Ordered(j)
  BY <1>1 DEF IndexInv, IndexOK, Ordered
<1>3. IndexTypeOK
  BY DEF IndexInv

\* A step of the only run there is.
<1>4. ASSUME NEW i \in Indexers, ipc[i] \in Active,
             \A j \in Indexers : j # i => ipc'[j] = ipc[j],
             DoneIsIndexed', late' = {}, i \in Running' => Ordered(i)'
      PROVE  /\ DoneIsIndexed'
             /\ \A j, k \in Running' : j = k
             /\ late' = {}
             /\ \A j \in Running' : Ordered(j)'
  <2>1. \A j \in Running' : j = i
    BY <1>2, <1>4 DEF Running
  <2> QED
    BY <1>4, <2>1

\* A step of somebody else.
<1>5. ASSUME UNCHANGED <<ipc, todo, snap, vec, late>>, done' \subseteq done,
             \A c \in done' : text'[c] = text[c]
      PROVE  /\ DoneIsIndexed'
             /\ \A j, k \in Running' : j = k
             /\ late' = {}
             /\ \A j \in Running' : Ordered(j)'
  BY <1>2, <1>5 DEF DoneIsIndexed, Running, Ordered
<1>6. ASSUME NEW i \in Indexers, BeginRun(i)
      PROVE  /\ DoneIsIndexed'
             /\ \A j, k \in Running' : j = k
             /\ late' = {}
             /\ \A j \in Running' : Ordered(j)'
  <2>1. DoneIsIndexed' /\ late' = {}
    BY <1>2, <1>6 DEF BeginRun, DoneIsIndexed
  <2>2. CASE Running # {}
    <3>1. ipc' = [ipc EXCEPT ![i] = "refused"]
      BY <1>2, <1>6, <2>2 DEF BeginRun
    <3>2. Running' = Running
      BY <1>3, <1>6, <3>1 DEF BeginRun, Running, Active, IndexTypeOK
    <3>3. \A j \in Running : ipc'[j] = ipc[j]
      BY <1>3, <1>6, <3>1 DEF BeginRun, Running, Active, IndexTypeOK
    <3> QED
      BY <1>2, <1>6, <2>1, <3>2, <3>3 DEF BeginRun, Ordered
  <2>3. CASE Running = {}
    <3>1. \A j \in Running' : j = i /\ ipc'[j] = "list"
      BY <1>2, <1>3, <1>6, <2>3 DEF BeginRun, Running, IndexTypeOK
    <3> QED
      BY <2>1, <3>1 DEF Ordered
  <2> QED
    BY <2>2, <2>3
<1>7. ASSUME NEW i \in Indexers, List(i)
      PROVE  /\ DoneIsIndexed' /\ late' = {} /\ Ordered(i)'
  <2>1. todo'[i] = Present(text) \ done /\ ipc'[i] \in {"compare", "embed"} /\ done' = done
    BY <1>3, <1>7 DEF List, IndexTypeOK
  <2> QED
    BY <1>2, <1>7, <2>1 DEF List, DoneIsIndexed, Ordered
<1>8. ASSUME NEW i \in Indexers, Compare(i)
      PROVE  /\ DoneIsIndexed' /\ late' = {} /\ Ordered(i)'
  <2>1. Ordered(i)
    BY <1>2, <1>8 DEF Compare, Running, Active
  <2> QED
    BY <1>2, <1>3, <1>8, <2>1 DEF Compare, DoneIsIndexed, Ordered, IndexTypeOK
<1>9. ASSUME NEW i \in Indexers, Reset(i)
      PROVE  /\ DoneIsIndexed' /\ late' = {} /\ Ordered(i)'
  <2>1. Ordered(i)
    BY <1>2, <1>9 DEF Reset, Running, Active
  <2>2. todo'[i] = todo[i] \union stale[i] /\ ipc'[i] = "embed"
    BY <1>3, <1>9 DEF Reset, IndexTypeOK
  <2> QED
    BY <1>2, <1>9, <2>1, <2>2 DEF Reset, DoneIsIndexed, Ordered
<1>10. ASSUME NEW i \in Indexers, Embed(i)
       PROVE  /\ DoneIsIndexed' /\ late' = {} /\ (i \in Running' => Ordered(i)')
  <2>1. Ordered(i)
    BY <1>2, <1>10 DEF Embed, Running, Active
  <2>2. todo'[i] \subseteq todo[i] /\ ipc'[i] \in {"upsert", "ended"}
    BY <1>3, <1>10 DEF Embed, IndexTypeOK
  <2> QED
    BY <1>2, <1>10, <2>1, <2>2 DEF Embed, DoneIsIndexed, Ordered, Running, Active
<1>11. ASSUME NEW i \in Indexers, Upsert(i)
       PROVE  /\ DoneIsIndexed' /\ late' = {} /\ (i \in Running' => Ordered(i)')
  <2>1. todo[i] \intersect done = {}
    BY <1>2, <1>11 DEF Upsert, Running, Active, Ordered
  <2>2. ipc'[i] \in {"confirm", "ended"}
    BY <1>3, <1>11 DEF Upsert, IndexTypeOK
  <2>3. late' = {} /\ (vec' = vec \/ vec' = Upserted(i))
    BY <1>2, <1>11 DEF Upsert
  <2>4. done \subseteq Chunks
    BY <1>3 DEF IndexTypeOK, Present
  <2>5. \A c \in done : vec'[c] = vec[c]
    BY <2>1, <2>3, <2>4 DEF Upserted
  <2> QED
    BY <1>2, <1>11, <2>1, <2>2, <2>3, <2>5 DEF Upsert, DoneIsIndexed, Ordered, Running,
       Active
<1>12. ASSUME NEW i \in Indexers, Confirm(i)
       PROVE  /\ DoneIsIndexed' /\ late' = {} /\ (i \in Running' => Ordered(i)')
  <2>1. ipc'[i] = "ended" \/ (ipc'[i] = "mark" /\ \A c \in todo[i] : vec[c] = snap[i][c])
    BY <1>3, <1>12 DEF Confirm, IndexTypeOK
  <2> QED
    BY <1>2, <1>12, <2>1 DEF Confirm, DoneIsIndexed, Ordered, Running, Active
<1>13. ASSUME NEW i \in Indexers, NEW d \in Chunks, Mark(i, d)
       PROVE  /\ DoneIsIndexed' /\ late' = {} /\ Ordered(i)'
  <2>1. \A c \in todo[i] : vec[c] = snap[i][c]
    BY <1>2, <1>13 DEF Mark, Running, Active, Ordered
  <2>2. todo'[i] \subseteq todo[i] /\ d \in todo[i]
    BY <1>3, <1>13 DEF Mark, IndexTypeOK
  <2>3. done' = done \/ (done' = done \union {d} /\ text[d] = snap[i][d])
    BY <1>13 DEF Mark
  <2>4. DoneIsIndexed'
    BY <1>2, <1>13, <2>1, <2>2, <2>3 DEF Mark, DoneIsIndexed
  <2> QED
    BY <1>2, <1>13, <2>1, <2>2, <2>4 DEF Mark, Ordered
<1>14. ASSUME NEW i \in Indexers, Fail(i) \/ End(i) \/ Crash(i)
       PROVE  /\ DoneIsIndexed' /\ late' = {} /\ i \notin Running'
  <2>1. ipc'[i] \in {"error", "ended"}
    BY <1>3, <1>14 DEF Fail, End, Crash, IndexTypeOK
  <2>2. late' = {} /\ UNCHANGED <<text, done, vec>>
    BY <1>2, <1>14 DEF Fail, End, Crash
  <2> QED
    BY <1>2, <2>1, <2>2 DEF DoneIsIndexed, Running, Active
<1>15. ASSUME NEW i \in Indexers,
              \/ List(i) \/ Compare(i) \/ Reset(i) \/ Fail(i) \/ Embed(i) \/ Upsert(i)
              \/ Confirm(i) \/ End(i) \/ Crash(i) \/ \E c \in Chunks : Mark(i, c)
       PROVE  /\ DoneIsIndexed'
              /\ \A j, k \in Running' : j = k
              /\ late' = {}
              /\ \A j \in Running' : Ordered(j)'
  <2>1. ipc[i] \in Active /\ \A j \in Indexers : j # i => ipc'[j] = ipc[j]
    BY <1>3, <1>15
    DEF List, Compare, Reset, Fail, Embed, Upsert, Confirm, End, Crash,
       Mark, Active, IndexTypeOK
  <2>2. DoneIsIndexed' /\ late' = {} /\ (i \in Running' => Ordered(i)')
    BY <1>7, <1>8, <1>9, <1>10, <1>11, <1>12, <1>13, <1>14, <1>15
  <2> QED
    BY <1>4, <2>1, <2>2
<1>16. ASSUME NEW s \in Seeders, Seed(s) \/ Insert(s) \/ Recover(s)
       PROVE  /\ DoneIsIndexed'
              /\ \A j, k \in Running' : j = k
              /\ late' = {}
              /\ \A j \in Running' : Ordered(j)'
  <2>1. UNCHANGED <<ipc, todo, snap, vec, late, done>>
    BY <1>16 DEF Seed, Insert, Recover
  <2>2. \A c \in Present(text) : text'[c] = text[c]
    BY <1>16 DEF Seed, Insert, Recover, Present
  <2>3. \A c \in done' : text'[c] = text[c]
    BY <1>3, <2>1, <2>2 DEF IndexTypeOK
  <2> QED
    BY <1>5, <2>1, <2>3
<1>17. ASSUME NEW c \in Chunks, Edit(c)
       PROVE  /\ DoneIsIndexed'
              /\ \A j, k \in Running' : j = k
              /\ late' = {}
              /\ \A j \in Running' : Ordered(j)'
  <2>1. UNCHANGED <<ipc, todo, snap, vec, late>> /\ done' = done \ {c}
    BY <1>2, <1>17 DEF Edit
  <2>2. PICK t : text' = [text EXCEPT ![c] = t]
    BY <1>17 DEF Edit
  <2>3. \A d \in done' : text'[d] = text[d]
    BY <1>3, <2>1, <2>2 DEF IndexTypeOK, Present, Rows
  <2> QED
    BY <1>5, <2>1, <2>3
<1>18. ~ \E c \in Chunks : Lose(c)
  BY <1>2 DEF Lose
<1>19. ~ ApplyLate
  BY <1>2 DEF ApplyLate
<1> QED
  BY <1>6, <1>15, <1>16, <1>17, <1>18, <1>19 DEF IndexNext
-----------------------------------------------------------------------------
\* A run that nobody disturbs and that fails in nothing keeps its list true.
LEMMA IndexClean == IndexInv /\ IndexTypeOK' /\ IndexNext => CleanOK'
<1> SUFFICES ASSUME IndexInv, IndexTypeOK', IndexNext,
                    NEW i \in Running' \ (failed' \union disturbed'), ipc'[i] # "list",
                    NEW c \in Present(snap'[i])
             PROVE  CleanAt(i, c)'
  BY DEF CleanOK
<1> USE DEF stores, runs, seeds, GotoStep
<1>1. IndexTypeOK /\ CleanOK /\ i \in Indexers /\ c \in Chunks
  BY DEF IndexInv, Running, Present
<1>2. ipc'[i] \in Active /\ i \notin failed' /\ i \notin disturbed'
  BY DEF Running
<1>3. failed \subseteq failed' /\ disturbed \subseteq disturbed'
  BY DEF IndexNext, BeginRun, List, Compare, Reset, Fail, Embed, Upsert, Confirm,
     End, Crash, Mark, Seed, Insert, Recover, Edit, Lose, ApplyLate, Disturb
<1>4. ASSUME ipc[i] \in Active, ipc[i] # "list", c \in Present(snap[i])
      PROVE  CleanAt(i, c)
  BY <1>1, <1>2, <1>3, <1>4 DEF CleanOK, Running

\* Nothing of the run changes, and nothing of the stores.
<1>5. ASSUME ipc'[i] = ipc[i], snap'[i] = snap[i], todo'[i] = todo[i], stale'[i] = stale[i],
             i \in repair' <=> i \in repair, UNCHANGED <<text, done, vec>>
      PROVE  CleanAt(i, c)'
  BY <1>2, <1>4, <1>5 DEF CleanAt

\* A step that disturbs every run but its own.
<1>6. ASSUME disturbed' = disturbed \union (Running \ {}), ipc'[i] = ipc[i] PROVE FALSE
  BY <1>1, <1>2, <1>6 DEF Running
<1>7. ASSUME NEW j \in Indexers, j # i,
             \/ BeginRun(j) \/ List(j) \/ Compare(j) \/ Reset(j) \/ Fail(j) \/ Embed(j)
             \/ Upsert(j) \/ Confirm(j) \/ End(j) \/ Crash(j)
             \/ \E d \in Chunks : Mark(j, d)
      PROVE  CleanAt(i, c)'
  <2>1. ipc'[i] = ipc[i] /\ snap'[i] = snap[i] /\ todo'[i] = todo[i] /\ stale'[i] = stale[i]
    BY <1>1, <1>7
    DEF IndexTypeOK, BeginRun, List, Compare, Reset, Fail, Embed, Upsert, Confirm,
       End, Crash, Mark
  <2>2. i \in repair' <=> i \in repair
    BY <1>7 DEF BeginRun, List, Compare, Reset, Fail, Embed, Upsert, Confirm,
       End, Crash, Mark
  <2>3. disturbed' # disturbed \union (Running \ {j})
    BY <1>1, <1>2, <1>7, <2>1 DEF Running
  <2>4. UNCHANGED <<text, done, vec>>
    BY <1>7, <2>3
    DEF BeginRun, List, Compare, Reset, Fail, Embed, Upsert, Confirm, End,
       Crash, Mark, Disturb
  <2> QED
    BY <1>5, <2>1, <2>2, <2>4
<1>8. CASE BeginRun(i)
  BY <1>1, <1>2, <1>8 DEF BeginRun, IndexTypeOK, Active
<1>9. CASE List(i)
  <2>1. /\ snap'[i] = text /\ todo'[i] = Present(text) \ done
        /\ ipc'[i] = (IF i \in repair THEN "compare" ELSE "embed")
    BY <1>1, <1>9 DEF List, IndexTypeOK
  <2> QED
    BY <1>9, <2>1 DEF List, CleanAt
<1>10. CASE Compare(i)
  <2>1. CleanAt(i, c)
    BY <1>4, <1>10 DEF Compare, Active
  <2>2. stale'[i] = Stale(i) /\ ipc'[i] = "reset"
    BY <1>1, <1>10 DEF Compare, IndexTypeOK
  <2> QED
    BY <1>10, <2>1, <2>2 DEF Compare, CleanAt, Stale
<1>11. CASE Reset(i)
  <2>1. CleanAt(i, c)
    BY <1>4, <1>11 DEF Reset, Active
  <2>2. todo'[i] = todo[i] \union stale[i] /\ ipc'[i] = "embed"
    BY <1>1, <1>11 DEF Reset, IndexTypeOK
  <2> QED
    BY <1>11, <2>1, <2>2 DEF Reset, CleanAt
<1>12. CASE Embed(i)
  <2>1. CleanAt(i, c)
    BY <1>4, <1>12 DEF Embed, Active
  <2>2. todo'[i] = todo[i] /\ ipc'[i] = "upsert"
    BY <1>1, <1>2, <1>12 DEF Embed, IndexTypeOK, Active
  <2> QED
    BY <1>12, <2>1, <2>2 DEF Embed, CleanAt
<1>13. CASE Upsert(i)
  <2>1. CleanAt(i, c)
    BY <1>4, <1>13 DEF Upsert, Active
  <2>2. ipc'[i] = "confirm" /\ vec' = Upserted(i)
    BY <1>1, <1>2, <1>13 DEF Upsert, IndexTypeOK, Active
  <2>3. vec'[c] = (IF c \in todo[i] THEN snap[i][c] ELSE vec[c])
    BY <1>1, <2>2 DEF Upserted
  <2> QED
    BY <1>13, <2>1, <2>2, <2>3 DEF Upsert, CleanAt
<1>14. CASE Confirm(i)
  <2>1. CleanAt(i, c)
    BY <1>4, <1>14 DEF Confirm, Active
  <2>2. ipc'[i] = "mark" /\ \A d \in todo[i] : vec[d] = snap[i][d]
    BY <1>1, <1>2, <1>14 DEF Confirm, IndexTypeOK, Active
  <2> QED
    BY <1>14, <2>1, <2>2 DEF Confirm, CleanAt
<1>15. CASE \E d \in Chunks : Mark(i, d)
  <2>1. PICK d \in Chunks : Mark(i, d)
    BY <1>15
  <2>2. CleanAt(i, c)
    BY <1>4, <2>1 DEF Mark, Active
  <2>3. todo'[i] = todo[i] \ {d} /\ d \in todo[i] /\ done' = done \union {d}
    BY <1>1, <1>2, <2>1 DEF Mark, IndexTypeOK
  <2> QED
    BY <2>1, <2>2, <2>3 DEF Mark, CleanAt
<1>16. CASE Fail(i) \/ End(i) \/ Crash(i)
  BY <1>1, <1>2, <1>16 DEF Fail, End, Crash, IndexTypeOK, Active
<1>17. ASSUME NEW s \in Seeders, Seed(s) \/ Recover(s) PROVE CleanAt(i, c)'
  BY <1>5, <1>17 DEF Seed, Recover
<1>18. ASSUME NEW s \in Seeders, Insert(s) PROVE CleanAt(i, c)'
  <2>1. UNCHANGED <<ipc, snap, todo, stale, repair, done, vec>>
    BY <1>18 DEF Insert
  <2>2. \/ text' = text
        \/ /\ Missing(s) = {}
           /\ text' = [d \in Chunks |-> IF d \in Missing(s) THEN seed[s][d] ELSE text[d]]
    BY <1>6, <1>18, <2>1 DEF Insert, Disturb
  <2>3. text' = text
    BY <1>1, <2>2 DEF IndexTypeOK, Rows
  <2> QED
    BY <1>5, <2>1, <2>3
<1>19. ASSUME NEW d \in Chunks, Edit(d) \/ Lose(d) PROVE FALSE
  BY <1>6, <1>19 DEF Edit, Lose, Disturb
<1>20. ~ ApplyLate
  BY <1>6 DEF ApplyLate, Disturb
<1> QED
  BY <1>7, <1>8, <1>9, <1>10, <1>11, <1>12, <1>13, <1>14, <1>15, <1>16, <1>17, <1>18, <1>19,
     <1>20
  DEF IndexNext

LEMMA IndexStutter == IndexInv /\ UNCHANGED indexVars => IndexInv'
<1> SUFFICES ASSUME IndexInv, UNCHANGED indexVars PROVE IndexInv'
  OBVIOUS
<1> USE DEF indexVars
<1>1. IndexTypeOK'
  BY DEF IndexInv, IndexTypeOK
<1>2. Running' = Running /\ DoneIsIndexed' = DoneIsIndexed
  BY DEF Running, DoneIsIndexed
<1>3. IndexOK' = IndexOK
  BY <1>2 DEF IndexOK
<1>4. PassOK' = PassOK
  BY DEF PassOK
<1>5. CleanOK' = CleanOK
  BY <1>2 DEF CleanOK, CleanAt
<1> QED
  BY <1>1, <1>3, <1>4, <1>5 DEF IndexInv

\* KnowledgeIndexer.run: where one host indexes at a time, edits reset the
\* status and upserts end with their call, a row that is done has the vector
\* of its text, at every point of every run, crash, failure, edit and seed.
\* With a second host or such a disorder it need not; then IndexInv says only
\* what a run knows of its own list: as long as it counted no failure and was
\* not disturbed, each listed row is done or still to do.
THEOREM WhatIsDoneIsIndexed ==
  IndexSpec => [](/\ IndexInv
                  /\ scene.oneHost /\ scene.disorder = {} => DoneIsIndexed)
<1>1. IndexInv /\ IndexNext => IndexInv'
  BY IndexTypes, IndexPass, IndexStep, IndexClean DEF IndexInv
<1>2. IndexInv => (scene.oneHost /\ scene.disorder = {} => DoneIsIndexed)
  BY DEF IndexInv, IndexOK
<1> QED
  BY IndexInitInv, IndexStutter, <1>1, <1>2, PTL DEF IndexSpec

-----------------------------------------------------------------------------
(* What a run and a seed report.                                           *)

LEMMA CleanEnd ==
  ASSUME IndexInv, IndexNext, NEW i \in Indexers, ipc[i] \in Active, ipc'[i] = "ended",
         i \notin failed' \union disturbed', NEW c \in Present(snap[i])
  PROVE  c \in done' /\ (i \in repair => vec'[c] = text'[c])
<1> USE DEF stores, runs, seeds, GotoStep
<1>1. IndexTypeOK /\ CleanOK /\ c \in Chunks
  BY DEF IndexInv, Present
<1>2. Embed(i) \/ Upsert(i) \/ Confirm(i) \/ End(i)
  <2>1. ipc'[i] # ipc[i] /\ ipc' # ipc
    BY DEF Active
  <2>2. PICK j \in Indexers :
          \/ BeginRun(j) \/ List(j) \/ Compare(j) \/ Reset(j) \/ Fail(j) \/ Embed(j)
          \/ Upsert(j) \/ Confirm(j) \/ End(j) \/ Crash(j)
    BY <2>1 DEF IndexNext, Mark, Seed, Insert, Recover, Edit, Lose, ApplyLate
  <2>3. j = i
    BY <1>1, <2>1, <2>2
    DEF IndexTypeOK, BeginRun, List, Compare, Reset, Fail, Embed, Upsert, Confirm,
       End, Crash
  <2> QED
    BY <1>1, <2>2, <2>3 DEF IndexTypeOK, BeginRun, List, Compare, Reset, Fail, Crash,
       Active
<1>3. ~ Upsert(i) /\ ~ Confirm(i)
  BY <1>1 DEF Upsert, Confirm, IndexTypeOK
<1>4. /\ todo[i] = {} /\ ipc[i] \in {"embed", "mark"}
      /\ UNCHANGED <<text, done, vec, failed, disturbed>>
  BY <1>1, <1>2, <1>3 DEF Embed, End, IndexTypeOK
<1>5. CleanAt(i, c)
  BY <1>1, <1>4 DEF CleanOK, Running, Active
<1> QED
  BY <1>4, <1>5 DEF CleanAt

LEMMA SeedStep ==
  ASSUME IndexInv, IndexNext, NEW s \in Seeders, seedpc[s] # "ok", seedpc'[s] = "ok",
         NEW c \in Present(seed[s])
  PROVE  text'[c] = seed[s][c]
<1> USE DEF stores, runs, seeds
<1>1. IndexTypeOK /\ PassOK /\ c \in Chunks
  BY DEF IndexInv, Present
<1>2. Insert(s) \/ Recover(s)
  <2>1. PICK u \in Seeders : Seed(u) \/ Insert(u) \/ Recover(u)
    BY DEF IndexNext, BeginRun, List, Compare, Reset, Fail, Embed, Upsert, Confirm,
       End, Crash, Mark, Edit, Lose, ApplyLate
  <2>2. u = s
    BY <1>1, <2>1 DEF IndexTypeOK, Seed, Insert, Recover
  <2>3. ~ Seed(s)
    BY <1>1 DEF IndexTypeOK, Seed
  <2> QED
    BY <2>1, <2>2, <2>3
<1>3. CASE Insert(s)
  <2>1. text' = [d \in Chunks |-> IF d \in Missing(s) THEN seed[s][d] ELSE text[d]]
    BY <1>1, <1>3 DEF Insert, IndexTypeOK
  <2>2. c \in existing[s] => text[c] = seed[s][c]
    BY <1>3 DEF Insert, IndexInv, PassOK
  <2> QED
    BY <1>1, <2>1, <2>2 DEF Missing
<1>4. CASE Recover(s)
  BY <1>1, <1>4 DEF Recover, IndexTypeOK
<1> QED
  BY <1>2, <1>3, <1>4

LEMMA SeedAdds ==
  ASSUME IndexInv, IndexNext, seedpc # seedpc', NEW c \in Present(text)
  PROVE  text'[c] = text[c]
<1> USE DEF stores, runs, seeds
<1>1. PICK s \in Seeders : Seed(s) \/ Insert(s) \/ Recover(s)
  BY DEF IndexNext, BeginRun, List, Compare, Reset, Fail, Embed, Upsert, Confirm,
     End, Crash, Mark, Edit, Lose, ApplyLate
<1> QED
  BY <1>1 DEF Seed, Insert, Recover, Present

\* The exit status of a run and the result of insert_seed: a run that counts
\* no failure and that nobody disturbed has its rows done and, repairing, in
\* Milvus; a seed that succeeds is there as it was given; none overwrites.
THEOREM WhatIsReportedIsSo == IndexSpec => ReportsAreTrue
<1>1. IndexInv /\ [IndexNext]_indexVars =>
        [\A i \in Indexers :
           ipc[i] \in Active /\ ipc'[i] = "ended" /\ i \notin failed' \union disturbed' =>
             \A c \in Present(snap[i]) :
               /\ c \in done'
               /\ i \in repair => vec'[c] = text'[c]]_indexVars
  BY CleanEnd
<1>2. IndexInv /\ [IndexNext]_indexVars =>
        [\A s \in Seeders : seedpc[s] # "ok" /\ seedpc'[s] = "ok" =>
           \A c \in Present(seed[s]) : text'[c] = seed[s][c]]_indexVars
  BY SeedStep
<1>3. IndexInv /\ [IndexNext]_indexVars =>
        [seedpc # seedpc' => \A c \in Present(text) : text'[c] = text[c]]_indexVars
  BY SeedAdds
<1> QED
  BY <1>1, <1>2, <1>3, WhatIsDoneIsIndexed, PTL
  DEF IndexSpec, ReportsAreTrue, CleanRunIndexes, SeedTruth, SeedsOnlyAdd
=============================================================================
