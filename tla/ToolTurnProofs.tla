---------------------------- MODULE ToolTurnProofs ----------------------------
(***************************************************************************)
(* Proofs about ToolTurn, for any operations, iterators and callers, any   *)
(* deadline, timeout and queue: the drain by itself (TurnDrain), one run   *)
(* of the executor by itself (ToolRun), and both in one turn, which is a   *)
(* behaviour of each and in which no tool outlives the drain.              *)
(***************************************************************************)
EXTENDS ToolTurn, FiniteSetTheorems, TLAPS

-----------------------------------------------------------------------------
(* TurnDrain.  DrainInv says what the drain task knows at each stage.      *)

\* The inductive invariant.
Knows ==
  /\ \A o \in Ops : op[o] = "idle" => cancels[o] = 0
  /\ closed # {} => drain \in {"closing", "ended"}
  /\ drain = "waiting" => \A o \in Ops : Live(o) => o \in pending
  /\ drain \in {"closing", "ended"} => \A o \in Ops : ~Live(o)
  /\ drain = "ended" => closed = tracked
  /\ \A c \in Callers : Left(c) => drain = "ended"

DrainInv == TypeOK /\ Knows /\ CancelledOnce /\ DrainedMeansQuiet

LEMMA InitInv == Init => DrainInv
  BY SMT DEF Init, DrainInv, TypeOK, Knows, CancelledOnce, DrainedMeansQuiet, Live, Left

\* One step per action: the turn's side leaves the drain alone, the drain
\* task moves its stages forward, the callers only read.
LEMMA StepInv == DrainInv /\ [Next]_vars => DrainInv'
<1> SUFFICES ASSUME DrainInv, [Next]_vars PROVE DrainInv'
  OBVIOUS
<1> USE DEF DrainInv, TypeOK, Knows, CancelledOnce, DrainedMeansQuiet, Live, Left
<1>1. CASE UNCHANGED vars
  BY <1>1, SMT DEF vars
<1>2. ASSUME NEW i \in Iterators, Track(i) PROVE DrainInv'
  BY <1>2, SMT DEF Track, work, waiters
<1>3. ASSUME NEW i \in Iterators, Close(i) PROVE DrainInv'
  BY <1>3, SMT DEF Close, work, waiters
<1>4. ASSUME NEW o \in Ops, Run(o) PROVE DrainInv'
  BY <1>4, SMT DEF Run, iters, waiters
<1>5. ASSUME NEW o \in Ops, Leave(o) PROVE DrainInv'
  BY <1>5, SMT DEF Leave, iters, waiters
<1>6. ASSUME NEW o \in Ops, End(o) PROVE DrainInv'
  BY <1>6, SMT DEF End, iters, waiters
<1>7. ASSUME NEW c \in Callers, Drain(c) PROVE DrainInv'
  BY <1>7, SMT DEF Drain, work, iters
<1>8. ASSUME NEW c \in Callers, Hit(c) PROVE DrainInv'
  BY <1>8, SMT DEF Hit, work, iters
<1>9. ASSUME NEW c \in Callers, LeaveDrain(c) PROVE DrainInv'
  BY <1>9, SMT DEF LeaveDrain, work, iters
<1>10. CASE Snapshot
  BY <1>10, SMT DEF Snapshot, iters, waiters
<1>11. CASE Gathered
  BY <1>11, SMT DEF Gathered, work, iters, waiters
<1>12. CASE Closed
  BY <1>12, SMT DEF Closed, work, iters, waiters
<1> QED
  BY <1>1, <1>2, <1>3, <1>4, <1>5, <1>6, <1>7, <1>8, <1>9, <1>10, <1>11, <1>12
  DEF Next

\* The inductive invariant holds of every behaviour of the turn.
THEOREM DrainInvariant == Spec => []DrainInv
  BY InitInv, StepInv, PTL DEF Spec

\* No task of bounded() is cancelled a second time, by whomever.
THEOREM CancelledAtMostOnce == Spec => []CancelledOnce
<1>1. DrainInv => CancelledOnce
  BY DEF DrainInv
<1> QED
  BY <1>1, DrainInvariant, PTL

\* _drain's order: aclose never meets an anext that still unwinds.
THEOREM NoCloseUnderNext == Spec => []ClosedOutside
<1>1. DrainInv => ClosedOutside
  <2> SUFFICES ASSUME DrainInv, NEW o \in Ops, Live(o), on[o] \in closed
               PROVE FALSE
    BY DEF ClosedOutside
  <2>1. drain \in {"closing", "ended"}
    BY DEF DrainInv, Knows
  <2> QED
    BY <2>1 DEF DrainInv, Knows
<1> QED
  BY <1>1, DrainInvariant, PTL

\* drain's promise to the guard: back from drain, nothing runs.
THEOREM LeavingDrainIsQuiet == Spec => []DrainedMeansQuiet
<1>1. DrainInv => DrainedMeansQuiet
  BY DEF DrainInv
<1> QED
  BY <1>1, DrainInvariant, PTL

\* What drain promises a turn, together.
THEOREM DrainIsSafe == Spec => []DrainSafety
  BY CancelledAtMostOnce, NoCloseUnderNext, LeavingDrainIsQuiet, PTL DEF DrainSafety

\* run and track_iterator refuse once a drain was asked for.
THEOREM Sealed == Spec => SealedForGood
<1>1. ASSUME DrainInv, [Next]_vars, drain # "none"
      PROVE  /\ tracked' = tracked
             /\ \A o \in Ops : ~Live(o) => op'[o] = "idle"
  <2> DEFINE StaySealed == \A o \in Ops : ~Live(o) => op'[o] = "idle"
  <2>0. op' = op => StaySealed
    BY <1>1, SMT DEF Live, DrainInv, TypeOK
  <2>1. CASE UNCHANGED vars
    BY <2>0, <2>1 DEF vars
  <2>2. ASSUME NEW i \in Iterators, Track(i) \/ Close(i)
        PROVE  tracked' = tracked /\ op' = op
    BY <1>1, <2>2 DEF Track, Close, work
  <2>3. ASSUME NEW p \in Ops, Run(p) \/ Leave(p) \/ End(p)
        PROVE  tracked' = tracked /\ \A o \in Ops : ~Live(o) => op'[o] = "idle"
    BY <1>1, <2>3, SMT DEF Run, Leave, End, Live, iters, DrainInv, TypeOK
  <2>4. ASSUME NEW c \in Callers, Drain(c) \/ Hit(c) \/ LeaveDrain(c)
        PROVE  tracked' = tracked /\ op' = op
    BY <2>4 DEF Drain, Hit, LeaveDrain, work, iters
  <2>5. CASE Snapshot \/ Gathered \/ Closed
    BY <1>1, <2>5, SMT DEF Snapshot, Gathered, Closed, Live, work, iters, DrainInv, TypeOK
  <2> QED
    BY <1>1, <2>0, <2>1, <2>2, <2>3, <2>4, <2>5 DEF Next
<1> QED
  BY <1>1, DrainInvariant, PTL DEF SealedForGood, Spec

-----------------------------------------------------------------------------
(* ToolRun, whoever drives the generator.                                  *)

\* Attempt a has ended in a way that may be repeated.
MayRepeat(a) == res[a] \in T!Temporary \/ a \in expired

\* What the generator knows of its attempts at each place: which one runs,
\* why the next may follow, and that an answer is judged once its tool has
\* ended and its queue is empty.
RunOK ==
  /\ pc \in {"announced", "wait", "shown", "drain", "settle", "retry", "closing"} =>
       attempt \in T!Tries
  /\ pc = "entry" => attempt = 0
  /\ pc \in {"loop", "retry"} => attempt < T!MaxAttempts
  /\ \A a \in T!Tries : a > attempt => task[a] = "none"
  /\ \A a \in T!Tries : res[a] # "none" => task[a] = "ended"
  /\ pc = "announced" => task[attempt] = "none"
  /\ pc \in {"wait", "shown", "drain", "settle", "retry", "closing"} => task[attempt] # "none"
  /\ pc = "drain" => task[attempt] = "ended" /\ res[attempt] \in T!Answers
  /\ pc \in {"loop", "retry"} /\ attempt >= 1 => MayRepeat(attempt)
  /\ pc = "announced" /\ attempt > 1 => MayRepeat(attempt - 1)
  /\ pc = "settle" /\ outcome.status \in {"succeeded", "not_found"} =>
       taken = emitted /\ task[attempt] = "ended"
  /\ tickets \subseteq {T!TicketNo}
  /\ tool = "ticket" => \A a \in T!Tries : res[a] = "ok" => tickets # {}
  /\ tool = "ticket" /\ outcome.status = "succeeded" => tickets # {}
  /\ hits > 0 => pc \in {"closing", "closed"}

RunInv ==
  /\ T!TypeOK /\ RunOK
  /\ T!NothingRunsOn /\ T!RetriesAreTemporary /\ T!StagesBeforeAnswer /\ T!NoLateStart

LEMMA MaxAttemptsType == T!MaxAttempts \in 1..Attempts /\ Attempts \in Nat /\ T!Tries \subseteq Nat
  BY ExecutionAssumption DEF T!MaxAttempts, T!Tries

LEMMA RunInitInv == T!Init => RunInv
<1> SUFFICES ASSUME T!Init PROVE RunInv
  OBVIOUS
<1>1. T!TypeOK
  BY ExecutionAssumption, MaxAttemptsType DEF T!Init, T!TypeOK, T!NoOutcome
<1> QED
  BY <1>1, MaxAttemptsType
  DEF T!Init, RunInv, RunOK, T!NothingRunsOn, T!RetriesAreTemporary, T!StagesBeforeAnswer,
      T!NoLateStart, T!Alive, T!NoOutcome

LEMMA RunStepInv == RunInv /\ T!Next => RunInv'
<1> SUFFICES ASSUME RunInv, T!Next PROVE RunInv'
  OBVIOUS
<1> USE ExecutionAssumption, MaxAttemptsType
    DEF RunInv, MayRepeat, T!Alive, T!NoOutcome, T!call, T!invoke,
        T!progress, T!Failure
<1>1. CASE T!Tick
  <2>1. T!TypeOK' /\ T!MaxAttempts' = T!MaxAttempts
    BY <1>1 DEF T!Tick, T!TypeOK, RunOK, T!MaxAttempts
  <2>2. RunOK'
    BY <1>1, <2>1 DEF T!Tick, T!TypeOK, RunOK, T!NothingRunsOn
  <2>3. T!NothingRunsOn' /\ T!NoLateStart'
    BY <1>1, <2>1 DEF T!Tick, T!TypeOK, RunOK, T!NothingRunsOn, T!NoLateStart
  <2>4. T!RetriesAreTemporary'
    BY <1>1, <2>1 DEF T!Tick, T!TypeOK, RunOK, T!NothingRunsOn, T!RetriesAreTemporary
  <2>5. T!StagesBeforeAnswer'
    BY <1>1, <2>1 DEF T!Tick, T!TypeOK, RunOK, T!NothingRunsOn, T!StagesBeforeAnswer
  <2> QED
    BY <2>1, <2>2, <2>3, <2>4, <2>5
<1>2. CASE T!Enter
  <2>1. T!TypeOK' /\ T!MaxAttempts' = T!MaxAttempts
    BY <1>2 DEF T!Enter, T!TypeOK, RunOK, T!MaxAttempts
  <2>2. RunOK'
    BY <1>2, <2>1 DEF T!Enter, T!TypeOK, RunOK, T!NothingRunsOn
  <2>3. T!NothingRunsOn' /\ T!NoLateStart'
    BY <1>2, <2>1 DEF T!Enter, T!TypeOK, RunOK, T!NothingRunsOn, T!NoLateStart
  <2>4. T!RetriesAreTemporary'
    BY <1>2, <2>1 DEF T!Enter, T!TypeOK, RunOK, T!NothingRunsOn, T!RetriesAreTemporary
  <2>5. T!StagesBeforeAnswer'
    BY <1>2, <2>1 DEF T!Enter, T!TypeOK, RunOK, T!NothingRunsOn, T!StagesBeforeAnswer
  <2> QED
    BY <2>1, <2>2, <2>3, <2>4, <2>5
<1>3. CASE T!Announce
  <2>1. T!TypeOK' /\ T!MaxAttempts' = T!MaxAttempts
    BY <1>3 DEF T!Announce, T!TypeOK, RunOK, T!MaxAttempts
  <2>2. RunOK'
    <3>1. CASE now >= Deadline
      BY <1>3, <2>1, <3>1 DEF T!Announce, T!TypeOK, RunOK
    <3>2. CASE now < Deadline
      <4>1. attempt \in Nat /\ attempt' = attempt + 1 /\ attempt' \in T!Tries
        BY <1>3, <3>2 DEF T!Announce, T!TypeOK, RunOK, T!Tries
      <4>2. pc' = "announced" /\ UNCHANGED <<task, res, tickets, outcome, tool, hits, expired>>
        BY <1>3, <3>2 DEF T!Announce, T!TypeOK
      <4>3. task[attempt'] = "none" /\ hits = 0
        BY <1>3, <4>1 DEF T!Announce, T!TypeOK, RunOK
      <4> QED
        BY <1>3, <2>1, <4>1, <4>2, <4>3 DEF T!Announce, T!TypeOK, RunOK
    <3> QED
      BY <3>1, <3>2 DEF T!TypeOK
  <2>3. T!NothingRunsOn' /\ T!NoLateStart'
    BY <1>3, <2>1 DEF T!Announce, T!TypeOK, RunOK, T!NothingRunsOn, T!NoLateStart
  <2>4. T!RetriesAreTemporary'
    BY <1>3, <2>1 DEF T!Announce, T!TypeOK, RunOK, T!NothingRunsOn, T!RetriesAreTemporary
  <2>5. T!StagesBeforeAnswer'
    BY <1>3, <2>1 DEF T!Announce, T!TypeOK, RunOK, T!NothingRunsOn, T!StagesBeforeAnswer
  <2> QED
    BY <2>1, <2>2, <2>3, <2>4, <2>5
<1>4. CASE T!Resume
  <2>1. T!TypeOK' /\ T!MaxAttempts' = T!MaxAttempts
    BY <1>4 DEF T!Resume, T!Invoke, T!AtMost, T!TypeOK, RunOK, T!MaxAttempts
  <2>2. RunOK'
    BY <1>4, <2>1 DEF T!Resume, T!Invoke, T!AtMost, T!TypeOK, RunOK, T!NothingRunsOn
  <2>3. T!NothingRunsOn' /\ T!NoLateStart'
    BY <1>4, <2>1 DEF T!Resume, T!Invoke, T!AtMost, T!TypeOK, RunOK, T!NothingRunsOn, T!NoLateStart
  <2>4. T!RetriesAreTemporary'
    BY <1>4, <2>1 DEF T!Resume, T!Invoke, T!AtMost, T!TypeOK, RunOK, T!NothingRunsOn, T!RetriesAreTemporary
  <2>5. T!StagesBeforeAnswer'
    BY <1>4, <2>1 DEF T!Resume, T!Invoke, T!AtMost, T!TypeOK, RunOK, T!NothingRunsOn, T!StagesBeforeAnswer
  <2> QED
    BY <2>1, <2>2, <2>3, <2>4, <2>5
<1>5. CASE T!Shown
  <2>1. T!TypeOK' /\ T!MaxAttempts' = T!MaxAttempts
    BY <1>5 DEF T!Shown, T!TypeOK, RunOK, T!MaxAttempts
  <2>2. RunOK'
    BY <1>5, <2>1 DEF T!Shown, T!TypeOK, RunOK, T!NothingRunsOn
  <2>3. T!NothingRunsOn' /\ T!NoLateStart'
    BY <1>5, <2>1 DEF T!Shown, T!TypeOK, RunOK, T!NothingRunsOn, T!NoLateStart
  <2>4. T!RetriesAreTemporary'
    BY <1>5, <2>1 DEF T!Shown, T!TypeOK, RunOK, T!NothingRunsOn, T!RetriesAreTemporary
  <2>5. T!StagesBeforeAnswer'
    BY <1>5, <2>1 DEF T!Shown, T!TypeOK, RunOK, T!NothingRunsOn, T!StagesBeforeAnswer
  <2> QED
    BY <2>1, <2>2, <2>3, <2>4, <2>5
<1>6. CASE T!Expire
  <2>1. T!TypeOK' /\ T!MaxAttempts' = T!MaxAttempts
    BY <1>6 DEF T!Expire, T!Again, T!TypeOK, RunOK, T!MaxAttempts
  <2>2. RunOK'
    BY <1>6, <2>1 DEF T!Expire, T!Again, T!TypeOK, RunOK, T!NothingRunsOn
  <2>3. T!NothingRunsOn' /\ T!NoLateStart'
    BY <1>6, <2>1 DEF T!Expire, T!Again, T!TypeOK, RunOK, T!NothingRunsOn, T!NoLateStart
  <2>4. T!RetriesAreTemporary'
    BY <1>6, <2>1 DEF T!Expire, T!Again, T!TypeOK, RunOK, T!NothingRunsOn, T!RetriesAreTemporary
  <2>5. T!StagesBeforeAnswer'
    BY <1>6, <2>1 DEF T!Expire, T!Again, T!TypeOK, RunOK, T!NothingRunsOn, T!StagesBeforeAnswer
  <2> QED
    BY <2>1, <2>2, <2>3, <2>4, <2>5
<1>7. CASE T!Catch
  <2>0. /\ UNCHANGED <<tool, args, now, attempt, task, res, tickets, expired, start, due, emitted, taken, hits>>
        /\ pc = "wait" /\ task[attempt] = "ended"
        /\ \/ pc' = "settle" /\ \E c : outcome' = [status |-> "failed", code |-> c, attempt |-> attempt]
           \/ /\ pc' = "retry" /\ outcome' = outcome
              /\ attempt < T!MaxAttempts /\ res[attempt] \in T!Temporary
    <3>1. CASE res[attempt] \in T!Temporary
      BY <1>7, <3>1 DEF T!Catch, T!Again, T!Temporary
    <3>2. CASE res[attempt] \in {"validation", "service", "permanent"}
      BY <1>7, <3>2 DEF T!Catch
    <3> QED
      BY <1>7, <3>1, <3>2 DEF T!Catch, T!Raised
  <2>1. T!TypeOK' /\ T!MaxAttempts' = T!MaxAttempts
    BY <2>0 DEF T!TypeOK, RunOK, T!MaxAttempts
  <2>2. RunOK'
    BY <2>0, <2>1 DEF T!TypeOK, RunOK
  <2>3. T!NothingRunsOn' /\ T!NoLateStart'
    BY <1>7, <2>1 DEF T!Catch, T!Again, T!Raised, T!Temporary, T!TypeOK, RunOK, T!NothingRunsOn, T!NoLateStart
  <2>4. T!RetriesAreTemporary'
    BY <1>7, <2>1 DEF T!Catch, T!Again, T!Raised, T!Temporary, T!TypeOK, RunOK, T!NothingRunsOn, T!RetriesAreTemporary
  <2>5. T!StagesBeforeAnswer'
    BY <1>7, <2>1 DEF T!Catch, T!Again, T!Raised, T!Temporary, T!TypeOK, RunOK, T!NothingRunsOn, T!StagesBeforeAnswer
  <2> QED
    BY <2>1, <2>2, <2>3, <2>4, <2>5
<1>8. CASE T!Answer
  <2>1. T!TypeOK' /\ T!MaxAttempts' = T!MaxAttempts
    BY <1>8 DEF T!Answer, T!TypeOK, RunOK, T!MaxAttempts
  <2>2. RunOK'
    BY <1>8, <2>1 DEF T!Answer, T!TypeOK, RunOK, T!NothingRunsOn
  <2>3. T!NothingRunsOn' /\ T!NoLateStart'
    BY <1>8, <2>1 DEF T!Answer, T!TypeOK, RunOK, T!NothingRunsOn, T!NoLateStart
  <2>4. T!RetriesAreTemporary'
    BY <1>8, <2>1 DEF T!Answer, T!TypeOK, RunOK, T!NothingRunsOn, T!RetriesAreTemporary
  <2>5. T!StagesBeforeAnswer'
    BY <1>8, <2>1 DEF T!Answer, T!TypeOK, RunOK, T!NothingRunsOn, T!StagesBeforeAnswer
  <2> QED
    BY <2>1, <2>2, <2>3, <2>4, <2>5
<1>9. CASE T!DrainOne
  <2>1. T!TypeOK' /\ T!MaxAttempts' = T!MaxAttempts
    BY <1>9 DEF T!DrainOne, T!TypeOK, RunOK, T!MaxAttempts
  <2>2. RunOK'
    BY <1>9, <2>1 DEF T!DrainOne, T!TypeOK, RunOK, T!NothingRunsOn
  <2>3. T!NothingRunsOn' /\ T!NoLateStart'
    BY <1>9, <2>1 DEF T!DrainOne, T!TypeOK, RunOK, T!NothingRunsOn, T!NoLateStart
  <2>4. T!RetriesAreTemporary'
    BY <1>9, <2>1 DEF T!DrainOne, T!TypeOK, RunOK, T!NothingRunsOn, T!RetriesAreTemporary
  <2>5. T!StagesBeforeAnswer'
    BY <1>9, <2>1 DEF T!DrainOne, T!TypeOK, RunOK, T!NothingRunsOn, T!StagesBeforeAnswer
  <2> QED
    BY <2>1, <2>2, <2>3, <2>4, <2>5
<1>10. CASE T!Judged
  <2>1. T!TypeOK' /\ T!MaxAttempts' = T!MaxAttempts
    BY <1>10 DEF T!Judged, T!Judge, T!Answers, T!TypeOK, RunOK, T!MaxAttempts
  <2>2. RunOK'
    BY <1>10, <2>1 DEF T!Judged, T!Judge, T!Answers, T!TypeOK, RunOK, T!NothingRunsOn
  <2>3. T!NothingRunsOn' /\ T!NoLateStart'
    BY <1>10, <2>1 DEF T!Judged, T!Judge, T!Answers, T!TypeOK, RunOK, T!NothingRunsOn, T!NoLateStart
  <2>4. T!RetriesAreTemporary'
    BY <1>10, <2>1 DEF T!Judged, T!Judge, T!Answers, T!TypeOK, RunOK, T!NothingRunsOn, T!RetriesAreTemporary
  <2>5. T!StagesBeforeAnswer'
    BY <1>10, <2>1 DEF T!Judged, T!Judge, T!Answers, T!TypeOK, RunOK, T!NothingRunsOn, T!StagesBeforeAnswer
  <2> QED
    BY <2>1, <2>2, <2>3, <2>4, <2>5
<1>11. CASE T!Settle
  <2>1. T!TypeOK' /\ T!MaxAttempts' = T!MaxAttempts
    BY <1>11 DEF T!Settle, T!TypeOK, RunOK, T!MaxAttempts
  <2>2. RunOK'
    BY <1>11, <2>1 DEF T!Settle, T!TypeOK, RunOK, T!NothingRunsOn
  <2>3. T!NothingRunsOn' /\ T!NoLateStart'
    BY <1>11, <2>1 DEF T!Settle, T!TypeOK, RunOK, T!NothingRunsOn, T!NoLateStart
  <2>4. T!RetriesAreTemporary'
    BY <1>11, <2>1 DEF T!Settle, T!TypeOK, RunOK, T!NothingRunsOn, T!RetriesAreTemporary
  <2>5. T!StagesBeforeAnswer'
    BY <1>11, <2>1 DEF T!Settle, T!TypeOK, RunOK, T!NothingRunsOn, T!StagesBeforeAnswer
  <2> QED
    BY <2>1, <2>2, <2>3, <2>4, <2>5
<1>12. CASE T!Show
  <2>1. T!TypeOK' /\ T!MaxAttempts' = T!MaxAttempts
    BY <1>12 DEF T!Show, T!TypeOK, RunOK, T!MaxAttempts
  <2>2. RunOK'
    BY <1>12, <2>1 DEF T!Show, T!TypeOK, RunOK, T!NothingRunsOn
  <2>3. T!NothingRunsOn' /\ T!NoLateStart'
    BY <1>12, <2>1 DEF T!Show, T!TypeOK, RunOK, T!NothingRunsOn, T!NoLateStart
  <2>4. T!RetriesAreTemporary'
    BY <1>12, <2>1 DEF T!Show, T!TypeOK, RunOK, T!NothingRunsOn, T!RetriesAreTemporary
  <2>5. T!StagesBeforeAnswer'
    BY <1>12, <2>1 DEF T!Show, T!TypeOK, RunOK, T!NothingRunsOn, T!StagesBeforeAnswer
  <2> QED
    BY <2>1, <2>2, <2>3, <2>4, <2>5
<1>13. CASE T!Leave
  <2>1. T!TypeOK' /\ T!MaxAttempts' = T!MaxAttempts
    BY <1>13 DEF T!Leave, T!TypeOK, RunOK, T!MaxAttempts
  <2>2. RunOK'
    BY <1>13, <2>1 DEF T!Leave, T!TypeOK, RunOK, T!NothingRunsOn
  <2>3. T!NothingRunsOn' /\ T!NoLateStart'
    BY <1>13, <2>1 DEF T!Leave, T!TypeOK, RunOK, T!NothingRunsOn, T!NoLateStart
  <2>4. T!RetriesAreTemporary'
    BY <1>13, <2>1 DEF T!Leave, T!TypeOK, RunOK, T!NothingRunsOn, T!RetriesAreTemporary
  <2>5. T!StagesBeforeAnswer'
    BY <1>13, <2>1 DEF T!Leave, T!TypeOK, RunOK, T!NothingRunsOn, T!StagesBeforeAnswer
  <2> QED
    BY <2>1, <2>2, <2>3, <2>4, <2>5
<1>14. ASSUME NEW a \in T!Tries, T!Commit(a) PROVE RunInv'
  <2>1. T!TypeOK' /\ T!MaxAttempts' = T!MaxAttempts
    BY <1>14 DEF T!Commit, T!TicketNo, T!TypeOK, RunOK, T!MaxAttempts
  <2>2. RunOK'
    BY <1>14, <2>1 DEF T!Commit, T!TypeOK, RunOK, T!NothingRunsOn
  <2>3. T!NothingRunsOn' /\ T!NoLateStart'
    BY <1>14, <2>1 DEF T!Commit, T!TypeOK, RunOK, T!NothingRunsOn, T!NoLateStart
  <2>4. T!RetriesAreTemporary'
    BY <1>14, <2>1 DEF T!Commit, T!TypeOK, RunOK, T!NothingRunsOn, T!RetriesAreTemporary
  <2>5. T!StagesBeforeAnswer'
    BY <1>14, <2>1 DEF T!Commit, T!TypeOK, RunOK, T!NothingRunsOn, T!StagesBeforeAnswer
  <2> QED
    BY <2>1, <2>2, <2>3, <2>4, <2>5
<1>15. ASSUME NEW a \in T!Tries, T!Emit(a) PROVE RunInv'
  <2>1. T!TypeOK' /\ T!MaxAttempts' = T!MaxAttempts
    BY <1>15 DEF T!Emit, T!TypeOK, RunOK, T!MaxAttempts
  <2>2. RunOK'
    BY <1>15, <2>1 DEF T!Emit, T!TypeOK, RunOK, T!NothingRunsOn
  <2>3. T!NothingRunsOn' /\ T!NoLateStart'
    BY <1>15, <2>1 DEF T!Emit, T!TypeOK, RunOK, T!NothingRunsOn, T!NoLateStart
  <2>4. T!RetriesAreTemporary'
    BY <1>15, <2>1 DEF T!Emit, T!TypeOK, RunOK, T!NothingRunsOn, T!RetriesAreTemporary
  <2>5. T!StagesBeforeAnswer'
    BY <1>15, <2>1 DEF T!Emit, T!TypeOK, RunOK, T!NothingRunsOn, T!StagesBeforeAnswer
  <2> QED
    BY <2>1, <2>2, <2>3, <2>4, <2>5
<1>16. ASSUME NEW a \in T!Tries, T!EndTask(a) PROVE RunInv'
  <2>1. T!TypeOK' /\ T!MaxAttempts' = T!MaxAttempts
    BY <1>16 DEF T!EndTask, T!Possible, T!Raised, T!Temporary, T!Answers, T!TypeOK, RunOK, T!MaxAttempts
  <2>2. RunOK'
    <3>1. PICK r \in T!Possible : res' = [res EXCEPT ![a] = r]
      BY <1>16 DEF T!EndTask
    <3>2. /\ task' = [task EXCEPT ![a] = "ended"] /\ task[a] = "running"
          /\ UNCHANGED <<tool, pc, attempt, expired, emitted, taken, tickets, outcome, hits>>
      BY <1>16 DEF T!EndTask
    <3>3. a = attempt /\ pc \notin {"entry", "loop", "announced", "drain"} /\ res[a] = "none"
      BY <3>2 DEF T!NothingRunsOn, RunOK
    <3>4. tool = "ticket" /\ r = "ok" => tickets # {}
      BY <3>1 DEF T!Possible, T!Raised, T!Temporary
    <3> QED
      BY <2>1, <3>1, <3>2, <3>3, <3>4 DEF T!TypeOK, RunOK, T!Temporary
  <2>3. T!NothingRunsOn' /\ T!NoLateStart'
    BY <1>16, <2>1 DEF T!EndTask, T!Possible, T!Raised, T!Temporary, T!Answers, T!TypeOK, RunOK, T!NothingRunsOn, T!NoLateStart
  <2>4. T!RetriesAreTemporary'
    BY <1>16, <2>1 DEF T!EndTask, T!Possible, T!Raised, T!Temporary, T!Answers, T!TypeOK, RunOK, T!NothingRunsOn, T!RetriesAreTemporary
  <2>5. T!StagesBeforeAnswer'
    BY <1>16, <2>1 DEF T!EndTask, T!Possible, T!Raised, T!Temporary, T!Answers, T!TypeOK, RunOK, T!NothingRunsOn, T!StagesBeforeAnswer
  <2> QED
    BY <2>1, <2>2, <2>3, <2>4, <2>5
<1>17. ASSUME NEW a \in T!Tries, T!EndCancelled(a) PROVE RunInv'
  <2>1. T!TypeOK' /\ T!MaxAttempts' = T!MaxAttempts
    BY <1>17 DEF T!EndCancelled, T!TypeOK, RunOK, T!MaxAttempts
  <2>2. RunOK'
    <3>1. /\ task' = [task EXCEPT ![a] = "ended"] /\ task[a] = "cancelling"
          /\ res' = [res EXCEPT ![a] = "cancelled"]
          /\ UNCHANGED <<tool, pc, attempt, expired, emitted, taken, tickets, outcome, hits>>
      BY <1>17 DEF T!EndCancelled
    <3>2. a = attempt /\ pc \notin {"entry", "loop", "announced", "drain"} /\ res[a] = "none"
      BY <3>1 DEF T!NothingRunsOn, RunOK
    <3> QED
      BY <2>1, <3>1, <3>2 DEF T!TypeOK, RunOK, T!Temporary
  <2>3. T!NothingRunsOn' /\ T!NoLateStart'
    BY <1>17, <2>1 DEF T!EndCancelled, T!TypeOK, RunOK, T!NothingRunsOn, T!NoLateStart
  <2>4. T!RetriesAreTemporary'
    BY <1>17, <2>1 DEF T!EndCancelled, T!TypeOK, RunOK, T!NothingRunsOn, T!RetriesAreTemporary
  <2>5. T!StagesBeforeAnswer'
    BY <1>17, <2>1 DEF T!EndCancelled, T!TypeOK, RunOK, T!NothingRunsOn, T!StagesBeforeAnswer
  <2> QED
    BY <2>1, <2>2, <2>3, <2>4, <2>5
<1> QED
  BY <1>1, <1>2, <1>3, <1>4, <1>5, <1>6, <1>7, <1>8, <1>9, <1>10, <1>11, <1>12, <1>13, <1>14, <1>15, <1>16, <1>17
  DEF T!Next, T!Step

LEMMA RunStutter == RunInv /\ UNCHANGED T!vars => RunInv'
<1> SUFFICES ASSUME RunInv, UNCHANGED T!vars PROVE RunInv'
  OBVIOUS
<1> USE DEF T!vars
<1>1. T!TypeOK'
  BY DEF RunInv, T!TypeOK, T!MaxAttempts
<1>2. RunOK'
  BY DEF RunInv, RunOK, MayRepeat, T!MaxAttempts
<1>3. T!NothingRunsOn' /\ T!RetriesAreTemporary' /\ T!StagesBeforeAnswer' /\ T!NoLateStart'
  BY DEF RunInv, T!NothingRunsOn, T!RetriesAreTemporary, T!StagesBeforeAnswer, T!NoLateStart,
         T!Alive
<1> QED
  BY <1>1, <1>2, <1>3 DEF RunInv

\* TicketNo is the one number a turn has, so its insertions are at most one.
LEMMA OneTicket == RunInv => T!TicketOnce
<1> SUFFICES ASSUME RunInv PROVE T!TicketOnce
  OBVIOUS
<1>1. tickets = {} \/ tickets = {0}
  BY DEF RunInv, RunOK, T!TicketNo
<1>2. \A S : T!Cardinality(S) = Cardinality(S)
  BY DEF T!Cardinality, Cardinality
<1>3. Cardinality(tickets) = 0 \/ Cardinality(tickets) = 1
  <2>1. CASE tickets = {}
    BY <2>1, FS_EmptySet
  <2>2. CASE tickets = {0}
    BY <2>2, FS_Singleton
  <2> QED
    BY <1>1, <2>1, <2>2
<1>4. T!Cardinality(tickets) <= 1
  BY <1>2, <1>3
<1> QED
  BY <1>4 DEF RunInv, RunOK, T!TicketOnce

\* ToolExecutor.run under any consumer: attempts do not overlap and start in
\* time, only what is temporary is repeated, a ticket is inserted once, an
\* answer comes after its stages, and behind an outcome nothing runs.
THEOREM ExecutorIsSound == T!Spec => [](AttemptsAreSound /\ T!NothingRunsOn)
<1>1. T!Spec => []RunInv
  BY RunInitInv, RunStepInv, RunStutter, PTL DEF T!Spec
<1>2. RunInv => AttemptsAreSound /\ T!NothingRunsOn
  BY OneTicket DEF RunInv, AttemptsAreSound
<1> QED
  BY <1>1, <1>2, PTL

-----------------------------------------------------------------------------
(* Both in one turn.                                                       *)

\* A step of the composition is a step of the turn or leaves the turn alone.
LEMMA StepsOfTheTurn == NextTogether => [Next]_vars
<1> SUFFICES ASSUME NextTogether PROVE Next \/ UNCHANGED vars
  OBVIOUS
<1>1. CASE TurnSide
  BY <1>1 DEF TurnSide, Next
<1>2. CASE ToolSide
  BY <1>2 DEF ToolSide
<1>3. ASSUME NEW o \in Ops, Anext(o) PROVE End(o) \/ UNCHANGED vars
  BY <1>3 DEF Anext, Advance, Exhausted, NeverRan, Cancelled, Unwound
<1>4. CASE Aclose
  BY <1>4, ExecutionAssumption DEF Aclose, Shut, Exit, ExitSettled, Next
<1> QED
  BY <1>1, <1>2, <1>3, <1>4 DEF NextTogether, Next

\* And a step of the generator, or leaves it alone.
LEMMA StepsOfTheRun == NextTogether => [T!Next]_T!vars
<1> SUFFICES ASSUME NextTogether PROVE T!Next \/ UNCHANGED T!vars
  OBVIOUS
<1>1. CASE TurnSide
  BY <1>1 DEF TurnSide, run, T!vars
<1>2. CASE ToolSide
  BY <1>2 DEF ToolSide, T!Next
<1>3. ASSUME NEW o \in Ops, Anext(o) PROVE T!Next \/ UNCHANGED T!vars
  BY <1>3 DEF Anext, Advance, Exhausted, NeverRan, Cancelled, Unwound, run, T!vars, T!Next, T!Step
<1>4. CASE Aclose
  BY <1>4 DEF Aclose, Shut, Exit, ExitSettled, run, T!vars, T!Next, T!Step
<1> QED
  BY <1>1, <1>2, <1>3, <1>4 DEF NextTogether, T!Next

\* TurnOperations is used as TurnDrain says: a turn that runs a tool is a
\* turn, whatever its generator does.
THEOREM ToolTurnIsATurn == Together => Spec
<1>1. [NextTogether]_all => [Next]_vars
  BY StepsOfTheTurn DEF all
<1>2. Begin => Init
  BY DEF Begin
<1> QED
  BY <1>1, <1>2, PTL DEF Together, Spec

\* The workflow's use of the executor is one of those that ToolRun allows:
\* anexts, their cancellation and the aclose of a drain are a consumer.
THEOREM ToolTurnIsARun == Together => T!Spec
<1>1. [NextTogether]_all => [T!Next]_T!vars
  BY StepsOfTheRun DEF all, run, T!vars
<1>2. Begin => T!Init
  BY DEF Begin
<1> QED
  BY <1>1, <1>2, PTL DEF Together, T!Spec

\* Where a generator that is not at a yield is being run from, and what the
\* turn knows of it: it has moved only if it is tracked, and it is over once
\* it was closed.
JointOK ==
  /\ consumer \in {"workflow", "other"}
  /\ ~Workflow => \A c \in Callers : caller[c] = "out"
  /\ \A o \in Ops : Live(o) => on[o] \in tracked \union {None}
  /\ Workflow /\ pc \in {"loop", "wait", "settle", "retry"} => \E o \in Ops : Inside(o)
  /\ Workflow /\ pc = "closing" =>
       (\E o \in Ops : Inside(o)) \/ (drain = "closing" /\ Execution \in tracked \ closed)
  /\ Workflow /\ Execution \in closed => pc \in {"entry", "outcome", "closed"}
  /\ Workflow /\ Execution \notin tracked => pc = "entry"
  /\ UnwindsOnce

TogetherInv == DrainInv /\ RunInv /\ JointOK

LEMMA TogetherInit == Begin => TogetherInv
<1> SUFFICES ASSUME Begin PROVE TogetherInv
  OBVIOUS
<1>1. DrainInv /\ RunInv
  BY InitInv, RunInitInv DEF Begin
<1>2. JointOK
  BY DEF Begin, Init, T!Init, JointOK, Live, Workflow, UnwindsOnce
<1> QED
  BY <1>1, <1>2 DEF TogetherInv

\* An operation that is inside the generator stays there until it ends.
LEMMA StaysInside ==
  ASSUME DrainInv, TurnSide, NEW o \in Ops, Inside(o)
  PROVE  Inside(o)'
<1> USE DEF TurnSide, Inside, Live, DrainInv, TypeOK, work, iters, waiters
<1>1. ASSUME NEW i \in Iterators, Track(i) \/ Close(i) PROVE Inside(o)'
  BY <1>1 DEF Track, Close
<1>2. ASSUME NEW p \in Ops, Run(p) \/ Leave(p) \/ (~Inside(p) /\ End(p)) PROVE Inside(o)'
  BY <1>2 DEF Run, Leave, End
<1>3. ASSUME NEW c \in Callers, Drain(c) \/ Hit(c) \/ LeaveDrain(c) PROVE Inside(o)'
  BY <1>3 DEF Drain, Hit, LeaveDrain
<1>4. CASE Snapshot \/ Gathered \/ Closed
  BY <1>4 DEF Snapshot, Gathered, Closed
<1> QED
  BY <1>1, <1>2, <1>3, <1>4

LEMMA TurnSideJoint == TogetherInv /\ Workflow /\ consumer' = consumer /\ TurnSide => JointOK'
<1> SUFFICES ASSUME TogetherInv, Workflow, consumer' = consumer, TurnSide PROVE JointOK'
  OBVIOUS
<1>1. DrainInv /\ JointOK /\ UNCHANGED <<pc, hits>>
  BY DEF TogetherInv, TurnSide, run
<1>2. \A o \in Ops : Inside(o) => Inside(o)'
  BY <1>1, StaysInside
<1>3. \A o \in Ops : Live(o)' => on'[o] \in tracked' \union {None}
  <2> USE <1>1 DEF JointOK, DrainInv, TypeOK, Live, work, iters, waiters
  <2>1. ASSUME NEW i \in Iterators, Track(i) \/ Close(i)
        PROVE  \A o \in Ops : Live(o)' => on'[o] \in tracked' \union {None}
    BY <2>1 DEF Track, Close
  <2>2. ASSUME NEW p \in Ops, Run(p) \/ Leave(p) \/ End(p)
        PROVE  \A o \in Ops : Live(o)' => on'[o] \in tracked' \union {None}
    BY <2>2 DEF Run, Leave, End
  <2>3. ASSUME NEW c \in Callers, Drain(c) \/ Hit(c) \/ LeaveDrain(c)
        PROVE  \A o \in Ops : Live(o)' => on'[o] \in tracked' \union {None}
    BY <2>3 DEF Drain, Hit, LeaveDrain
  <2>4. CASE Snapshot \/ Gathered \/ Closed
    BY <2>4 DEF Snapshot, Gathered, Closed
  <2> QED
    BY <2>1, <2>2, <2>3, <2>4 DEF TurnSide

\* Only Shut closes the generator, and nothing leaves the list of the tracked.
<1>4. /\ tracked \subseteq tracked' /\ (Execution \in closed' => Execution \in closed)
      /\ drain = "closing" /\ Execution \in tracked \ closed => drain' = "closing"
  BY <1>1
  DEF TurnSide, Track, Close, Run, Leave, End, Drain, Hit, LeaveDrain, Snapshot, Gathered, Closed,
      work, iters, waiters, DrainInv, TypeOK
<1> QED
  BY <1>1, <1>2, <1>3, <1>4 DEF JointOK, Workflow, UnwindsOnce

\* A step of the generator itself.
LEMMA GeneratorJoint ==
  ASSUME TogetherInv, Workflow, consumer' = consumer,
         (\E o \in Ops : Anext(o)) \/ Aclose \/ ToolSide
  PROVE  JointOK'
<1>1. DrainInv /\ RunInv /\ JointOK /\ Workflow'
  BY DEF TogetherInv, Workflow
<1>2. \A o \in Ops : Inside(o) => Execution \in tracked /\ Execution \notin closed /\ cancels[o] <= 1
  BY <1>1, NoneAssumption, ExecutionAssumption
  DEF JointOK, Inside, DrainInv, Knows, TypeOK, CancelledOnce, Live
<1>3. ASSUME NEW o \in Ops, End(o)
      PROVE  /\ \A p \in Ops : Live(p)' => on'[p] \in tracked' \union {None}
             /\ UNCHANGED <<tracked, closed, drain, caller>>
  BY <1>1, <1>3 DEF End, Live, JointOK, DrainInv, TypeOK, iters, waiters
<1>4. CASE ToolSide
  <2>1. UNCHANGED <<pc, hits>> /\ UNCHANGED vars
    BY <1>4 DEF ToolSide, T!Tick, T!Commit, T!Emit, T!EndTask, T!EndCancelled
  <2> QED
    BY <1>1, <2>1 DEF JointOK, vars, Live, Inside, Workflow, UnwindsOnce
<1>5. ASSUME NEW o \in Ops, Advance(o) PROVE JointOK'
  <2>1. hits' = hits
    BY <1>5
    DEF Advance, T!Step, T!Enter, T!Announce, T!Resume, T!Shown, T!Expire, T!Catch, T!Answer,
        T!DrainOne, T!Judged, T!Settle, T!Show
  <2>2. CASE Yields
    <3>1. pc' \in {"announced", "shown", "outcome", "closed", "drain"} /\ End(o)
      BY <1>5, <2>2 DEF Advance, Yields
    <3> QED
      BY <1>1, <1>2, <1>3, <1>5, <2>1, <3>1 DEF JointOK, Advance, UnwindsOnce, Workflow
  <2>3. CASE ~Yields
    <3>1. UNCHANGED vars
      BY <1>5, <2>3 DEF Advance
    <3> QED
      BY <1>1, <1>2, <1>5, <2>1, <3>1 DEF JointOK, Advance, UnwindsOnce, Workflow, vars, Inside, Live
  <2> QED
    BY <2>2, <2>3
<1>6. ASSUME NEW o \in Ops, Exhausted(o) \/ NeverRan(o) PROVE JointOK'
  <2>1. pc' = pc /\ hits' = hits /\ End(o) /\ Inside(o)
        /\ pc \notin {"loop", "wait", "settle", "retry", "closing"}
    BY <1>6 DEF Exhausted, NeverRan, run, Suspended
  <2> QED
    BY <1>1, <1>2, <1>3, <2>1 DEF JointOK, UnwindsOnce, Workflow
<1>7. ASSUME NEW o \in Ops, Cancelled(o) PROVE JointOK'
  <2>1. hits' = hits + 1 /\ hits < cancels[o] /\ UNCHANGED vars /\ Inside(o)
    BY <1>7 DEF Cancelled, T!Leave
  <2>2. hits \in Nat /\ cancels[o] \in Nat
    BY <1>1 DEF RunInv, T!TypeOK, DrainInv, TypeOK
  <2>3. hits' <= 1
    BY <1>2, <2>1, <2>2
  <2> QED
    BY <1>1, <1>2, <2>1, <2>3 DEF JointOK, UnwindsOnce, Workflow, vars, Inside, Live
<1>8. ASSUME NEW o \in Ops, Unwound(o) PROVE JointOK'
  <2>1. pc' = "closed" /\ hits' = hits /\ End(o) /\ Inside(o)
    BY <1>8 DEF Unwound, T!Settle
  <2> QED
    BY <1>1, <1>2, <1>3, <2>1 DEF JointOK, UnwindsOnce, Workflow
<1>9. CASE Shut
  <2>1. UNCHANGED <<pc, hits, on, op, tracked, drain, caller>> /\ pc \in {"entry", "outcome", "closed"}
    BY <1>9 DEF Shut, Close, run, work, waiters
  <2> QED
    BY <1>1, <2>1 DEF JointOK, UnwindsOnce, Workflow, Live
<1>10. CASE Exit
  <2>1. /\ hits' = hits + 1 /\ UNCHANGED vars /\ pc \in {"announced", "shown", "drain"}
        /\ drain = "closing" /\ Execution \in tracked \ closed /\ pc' \in {"closing", "closed"}
    BY <1>10 DEF Exit, T!Leave, Suspended
  <2>2. hits = 0
    BY <1>1, <2>1 DEF RunInv, RunOK, T!TypeOK
  <2> QED
    BY <1>1, <2>1, <2>2 DEF JointOK, UnwindsOnce, Workflow, vars, Live
<1>11. CASE ExitSettled
  <2>1. /\ hits' = hits /\ UNCHANGED vars /\ pc' = "closed"
        /\ Execution \in tracked \ closed
    BY <1>11 DEF ExitSettled, T!Settle
  <2> QED
    BY <1>1, <2>1 DEF JointOK, UnwindsOnce, Workflow, vars, Live
<1> QED
  BY <1>4, <1>5, <1>6, <1>7, <1>8, <1>9, <1>10, <1>11 DEF Anext, Aclose

LEMMA TogetherStep == TogetherInv /\ [NextTogether]_all => TogetherInv'
<1> SUFFICES ASSUME TogetherInv, [NextTogether]_all PROVE TogetherInv'
  OBVIOUS
<1>1. DrainInv'
  BY StepsOfTheTurn, StepInv DEF TogetherInv, all
<1>2. RunInv'
  <2>1. T!Next \/ UNCHANGED T!vars
    BY StepsOfTheRun DEF all, run, T!vars
  <2> QED
    BY <2>1, RunStepInv, RunStutter DEF TogetherInv
<1>3. JointOK'
  <2>1. CASE UNCHANGED all
    BY <2>1 DEF all, vars, run, TogetherInv, JointOK, Live, Inside, Workflow, UnwindsOnce
  <2>2. CASE NextTogether /\ Workflow
    BY <2>2, TurnSideJoint, GeneratorJoint DEF NextTogether
  <2>3. CASE NextTogether /\ ~Workflow
    BY <2>3 DEF NextTogether, vars, TogetherInv, JointOK, Live, Workflow, UnwindsOnce
  <2> QED
    BY <2>1, <2>2, <2>3
<1> QED
  BY <1>1, <1>2, <1>3 DEF TogetherInv

\* From drain over aclose and the generator's finally down to the tool's
\* task: a turn that is back from drain has no tool that could still write,
\* and the finally that waits for it was never interrupted.
THEOREM NoToolOutlivesItsTurn == Together => []ToolStops
<1>1. TogetherInv => ToolStops
  <2> SUFFICES ASSUME TogetherInv PROVE ToolStops
    OBVIOUS
  <2>1. T!NothingRunsOn /\ UnwindsOnce
    BY DEF TogetherInv, RunInv, JointOK
  <2>2. ASSUME NEW c \in Callers, Left(c), NEW a \in T!Tries PROVE ~T!Alive(a)
    <3>1. Workflow
      BY <2>2 DEF TogetherInv, JointOK, Left
    <3>2. closed = tracked
      BY <2>2 DEF TogetherInv, DrainInv, DrainedMeansQuiet
    <3>3. pc \in {"entry", "outcome", "closed"}
      BY <3>1, <3>2 DEF TogetherInv, JointOK
    <3> QED
      BY <2>1, <3>3 DEF T!NothingRunsOn
  <2> QED
    BY <2>1, <2>2 DEF ToolStops, NoToolSurvives
<1> QED
  BY <1>1, TogetherInit, TogetherStep, PTL DEF Together

\* What drain and the executor promise by themselves, they keep together.
THEOREM DrainIsSafeWithTools == Together => []DrainSafety /\ SealedForGood
  BY ToolTurnIsATurn, DrainIsSafe, Sealed

\* Retries, tickets and progress of a tool in a turn are as the executor alone has them.
THEOREM AttemptsStaySound == Together => []AttemptsAreSound
  BY ToolTurnIsARun, ExecutorIsSound, PTL
=============================================================================
