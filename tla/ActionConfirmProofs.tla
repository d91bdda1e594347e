-------------------------- MODULE ActionConfirmProofs --------------------------
(* Safety of ActionConfirm, for any turns, confirmations and attempts: its *)
(* tickets and replies, then its offers.                                   *)
EXTENDS ActionConfirm, TLAPS

-----------------------------------------------------------------------------
(* The inductive invariant. *)

\* get_confirmable accepted the action, and would again but for a closing.
Accepted(t) == audit[t] = "completed" /\ action[t] # "none"

\* A turn has no rows before it starts and no action before it offers one.
EarlyTurn ==
  \A t \in Turns :
    /\ tpc[t] = "idle" => audit[t] = "none"
    /\ tpc[t] \in {"idle", "offer"} =>
         action[t] = "none" /\ ~(owner.turn = t /\ owner.to = "offered")

\* What the conversation row lock protects: an offer in flight is the first
\* one, and a turn is closed only while it is pending.
LockedWrite ==
  owner # Free =>
    /\ owner.turn \in Turns
    /\ owner.to = "offered" => action[owner.turn] = "none"
    /\ owner.to # "offered" =>
         owner.to \in {"completed", "ended"} /\ audit[owner.turn] = "pending"

\* A ticket row, committed or not, belongs to an accepted action.
TicketRows ==
  \A t \in Turns : t \in ticket \/ inserter[t] # NoOne => Accepted(t)

\* An action is marked, committed or not, only when its ticket is there.
MarkedRows ==
  \A t \in Turns : action[t] = "completed" \/ marker[t] # NoOne => t \in ticket

\* A confirmation knows at each point what the program text before it has
\* established.
Progress(q) ==
  /\ pc[q] \in LiveConfirm => target[q] \in Turns
  /\ pc[q] \in Attempting => Accepted(target[q])
  /\ pc[q] \in Marking => target[q] \in ticket
  /\ reply[q] = "ok" => target[q] \in ticket /\ action[target[q]] = "completed"
  /\ reply[q] # "none" => pc[q] = "over"

IInv ==
  /\ TypeOK
  /\ EarlyTurn
  /\ LockedWrite
  /\ TicketRows
  /\ MarkedRows
  /\ \A q \in Confirms : Progress(q)
  /\ AttemptsDoNotOverlap

-----------------------------------------------------------------------------
LEMMA TypeStep ==
  ASSUME TypeOK, [Next]_vars
  PROVE  TypeOK'
<1> USE ActorsAssumption, AttemptsAssumption
<1> USE DEF TypeOK, rows, locks, turns, confirms
<1>1. ASSUME NEW t \in Turns, Start(t) \/ TurnStep(t) \/ Interrupt(t)
      PROVE  TypeOK'
  BY <1>1 DEF Start, TurnStep, Interrupt, Offer, NoOffer, OfferAck, Finish, FinishAck,
     Show, Fail, Cleanup, CleanupAck, CloseTurn, TurnGoto, Write, Lock, Free,
     TurnPCs, LiveTurn, Persisting
<1>2. ASSUME NEW t \in Turns, Disconnect(t) \/ ResolveTicket(t) \/ ResolveMark(t)
      PROVE  TypeOK'
  BY <1>2 DEF Disconnect, ResolveTicket, ResolveMark, CommitTicket, RollbackTicket,
     CommitMark, RollbackMark
<1>3. ASSUME NEW q \in Confirms, NEW t \in Turns, Ask(q, t)
      PROVE  TypeOK'
  BY <1>3 DEF Ask, Goto, ConfirmPCs, LiveConfirm
<1>4. ASSUME NEW q \in Confirms, Step(q)
      PROVE  TypeOK'
  <2> USE DEF Goto, Answer, Retry, ConfirmPCs, LiveConfirm, Attempting, Marking
  <2>1. CASE Confirmable(q) \/ Look(q) \/ Insert(q) \/ InsertFails(q) \/ CreateAck(q)
    BY <2>1 DEF Confirmable, Look, Insert, InsertFails, CreateAck, Found
  <2>2. CASE Verify(q) \/ Timeout(q)
    BY <2>2 DEF Verify, Timeout, Found
  <2>3. CASE Mark(q) \/ MarkFails(q) \/ MarkAck(q) \/ Remark(q) \/ GiveUp(q)
    BY <2>3 DEF Mark, MarkFails, MarkAck, Remark, GiveUp
  <2> QED
    BY <1>4, <2>1, <2>2, <2>3 DEF Step
<1>5. CASE Resolve \/ Disown \/ Close
  <2>1. CASE Commit
    <3>1. owner.to \in {"none", "offered", "completed", "ended"} /\ owner' \in Lock
      BY <2>1 DEF Commit, Lock, Free
    <3>2. action' \in [Turns -> {"none", "offered", "completed"}]
      BY <2>1 DEF Commit
    <3>3. audit' \in [Turns -> {"none", "pending", "completed", "ended"}]
      BY <2>1, <3>1 DEF Commit
    <3> QED
      BY <2>1, <3>1, <3>2, <3>3 DEF Commit
  <2>2. CASE Rollback
    BY <2>2 DEF Rollback, Lock, Free
  <2>3. CASE Close
    <3>1. owner' \in Lock
      BY <2>3 DEF Close
    <3> QED
      BY <2>3, <3>1 DEF Close
  <2>4. CASE Disown
    BY <2>4 DEF Disown, Lock
  <2> QED
    BY <1>5, <2>1, <2>2, <2>3, <2>4 DEF Resolve
<1>6. CASE Crash
  BY <1>6 DEF Crash, Lock, TurnPCs, ConfirmPCs
<1>7. CASE UNCHANGED vars
  BY <1>7 DEF vars
<1> QED
  BY <1>1, <1>2, <1>3, <1>4, <1>5, <1>6, <1>7 DEF Next

-----------------------------------------------------------------------------
(* Each group of actions preserves the rest of the invariant. *)

\* What an accepted action has gained is never lost.
Kept ==
  /\ ticket \subseteq ticket'
  /\ \A t \in Turns :
       /\ Accepted(t) => Accepted(t)'
       /\ action[t] = "completed" => action'[t] = "completed"

\* A step of the turn leaves confirmations alone.
LEMMA TurnSafe ==
  ASSUME IInv, NEW t \in Turns, Start(t) \/ TurnStep(t) \/ Interrupt(t), TypeOK'
  PROVE  IInv'
<1> USE ActorsAssumption
<1> USE DEF IInv, TypeOK, rows, locks, turns, confirms
<1>1. UNCHANGED <<action, ticket, inserter, marker, confirms>>
  BY DEF Start, TurnStep, Interrupt, Offer, NoOffer, OfferAck, Finish, FinishAck,
     Show, Fail, Cleanup, CleanupAck, CloseTurn, TurnGoto, Write
<1>2. /\ \A u \in Turns : audit[u] = "completed" => audit'[u] = "completed"
      /\ EarlyTurn'
      /\ LockedWrite'
  <2>1. CASE Start(t)
    BY <2>1 DEF Start, TurnGoto, EarlyTurn, LockedWrite, Free
  <2>2. CASE Offer(t)
    BY <2>2 DEF Offer, TurnGoto, Write, EarlyTurn, LockedWrite, Free
  <2>3. CASE Finish(t) \/ Cleanup(t) \/ Interrupt(t)
    BY <2>3 DEF Finish, Cleanup, Interrupt, CloseTurn, TurnGoto, Write, EarlyTurn,
       LockedWrite, Free
  <2>4. CASE NoOffer(t) \/ OfferAck(t) \/ FinishAck(t) \/ Show(t) \/ Fail(t) \/ CleanupAck(t)
    BY <2>4 DEF NoOffer, OfferAck, FinishAck, Show, Fail, CleanupAck, TurnGoto,
       EarlyTurn, LockedWrite
  <2> QED
    BY <2>1, <2>2, <2>3, <2>4 DEF TurnStep
<1>3. TicketRows' /\ MarkedRows' /\ AttemptsDoNotOverlap'
  BY <1>1, <1>2 DEF TicketRows, MarkedRows, AttemptsDoNotOverlap, Accepted
<1>4. \A q \in Confirms : Progress(q)'
  BY <1>1, <1>2 DEF Progress, Accepted, LiveConfirm, Attempting
<1> QED
  BY <1>2, <1>3, <1>4

\* The server decides, a connection is lost, an operator closes, or nothing
\* happens: no coroutine moves.
LEMMA ServerSafe ==
  ASSUME IInv, TypeOK',
         \/ Resolve \/ Disown \/ Close \/ UNCHANGED vars
         \/ \E t \in Turns : Disconnect(t) \/ ResolveTicket(t) \/ ResolveMark(t)
  PROVE  IInv'
<1> USE ActorsAssumption
<1> USE DEF IInv, TypeOK, rows, locks, turns, confirms
<1>1. UNCHANGED <<tpc, confirms>>
  BY DEF Resolve, Commit, Rollback, Disown, Close, vars, Disconnect, ResolveTicket,
     CommitTicket, RollbackTicket, ResolveMark, CommitMark, RollbackMark
<1> DEFINE Goal ==
      /\ Kept /\ EarlyTurn' /\ LockedWrite' /\ TicketRows' /\ MarkedRows'
      /\ \A t \in Turns : inserter'[t] \in Confirms => inserter'[t] = inserter[t]
<1>2. Goal
  <2>1. CASE Resolve
    BY <1>1, <2>1 DEF Resolve, Commit, Rollback, Kept, Accepted, EarlyTurn, LockedWrite,
       TicketRows, MarkedRows, Free
  <2>2. CASE Disown \/ Close \/ UNCHANGED vars
    <3>1. /\ UNCHANGED <<audit, action, ticket, inserter, marker>>
          /\ owner'.turn = owner.turn /\ owner'.to = owner.to
          /\ owner = Free => owner' = Free
      BY <2>2 DEF Disown, Close, vars, Lock, Free
    <3> QED
      BY <1>1, <3>1 DEF Kept, Accepted, EarlyTurn, LockedWrite, TicketRows, MarkedRows
  <2>3. ASSUME NEW t \in Turns, Disconnect(t)
        PROVE  Goal
    BY <1>1, <2>3 DEF Disconnect, Kept, Accepted, EarlyTurn, LockedWrite, TicketRows,
       MarkedRows
  <2>4. ASSUME NEW t \in Turns, ResolveTicket(t)
        PROVE  Goal
    BY <1>1, <2>4 DEF ResolveTicket, CommitTicket, RollbackTicket, Kept, Accepted,
       EarlyTurn, LockedWrite, TicketRows, MarkedRows
  <2>5. ASSUME NEW t \in Turns, ResolveMark(t)
        PROVE  Goal
    BY <1>1, <2>5 DEF ResolveMark, CommitMark, RollbackMark, Kept, Accepted, EarlyTurn,
       LockedWrite, TicketRows, MarkedRows
  <2> HIDE DEF Goal, IInv, TypeOK
  <2> QED
    BY <2>1, <2>2, <2>3, <2>4, <2>5
<1>3. \A q \in Confirms : Progress(q)'
  BY <1>1, <1>2 DEF Progress, Kept, LiveConfirm, Attempting
<1>4. AttemptsDoNotOverlap'
  BY <1>1, <1>2 DEF AttemptsDoNotOverlap
<1> QED
  BY <1>2, <1>3, <1>4

\* A step of a confirmation changes no row of the turn.
LEMMA ConfirmSafe ==
  ASSUME IInv, TypeOK', NEW q \in Confirms,
         Step(q) \/ \E t \in Turns : Ask(q, t)
  PROVE  IInv'
<1> USE ActorsAssumption
<1> USE DEF IInv, TypeOK, rows, locks, turns, confirms
<1> USE DEF Goto, Answer, Retry, Found
<1>1. UNCHANGED <<rows, owner, turns>>
  BY DEF Step, Ask, Confirmable, Look, Insert, InsertFails, CreateAck, Verify, Timeout,
     Mark, MarkFails, MarkAck, Remark, GiveUp
<1>2. EarlyTurn' /\ LockedWrite'
  BY <1>1 DEF EarlyTurn, LockedWrite
<1> DEFINE Goal ==
      /\ TicketRows' /\ MarkedRows' /\ AttemptsDoNotOverlap'
      /\ Progress(q)'
      /\ \A p \in Confirms \ {q} :
           pc'[p] = pc[p] /\ target'[p] = target[p] /\ reply'[p] = reply[p]
<1>3. Goal
  <2> USE DEF TicketRows, MarkedRows, AttemptsDoNotOverlap, Progress, Accepted,
          LiveConfirm, Attempting, Marking
  <2>1. ASSUME NEW t \in Turns, Ask(q, t)
        PROVE  Goal
    BY <1>1, <2>1 DEF Ask
  <2>2. CASE Confirmable(q)
    BY <1>1, <2>2 DEF Confirmable, IsConfirmable
  <2>3. CASE Look(q) \/ InsertFails(q) \/ CreateAck(q)
    BY <1>1, <2>3 DEF Look, InsertFails, CreateAck
  <2>4. CASE Insert(q)
    BY <1>1, <2>4 DEF Insert
  <2>5. CASE Verify(q) \/ Timeout(q)
    BY <1>1, <2>5 DEF Verify, Timeout
  <2>6. CASE Mark(q)
    BY <1>1, <2>6 DEF Mark
  <2>7. CASE MarkFails(q) \/ MarkAck(q) \/ Remark(q) \/ GiveUp(q)
    BY <1>1, <2>7 DEF MarkFails, MarkAck, Remark, GiveUp
  <2> HIDE DEF Goal, IInv, TypeOK, TicketRows, MarkedRows, AttemptsDoNotOverlap,
           Progress, Accepted, Goto, Answer, Retry, Found
  <2> QED
    BY <2>1, <2>2, <2>3, <2>4, <2>5, <2>6, <2>7 DEF Step
<1>4. \A p \in Confirms : Progress(p)'
  BY <1>1, <1>3 DEF Progress, Accepted, LiveConfirm, Attempting
<1> QED
  BY <1>2, <1>3, <1>4

\* A crash forgets coroutines and keeps rows.
LEMMA CrashSafe ==
  ASSUME IInv, TypeOK', Crash
  PROVE  IInv'
<1> USE ActorsAssumption
<1> USE DEF IInv, TypeOK, rows
<1>1. /\ UNCHANGED <<rows, reply>>
      /\ \A q \in Confirms : pc[q] \notin LiveConfirm => target'[q] = target[q]
  BY DEF Crash
<1>2. /\ \A t \in Turns : tpc'[t] \in {tpc[t], "over"}
      /\ owner'.turn = owner.turn /\ owner'.to = owner.to
      /\ owner' # Free => owner # Free
  BY DEF Crash, Free, Lock
<1>3. /\ \A t \in Turns : inserter'[t] \notin Confirms
      /\ \A t \in Turns : inserter'[t] # NoOne => inserter[t] # NoOne
      /\ \A t \in Turns : marker'[t] # NoOne => marker[t] # NoOne
  BY DEF Crash
<1>4. \A q \in Confirms : pc'[q] \notin LiveConfirm /\ (pc[q] = "over" => pc'[q] = "over")
  BY DEF Crash, LiveConfirm, Attempting, Marking
<1>5. EarlyTurn' /\ LockedWrite'
  BY <1>1, <1>2 DEF EarlyTurn, LockedWrite
<1>6. TicketRows' /\ MarkedRows' /\ AttemptsDoNotOverlap'
  BY <1>1, <1>3 DEF TicketRows, MarkedRows, AttemptsDoNotOverlap, Accepted
<1>7. \A q \in Confirms : Progress(q)'
  BY <1>1, <1>4 DEF Progress, LiveConfirm, Attempting, Marking
<1> QED
  BY <1>5, <1>6, <1>7

-----------------------------------------------------------------------------
LEMMA IInvAlways == Spec => []IInv
<1>1. ASSUME Init
      PROVE  IInv
  <2>1. TypeOK
    <3>1. attempt \in [Confirms -> 0..MaxAttempts]
      BY <1>1, AttemptsAssumption DEF Init
    <3>2. owner \in Lock
      BY <1>1 DEF Init, Lock, Free
    <3> QED
      BY <1>1, <3>1, <3>2 DEF Init, TypeOK, ConfirmPCs, TurnPCs
  <2>2. EarlyTurn /\ LockedWrite /\ TicketRows /\ MarkedRows /\ AttemptsDoNotOverlap
    BY <1>1, ActorsAssumption DEF Init, EarlyTurn, LockedWrite, TicketRows, MarkedRows,
       AttemptsDoNotOverlap, Free
  <2>3. \A q \in Confirms : Progress(q)
    BY <1>1 DEF Init, Progress, LiveConfirm, Attempting, Marking
  <2> QED
    BY <2>1, <2>2, <2>3 DEF IInv
<1>2. IInv /\ [Next]_vars => IInv'
  <2> SUFFICES ASSUME IInv, [Next]_vars
               PROVE  IInv'
    OBVIOUS
  <2>1. TypeOK'
    BY TypeStep DEF IInv
  <2> QED
    BY <2>1, TurnSafe, ServerSafe, ConfirmSafe, CrashSafe DEF Next
<1> QED
  BY <1>1, <1>2, PTL DEF Spec

\* Every variable keeps its type.
THEOREM TypeCorrect == Spec => []TypeOK
<1>1. IInv => TypeOK
  BY DEF IInv
<1> QED
  BY <1>1, IInvAlways, PTL

\* A ticket exists only for an action that a completed turn offered.
THEOREM TicketsAccepted == Spec => []TicketWasConfirmable
<1>1. IInv => TicketWasConfirmable
  BY DEF IInv, TypeOK, TicketRows, Accepted, TicketWasConfirmable
<1> QED
  BY <1>1, IInvAlways, PTL

\* A client that was answered "completed" has its ticket and its action.
THEOREM RepliesTrue == Spec => []ReplyTruth
<1>1. IInv => ReplyTruth
  BY DEF IInv, Progress, ReplyTruth
<1> QED
  BY <1>1, IInvAlways, PTL

\* The executor never runs two attempts of one confirmation at a time.
THEOREM NoOverlap == Spec => []AttemptsDoNotOverlap
<1>1. IInv => AttemptsDoNotOverlap
  BY DEF IInv
<1> QED
  BY <1>1, IInvAlways, PTL

-----------------------------------------------------------------------------
(* Offers. *)

\* What a turn has told the client, or is about to, is on disk.
OffersMade ==
  /\ offers \subseteq {t \in Turns : action[t] # "none"}
  /\ \A t \in Turns :
       /\ tpc[t] \in {"save", "shown"} => audit[t] = "completed"
       /\ tpc[t] = "shown" => t \in offers

\* Closing waits for an offer that is on its way.
NoneOnItsWay == owner # Free /\ owner.to = "offered" => ~closed

OfferInv == OffersMade /\ NoneOnItsWay

\* A completed turn and a stored action stay, whoever moves.
LEMMA RowsStay ==
  ASSUME IInv, [Next]_vars, NEW t \in Turns
  PROVE  /\ audit[t] = "completed" => audit'[t] = "completed"
         /\ action[t] # "none" => action'[t] # "none"
<1> USE DEF IInv, TypeOK, rows, locks, turns, confirms
<1>1. ASSUME NEW u \in Turns, Start(u)
      PROVE  UNCHANGED action /\ (audit[t] = "completed" => audit'[t] = "completed")
  BY <1>1 DEF Start, EarlyTurn
<1>2. CASE Resolve
  BY <1>2 DEF Resolve, Commit, Rollback, LockedWrite
<1>3. ASSUME NEW u \in Turns, ResolveMark(u)
      PROVE  UNCHANGED audit /\ (action[t] # "none" => action'[t] # "none")
  BY <1>3 DEF ResolveMark, CommitMark, RollbackMark
<1>4. ASSUME NEW u \in Turns, TurnStep(u) \/ Interrupt(u) \/ Disconnect(u) \/ ResolveTicket(u)
      PROVE  UNCHANGED <<audit, action>>
  BY <1>4 DEF TurnStep, Interrupt, Offer, NoOffer, OfferAck, Finish, FinishAck, Show,
     Fail, Cleanup, CleanupAck, CloseTurn, Disconnect, ResolveTicket, CommitTicket,
     RollbackTicket
<1>5. ASSUME NEW q \in Confirms, Step(q) \/ \E u \in Turns : Ask(q, u)
      PROVE  UNCHANGED <<audit, action>>
  BY <1>5 DEF Step, Ask, Confirmable, Look, Insert, InsertFails, CreateAck, Verify,
     Timeout, Mark, MarkFails, MarkAck, Remark, GiveUp
<1>6. CASE Disown \/ Close \/ Crash \/ UNCHANGED vars
  BY <1>6 DEF Disown, Close, Crash, vars
<1> HIDE DEF IInv, TypeOK
<1> QED
  BY <1>1, <1>2, <1>3, <1>4, <1>5, <1>6 DEF Next

\* OfferInv survives every step.
LEMMA OfferStep ==
  ASSUME IInv, OfferInv, [Next]_vars
  PROVE  OfferInv'
<1> USE DEF IInv, TypeOK, rows, locks, turns, confirms
<1>1. ASSUME NEW t \in Turns, Start(t) \/ TurnStep(t)
      PROVE  OfferInv'
  <2>1. \A u \in Turns : /\ audit[u] = "completed" => audit'[u] = "completed"
                         /\ action[u] # "none" => action'[u] # "none"
    BY RowsStay, <1>1 DEF Next
  <2>2. CASE Start(t)
    BY <2>1, <2>2 DEF Start, TurnGoto, OfferInv, OffersMade, NoneOnItsWay
  <2>3. CASE Offer(t) \/ NoOffer(t)
    BY <2>1, <2>3 DEF Offer, NoOffer, TurnGoto, Write, OfferInv, OffersMade, NoneOnItsWay
  <2>4. CASE OfferAck(t)
    BY <2>1, <2>4 DEF OfferAck, TurnGoto, OfferInv, OffersMade, NoneOnItsWay
  <2>5. CASE Finish(t) \/ Cleanup(t)
    BY <2>1, <2>5 DEF Finish, Cleanup, CloseTurn, TurnGoto, Write, OfferInv, OffersMade,
       NoneOnItsWay
  <2>6. CASE FinishAck(t) \/ Show(t)
    BY <2>1, <2>6 DEF FinishAck, Show, TurnGoto, OfferInv, OffersMade, NoneOnItsWay
  <2>7. CASE Fail(t) \/ CleanupAck(t)
    BY <2>1, <2>7 DEF Fail, CleanupAck, TurnGoto, OfferInv, OffersMade, NoneOnItsWay
  <2> QED
    BY <1>1, <2>2, <2>3, <2>4, <2>5, <2>6, <2>7 DEF TurnStep
<1>2. ASSUME UNCHANGED turns,
             \/ owner' = Free
             \/ /\ closed' = closed
                /\ owner'.to = "offered" => owner # Free /\ owner.to = "offered"
      PROVE  OfferInv'
  <2>1. \A u \in Turns : /\ audit[u] = "completed" => audit'[u] = "completed"
                         /\ action[u] # "none" => action'[u] # "none"
    BY RowsStay
  <2>2. OffersMade'
    BY <1>2, <2>1 DEF OfferInv, OffersMade
  <2>3. NoneOnItsWay'
    BY <1>2 DEF OfferInv, NoneOnItsWay
  <2> QED
    BY <2>2, <2>3 DEF OfferInv
<1>3. ASSUME NEW t \in Turns, Interrupt(t) \/ Disconnect(t) \/ ResolveTicket(t) \/ ResolveMark(t)
      PROVE  OfferInv'
  BY <1>2, <1>3 DEF Interrupt, Write, Free, Disconnect, ResolveTicket, CommitTicket,
     RollbackTicket, ResolveMark, CommitMark, RollbackMark
<1>4. ASSUME NEW q \in Confirms, Step(q) \/ \E t \in Turns : Ask(q, t)
      PROVE  OfferInv'
  <2>1. UNCHANGED <<turns, owner, closed>>
    BY <1>4 DEF Step, Ask, Confirmable, Look, Insert, InsertFails, CreateAck, Verify,
       Timeout, Mark, MarkFails, MarkAck, Remark, GiveUp
  <2> QED
    BY <1>2, <2>1
<1>5. CASE Resolve \/ Close \/ UNCHANGED vars
  BY <1>2, <1>5 DEF Resolve, Commit, Rollback, Close, vars, Free
<1>6. CASE Disown
  BY <1>2, <1>6, ActorsAssumption DEF Disown, Free, Lock
<1>7. CASE Crash
  <2>1. /\ UNCHANGED <<rows, offers>>
        /\ \A t \in Turns : tpc'[t] = tpc[t] \/ tpc'[t] = "over"
    BY <1>7 DEF Crash
  <2>2. owner'.to = owner.to /\ (owner' # Free => owner # Free)
    BY <1>7, ActorsAssumption DEF Crash, Free, Lock
  <2> QED
    BY <2>1, <2>2 DEF OfferInv, OffersMade, NoneOnItsWay
<1> HIDE DEF IInv, TypeOK
<1> QED
  BY <1>1, <1>3, <1>4, <1>5, <1>6, <1>7 DEF Next

\* No action appears in a closed conversation.
LEMMA NoneAfterClose ==
  ASSUME IInv, OfferInv, [Next]_vars, closed, NEW t \in Turns, action[t] = "none"
  PROVE  action'[t] = "none"
<1> USE DEF IInv, TypeOK, rows, locks, turns, confirms
<1>1. CASE Resolve
  BY <1>1 DEF Resolve, Commit, Rollback, OfferInv, NoneOnItsWay
<1>2. ASSUME NEW u \in Turns, ResolveMark(u)
      PROVE  action'[t] = "none"
  BY <1>2 DEF ResolveMark, CommitMark, RollbackMark, MarkedRows, TicketRows, Accepted
<1>3. ASSUME NEW u \in Turns, \/ Start(u) \/ TurnStep(u) \/ Interrupt(u) \/ Disconnect(u)
                              \/ ResolveTicket(u)
      PROVE  UNCHANGED action
  BY <1>3 DEF Start, TurnStep, Interrupt, Offer, NoOffer, OfferAck, Finish, FinishAck, Show,
     Fail, Cleanup, CleanupAck, CloseTurn, Disconnect, ResolveTicket, CommitTicket,
     RollbackTicket
<1>4. ASSUME NEW q \in Confirms, Step(q) \/ \E u \in Turns : Ask(q, u)
      PROVE  UNCHANGED action
  BY <1>4 DEF Step, Ask, Confirmable, Look, Insert, InsertFails, CreateAck, Verify,
     Timeout, Mark, MarkFails, MarkAck, Remark, GiveUp
<1>5. CASE Disown \/ Close \/ Crash \/ UNCHANGED vars
  BY <1>5 DEF Disown, Close, Crash, vars
<1> HIDE DEF IInv, TypeOK
<1> QED
  BY <1>1, <1>2, <1>3, <1>4, <1>5 DEF Next

\* An offer that was shown is not refused in an open conversation.
LEMMA ShownIsAccepted ==
  ASSUME IInv, OfferInv, [Next]_vars, NEW q \in Confirms,
         pc[q] = "confirmable", tpc[target[q]] = "shown", ~closed
  PROVE  reply'[q] # "refused"
<1> USE DEF IInv, TypeOK, rows, locks, turns, confirms
<1>1. reply[q] = "none" /\ target[q] \in Turns
  BY DEF Progress, LiveConfirm
<1>2. audit[target[q]] = "completed" /\ action[target[q]] # "none"
  BY <1>1 DEF OfferInv, OffersMade
<1>3. CASE UNCHANGED reply
  BY <1>1, <1>3
<1>4. ASSUME NEW p \in Confirms, Step(p)
      PROVE  reply'[q] # "refused"
  <2>1. CASE Confirmable(p)
    BY <1>1, <1>2, <2>1 DEF Confirmable, IsConfirmable, Answer
  <2>2. CASE ~Confirmable(p)
    BY <1>1, <1>4, <2>2 DEF Step, Look, Insert, InsertFails, CreateAck, Verify, Timeout,
       Mark, MarkFails, MarkAck, Remark, GiveUp, Answer, Retry
  <2> QED
    BY <2>1, <2>2
<1>5. ~(\E p \in Confirms : Step(p)) => UNCHANGED reply
  BY DEF Next, Start, TurnStep, Interrupt, Disconnect, ResolveTicket, CommitTicket,
     RollbackTicket, ResolveMark, CommitMark, RollbackMark, Offer, NoOffer, OfferAck, Finish,
     FinishAck, Show, Fail, Cleanup, CleanupAck, CloseTurn, Ask, Resolve, Commit, Rollback,
     Disown, Close, Crash, vars
<1> QED
  BY <1>3, <1>4, <1>5

\* No offer is made after the conversation is closed, not by a late COMMIT
\* either, and an offer the client has seen is accepted while it is open.
THEOREM OffersKept == Spec => OffersAreKept
<1>1. Init => OfferInv
  BY DEF Init, OfferInv, OffersMade, NoneOnItsWay, Free
<1>2. IInv /\ OfferInv /\ [Next]_vars => OfferInv'
  BY OfferStep
<1>3. Spec => [](IInv /\ OfferInv)
  BY <1>1, <1>2, IInvAlways, PTL DEF Spec
<1>4. IInv /\ OfferInv /\ [Next]_vars
        => [\A t \in Turns : closed /\ action[t] = "none" => action'[t] = "none"]_vars
  BY NoneAfterClose
<1>5. IInv /\ OfferInv /\ [Next]_vars
        => [\A q \in Confirms :
              /\ pc[q] = "confirmable"
              /\ tpc[target[q]] = "shown"
              /\ ~closed
              => reply'[q] # "refused"]_vars
  BY ShownIsAccepted
<1> QED
  BY <1>3, <1>4, <1>5, PTL DEF Spec, OffersAreKept, NoOfferAfterClose, ShownIsConfirmable
=============================================================================
