----------------------------- MODULE LowConfidence -----------------------------
(***************************************************************************)
(* LowConfidenceRepository.record_once of one turn, called by several      *)
(* coroutines at once: a transaction checks the question, looks for the    *)
(* turn's record and inserts one under the unique key; whatever the driver *)
(* raises is answered by one fresh transaction that only looks.            *)
(***************************************************************************)
EXTENDS Naturals, FiniteSets

CONSTANTS
  Callers,    \* coroutines that record the turn's question
  Questions,  \* texts they may record
  Said,       \* contents of the turn's user messages
  None,       \* no row
  MaxFaults   \* bound on statements that fail for another reason than the key

ASSUME SaidAssumption == Said \subseteq Questions
ASSUME FaultsAssumption == MaxFaults \in Nat

Row == [id: Nat \ {0}, question: Questions]

ASSUME NoneAssumption == None \notin Row

VARIABLES
  asks,     \* caller: the question it passes
  at,       \* caller: "start", "checked", "insert", "flushed", "recover",
            \* "rechecked" or "done"
  view,     \* caller: the rows its transaction's snapshot shows
  held,     \* caller: the row it has flushed and not committed, or None
  answer,   \* caller: 0 while it runs, the id, or an error's code
  table,    \* committed rows of the turn
  nextId,   \* AUTO_INCREMENT, which a rollback does not give back
  spoiled,  \* callers that met such a failure
  faults    \* how many there were

db == <<table, nextId>>
trouble == <<spoiled, faults>>
vars == <<asks, at, view, held, answer, table, nextId, spoiled, faults>>

Errors == {"LOW_CONFIDENCE_TURN_MISMATCH", "DATABASE_ERROR", "cancelled"}

TypeOK ==
  /\ asks \in [Callers -> Questions]
  /\ at \in [Callers -> {"start", "checked", "insert", "flushed", "recover",
                         "rechecked", "done"}]
  /\ view \in [Callers -> SUBSET Row]
  /\ held \in [Callers -> Row \union {None}]
  /\ answer \in [Callers -> [id: Nat] \union [error: Errors]]
  /\ table \subseteq Row
  /\ nextId \in Nat \ {0}
  /\ spoiled \subseteq Callers
  /\ faults \in Nat

Pending == [id |-> 0]   \* record_once has not returned

Init ==
  /\ asks \in [Callers -> Questions]
  /\ at = [c \in Callers |-> "start"]
  /\ view = [c \in Callers |-> {}]
  /\ held = [c \in Callers |-> None]
  /\ answer = [c \in Callers |-> Pending]
  /\ table = {}
  /\ nextId = 1
  /\ spoiled = {}
  /\ faults = 0

Go(c, place) == at' = [at EXCEPT ![c] = place]

\* Mutant: the transaction is left open when the call ends.
LeaveOpen(c, result) == /\ Go(c, "done")
                        /\ answer' = [answer EXCEPT ![c] = result]
                        /\ UNCHANGED held

(* The call ends, and its transaction with it. *)
End(c, result) == /\ Go(c, "done")
                  /\ answer' = [answer EXCEPT ![c] = result]
                  /\ held' = [held EXCEPT ![c] = None]

Error(code) == [error |-> code]

-----------------------------------------------------------------------------
\* Mutant: the recovery goes on in the transaction whose insert has failed.
SameSnapshot(c, from, to) ==
  /\ at[c] = from
  /\ IF asks[c] \in Said
       THEN /\ Go(c, to)
            /\ view' = [view EXCEPT ![c] = IF from = "recover" THEN @ ELSE table]
            /\ UNCHANGED <<held, answer>>
       ELSE End(c, Error("LOW_CONFIDENCE_TURN_MISMATCH")) /\ UNCHANGED view
  /\ UNCHANGED <<asks, db, trouble>>

-----------------------------------------------------------------------------
(* _validate_turn: the first read of a transaction, and so its snapshot. *)
ValidateTurn(c, from, to) ==
  /\ at[c] = from
  /\ IF asks[c] \in Said
       THEN /\ Go(c, to)
            /\ view' = [view EXCEPT ![c] = table]
            /\ UNCHANGED <<held, answer>>
       ELSE End(c, Error("LOW_CONFIDENCE_TURN_MISMATCH")) /\ UNCHANGED view
  /\ UNCHANGED <<asks, db, trouble>>

(* _existing: the turn's record as the snapshot shows it, else go on. *)
Existing(c, from, Otherwise) ==
  /\ at[c] = from
  /\ \/ \E row \in view[c] : End(c, [id |-> row.id])
     \/ view[c] = {} /\ Otherwise
  /\ UNCHANGED <<asks, view, db, trouble>>

First(c) == Existing(c, "checked", Go(c, "insert") /\ UNCHANGED <<held, answer>>)

(* _recover_unique_race looks again and inserts nothing. *)
Again(c) == Existing(c, "rechecked", End(c, Error("DATABASE_ERROR")))

\* Mutant: the table has no unique key.
InsertAnyway(c) ==
  /\ at[c] = "insert"
  /\ Go(c, "flushed")
  /\ held' = [held EXCEPT ![c] = [id |-> nextId, question |-> asks[c]]]
  /\ nextId' = nextId + 1
  /\ UNCHANGED <<asks, view, answer, table, trouble>>

(* flush: the insert waits for whoever holds the key, and finds it taken or *)
(* takes it.                                                                *)
Insert(c) ==
  /\ at[c] = "insert"
  /\ \A d \in Callers : held[d] = None
  /\ nextId' = nextId + 1
  /\ \/ /\ table = {}
        /\ Go(c, "flushed")
        /\ held' = [held EXCEPT ![c] = [id |-> nextId, question |-> asks[c]]]
     \/ /\ table # {}
        /\ Go(c, "recover")
        /\ UNCHANGED held
  /\ UNCHANGED <<asks, view, answer, table, trouble>>

(* The end of the with block commits before record_once returns the id. *)
Commit(c) ==
  /\ at[c] = "flushed"
  /\ table' = table \union {held[c]}
  /\ End(c, [id |-> held[c].id])
  /\ UNCHANGED <<asks, view, nextId, trouble>>

(* A statement fails (a deadlock's victim, a lost connection), its          *)
(* transaction is rolled back; a commit may have been made all the same.    *)
Fail(c) ==
  /\ at[c] # "done" /\ faults < MaxFaults
  /\ IF at[c] \in {"recover", "rechecked"}
       THEN End(c, Error("DATABASE_ERROR"))
       ELSE Go(c, "recover") /\ held' = [held EXCEPT ![c] = None] /\ UNCHANGED answer
  /\ \/ UNCHANGED table
     \/ at[c] = "flushed" /\ table' = table \union {held[c]}
  /\ spoiled' = spoiled \union {c}
  /\ faults' = faults + 1
  /\ UNCHANGED <<asks, view, nextId>>

(* The caller is cancelled: the transaction is rolled back, or a commit on  *)
(* its way is made; there is no recovery.                                   *)
Cancel(c) ==
  /\ at[c] # "done"
  /\ End(c, Error("cancelled"))
  /\ \/ UNCHANGED table
     \/ at[c] = "flushed" /\ table' = table \union {held[c]}
  /\ UNCHANGED <<asks, view, nextId, trouble>>

RecordOnce(c) ==
  \/ ValidateTurn(c, "start", "checked") \/ First(c) \/ Insert(c) \/ Commit(c)
  \/ ValidateTurn(c, "recover", "rechecked") \/ Again(c)

Next == \E c \in Callers : RecordOnce(c) \/ Fail(c) \/ Cancel(c)

Spec == Init /\ [][Next]_vars

(* The database answers every statement that waits for nothing; a lock is   *)
(* given back by whoever holds it, for it too is answered.                  *)
FairSpec == Spec /\ \A c \in Callers : WF_vars(RecordOnce(c))

-----------------------------------------------------------------------------
(* Properties *)

(* However many callers record one turn, with whatever failures and        *)
(* cancellations, the turn has at most one record.                         *)
OneRecord == Cardinality(table) <= 1

(* An id a caller was given is that of a committed record: a rollback, a   *)
(* lost commit or a lost race never lets record_once return another id, so *)
(* all callers are told the same one.                                      *)
ReturnedIsDurable ==
  \A c \in Callers :
    "id" \in DOMAIN answer[c] /\ answer[c] # Pending
      => \E row \in table : row.id = answer[c].id

(* Only a text the user said in this turn is recorded, and only a caller   *)
(* that passes such a text learns the record's id.                         *)
OnlyWhatWasSaid ==
  /\ \A row \in table : row.question \in Said
  /\ \A c \in Callers :
       "id" \in DOMAIN answer[c] /\ answer[c] # Pending => asks[c] \in Said

(* A caller that loses the race for the key, and whose own statements did  *)
(* not fail, is never told DATABASE_ERROR: its second transaction sees the *)
(* winner's record.                                                        *)
LosersFindTheRecord ==
  \A c \in Callers : answer[c] = Error("DATABASE_ERROR") => c \in spoiled

(* What record_once tells its callers is so: an id is that of the turn's    *)
(* record, only a caller of a true text learns it, and a lost race is no    *)
(* error.                                                                   *)
AnswersAreTrue == ReturnedIsDurable /\ OnlyWhatWasSaid /\ LosersFindTheRecord

(* A caller that is neither cancelled nor failing gets the id or is told   *)
(* that the text is not the user's; the wait for the key always ends.      *)
CallsEnd == \A c \in Callers : <>(at[c] = "done")

-----------------------------------------------------------------------------
(* The turn's record is written once: whoever wins the key, whatever fails *)
(* or is cancelled, each caller is answered once, with the id of the only  *)
(* record there will ever be, or with an error.                            *)
Promise == INSTANCE WriteOnce WITH
  Values   <- [id: Nat \ {0}],
  Waiting  <- Pending,
  Refusals <- [error: Errors],
  written  <- {[id |-> row.id] : row \in table},
  told     <- answer
PromiseSpec == Promise!Spec
=============================================================================
