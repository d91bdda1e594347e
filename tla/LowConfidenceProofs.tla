-------------------------- MODULE LowConfidenceProofs --------------------------
(***************************************************************************)
(* The theorems of LowConfidence: for any number of callers, texts and     *)
(* failures record_once keeps the promise of WriteOnce.  And those of      *)
(* LegacyTurn, the service that answers a refusal only once record_once    *)
(* has returned.                                                           *)
(***************************************************************************)
EXTENDS LowConfidence, LegacyTurn, FiniteSetTheorems, TLAPS

(* The row a caller has flushed is the only one of the turn anywhere, for  *)
(* it holds the key; it carries its holder's text.                         *)
HoldsTheKey(c) ==
  held[c] # None =>
    /\ at[c] = "flushed"
    /\ table = {}
    /\ held[c].question = asks[c]
    /\ \A d \in Callers : held[d] # None => d = c

(* Whoever is past the check, or knows an id, has said its text.           *)
Checked(c) ==
  at[c] \in {"checked", "insert", "flushed", "rechecked"} => asks[c] \in Said

Told(c) ==
  \/ answer[c] = Pending
  \/ answer[c] \in [error: Errors] /\ at[c] = "done"
  \/ /\ at[c] = "done"
     /\ asks[c] \in Said
     /\ \E row \in table : answer[c] = [id |-> row.id]

IInv ==
  /\ TypeOK
  /\ table = {} \/ \E row \in Row : table = {row} /\ row.question \in Said
  /\ \A c \in Callers :
       /\ HoldsTheKey(c)
       /\ Checked(c)
       /\ Told(c)
       /\ view[c] \subseteq table
       /\ at[c] = "flushed" => held[c] # None
       /\ at[c] # "done" => answer[c] = Pending

-----------------------------------------------------------------------------
(* Type correctness of every step. *)
LEMMA InitTypeOK == Init => TypeOK
BY DEF Init, TypeOK, Pending

LEMMA EndTypes ==
  ASSUME TypeOK, NEW c \in Callers,
         NEW result \in [id: Nat] \union [error: Errors], End(c, result)
  PROVE  /\ at' \in [Callers -> {"start", "checked", "insert", "flushed",
                                 "recover", "rechecked", "done"}]
         /\ held' \in [Callers -> Row \union {None}]
         /\ answer' \in [Callers -> [id: Nat] \union [error: Errors]]
BY DEF TypeOK, End, Go

LEMMA Codes ==
  /\ Error("LOW_CONFIDENCE_TURN_MISMATCH") \in [error: Errors]
  /\ Error("DATABASE_ERROR") \in [error: Errors]
  /\ Error("cancelled") \in [error: Errors]
BY DEF Error, Errors

Flushed == \A c \in Callers : at[c] = "flushed" => held[c] # None

LEMMA StepTypes == TypeOK /\ Flushed /\ [Next]_vars => TypeOK'
<1> SUFFICES ASSUME TypeOK, Flushed, [Next]_vars PROVE TypeOK'
  OBVIOUS
<1>1. ASSUME NEW c \in Callers, NEW from, NEW to \in {"checked", "rechecked"},
             ValidateTurn(c, from, to)
      PROVE  TypeOK'
  <2>1. CASE asks[c] \in Said
    BY <1>1, <2>1 DEF ValidateTurn, Go, TypeOK, db, trouble
  <2>2. CASE asks[c] \notin Said
    BY <1>1, <2>2, Codes, EndTypes DEF ValidateTurn, TypeOK, db, trouble
  <2> QED BY <2>1, <2>2
<1>2. ASSUME NEW c \in Callers, First(c) PROVE TypeOK'
  <2>1. ASSUME NEW row \in view[c], End(c, [id |-> row.id]) PROVE TypeOK'
    <3>1. [id |-> row.id] \in [id: Nat]
      BY <2>1 DEF TypeOK, Row
    <3> QED BY <1>2, <2>1, <3>1, EndTypes DEF First, Existing, TypeOK, db, trouble
  <2>2. CASE Go(c, "insert") /\ UNCHANGED <<held, answer>>
    BY <1>2, <2>2 DEF First, Existing, Go, TypeOK, db, trouble
  <2> QED BY <1>2, <2>1, <2>2 DEF First, Existing
<1>3. ASSUME NEW c \in Callers, Again(c) PROVE TypeOK'
  <2>1. ASSUME NEW row \in view[c], End(c, [id |-> row.id]) PROVE TypeOK'
    <3>1. [id |-> row.id] \in [id: Nat]
      BY <2>1 DEF TypeOK, Row
    <3> QED BY <1>3, <2>1, <3>1, EndTypes DEF Again, Existing, TypeOK, db, trouble
  <2>2. CASE End(c, Error("DATABASE_ERROR"))
    BY <1>3, <2>2, Codes, EndTypes DEF Again, Existing, TypeOK, db, trouble
  <2> QED BY <1>3, <2>1, <2>2 DEF Again, Existing
<1>4. ASSUME NEW c \in Callers, Insert(c) PROVE TypeOK'
  <2>1. [id |-> nextId, question |-> asks[c]] \in Row
    BY DEF TypeOK, Row
  <2> QED BY <1>4, <2>1 DEF Insert, Go, TypeOK, trouble
<1>5. ASSUME NEW c \in Callers, Commit(c) PROVE TypeOK'
  <2>1. held[c] \in Row
    BY <1>5 DEF Commit, TypeOK, Flushed
  <2>2. [id |-> held[c].id] \in [id: Nat]
    BY <2>1 DEF Row
  <2> QED BY <1>5, <2>1, <2>2, EndTypes DEF Commit, TypeOK, trouble
<1>6. ASSUME NEW c \in Callers, Fail(c) PROVE TypeOK'
  <2>1. table' \subseteq Row
    BY <1>6 DEF Fail, TypeOK, Flushed
  <2>2. faults' \in Nat /\ spoiled' \subseteq Callers
    BY <1>6 DEF Fail, TypeOK
  <2>3. CASE at[c] \in {"recover", "rechecked"}
    BY <1>6, <2>1, <2>2, <2>3, Codes, EndTypes DEF Fail, TypeOK
  <2>4. CASE at[c] \notin {"recover", "rechecked"}
    BY <1>6, <2>1, <2>2, <2>4 DEF Fail, Go, TypeOK
  <2> QED BY <2>3, <2>4
<1>7. ASSUME NEW c \in Callers, Cancel(c) PROVE TypeOK'
  <2>1. table' \subseteq Row
    BY <1>7 DEF Cancel, TypeOK, Flushed
  <2> QED BY <1>7, <2>1, Codes, EndTypes DEF Cancel, TypeOK, trouble
<1>8. CASE UNCHANGED vars
  BY <1>8 DEF vars, TypeOK
<1> QED
  BY <1>1, <1>2, <1>3, <1>4, <1>5, <1>6, <1>7, <1>8 DEF Next, RecordOnce

-----------------------------------------------------------------------------
(* The invariant. One lemma for the ways a call ends, one for the others.  *)
LEMMA InitInv == Init => IInv
<1> SUFFICES ASSUME Init PROVE IInv
  OBVIOUS
<1>1. TypeOK
  BY InitTypeOK
<1> QED BY <1>1 DEF Init, IInv, HoldsTheKey, Checked, Told

(* A call that ends without writing. *)
LEMMA Ends ==
  ASSUME IInv, TypeOK', NEW c \in Callers,
         NEW result \in [id: Nat] \union [error: Errors], End(c, result),
         at[c] # "done", UNCHANGED <<asks, view, table>>,
         \/ result \in [error: Errors]
         \/ asks[c] \in Said /\ \E row \in table : result = [id |-> row.id]
  PROVE  IInv'
<1>1. \A d \in Callers : (HoldsTheKey(d) /\ Checked(d) /\ Told(d))'
  BY DEF IInv, TypeOK, End, Go, HoldsTheKey, Checked, Told
<1>2. \A d \in Callers :
        /\ view'[d] \subseteq table'
        /\ at'[d] = "flushed" => held'[d] # None
        /\ at'[d] # "done" => answer'[d] = Pending
  BY DEF IInv, TypeOK, End, Go
<1> QED BY <1>1, <1>2 DEF IInv

(* A call that ends, or is rolled back, while its commit is made. *)
LEMMA Writes ==
  ASSUME IInv, TypeOK', NEW c \in Callers, at[c] = "flushed",
         table' = table \union {held[c]}, held' = [held EXCEPT ![c] = None],
         UNCHANGED <<asks, view>>,
         \/ at' = [at EXCEPT ![c] = "recover"] /\ UNCHANGED answer
         \/ /\ at' = [at EXCEPT ![c] = "done"]
            /\ \/ answer' = [answer EXCEPT ![c] = Error("cancelled")]
               \/ answer' = [answer EXCEPT ![c] = [id |-> held[c].id]]
  PROVE  IInv'
<1>1. /\ held[c] \in Row /\ table = {}
      /\ held[c].question \in Said /\ asks[c] \in Said
      /\ \A d \in Callers : d # c => held[d] = None
  BY DEF IInv, TypeOK, HoldsTheKey, Checked
<1>2. table' = {held[c]}
  BY <1>1
<1>3. \A d \in Callers : (HoldsTheKey(d) /\ Checked(d))'
  BY <1>1 DEF IInv, TypeOK, HoldsTheKey, Checked
<1>4. ASSUME NEW d \in Callers PROVE Told(d)'
  BY <1>1, <1>2, Codes DEF IInv, TypeOK, Told
<1>5. \A d \in Callers :
        /\ view'[d] \subseteq table'
        /\ at'[d] = "flushed" => held'[d] # None
        /\ at'[d] # "done" => answer'[d] = Pending
  BY <1>1 DEF IInv, TypeOK
<1> QED BY <1>1, <1>2, <1>3, <1>4, <1>5 DEF IInv

(* A rollback, or a step inside a transaction, that neither ends the call  *)
(* nor writes.                                                             *)
LEMMA GoesOn ==
  ASSUME IInv, TypeOK', NEW c \in Callers, NEW to \in {"checked", "insert",
             "recover", "rechecked"}, Go(c, to),
         at[c] # "done", UNCHANGED <<asks, answer, table>>,
         held' = [held EXCEPT ![c] = None],
         to \in {"checked", "insert", "rechecked"} => asks[c] \in Said,
         \/ UNCHANGED view
         \/ view' = [view EXCEPT ![c] = table]
  PROVE  IInv'
<1>1. \A d \in Callers : (HoldsTheKey(d) /\ Checked(d) /\ Told(d))'
  BY DEF IInv, TypeOK, Go, HoldsTheKey, Checked, Told
<1>2. \A d \in Callers :
        /\ view'[d] \subseteq table'
        /\ at'[d] = "flushed" => held'[d] # None
        /\ at'[d] # "done" => answer'[d] = Pending
  BY DEF IInv, TypeOK, Go
<1> QED BY <1>1, <1>2 DEF IInv

LEMMA NoneHeld ==
  ASSUME IInv, NEW c \in Callers, at[c] # "flushed"
  PROVE  held[c] = None /\ held = [held EXCEPT ![c] = None]
BY DEF IInv, TypeOK, HoldsTheKey

LEMMA StepInv == IInv /\ [Next]_vars => IInv'
<1> SUFFICES ASSUME IInv, [Next]_vars PROVE IInv'
  OBVIOUS
<1>0. TypeOK'
  BY StepTypes DEF IInv, Flushed
<1>1. ASSUME NEW c \in Callers,
             \/ ValidateTurn(c, "start", "checked")
             \/ ValidateTurn(c, "recover", "rechecked")
      PROVE  IInv'
  <2>0. /\ at[c] \in {"start", "recover"}
        /\ UNCHANGED <<asks, table>>
    BY <1>1 DEF ValidateTurn, db
  <2>1. CASE asks[c] \in Said
    <3>1. PICK to \in {"checked", "rechecked"} : Go(c, to)
      BY <1>1, <2>1 DEF ValidateTurn
    <3>2. UNCHANGED <<held, answer>> /\ view' = [view EXCEPT ![c] = table]
      BY <1>1, <2>1 DEF ValidateTurn
    <3> QED BY <1>0, <2>0, <2>1, <3>1, <3>2, NoneHeld, GoesOn
  <2>2. CASE asks[c] \notin Said
    <3>1. End(c, Error("LOW_CONFIDENCE_TURN_MISMATCH")) /\ UNCHANGED view
      BY <1>1, <2>2 DEF ValidateTurn
    <3> QED BY <1>0, <2>0, <3>1, Codes, Ends
  <2> QED BY <2>1, <2>2
<1>2. ASSUME NEW c \in Callers, First(c) \/ Again(c) PROVE IInv'
  <2>0. /\ at[c] \in {"checked", "rechecked"}
        /\ asks[c] \in Said
        /\ view[c] \subseteq table
        /\ UNCHANGED <<asks, view, table>>
    BY <1>2 DEF First, Again, Existing, IInv, Checked, db
  <2>1. ASSUME NEW row \in view[c], End(c, [id |-> row.id]) PROVE IInv'
    <3>1. row \in table /\ row \in Row
      BY <2>0 DEF IInv, TypeOK
    <3>2. [id |-> row.id] \in [id: Nat]
      BY <3>1 DEF Row
    <3> QED BY <1>0, <2>0, <2>1, <3>1, <3>2, Ends
  <2>2. CASE Go(c, "insert") /\ UNCHANGED <<held, answer>>
    BY <1>0, <2>0, <2>2, NoneHeld, GoesOn
  <2>3. CASE End(c, Error("DATABASE_ERROR"))
    BY <1>0, <2>0, <2>3, Codes, Ends
  <2> QED BY <1>2, <2>1, <2>2, <2>3 DEF First, Again, Existing
<1>3. ASSUME NEW c \in Callers, Insert(c) PROVE IInv'
  <2>1. CASE table # {}
    <3>1. at[c] = "insert" /\ Go(c, "recover")
      BY <1>3, <2>1 DEF Insert
    <3>2. UNCHANGED <<asks, view, answer, table, held>>
      BY <1>3, <2>1 DEF Insert
    <3> QED BY <1>0, <3>1, <3>2, NoneHeld, GoesOn
  <2>2. CASE table = {}
    <3>1. /\ at[c] = "insert" /\ at' = [at EXCEPT ![c] = "flushed"]
          /\ held' = [held EXCEPT ![c] = [id |-> nextId, question |-> asks[c]]]
          /\ \A d \in Callers : held[d] = None
          /\ UNCHANGED <<asks, view, answer, table>>
      BY <1>3, <2>2 DEF Insert, Go
    <3>2. [id |-> nextId, question |-> asks[c]] \in Row
      BY DEF IInv, TypeOK, Row
    <3>3. [id |-> nextId, question |-> asks[c]] # None
      BY <3>2, NoneAssumption
    <3>4. \A d \in Callers : (HoldsTheKey(d) /\ Checked(d) /\ Told(d))'
      BY <2>2, <3>1 DEF IInv, TypeOK, HoldsTheKey, Checked, Told
    <3>5. \A d \in Callers :
            /\ view'[d] \subseteq table'
            /\ at'[d] = "flushed" => held'[d] # None
            /\ at'[d] # "done" => answer'[d] = Pending
      BY <3>1, <3>3 DEF IInv, TypeOK
    <3> QED BY <1>0, <2>2, <3>1, <3>4, <3>5 DEF IInv
  <2> QED BY <2>1, <2>2
<1>4. ASSUME NEW c \in Callers, Commit(c) PROVE IInv'
  BY <1>0, <1>4, Writes DEF Commit, End, Go
<1>5. ASSUME NEW c \in Callers, Fail(c) PROVE IInv'
  <2>0. at[c] # "done" /\ UNCHANGED <<asks, view>>
    BY <1>5 DEF Fail
  <2>1. CASE at[c] \in {"recover", "rechecked"}
    <3>1. End(c, Error("DATABASE_ERROR")) /\ UNCHANGED table
      BY <1>5, <2>1 DEF Fail
    <3> QED BY <1>0, <2>0, <3>1, Codes, Ends
  <2>2. CASE at[c] \notin {"recover", "rechecked"} /\ UNCHANGED table
    <3>1. Go(c, "recover") /\ held' = [held EXCEPT ![c] = None] /\ UNCHANGED answer
      BY <1>5, <2>2 DEF Fail
    <3> QED BY <1>0, <2>0, <2>2, <3>1, GoesOn
  <2>3. CASE at[c] = "flushed" /\ table' = table \union {held[c]}
    BY <1>0, <1>5, <2>0, <2>3, Writes DEF Fail, Go
  <2> QED BY <1>5, <2>1, <2>2, <2>3 DEF Fail
<1>6. ASSUME NEW c \in Callers, Cancel(c) PROVE IInv'
  <2>0. /\ at[c] # "done" /\ UNCHANGED <<asks, view>>
        /\ End(c, Error("cancelled"))
    BY <1>6 DEF Cancel
  <2>1. CASE UNCHANGED table
    BY <1>0, <2>0, <2>1, Codes, Ends
  <2>2. CASE at[c] = "flushed" /\ table' = table \union {held[c]}
    BY <1>0, <2>0, <2>2, Writes DEF End, Go
  <2> QED BY <1>6, <2>1, <2>2 DEF Cancel
<1>7. CASE UNCHANGED vars
  BY <1>7, <1>0 DEF vars, IInv, HoldsTheKey, Checked, Told
<1> QED
  BY <1>1, <1>2, <1>3, <1>4, <1>5, <1>6, <1>7 DEF Next, RecordOnce

LEMMA Invariant == Spec => []IInv
<1>1. Init => IInv
  BY InitInv
<1>2. IInv /\ [Next]_vars => IInv'
  BY StepInv
<1> QED BY <1>1, <1>2, PTL DEF Spec

-----------------------------------------------------------------------------
(* record_once keeps the types of what it reads, writes and returns.       *)
THEOREM TypeCorrect == Spec => []TypeOK
<1>1. IInv => TypeOK
  BY DEF IInv
<1> QED BY <1>1, Invariant, PTL

(* A turn has at most one record, although every caller looks before it    *)
(* writes and all may look at once.                                        *)
THEOREM AtMostOneRecord == Spec => []OneRecord
<1>1. ASSUME IInv PROVE OneRecord
  <2>1. table = {} => Cardinality(table) = 0
    BY FS_EmptySet
  <2>2. ASSUME NEW row, table = {row} PROVE Cardinality(table) = 1
    BY <2>2, FS_Singleton
  <2> QED BY <1>1, <2>1, <2>2 DEF IInv, OneRecord
<1> QED BY <1>1, Invariant, PTL

(* An id that record_once returned is that of the committed record.        *)
THEOREM ReturnedDurable == Spec => []ReturnedIsDurable
<1>1. ASSUME IInv PROVE ReturnedIsDurable
  <2> SUFFICES ASSUME NEW c \in Callers, "id" \in DOMAIN answer[c],
                      answer[c] # Pending
               PROVE  \E row \in table : row.id = answer[c].id
    BY DEF ReturnedIsDurable
  <2>1. answer[c] \notin [error: Errors]
    OBVIOUS
  <2>2. PICK row \in table : answer[c] = [id |-> row.id]
    BY <1>1, <2>1 DEF IInv, Told
  <2> QED BY <2>2
<1> QED BY <1>1, Invariant, PTL

(* Only what the user said in the turn is recorded, or answered.           *)
THEOREM OnlySaid == Spec => []OnlyWhatWasSaid
<1>1. ASSUME IInv PROVE OnlyWhatWasSaid
  <2>1. \A row \in table : row.question \in Said
    BY <1>1 DEF IInv
  <2>2. ASSUME NEW c \in Callers, "id" \in DOMAIN answer[c], answer[c] # Pending
        PROVE  asks[c] \in Said
    <3>1. answer[c] \notin [error: Errors]
      BY <2>2
    <3> QED BY <1>1, <2>2, <3>1 DEF IInv, Told
  <2> QED BY <2>1, <2>2 DEF OnlyWhatWasSaid
<1> QED BY <1>1, Invariant, PTL

-----------------------------------------------------------------------------
(* Whoever is in recovery without a failure of its own lost the race for   *)
(* the key: there is a record, and its second transaction sees it.         *)
Race ==
  \A c \in Callers : c \notin spoiled =>
    /\ at[c] \in {"recover", "rechecked"} => table # {}
    /\ at[c] = "rechecked" => view[c] # {}
    /\ answer[c] # Error("DATABASE_ERROR")

LEMMA OtherAnswers ==
  /\ \A n : [id |-> n] # Error("DATABASE_ERROR")
  /\ Error("LOW_CONFIDENCE_TURN_MISMATCH") # Error("DATABASE_ERROR")
  /\ Error("cancelled") # Error("DATABASE_ERROR")
<1>1. \A n : [id |-> n] # Error("DATABASE_ERROR")
  <2> SUFFICES ASSUME NEW n, [id |-> n] = Error("DATABASE_ERROR") PROVE FALSE
    OBVIOUS
  <2>1. "id" \in DOMAIN [id |-> n] /\ "id" \notin DOMAIN Error("DATABASE_ERROR")
    BY DEF Error
  <2> QED BY <2>1
<1>2. \A code : Error(code).error = code
  BY DEF Error
<1> QED BY <1>1, <1>2

LEMMA StepRace == IInv /\ Race /\ [Next]_vars => Race'
<1> SUFFICES ASSUME IInv, Race, [Next]_vars PROVE Race'
  OBVIOUS
<1> USE DEF Race
<1>0. TypeOK
  BY DEF IInv
<1>1. ASSUME NEW c \in Callers,
             \/ ValidateTurn(c, "start", "checked")
             \/ ValidateTurn(c, "recover", "rechecked")
      PROVE  Race'
  BY <1>0, <1>1, OtherAnswers DEF ValidateTurn, TypeOK, End, Go, db, trouble
<1>2. ASSUME NEW c \in Callers, First(c) PROVE Race'
  BY <1>0, <1>2, OtherAnswers DEF First, Existing, TypeOK, End, Go, db, trouble
<1>3. ASSUME NEW c \in Callers, Again(c) PROVE Race'
  BY <1>0, <1>3, OtherAnswers DEF Again, Existing, TypeOK, End, Go, db, trouble
<1>4. ASSUME NEW c \in Callers, Insert(c) PROVE Race'
  BY <1>0, <1>4 DEF Insert, TypeOK, Go, trouble
<1>5. ASSUME NEW c \in Callers, Commit(c) PROVE Race'
  BY <1>0, <1>5, OtherAnswers DEF Commit, TypeOK, End, Go, trouble
<1>6. ASSUME NEW c \in Callers, Fail(c) PROVE Race'
  BY <1>0, <1>6 DEF Fail, TypeOK, End, Go
<1>7. ASSUME NEW c \in Callers, Cancel(c) PROVE Race'
  BY <1>0, <1>7, OtherAnswers DEF Cancel, TypeOK, End, Go, trouble
<1>8. CASE UNCHANGED vars
  BY <1>8 DEF vars
<1> QED
  BY <1>1, <1>2, <1>3, <1>4, <1>5, <1>6, <1>7, <1>8 DEF Next, RecordOnce

(* A caller that lost the race and met no failure is never told            *)
(* DATABASE_ERROR.                                                         *)
THEOREM LosersFind == Spec => []LosersFindTheRecord
<1>1. Init => Race
  BY OtherAnswers DEF Init, Race, Pending
<1>2. IInv /\ Race /\ [Next]_vars => Race'
  BY StepRace
<1>3. TypeOK /\ Race => LosersFindTheRecord
  BY DEF Race, LosersFindTheRecord
<1>4. IInv => TypeOK
  BY DEF IInv
<1> QED BY <1>1, <1>2, <1>3, <1>4, Invariant, PTL DEF Spec

(* What record_once tells its callers is so. *)
THEOREM CallersHearTheTruth == Spec => []AnswersAreTrue
  BY ReturnedDurable, OnlySaid, LosersFind, PTL DEF AnswersAreTrue

-----------------------------------------------------------------------------
(* The refinement. *)
Ids == {[id |-> row.id] : row \in table}

(* A step that writes no row answers at most one caller, with the row that *)
(* is there or with an error.                                              *)
LEMMA AnswerSteps ==
  ASSUME NEW c \in Callers, UNCHANGED table,
         \/ UNCHANGED answer
         \/ /\ answer[c] = Pending
            /\ \E w \in Ids \union [error: Errors] :
                 answer' = [answer EXCEPT ![c] = w]
  PROVE  Promise!Next
<1>1. Ids' = Ids
  BY DEF Ids
<1> QED BY <1>1 DEF Promise!Next, Promise!MayWrite, Promise!MayAnswer, Ids

(* The step that writes the row may answer its caller, or refuse it.       *)
LEMMA WriteSteps ==
  ASSUME NEW c \in Callers, NEW row \in Row, table = {}, table' = {row},
         \/ UNCHANGED answer
         \/ /\ answer[c] = Pending
            /\ \E w \in {[id |-> row.id]} \union [error: Errors] :
                 answer' = [answer EXCEPT ![c] = w]
  PROVE  Promise!Next
<1>1. Ids = {} /\ Ids' = {[id |-> row.id]}
  BY DEF Ids
<1>2. [id |-> row.id] \in [id: Nat \ {0}]
  BY DEF Row
<1> QED
  BY <1>1, <1>2 DEF Promise!Next, Promise!MayWrite, Promise!MayAnswer, Ids

LEMMA StepPromise == IInv /\ [Next]_vars => [Promise!Next]_(Promise!onceVars)
<1> SUFFICES ASSUME IInv, Next PROVE Promise!Next \/ UNCHANGED Promise!onceVars
  BY DEF vars, Promise!onceVars
<1>0. \A c \in Callers : at[c] # "done" => answer[c] = Pending
  BY DEF IInv
<1>1. ASSUME NEW c \in Callers,
             \/ ValidateTurn(c, "start", "checked")
             \/ ValidateTurn(c, "recover", "rechecked")
      PROVE  Promise!Next
  BY <1>0, <1>1, Codes, AnswerSteps DEF ValidateTurn, End, db
<1>2. ASSUME NEW c \in Callers, First(c) \/ Again(c) PROVE Promise!Next
  <2>1. UNCHANGED table /\ at[c] # "done" /\ view[c] \subseteq table
    BY <1>2 DEF First, Again, Existing, IInv, db
  <2>2. ASSUME NEW row \in view[c], End(c, [id |-> row.id]) PROVE Promise!Next
    <3>1. [id |-> row.id] \in Ids
      BY <2>1 DEF Ids
    <3> QED BY <1>0, <2>1, <2>2, <3>1, AnswerSteps DEF End
  <2>3. CASE UNCHANGED answer
    BY <2>1, <2>3, AnswerSteps
  <2>4. CASE End(c, Error("DATABASE_ERROR"))
    BY <1>0, <2>1, <2>4, Codes, AnswerSteps DEF End
  <2> QED BY <1>2, <2>2, <2>3, <2>4 DEF First, Again, Existing
<1>3. ASSUME NEW c \in Callers, Insert(c) PROVE Promise!Next
  BY <1>3, AnswerSteps DEF Insert
<1>4. ASSUME NEW c \in Callers, at[c] = "flushed"
      PROVE  held[c] \in Row /\ table = {} /\ table \union {held[c]} = {held[c]}
  BY <1>4 DEF IInv, TypeOK, HoldsTheKey
<1>5. ASSUME NEW c \in Callers, Commit(c) PROVE Promise!Next
  BY <1>0, <1>4, <1>5, WriteSteps DEF Commit, End
<1>6. ASSUME NEW c \in Callers, Fail(c) PROVE Promise!Next
  <2>1. CASE UNCHANGED table
    BY <1>0, <1>6, <2>1, Codes, AnswerSteps DEF Fail, End
  <2>2. CASE at[c] = "flushed" /\ table' = table \union {held[c]}
    BY <1>4, <1>6, <2>2, WriteSteps DEF Fail
  <2> QED BY <1>6, <2>1, <2>2 DEF Fail
<1>7. ASSUME NEW c \in Callers, Cancel(c) PROVE Promise!Next
  <2>1. CASE UNCHANGED table
    BY <1>0, <1>7, <2>1, Codes, AnswerSteps DEF Cancel, End
  <2>2. CASE at[c] = "flushed" /\ table' = table \union {held[c]}
    BY <1>0, <1>4, <1>7, <2>2, Codes, WriteSteps DEF Cancel, End
  <2> QED BY <1>7, <2>1, <2>2 DEF Cancel
<1> QED
  BY <1>1, <1>2, <1>3, <1>5, <1>6, <1>7 DEF Next, RecordOnce

(* The callers of record_once together implement WriteOnce: one record for *)
(* good, and one answer each, which is that record's id or an error.       *)
THEOREM KeepsThePromise == Spec => PromiseSpec
<1>1. Init => Promise!Init
  BY DEF Init, Promise!Init
<1> QED
  BY <1>1, StepPromise, Invariant, PTL DEF Spec, PromiseSpec, Promise!Spec

-----------------------------------------------------------------------------
(* LegacyTurn, for any requests and any choice of the model.               *)

\* Before the tool has spoken, and where its verdict is on its way.
Unheard == {"idle", "busy", "load", "create", "start", "select", "call", "tool"}
Heard == {"result", "reply", "finish", "refuse", "told"}
Open == {"running", "cancelled"}

\* The cleanup writes only where nothing else of the turn may.
FinishOK(t) ==
  /\ fin[t] # "none" => pc[t] \in {"cleanup", "ended", "over"}
  /\ fin[t] \in Open => op[t] = "none" \/ what[t] \notin Mutations
  /\ fin[t] # "none" /\ pc[t] \in {"cleanup", "ended"} =>
       "started" \in flags[t] /\ "finalized" \notin flags[t]

\* What an operation has committed, and what was read from that.
SavedOK(t) ==
  /\ status[t] = "completed" => ("call" \in rows[t] <=> "result" \in rows[t])
  /\ op[t] # "none" /\ applied[t] =>
       /\ what[t] \in {"finish", "refuse"} => status[t] = "completed"
       /\ what[t] = "record" => t \in recorded
  /\ pc[t] = "told" => status[t] = "completed"
  /\ pc[t] \in Unheard => verdict[t] = "none"
  /\ pc[t] \in Heard /\ verdict[t] = "refused" => t \in recorded
  /\ verdict[t] = "refused" => kind[t] = "knowledge"
  /\ out[t] \in {"done", "refusal"} => status[t] = "completed"
  /\ out[t] = "refusal" => t \in recorded

\* Nothing runs for a request that has not begun, or that has ended in time.
QuietOK(t) ==
  /\ pc[t] \in {"idle", "busy"} => op[t] = "none" /\ fin[t] = "none" /\ t \notin iters
  /\ pc[t] \in {"ended", "over"} /\ flags[t] \intersect {"gaveUp", "left"} = {} =>
       op[t] = "none" /\ fin[t] \notin Open /\ t \notin iters

TurnOK(t) == FinishOK(t) /\ SavedOK(t) /\ QuietOK(t)
OneHolder == \A t, u \in Turns : pc[t] \in Holding /\ pc[u] \in Holding => t = u
LegacyInv == LegacyTypeOK /\ OneHolder /\ \A t \in Turns : TurnOK(t)

LEMMA LegacyInitInv == LegacyInit => LegacyInv
BY DEF LegacyInit, LegacyInv, LegacyTypeOK, OneHolder, TurnOK, FinishOK, SavedOK, QuietOK, Holding, Steps,
   Preparing, Streaming, Terminal, Open, Heard, Unheard

TurnStep(t) ==
  \/ Arrive(t) \/ Step(t) \/ Timeout(t) \/ Interrupt(t)
  \/ CommitOperation(t) \/ CommitFinish(t) \/ Unwind(t)
  \/ Finish(t) \/ FinishFails(t) \/ CloseIterators(t) \/ Settle(t)
  \/ GiveUp(t) \/ Leave(t) \/ Release(t)


\* A step of a turn is its own.
Others(t) ==
  /\ \A u \in Turns \ {t} :
       /\ pc'[u] = pc[u] /\ kind'[u] = kind[u] /\ verdict'[u] = verdict[u] /\ op'[u] = op[u]
       /\ what'[u] = what[u] /\ applied'[u] = applied[u] /\ fin'[u] = fin[u]
       /\ flags'[u] = flags[u] /\ out'[u] = out[u] /\ rows'[u] = rows[u] /\ status'[u] = status[u]
       /\ u \in iters' <=> u \in iters
       /\ u \in recorded' <=> u \in recorded
  /\ pc'[t] \in Holding => pc[t] \in Holding \/ ~Busy
  \* what is saved of the turn is never taken back
  /\ t \in recorded => t \in recorded'
  /\ status[t] \in Terminal => status'[t] = status[t] /\ rows'[t] = rows[t]

LEMMA OthersKeepInv ==
  ASSUME LegacyInv, NEW t \in Turns, Others(t), LegacyTypeOK', TurnOK(t)'
  PROVE  LegacyInv'
<1>1. OneHolder'
  BY DEF LegacyInv, OneHolder, Others, Busy
<1>2. ASSUME NEW u \in Turns \ {t}
      PROVE  TurnOK(u)'
  <2>1. TurnOK(u)
    BY DEF LegacyInv
  <2>2. FinishOK(u)'
    BY <2>1 DEF TurnOK, FinishOK, Others
  <2>3. SavedOK(u)'
    BY <2>1 DEF TurnOK, SavedOK, Others
  <2>4. QuietOK(u)'
    BY <2>1 DEF TurnOK, QuietOK, Others
  <2> QED
    BY <2>2, <2>3, <2>4 DEF TurnOK
<1> QED
  BY <1>1, <1>2 DEF LegacyInv

LEMMA ArriveStep ==
  ASSUME LegacyInv, NEW t \in Turns, Arrive(t)
  PROVE  LegacyTypeOK' /\ Others(t) /\ TurnOK(t)'
<1> USE DEF Set, Flag, mysql, choice, work, Holding, Steps, Preparing, Streaming
<1> LegacyTypeOK /\ TurnOK(t)
  BY DEF LegacyInv
<1>1. LegacyTypeOK'
  BY DEF Arrive, LegacyTypeOK
<1>2. Others(t)
  BY DEF Arrive, LegacyTypeOK, Others, Busy, Terminal
<1>3. FinishOK(t)'
  BY DEF Arrive, LegacyTypeOK, TurnOK, FinishOK, Open, QuietOK
<1>4. SavedOK(t)'
  BY DEF Arrive, LegacyTypeOK, TurnOK, SavedOK, Heard, Unheard
<1>5. QuietOK(t)'
  BY DEF Arrive, LegacyTypeOK, TurnOK, QuietOK, Open
<1> QED
  BY <1>1, <1>2, <1>3, <1>4, <1>5 DEF TurnOK

LEMMA LaunchStep ==
  ASSUME LegacyInv, NEW t \in Turns, Launch(t)
  PROVE  LegacyTypeOK' /\ Others(t) /\ TurnOK(t)'
<1> USE DEF Set, Flag, mysql, choice, work, Holding, Steps, Preparing, Streaming
<1> LegacyTypeOK /\ TurnOK(t)
  BY DEF LegacyInv
<1>1. LegacyTypeOK'
  BY DEF Launch, LegacyTypeOK
<1>2. Others(t)
  BY DEF Launch, LegacyTypeOK, Others
<1>3. FinishOK(t)'
  BY DEF Launch, LegacyTypeOK, TurnOK, FinishOK, Open
<1>4. SavedOK(t)'
  BY DEF Launch, LegacyTypeOK, TurnOK, SavedOK, Heard, Unheard
<1>5. QuietOK(t)'
  BY DEF Launch, LegacyTypeOK, TurnOK, QuietOK, Open
<1> QED
  BY <1>1, <1>2, <1>3, <1>4, <1>5 DEF TurnOK

LEMMA RaiseStep ==
  ASSUME LegacyInv, NEW t \in Turns, Raise(t)
  PROVE  LegacyTypeOK' /\ Others(t) /\ TurnOK(t)'
<1> USE DEF Set, Flag, mysql, choice, work, Holding, Steps, Preparing, Streaming
<1> LegacyTypeOK /\ TurnOK(t)
  BY DEF LegacyInv
<1>1. LegacyTypeOK'
  BY DEF Raise, LegacyTypeOK
<1>2. Others(t)
  BY DEF Raise, LegacyTypeOK, Others
<1>3. FinishOK(t)'
  BY DEF Raise, LegacyTypeOK, TurnOK, FinishOK, Open
<1>4. SavedOK(t)'
  BY DEF Raise, LegacyTypeOK, TurnOK, SavedOK, Heard, Unheard
<1>5. QuietOK(t)'
  BY DEF Raise, LegacyTypeOK, TurnOK, QuietOK, Open
<1> QED
  BY <1>1, <1>2, <1>3, <1>4, <1>5 DEF TurnOK

LEMMA TimeoutStep ==
  ASSUME LegacyInv, NEW t \in Turns, Timeout(t)
  PROVE  LegacyTypeOK' /\ Others(t) /\ TurnOK(t)'
<1> USE DEF Set, Flag, mysql, choice, work, Holding, Steps, Preparing, Streaming
<1> LegacyTypeOK /\ TurnOK(t)
  BY DEF LegacyInv
<1>1. LegacyTypeOK'
  BY DEF Timeout, LegacyTypeOK
<1>2. Others(t)
  BY DEF Timeout, LegacyTypeOK, Others
<1>3. FinishOK(t)'
  BY DEF Timeout, LegacyTypeOK, TurnOK, FinishOK, Open
<1>4. SavedOK(t)'
  BY DEF Timeout, LegacyTypeOK, TurnOK, SavedOK, Heard, Unheard
<1>5. QuietOK(t)'
  BY DEF Timeout, LegacyTypeOK, TurnOK, QuietOK, Open
<1> QED
  BY <1>1, <1>2, <1>3, <1>4, <1>5 DEF TurnOK

LEMMA TellStep ==
  ASSUME LegacyInv, NEW t \in Turns, Tell(t)
  PROVE  LegacyTypeOK' /\ Others(t) /\ TurnOK(t)'
<1> USE DEF Set, Flag, mysql, choice, work, Holding, Steps, Preparing, Streaming
<1> LegacyTypeOK /\ TurnOK(t)
  BY DEF LegacyInv
<1>1. LegacyTypeOK'
  BY DEF Tell, LegacyTypeOK
<1>2. Others(t)
  BY DEF Tell, LegacyTypeOK, Others
<1>3. FinishOK(t)'
  BY DEF Tell, LegacyTypeOK, TurnOK, FinishOK, Open
<1>4. SavedOK(t)'
  BY DEF Tell, LegacyTypeOK, TurnOK, SavedOK, Heard, Unheard
<1>5. QuietOK(t)'
  BY DEF Tell, LegacyTypeOK, TurnOK, QuietOK, Open
<1> QED
  BY <1>1, <1>2, <1>3, <1>4, <1>5 DEF TurnOK

LEMMA FailStep ==
  ASSUME LegacyInv, NEW t \in Turns, FailTurn(t)
  PROVE  LegacyTypeOK' /\ Others(t) /\ TurnOK(t)'
<1> USE DEF Set, Flag, mysql, choice, work, Holding, Steps, Preparing, Streaming
<1> LegacyTypeOK /\ TurnOK(t)
  BY DEF LegacyInv
<1>1. LegacyTypeOK'
  BY DEF FailTurn, LegacyTypeOK
<1>2. Others(t)
  BY DEF FailTurn, LegacyTypeOK, Others
<1>3. FinishOK(t)'
  BY DEF FailTurn, LegacyTypeOK, TurnOK, FinishOK, Open
<1>4. SavedOK(t)'
  BY DEF FailTurn, LegacyTypeOK, TurnOK, SavedOK, Heard, Unheard
<1>5. QuietOK(t)'
  BY DEF FailTurn, LegacyTypeOK, TurnOK, QuietOK, Open
<1> QED
  BY <1>1, <1>2, <1>3, <1>4, <1>5 DEF TurnOK

LEMMA InterruptStep ==
  ASSUME LegacyInv, NEW t \in Turns, Interrupt(t)
  PROVE  LegacyTypeOK' /\ Others(t) /\ TurnOK(t)'
<1> USE DEF Set, Flag, mysql, choice, work, Holding, Steps, Preparing, Streaming
<1> LegacyTypeOK /\ TurnOK(t)
  BY DEF LegacyInv
<1>1. LegacyTypeOK'
  BY DEF Interrupt, LegacyTypeOK
<1>2. Others(t)
  BY DEF Interrupt, LegacyTypeOK, Others
<1>3. FinishOK(t)'
  BY DEF Interrupt, LegacyTypeOK, TurnOK, FinishOK, Open
<1>4. SavedOK(t)'
  BY DEF Interrupt, LegacyTypeOK, TurnOK, SavedOK, Heard, Unheard
<1>5. QuietOK(t)'
  BY DEF Interrupt, LegacyTypeOK, TurnOK, QuietOK, Open
<1> QED
  BY <1>1, <1>2, <1>3, <1>4, <1>5 DEF TurnOK

LEMMA UnwindStep ==
  ASSUME LegacyInv, NEW t \in Turns, Unwind(t)
  PROVE  LegacyTypeOK' /\ Others(t) /\ TurnOK(t)'
<1> USE DEF Set, Flag, mysql, choice, work, Holding, Steps, Preparing, Streaming
<1> LegacyTypeOK /\ TurnOK(t)
  BY DEF LegacyInv
<1>1. LegacyTypeOK'
  BY DEF Unwind, LegacyTypeOK
<1>2. Others(t)
  BY DEF Unwind, LegacyTypeOK, Others
<1>3. FinishOK(t)'
  BY DEF Unwind, LegacyTypeOK, TurnOK, FinishOK, Open
<1>4. SavedOK(t)'
  BY DEF Unwind, LegacyTypeOK, TurnOK, SavedOK, Heard, Unheard
<1>5. QuietOK(t)'
  BY DEF Unwind, LegacyTypeOK, TurnOK, QuietOK, Open
<1> QED
  BY <1>1, <1>2, <1>3, <1>4, <1>5 DEF TurnOK

LEMMA FinishStep ==
  ASSUME LegacyInv, NEW t \in Turns, Finish(t)
  PROVE  LegacyTypeOK' /\ Others(t) /\ TurnOK(t)'
<1> USE DEF Set, Flag, mysql, choice, work, Holding, Steps, Preparing, Streaming
<1> LegacyTypeOK /\ TurnOK(t)
  BY DEF LegacyInv
<1>1. LegacyTypeOK'
  BY DEF Finish, LegacyTypeOK
<1>2. Others(t)
  BY DEF Finish, LegacyTypeOK, Others
<1>3. FinishOK(t)'
  BY DEF Finish, LegacyTypeOK, TurnOK, FinishOK, Open
<1>4. SavedOK(t)'
  BY DEF Finish, LegacyTypeOK, TurnOK, SavedOK, Heard, Unheard
<1>5. QuietOK(t)'
  BY DEF Finish, LegacyTypeOK, TurnOK, QuietOK, Open
<1> QED
  BY <1>1, <1>2, <1>3, <1>4, <1>5 DEF TurnOK

LEMMA FinishFailsStep ==
  ASSUME LegacyInv, NEW t \in Turns, FinishFails(t)
  PROVE  LegacyTypeOK' /\ Others(t) /\ TurnOK(t)'
<1> USE DEF Set, Flag, mysql, choice, work, Holding, Steps, Preparing, Streaming
<1> LegacyTypeOK /\ TurnOK(t)
  BY DEF LegacyInv
<1>1. LegacyTypeOK'
  BY DEF FinishFails, LegacyTypeOK
<1>2. Others(t)
  BY DEF FinishFails, LegacyTypeOK, Others
<1>3. FinishOK(t)'
  BY DEF FinishFails, LegacyTypeOK, TurnOK, FinishOK, Open
<1>4. SavedOK(t)'
  BY DEF FinishFails, LegacyTypeOK, TurnOK, SavedOK, Heard, Unheard
<1>5. QuietOK(t)'
  BY DEF FinishFails, LegacyTypeOK, TurnOK, QuietOK, Open
<1> QED
  BY <1>1, <1>2, <1>3, <1>4, <1>5 DEF TurnOK

LEMMA CloseIteratorsStep ==
  ASSUME LegacyInv, NEW t \in Turns, CloseIterators(t)
  PROVE  LegacyTypeOK' /\ Others(t) /\ TurnOK(t)'
<1> USE DEF Set, Flag, mysql, choice, work, Holding, Steps, Preparing, Streaming
<1> LegacyTypeOK /\ TurnOK(t)
  BY DEF LegacyInv
<1>1. LegacyTypeOK'
  BY DEF CloseIterators, LegacyTypeOK
<1>2. Others(t)
  BY DEF CloseIterators, LegacyTypeOK, Others
<1>3. FinishOK(t)'
  BY DEF CloseIterators, LegacyTypeOK, TurnOK, FinishOK, Open
<1>4. SavedOK(t)'
  BY DEF CloseIterators, LegacyTypeOK, TurnOK, SavedOK, Heard, Unheard
<1>5. QuietOK(t)'
  BY DEF CloseIterators, LegacyTypeOK, TurnOK, QuietOK, Open
<1> QED
  BY <1>1, <1>2, <1>3, <1>4, <1>5 DEF TurnOK

LEMMA SettleStep ==
  ASSUME LegacyInv, NEW t \in Turns, Settle(t)
  PROVE  LegacyTypeOK' /\ Others(t) /\ TurnOK(t)'
<1> USE DEF Set, Flag, mysql, choice, work, Holding, Steps, Preparing, Streaming
<1> LegacyTypeOK /\ TurnOK(t)
  BY DEF LegacyInv
<1>1. LegacyTypeOK'
  BY DEF Settle, LegacyTypeOK
<1>2. Others(t)
  BY DEF Settle, LegacyTypeOK, Others
<1>3. FinishOK(t)'
  BY DEF Settle, LegacyTypeOK, TurnOK, FinishOK, Open, QuietOK
<1>4. SavedOK(t)'
  BY DEF Settle, LegacyTypeOK, TurnOK, SavedOK, Heard, Unheard
<1>5. QuietOK(t)'
  BY DEF Settle, LegacyTypeOK, TurnOK, QuietOK, Open, FinishOK
<1> QED
  BY <1>1, <1>2, <1>3, <1>4, <1>5 DEF TurnOK

LEMMA GiveUpStep ==
  ASSUME LegacyInv, NEW t \in Turns, GiveUp(t)
  PROVE  LegacyTypeOK' /\ Others(t) /\ TurnOK(t)'
<1> USE DEF Set, Flag, mysql, choice, work, Holding, Steps, Preparing, Streaming
<1> LegacyTypeOK /\ TurnOK(t)
  BY DEF LegacyInv
<1>1. LegacyTypeOK'
  BY DEF GiveUp, LegacyTypeOK
<1>2. Others(t)
  BY DEF GiveUp, LegacyTypeOK, Others
<1>3. FinishOK(t)'
  BY DEF GiveUp, LegacyTypeOK, TurnOK, FinishOK, Open
<1>4. SavedOK(t)'
  BY DEF GiveUp, LegacyTypeOK, TurnOK, SavedOK, Heard, Unheard
<1>5. QuietOK(t)'
  <2>1. pc'[t] = "ended" /\ "gaveUp" \in flags'[t]
    BY DEF GiveUp, LegacyTypeOK
  <2> QED
    BY <2>1 DEF QuietOK
<1> QED
  BY <1>1, <1>2, <1>3, <1>4, <1>5 DEF TurnOK

LEMMA LeaveStep ==
  ASSUME LegacyInv, NEW t \in Turns, Leave(t)
  PROVE  LegacyTypeOK' /\ Others(t) /\ TurnOK(t)'
<1> USE DEF Set, Flag, mysql, choice, work, Holding, Steps, Preparing, Streaming
<1> LegacyTypeOK /\ TurnOK(t)
  BY DEF LegacyInv
<1>1. LegacyTypeOK'
  BY DEF Leave, LegacyTypeOK
<1>2. Others(t)
  BY DEF Leave, LegacyTypeOK, Others
<1>3. FinishOK(t)'
  BY DEF Leave, LegacyTypeOK, TurnOK, FinishOK, Open
<1>4. SavedOK(t)'
  BY DEF Leave, LegacyTypeOK, TurnOK, SavedOK, Heard, Unheard
<1>5. QuietOK(t)'
  BY DEF Leave, LegacyTypeOK, TurnOK, QuietOK, Open
<1> QED
  BY <1>1, <1>2, <1>3, <1>4, <1>5 DEF TurnOK

LEMMA ReleaseStep ==
  ASSUME LegacyInv, NEW t \in Turns, Release(t)
  PROVE  LegacyTypeOK' /\ Others(t) /\ TurnOK(t)'
<1> USE DEF Set, Flag, mysql, choice, work, Holding, Steps, Preparing, Streaming
<1> LegacyTypeOK /\ TurnOK(t)
  BY DEF LegacyInv
<1>1. LegacyTypeOK'
  BY DEF Release, LegacyTypeOK
<1>2. Others(t)
  BY DEF Release, LegacyTypeOK, Others
<1>3. FinishOK(t)'
  BY DEF Release, LegacyTypeOK, TurnOK, FinishOK, Open
<1>4. SavedOK(t)'
  BY DEF Release, LegacyTypeOK, TurnOK, SavedOK, Heard, Unheard
<1>5. QuietOK(t)'
  BY DEF Release, LegacyTypeOK, TurnOK, QuietOK, Open
<1> QED
  BY <1>1, <1>2, <1>3, <1>4, <1>5 DEF TurnOK

LEMMA CommitFinishStep ==
  ASSUME LegacyInv, NEW t \in Turns, CommitFinish(t)
  PROVE  LegacyTypeOK' /\ Others(t) /\ TurnOK(t)'
<1> USE DEF Set, Flag, mysql, choice, work, Holding, Steps, Preparing, Streaming
<1> LegacyTypeOK /\ TurnOK(t)
  BY DEF LegacyInv
<1>1. LegacyTypeOK'
  BY DEF CommitFinish, LegacyTypeOK, Terminal
<1>2. Others(t)
  BY DEF CommitFinish, LegacyTypeOK, Others, Busy, Terminal
<1>3. FinishOK(t)'
  BY DEF CommitFinish, LegacyTypeOK, TurnOK, FinishOK, Open
<1>4. SavedOK(t)'
  BY DEF CommitFinish, LegacyTypeOK, TurnOK, SavedOK, Heard, Unheard, Terminal
<1>5. QuietOK(t)'
  BY DEF CommitFinish, LegacyTypeOK, TurnOK, QuietOK, Open
<1> QED
  BY <1>1, <1>2, <1>3, <1>4, <1>5 DEF TurnOK

LEMMA CommitStep ==
  ASSUME LegacyInv, NEW t \in Turns, CommitOperation(t)
  PROVE  LegacyTypeOK' /\ Others(t) /\ TurnOK(t)'
<1> USE DEF Set, Flag, mysql, choice, work, Holding, Steps, Preparing, Streaming
<1> LegacyTypeOK /\ TurnOK(t)
  BY DEF LegacyInv
<1> DEFINE k == what[t]
<1>1. /\ op[t] # "none" /\ k \in Mutations /\ ~applied[t] /\ Valid(t, k) /\ k \in Steps
      /\ applied'[t] = TRUE /\ applied' = [applied EXCEPT ![t] = TRUE]
      /\ conv' \in BOOLEAN
      /\ rows' = [rows EXCEPT ![t] = rows[t] \union Key(k)]
      /\ rows'[t] = rows[t] \union Key(k)
      /\ recorded' = IF k = "record" THEN recorded \union {t} ELSE recorded
      /\ UNCHANGED <<crowd, pc, kind, verdict, op, what, fin, ending, iters, flags, out>>
  BY DEF CommitOperation, LegacyTypeOK
<1>2. CASE k \in {"create", "record"}
  <2>1. rows' = rows /\ status' = status
    BY <1>1, <1>2 DEF Key, CommitOperation, LegacyTypeOK
  <2>2. LegacyTypeOK'
    BY <1>1, <2>1 DEF LegacyTypeOK
  <2>3. Others(t)
    BY <1>1, <2>1 DEF Others, LegacyTypeOK
  <2>4. TurnOK(t)'
    BY <1>1, <1>2, <2>1 DEF LegacyTypeOK, TurnOK, FinishOK, SavedOK, QuietOK
  <2> QED
    BY <2>2, <2>3, <2>4
<1>3. CASE k = "start"
  <2>1. /\ rows[t] = {} /\ rows'[t] = {"user"} /\ status' = [status EXCEPT ![t] = "pending"]
        /\ status'[t] = "pending" /\ status[t] \notin Terminal
    BY <1>1, <1>3 DEF Key, CommitOperation, LegacyTypeOK, Valid
  <2>2. LegacyTypeOK'
    BY <1>1, <1>3, <2>1 DEF LegacyTypeOK, Terminal
  <2>3. Others(t)
    BY <1>1, <1>3, <2>1 DEF Others, LegacyTypeOK
  <2>4. TurnOK(t)'
    BY <1>1, <1>3, <2>1 DEF LegacyTypeOK, TurnOK, FinishOK, SavedOK, QuietOK, Terminal
  <2> QED
    BY <2>2, <2>3, <2>4
<1>4. CASE k \in {"call", "result"}
  <2>1. /\ status' = status /\ status[t] = "pending" /\ Key(k) \in {{"call"}, {"result"}}
        /\ rows[t] \in {{"user"}, {"user", "call"}}
    BY <1>1, <1>4 DEF Key, CommitOperation, LegacyTypeOK, Valid
  <2>2. LegacyTypeOK'
    BY <1>1, <2>1 DEF LegacyTypeOK, Terminal
  <2>3. Others(t)
    BY <1>1, <1>4, <2>1 DEF Others, LegacyTypeOK, Terminal
  <2>4. TurnOK(t)'
    BY <1>1, <1>4, <2>1 DEF LegacyTypeOK, TurnOK, FinishOK, SavedOK, QuietOK, Terminal
  <2> QED
    BY <2>2, <2>3, <2>4
<1>5. CASE k \in {"finish", "refuse"}
  <2>1. /\ status' = [status EXCEPT ![t] = "completed"] /\ status[t] = "pending" /\ Key(k) = {"final"}
        /\ rows[t] \in {{"user"}, {"user", "call", "result"}} /\ status'[t] = "completed"
        /\ rows'[t] = rows[t] \union {"final"}
    BY <1>1, <1>5 DEF Key, CommitOperation, LegacyTypeOK, Valid, Complete
  <2>2. LegacyTypeOK'
    BY <1>1, <2>1 DEF LegacyTypeOK, Terminal
  <2>3. Others(t)
    BY <1>1, <1>5, <2>1 DEF Others, LegacyTypeOK, Terminal
  <2>4. TurnOK(t)'
    BY <1>1, <1>5, <2>1 DEF LegacyTypeOK, TurnOK, FinishOK, SavedOK, QuietOK, Terminal
  <2> QED
    BY <2>2, <2>3, <2>4
<1> QED
  BY <1>1, <1>2, <1>3, <1>4, <1>5 DEF Mutations

LEMMA SucceedStep ==
  ASSUME LegacyInv, NEW t \in Turns, Succeed(t)
  PROVE  LegacyTypeOK' /\ Others(t) /\ TurnOK(t)'
<1> USE DEF Set, Flag, mysql, choice, work, Holding, Steps, Preparing, Streaming
<1> LegacyTypeOK /\ TurnOK(t)
  BY DEF LegacyInv
<1> DEFINE k == pc[t]
<1>1. /\ k \in Steps /\ op[t] = "running" /\ what[t] = k /\ (k \in Mutations => applied[t])
      /\ op' = [op EXCEPT ![t] = "none"] /\ op'[t] = "none"
      /\ pc' = [pc EXCEPT ![t] = After(t, k)] /\ pc'[t] = After(t, k)
      /\ UNCHANGED <<crowd, conv, rows, status, recorded, what, applied, fin, ending, iters>>
      /\ fin[t] = "none"
  BY DEF Succeed, LegacyTypeOK, TurnOK, FinishOK
<1>2. CASE k = "select"
  <2>1. PICK c \in Choices : kind' = [kind EXCEPT ![t] = c]
    BY <1>2 DEF Succeed
  <2>2. c \in Kinds \union {"answer"} /\ verdict' = verdict /\ flags' = flags /\ out' = out
    BY <1>2, <2>1 DEF Succeed, Choices
  <2>3. pc'[t] \in {"reply", "call"} /\ verdict[t] = "none"
    BY <1>1, <1>2 DEF After, TurnOK, SavedOK, Unheard
  <2>4. LegacyTypeOK'
    BY <1>1, <2>1, <2>2, <2>3 DEF LegacyTypeOK
  <2>5. Others(t)
    BY <1>1, <1>2, <2>1, <2>2, <2>3 DEF Others, LegacyTypeOK
  <2>6. TurnOK(t)'
    BY <1>1, <2>1, <2>2, <2>3 DEF LegacyTypeOK, TurnOK, FinishOK, SavedOK, QuietOK
  <2> QED
    BY <2>4, <2>5, <2>6
<1>3. CASE k = "tool"
  <2>1. PICK v \in {"found", "failed"} \union (IF kind[t] = "knowledge" THEN {"refused"} ELSE {}) :
          verdict' = [verdict EXCEPT ![t] = v]
    BY <1>3 DEF Succeed
  <2>2. /\ v \in {"found", "failed", "refused"} /\ verdict'[t] = v /\ kind' = kind /\ flags' = flags /\ out' = out
        /\ v = "refused" => kind[t] = "knowledge"
    BY <1>3, <2>1 DEF Succeed, LegacyTypeOK
  <2>3. pc'[t] = IF v = "refused" THEN "record" ELSE "result"
    BY <1>1, <1>3, <2>2 DEF After
  <2>4. LegacyTypeOK'
    BY <1>1, <2>1, <2>2, <2>3 DEF LegacyTypeOK
  <2>5. Others(t)
    BY <1>1, <1>3, <2>1, <2>2, <2>3 DEF Others, LegacyTypeOK
  <2>6. TurnOK(t)'
    BY <1>1, <2>1, <2>2, <2>3 DEF LegacyTypeOK, TurnOK, FinishOK, SavedOK, QuietOK, Heard, Unheard
  <2> QED
    BY <2>4, <2>5, <2>6
<1>4. CASE k \in {"finish", "refuse"}
  <2>1. /\ kind' = kind /\ verdict' = verdict /\ out' = out
        /\ flags' = [flags EXCEPT ![t] = flags[t] \union {"finalized"}]
    BY <1>4 DEF Succeed
  <2>2. pc'[t] = "told" /\ status[t] = "completed"
    BY <1>1, <1>4 DEF After, Mutations, TurnOK, SavedOK
  <2>4. LegacyTypeOK'
    BY <1>1, <2>1, <2>2 DEF LegacyTypeOK
  <2>5. Others(t)
    BY <1>1, <1>4, <2>1, <2>2 DEF Others, LegacyTypeOK
  <2>6. TurnOK(t)'
    BY <1>1, <1>4, <2>1, <2>2 DEF LegacyTypeOK, TurnOK, FinishOK, SavedOK, QuietOK, Heard, Unheard
  <2> QED
    BY <2>4, <2>5, <2>6
<1>5. CASE k \in {"load", "create", "start", "call", "record", "result", "reply"}
  <2>1. /\ kind' = kind /\ verdict' = verdict /\ flags' = flags
        /\ out' = out \/ out' = [out EXCEPT ![t] = "meta"]
    BY <1>5 DEF Succeed
  <2>2. /\ pc'[t] \in {"start", "select", "tool", "result", "reply", "refuse", "fail", "finish"}
        /\ k \in Unheard => pc'[t] \in Unheard
        /\ k = "record" => t \in recorded
    BY <1>1, <1>5 DEF After, AfterResult, Mutations, TurnOK, SavedOK, Unheard
  <2>4. LegacyTypeOK'
    BY <1>1, <2>1, <2>2 DEF LegacyTypeOK
  <2>5. Others(t)
    BY <1>1, <1>5, <2>1, <2>2 DEF Others, LegacyTypeOK
  <2>6. FinishOK(t)' /\ QuietOK(t)'
    BY <1>1, <1>5, <2>1, <2>2 DEF LegacyTypeOK, TurnOK, FinishOK, QuietOK
  <2>7. SavedOK(t)'
    <3>1. k \in Heard \/ k = "record" \/ k \in Unheard
      BY <1>5 DEF Heard, Unheard
    <3>2. pc'[t] # "told"
      BY <2>2
    <3>3. verdict'[t] = verdict[t] /\ kind'[t] = kind[t] /\ (out'[t] = out[t] \/ out'[t] = "meta")
      BY <2>1 DEF LegacyTypeOK
    <3>4. verdict[t] = "refused" => t \in recorded
      BY <1>1, <2>2, <3>1 DEF TurnOK, SavedOK
    <3>5. pc'[t] \in Unheard => verdict'[t] = "none"
      BY <1>1, <1>5, <2>2, <3>3 DEF TurnOK, SavedOK, Unheard, After, AfterResult
    <3> QED
      BY <1>1, <3>2, <3>3, <3>4, <3>5 DEF TurnOK, SavedOK
  <2> QED
    BY <2>4, <2>5, <2>6, <2>7 DEF TurnOK
<1> QED
  BY <1>1, <1>2, <1>3, <1>4, <1>5

LEMMA LegacyTurnStep ==
  ASSUME LegacyInv, NEW t \in Turns, TurnStep(t)
  PROVE  LegacyInv' /\ Others(t)
<1>1. LegacyTypeOK' /\ Others(t) /\ TurnOK(t)'
  BY ArriveStep, LaunchStep, SucceedStep, RaiseStep, TellStep, FailStep, TimeoutStep, InterruptStep, CommitStep,
     CommitFinishStep, UnwindStep, FinishStep, FinishFailsStep, CloseIteratorsStep, SettleStep, GiveUpStep,
     LeaveStep, ReleaseStep
  DEF TurnStep, Step
<1> QED
  BY <1>1, OthersKeepInv

LEMMA LegacyStepInv == LegacyInv /\ [LegacyNext]_(legacy) => LegacyInv'
<1> SUFFICES ASSUME LegacyInv, [LegacyNext]_(legacy) PROVE LegacyInv'
  OBVIOUS
<1>1. CASE LegacyNext
  BY <1>1, LegacyTurnStep DEF LegacyNext, TurnStep
<1>2. CASE UNCHANGED legacy
  BY <1>2 DEF legacy, LegacyInv, LegacyTypeOK, OneHolder, TurnOK, FinishOK, SavedOK, QuietOK
<1> QED
  BY <1>1, <1>2

\* At most one element, counted as the model counts.
LEMMA AtMostOne ==
  ASSUME NEW S, NEW x, S \subseteq {x}
  PROVE  Cardinality(S) <= 1
<1>1. \A T : Cardinality(T) = Cardinality(T)
  BY DEF Cardinality, Cardinality
<1>2. S = {} \/ S = {x}
  OBVIOUS
<1>3. Cardinality(S) = 0 \/ Cardinality(S) = 1
  <2>1. CASE S = {}
    BY <2>1, FS_EmptySet
  <2>2. CASE S = {x}
    BY <2>2, FS_Singleton
  <2> QED
    BY <1>2, <2>1, <2>2
<1>4. Cardinality(S) = Cardinality(S)
  BY <1>1
<1> QED
  BY <1>3, <1>4

LEMMA LegacyInvSafe == LegacyInv => LegacySafety
<1> SUFFICES ASSUME LegacyInv PROVE LegacySafety
  OBVIOUS
<1> USE DEF LegacyInv
<1>1. OneWriteAtATime
  <2> SUFFICES ASSUME NEW t \in Turns PROVE Cardinality(InFlight(t)) <= 1
    BY DEF OneWriteAtATime
  <2>1. InFlight(t) \subseteq {what[t]} \/ InFlight(t) \subseteq {"cleanup"}
    BY DEF InFlight, TurnOK, FinishOK, Open
  <2> QED
    BY <2>1, AtMostOne
<1>2. AnswerIsDurable
  BY DEF AnswerIsDurable, TurnOK, SavedOK
<1>3. QuietUnlessGivenUp
  BY DEF QuietUnlessGivenUp, InFlight, TurnOK, QuietOK, Open
<1>4. AloneUnlessGivenUp
  <2> SUFFICES ASSUME NEW t \in Turns, NEW u \in Turns, t # u, pc[u] \in Holding, InFlight(t) # {}
               PROVE  flags[t] \intersect {"gaveUp", "left"} # {}
    BY DEF AloneUnlessGivenUp
  <2>1. pc[t] \in {"idle", "busy", "over"}
    BY DEF OneHolder, LegacyTypeOK
  <2>2. pc[t] = "over"
    BY <2>1 DEF TurnOK, QuietOK, InFlight
  <2> QED
    BY <2>2, <1>3 DEF QuietUnlessGivenUp
<1> QED
  BY <1>1, <1>2, <1>3, <1>4 DEF LegacySafety

\* In the earlier service, too, the cleanup's write never competes with one of
\* the turn, an answer is sent only for what is saved, and no task is left to
\* the next turn unless a grace ran out: for any number of requests.
THEOREM LegacyIsSafe == LegacySpec => []LegacySafety
<1>1. LegacySpec => []LegacyInv
  BY LegacyInitInv, LegacyStepInv, PTL DEF LegacySpec
<1> QED
  BY <1>1, LegacyInvSafe, PTL

\* Whatever commits late, a turn that has ended keeps its status and rows.
THEOREM LegacyEndIsFinal == LegacySpec => EndIsFinal
<1>1. LegacySpec => []LegacyInv
  BY LegacyInitInv, LegacyStepInv, PTL DEF LegacySpec
<1>2. LegacyInv /\ [LegacyNext]_(legacy) =>
        [\A t \in Turns : status[t] \in Terminal =>
           status'[t] = status[t] /\ rows'[t] = rows[t]]_(legacy)
  <2> SUFFICES ASSUME LegacyInv, LegacyNext, NEW u \in Turns, status[u] \in Terminal
               PROVE  status'[u] = status[u] /\ rows'[u] = rows[u]
    OBVIOUS
  <2>1. PICK t \in Turns : TurnStep(t)
    BY DEF LegacyNext, TurnStep
  <2>2. Others(t)
    BY <2>1, LegacyTurnStep
  <2> QED
    BY <2>2 DEF Others
<1> QED
  BY <1>1, <1>2, PTL DEF LegacySpec, EndIsFinal
=============================================================================
