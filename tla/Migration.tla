-------------------------------- MODULE Migration ------------------------------
(***************************************************************************)
(* migrate_workflow: MySQL commits each DDL statement by itself, so a      *)
(* migration may die between any two and is run again against what it has  *)
(* left.  Two operators may run it at once, and an old writer may not have *)
(* been stopped.  All messages are of one turn, where keys must differ.    *)
(* __table__.create is three statements: a run that dies between them      *)
(* leaves a table without its unique keys, a conflict for all later runs.  *)
(***************************************************************************)
EXTENDS Naturals, FiniteSets

CONSTANTS
  Runs,      \* operators that run the migration
  MaxId,     \* bound: message ids
  Batch      \* LIMIT of one back-fill transaction

VARIABLES
  column,    \* messages.event_key: "absent", "nullable", "required"
  data,      \* messages.event_data exists
  index,     \* uq_messages_event exists
  actions,   \* statements of conversation_actions done: table, two unique keys
  odd,       \* some existing definition differs from the migration's
  old,       \* an old writer was not stopped and still inserts
  keys,      \* event_key of each message
  pc,        \* run: its next step
  saw,       \* run: what _inspect_schema found
  only,      \* run: check_only
  alone,     \* run: nobody else has been at the database since it began
  ended      \* run: "none", "ready", "unready", "refused", "failed"

schema == <<column, data, index, actions, odd, old>>
vars == <<column, data, index, actions, odd, old, keys, pc, saw, only, alone, ended>>

Ids == 1..MaxId
Null == 0 - 1
Empty == 0 - 2
User == 0       \* a key of the application; legacy:i is i
Rows == DOMAIN keys
Whole == 3      \* all statements of conversation_actions
Nothing == [column |-> "absent", data |-> FALSE, index |-> FALSE, actions |-> 0]
Schema == [column |-> column, data |-> data, index |-> index, actions |-> actions]

\* conversation_actions exists, but lacks a unique key.
HalfMade == actions \in 1..(Whole - 1)

\* The unique key of MySQL ignores NULL.
Unique(k) == \A i, j \in DOMAIN k : i # j /\ k[i] # Null => k[i] # k[j]

\* Data that migrate_workflow refuses.
Bad(k) ==
  \/ \E i \in DOMAIN k : k[i] = Empty
  \/ ~Unique(k)
  \/ \E i, j \in DOMAIN k : k[i] = Null /\ k[j] = i

TypeOK ==
  /\ column \in {"absent", "nullable", "required"}
  /\ {data, index, odd, old} \subseteq BOOLEAN
  /\ actions \in 0..Whole
  /\ Rows \in SUBSET Ids /\ \A i \in Rows : keys[i] \in {Null, Empty, User} \union Ids
  /\ pc \in [Runs -> {"idle", "inspect", "count", "key", "data", "fill", "check",
                      "require", "index", "table", "unique"}]
  /\ saw \in [Runs -> [column : {"absent", "nullable", "required"}, data : BOOLEAN,
                       index : BOOLEAN, actions : {0, Whole}]]
  /\ only \in [Runs -> BOOLEAN]
  /\ alone \in [Runs -> BOOLEAN]
  /\ ended \in [Runs -> {"none", "ready", "unready", "refused", "failed"}]
  \* what MySQL enforces
  /\ column = "required" => \A i \in Rows : keys[i] # Null
  /\ index => Unique(keys)

\* Any database on which an earlier version, a migration or a person worked.
Init ==
  /\ column \in {"absent", "nullable", "required"}
  /\ data \in BOOLEAN /\ index \in BOOLEAN /\ actions \in 0..Whole /\ odd \in BOOLEAN
  /\ old \in BOOLEAN
  /\ \E n \in 1..(IF old THEN MaxId - 1 ELSE MaxId) :
       keys \in [1..n -> {Null, Empty, User} \union 1..n]
  /\ column = "absent" => ~index /\ \A i \in Rows : keys[i] = Null
  /\ column = "required" => \A i \in Rows : keys[i] # Null
  /\ index => Unique(keys)
  /\ pc = [r \in Runs |-> "idle"]
  /\ saw = [r \in Runs |-> Nothing]
  /\ only = [r \in Runs |-> FALSE]
  /\ alone = [r \in Runs |-> FALSE]
  /\ ended = [r \in Runs |-> "none"]

-----------------------------------------------------------------------------
Goto(r, s) == pc' = [pc EXCEPT ![r] = s]
Finish(r, o) ==
  /\ pc' = [pc EXCEPT ![r] = "idle"]
  /\ ended' = [ended EXCEPT ![r] = o]
  /\ saw' = [saw EXCEPT ![r] = Nothing]
Same == UNCHANGED <<saw, ended>>
Quiet == UNCHANGED <<only, alone>>

\* An operator starts the migration, or only its check.
Begin(r) ==
  /\ pc[r] = "idle" /\ ended[r] # "ready"
  /\ only' \in {[only EXCEPT ![r] = b] : b \in BOOLEAN}
  /\ alone' = [s \in Runs |-> IF s = r THEN \A t \in Runs : pc[t] = "idle" ELSE FALSE]
  /\ ended' = [ended EXCEPT ![r] = "none"]
  /\ Goto(r, "inspect")
  /\ UNCHANGED <<schema, keys, saw>>

\* _inspect_schema: every existing definition is compared, and a table of
\* actions without both its unique keys is refused.
Inspect(r) ==
  /\ pc[r] = "inspect"
  /\ IF odd \/ HalfMade THEN Finish(r, "refused")
     ELSE saw' = [saw EXCEPT ![r] = Schema] /\ Goto(r, "count") /\ UNCHANGED ended
  /\ UNCHANGED <<schema, keys>> /\ Quiet

\* Mutant: a key that the back-fill would repeat is only found by the index.
CountLate(r) ==
  /\ pc[r] = "count"
  /\ IF saw[r].column # "absent" /\ (~Unique(keys) \/ \E i \in Rows : keys[i] = Empty)
     THEN Finish(r, "refused")
     ELSE IF only[r]
     THEN Finish(r, IF saw[r].column = "required" /\ saw[r].data /\ saw[r].index
                       /\ saw[r].actions = Whole THEN "ready" ELSE "unready")
     ELSE Goto(r, "key") /\ Same
  /\ UNCHANGED <<schema, keys>> /\ Quiet

\* The data are looked at; a check ends here.
Count(r) ==
  /\ pc[r] = "count"
  /\ IF saw[r].column # "absent" /\ Bad(keys) THEN Finish(r, "refused")
     ELSE IF only[r]
     THEN Finish(r, IF saw[r].column = "required" /\ saw[r].data /\ saw[r].index
                       /\ saw[r].actions = Whole THEN "ready" ELSE "unready")
     ELSE Goto(r, "key") /\ Same
  /\ UNCHANGED <<schema, keys>> /\ Quiet

\* ADD COLUMN fails if another run has added it.
AddKey(r) ==
  /\ pc[r] = "key"
  /\ IF saw[r].column # "absent" THEN Goto(r, "data") /\ Same /\ UNCHANGED column
     ELSE IF column = "absent" THEN Goto(r, "data") /\ Same /\ column' = "nullable"
     ELSE Finish(r, "failed") /\ UNCHANGED column
  /\ UNCHANGED <<data, index, actions, odd, old, keys>> /\ Quiet

AddData(r) ==
  /\ pc[r] = "data"
  /\ IF saw[r].data THEN Goto(r, "fill") /\ Same /\ UNCHANGED data
     ELSE IF ~data THEN Goto(r, "fill") /\ Same /\ data' = TRUE
     ELSE Finish(r, "failed") /\ UNCHANGED data
  /\ UNCHANGED <<column, index, actions, odd, old, keys>> /\ Quiet

\* The ids of one transaction, in their order.
Nulls == {i \in Rows : keys[i] = Null}
First == {i \in Nulls : Cardinality({j \in Nulls : j < i}) < Batch}

Fill(r) ==
  /\ pc[r] = "fill"
  /\ IF Nulls = {} THEN Goto(r, "check") /\ Same /\ UNCHANGED keys
     ELSE LET new == [i \in Rows |-> IF i \in First THEN i ELSE keys[i]]
          IN  IF index /\ ~Unique(new) THEN Finish(r, "failed") /\ UNCHANGED keys
              ELSE keys' = new /\ UNCHANGED pc /\ Same
  /\ UNCHANGED schema /\ Quiet

\* Nothing may have been inserted behind the back-fill.
Check(r) ==
  /\ pc[r] = "check"
  /\ IF Nulls # {} THEN Finish(r, "refused") ELSE Goto(r, "require") /\ Same
  /\ UNCHANGED <<schema, keys>> /\ Quiet

\* MODIFY NOT NULL, which MySQL refuses while there is a NULL.
Require(r) ==
  /\ pc[r] = "require"
  /\ IF saw[r].column = "required" THEN Goto(r, "index") /\ Same /\ UNCHANGED column
     ELSE IF Nulls = {} THEN Goto(r, "index") /\ Same /\ column' = "required"
     ELSE Finish(r, "failed") /\ UNCHANGED column
  /\ UNCHANGED <<data, index, actions, odd, old, keys>> /\ Quiet

CreateIndex(r) ==
  /\ pc[r] = "index"
  /\ IF saw[r].index THEN Goto(r, "table") /\ Same /\ UNCHANGED index
     ELSE IF ~index /\ Unique(keys) THEN Goto(r, "table") /\ Same /\ index' = TRUE
     ELSE Finish(r, "failed") /\ UNCHANGED index
  /\ UNCHANGED <<column, data, actions, odd, old, keys>> /\ Quiet

\* CREATE TABLE fails if another run has created it, half or whole.
CreateTable(r) ==
  /\ pc[r] = "table"
  /\ IF saw[r].actions = Whole THEN Finish(r, "ready") /\ UNCHANGED actions
     ELSE IF actions = 0 THEN Goto(r, "unique") /\ Same /\ actions' = 1
     ELSE Finish(r, "failed") /\ UNCHANGED actions
  /\ UNCHANGED <<column, data, index, odd, old, keys>> /\ Quiet

\* One of its two CREATE UNIQUE INDEX, in any order.
CreateUnique(r) ==
  /\ pc[r] = "unique"
  /\ actions' = actions + 1
  /\ IF actions' = Whole THEN Finish(r, "ready") ELSE Same /\ UNCHANGED pc
  /\ UNCHANGED <<column, data, index, odd, old, keys>> /\ Quiet

\* The run dies between two statements; what it committed stays.
Crash(r) ==
  /\ pc[r] # "idle"
  /\ Finish(r, "none")
  /\ UNCHANGED <<schema, keys>> /\ Quiet

\* An old writer inserts a message without a key, while it can.
Write ==
  /\ old /\ column # "required" /\ Cardinality(Rows) < MaxId
  /\ keys' = [i \in 1..(Cardinality(Rows) + 1) |->
                IF i \in Rows THEN keys[i] ELSE Null]
  /\ alone' = [r \in Runs |-> FALSE]
  /\ UNCHANGED <<schema, pc, saw, only, ended>>

Work(r) == Inspect(r) \/ Count(r) \/ AddKey(r) \/ AddData(r) \/ Fill(r) \/ Check(r)
           \/ Require(r) \/ CreateIndex(r) \/ CreateTable(r) \/ CreateUnique(r)
Next == Write \/ \E r \in Runs : Begin(r) \/ Work(r) \/ Crash(r)

Spec == Init /\ [][Next]_vars

-----------------------------------------------------------------------------
(* Properties.                                                             *)

\* Whoever is told "ready", by the migration or by the check of a start-up,
\* finds the whole schema and a key on every message, now and later.
ReadyIsReady ==
  \A r \in Runs : ended[r] = "ready" =>
    /\ column = "required" /\ data /\ index /\ actions = Whole /\ ~odd
    /\ Nulls = {} /\ Unique(keys)

\* Running again is enough but for one gap: wherever earlier runs have died, a
\* run that is alone is stopped only by what was refused from the start, or by
\* a table of actions whose unique keys were not all created.
RerunHeals ==
  \A r \in Runs : alone[r] /\ ended[r] \in {"refused", "failed"} =>
    odd \/ Bad(keys) \/ HalfMade

\* The run that was creating the table of actions has died.
Abandoned == HalfMade /\ \A r \in Runs : pc[r] # "unique"

\* A database in conflict is left as it is found: no half of a migration is
\* applied to it, and no run mends a table of actions that another left.
ConflictUntouched ==
  [][(odd \/ Bad(keys) \/ Abandoned) /\ ~old => UNCHANGED <<schema, keys>>]_vars

\* No message is lost and none gets another key than it had, or than its
\* legacy key if it had none.
KeysAreKept ==
  [][\A i \in Rows : i \in DOMAIN keys' /\ keys'[i] \in {keys[i], IF keys[i] = Null THEN i ELSE keys[i]}]_vars
=============================================================================
