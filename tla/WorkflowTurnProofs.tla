------------------------- MODULE WorkflowTurnProofs -------------------------
(***************************************************************************)
(* Proofs about WorkflowTurn, for any number of conversations and turns:   *)
(* types; rows, locks and seats; what the checkpoint may say; what         *)
(* recovery heals; the promise of a conversation.                          *)
(***************************************************************************)
EXTENDS WorkflowTurn, FiniteSetTheorems, SequenceTheorems,
        WellFoundedInduction, TLAPS

-----------------------------------------------------------------------------
(* Lemmas about the operators of the model. *)

\* A tail of a history is a history.
LEMMA LastOfType ==
  ASSUME NEW S, NEW s \in Seq(S), NEW k \in Nat
  PROVE  /\ LastOf(s, k) \in Seq(S)
         /\ \A i \in 1..Len(LastOf(s, k)) :
              \E j \in 1..Len(s) : LastOf(s, k)[i] = s[j]
<1> DEFINE n == Len(s)
           d == IF k < n THEN k ELSE n
           m == n - d + 1
<1>1. n \in Nat /\ \A i \in 1..n : s[i] \in S
  BY LenProperties, ElementOfSeq
<1>2. d \in Nat /\ d <= n
  BY <1>1
<1>3. m \in Int /\ m >= 1 /\ m <= n + 1
  <2> HIDE DEF d
  <2> QED
    BY <1>1, <1>2
<1> HIDE DEF m, n
<1>4. \A i \in m..n : s[i] \in S
  BY <1>1, <1>3
<1>5. /\ SubSeq(s, m, n) \in Seq(S)
      /\ Len(SubSeq(s, m, n)) = IF m <= n THEN n - m + 1 ELSE 0
      /\ \A i \in 1..(n - m + 1) : SubSeq(s, m, n)[i] = s[m + i - 1]
  BY <1>1, <1>3, <1>4, SubSeqProperties
<1>6. ASSUME NEW i \in 1..Len(SubSeq(s, m, n))
      PROVE  m + i - 1 \in 1..n /\ SubSeq(s, m, n)[i] = s[m + i - 1]
  BY <1>1, <1>3, <1>5
<1>7. LastOf(s, k) = SubSeq(s, m, n)
  BY DEF LastOf, m, n
<1> QED
  BY <1>5, <1>6, <1>7 DEF n

\* The rows of a conversation are finitely many turns.
LEMMA RowsFinite ==
  ASSUME NEW c
  PROVE  Cardinality(RowsOf(c)) \in Nat /\ Cardinality(CompletedOf(c)) \in Nat
<1>1. RowsOf(c) \subseteq Turns /\ CompletedOf(c) \subseteq Turns
  BY DEF RowsOf, CompletedOf
<1>2. IsFiniteSet(RowsOf(c)) /\ IsFiniteSet(CompletedOf(c))
  BY <1>1, TurnsAssumption, FS_Subset
<1> QED
  BY <1>2, FS_CardinalityType

\* mysql_history lists completed turns of the conversation, and only those.
LEMMA ListingType ==
  ASSUME NEW c, NEW h \in Listings(c)
  PROVE  /\ h \in Seq(Turns)
         /\ \A i \in 1..Len(h) : h[i] \in CompletedOf(c)
<1> DEFINE n == Cardinality(CompletedOf(c))
<1>1. n \in Nat
  BY RowsFinite
<1>2. h \in [1..n -> CompletedOf(c)]
  BY DEF Listings
<1>3. CompletedOf(c) \subseteq Turns
  BY DEF RowsOf, CompletedOf
<1>4. h \in Seq(CompletedOf(c)) /\ h \in Seq(Turns)
  BY <1>1, <1>2, <1>3
<1> QED
  BY <1>4

\* What a repair would save as history.
LEMMA PermittedType ==
  ASSUME TypeOK, NEW c \in Conversations, Current(c) # NoTurn
  PROVE  /\ Current(c) \in Turns
         /\ Permitted(c) \in Seq(Turns)
<1>1. ckpt[c] \in Checkpoint
  BY DEF TypeOK
<1>2. Current(c) \in Turns /\ ckpt[c].history \in Seq(Turns)
  BY <1>1 DEF Checkpoint, Current
<1> QED
  BY <1>2, AppendProperties DEF Permitted

-----------------------------------------------------------------------------
(* Typing. *)

\* TypeOK with what keeps it inductive: a request that holds the guard knows
\* its conversation, and recovery repairs or resets only the checkpoint of a
\* turn, which stays the checkpoint of a turn.
Typed ==
  /\ TypeOK
  /\ \A r \in Turns : pc[r] \in Live => conv[r] \in Conversations
  /\ \A r \in Turns : branch[r] # "none" =>
       pc[r] \in Live /\ ckpt[conv[r]].turn \in Turns

\* The checkpoint of a live request is a checkpoint.
LEMMA LiveCheckpoint ==
  ASSUME Typed, NEW r \in Turns, pc[r] \in Live
  PROVE  /\ conv[r] \in Conversations
         /\ ckpt[conv[r]] \in Checkpoint
         /\ ckpt[conv[r]].history \in Seq(Turns)
         /\ txn[conv[r]] \in Transaction
BY DEF Typed, TypeOK, Checkpoint

\* A graph or recovery step that saves a checkpoint saves one.
LEMMA SaveType ==
  ASSUME Typed, NEW r \in Turns, pc[r] \in Live,
         \/ Input(r) \/ Fresh(r) \/ Work(r) \/ SaveWrites(r) \/ SaveFinal(r) \/ Update(r)
  PROVE  ckpt' \in [Conversations -> Checkpoint]
<1> DEFINE c == conv[r]
           k == ckpt[c]
<1>1. /\ c \in Conversations /\ k \in Checkpoint /\ k.history \in Seq(Turns)
      /\ ckpt \in [Conversations -> Checkpoint]
      /\ hist[r] \in Seq(Turns)
  BY LiveCheckpoint DEF Typed, TypeOK
<1>2. CASE Input(r)
  BY <1>1, <1>2 DEF Input, Save, Checkpoint
<1>3. CASE Fresh(r)
  BY <1>1, <1>3 DEF Fresh, Save, Checkpoint, GraphStatus
<1>4. CASE Work(r)
  BY <1>1, <1>4 DEF Work, Save, Checkpoint
<1>5. CASE SaveWrites(r)
  <2>1. LastOf(Append(k.history, r), MaxHistory) \in Seq(Turns)
    BY <1>1, LastOfType, AppendProperties, BoundsAssumption
  <2>2. [k EXCEPT !.status = "completed",
                  !.history = LastOf(Append(k.history, r), MaxHistory)] \in Checkpoint
    BY <1>1, <2>1 DEF Checkpoint, GraphStatus
  <2> QED
    BY <1>1, <1>5, <2>2 DEF SaveWrites, Save
<1>6. CASE SaveFinal(r)
  BY <1>1, <1>6 DEF SaveFinal, Save, Checkpoint
<1>7. CASE Update(r)
  <2>1. Current(c) \in Turns
    BY <1>7 DEF Update, Typed, Current
  <2>2. Permitted(c) \in Seq(Turns)
    BY <1>1, <2>1, PermittedType, NamesAssumption DEF Typed
  <2>3. Repaired(c) \in Checkpoint /\ Reset(c) \in Checkpoint
    BY <1>1, <2>1, <2>2 DEF Repaired, Reset, Checkpoint, GraphStatus
  <2> QED
    BY <1>1, <1>7, <2>3 DEF Update
<1> QED
  BY <1>2, <1>3, <1>4, <1>5, <1>6, <1>7

\* A transaction that a request begins is one.
LEMMA BeginType ==
  ASSUME Typed, NEW r \in Turns, pc[r] \in Live, NEW t \in Turns,
         NEW to \in AuditStatus, Begin(r, t, to)
  PROVE  txn' \in [Conversations -> Transaction]
<1>1. [turn |-> t, to |-> to, by |-> r] \in Transaction
  BY DEF Transaction
<1> QED
  BY <1>1 DEF Begin, Typed, TypeOK

\* A transaction left to the server is one.
LEMMA DisownedType ==
  ASSUME Typed, NEW c \in Conversations
  PROVE  txn[c] \in Transaction /\ [txn[c] EXCEPT !.by = Server] \in Transaction
<1>1. txn[c] \in Transaction
  BY DEF Typed, TypeOK
<1> QED
  BY <1>1 DEF Transaction

\* finish_turn begins a transaction, goes on, or raises.
LEMMA FinishTurnType ==
  ASSUME Typed, NEW r \in Turns, pc[r] \in Live, NEW t \in Turns,
         NEW to \in AuditStatus, NEW p \in Live, NEW q \in Live,
         FinishTurn(r, t, to, p, q)
  PROVE  /\ txn' \in [Conversations -> Transaction]
         /\ pc' \in [Turns -> PCs]
         /\ pc'[r] \in Live
         /\ \A s \in Turns \ {r} : pc'[s] = pc[s]
         /\ cause' \in [Turns -> Causes]
<1> USE DEF Typed, TypeOK
<1>1. CASE Begin(r, t, to) /\ Goto(r, p) /\ UNCHANGED cause
  BY <1>1, BeginType DEF Goto, PCs
<1>2. CASE Resume(r, audit[t] = to, q) /\ UNCHANGED txn
  <2>1. CASE Goto(r, q) /\ UNCHANGED cause
    BY <1>2, <2>1 DEF Goto, PCs
  <2>2. CASE Leave(r, "failed")
    BY <1>2, <2>2 DEF Leave, Goto, PCs, Live, Finishing, Causes
  <2> QED
    BY <1>2, <2>1, <2>2 DEF Resume
<1> QED
  BY <1>1, <1>2 DEF FinishTurn

\* Recovery raises, or plans what to settle and what to save.
LEMMA RecoverCases ==
  ASSUME Typed, NEW r \in Turns, Recover(r)
  PROVE  \/ /\ \E why \in {"failed", "conflict"} : Leave(r, why)
            /\ UNCHANGED reconciling
         \/ \E p \in {"settle", "update"}, b \in {"none", "reset", "repair"},
               h \in Seq(Turns) :
              /\ Plan(r, p, b, h)
              /\ b # "none" => Current(conv[r]) \in Turns
<1> DEFINE c == conv[r]
<1>1. /\ ckpt[c].history \in Seq(Turns)
      /\ c \in Conversations
      /\ ckpt[c] \in Checkpoint
  BY LiveCheckpoint DEF Recover, At, Live, Working
<1>2. Current(c) # NoTurn => Current(c) \in Turns /\ Permitted(c) \in Seq(Turns)
  BY <1>1, PermittedType DEF Typed
<1>3. \A e \in Listings(c) : e \in Seq(Turns)
  BY ListingType
<1>4. CASE \E e \in Listings(c) : Plan(r, "settle", "none", e)
  BY <1>3, <1>4
<1>5. CASE Plan(r, "settle", "none", ckpt[c].history)
  BY <1>1, <1>5
<1>6. CASE Current(c) # NoTurn /\ Plan(r, "update", "repair", Permitted(c))
  BY <1>2, <1>6
<1>7. CASE Current(c) # NoTurn /\ Plan(r, "settle", "reset", ckpt[c].history)
  BY <1>1, <1>2, <1>7
<1> QED
  BY <1>4, <1>5, <1>6, <1>7 DEF Recover

\* The window is cut from a history.
LEMMA WindowType ==
  ASSUME Typed, NEW r \in Turns, Window(r)
  PROVE  hist' \in [Turns -> Seq(Turns)]
<1>1. \A k \in Fits : LastOf(LastOf(hist[r], MaxHistory), k) \in Seq(Turns)
  BY LastOfType, BoundsAssumption DEF Typed, TypeOK
<1> QED
  BY <1>1 DEF Window, Typed, TypeOK

\* Every step keeps the types.
LEMMA TypedStep == Typed /\ [Next]_vars => Typed'
<1> SUFFICES ASSUME Typed, [Next]_vars
             PROVE  Typed'
  OBVIOUS
<1>1. ASSUME NEW r \in Turns, NEW c \in Conversations, PrepareNew(r, c)
      PROVE  Typed'
  <2>1. active' \subseteq Conversations
    BY <1>1 DEF PrepareNew, Admit, Typed, TypeOK
  <2>2. conv' \in [Turns -> Conversations \union {NoConversation}]
    BY <1>1 DEF PrepareNew, Admit, Typed, TypeOK
  <2>3. pc' \in [Turns -> PCs]
    BY <1>1 DEF PrepareNew, Goto, Leave, Resume, PCs, Live, Working,
       Finishing, Typed, TypeOK
  <2>4. TypeOK'
    BY <1>1, <2>1, <2>2, <2>3 DEF PrepareNew, Admit, mysql, reconciling,
       Typed, TypeOK
  <2>5. \A s \in Turns : pc'[s] \in Live => conv'[s] \in Conversations
    BY <1>1 DEF PrepareNew, Admit, At, Goto, mysql, reconciling, Typed,
       TypeOK, Live, Working, Finishing
  <2>6. \A s \in Turns : branch'[s] # "none" =>
          pc'[s] \in Live /\ ckpt'[conv'[s]].turn \in Turns
    BY <1>1 DEF PrepareNew, Admit, At, Goto, mysql, reconciling, Typed,
       TypeOK, Live, Working, Finishing
  <2> QED
    BY <2>4, <2>5, <2>6 DEF Typed
<1>2. ASSUME NEW r \in Turns, NEW c \in Conversations, PrepareExisting(r, c)
      PROVE  Typed'
  <2>1. active' \subseteq Conversations
    BY <1>2 DEF PrepareExisting, Admit, Typed, TypeOK
  <2>2. conv' \in [Turns -> Conversations \union {NoConversation}]
    BY <1>2 DEF PrepareExisting, Admit, Typed, TypeOK
  <2>3. pc' \in [Turns -> PCs]
    BY <1>2 DEF PrepareExisting, Goto, Leave, Resume, PCs, Live, Working,
       Finishing, Typed, TypeOK
  <2>4. TypeOK'
    BY <1>2, <2>1, <2>2, <2>3 DEF PrepareExisting, Admit, mysql,
       reconciling, Typed, TypeOK
  <2>5. \A s \in Turns : pc'[s] \in Live => conv'[s] \in Conversations
    BY <1>2 DEF PrepareExisting, Admit, At, Goto, mysql, reconciling, Typed,
       TypeOK, Live, Working, Finishing
  <2>6. \A s \in Turns : branch'[s] # "none" =>
          pc'[s] \in Live /\ ckpt'[conv'[s]].turn \in Turns
    BY <1>2 DEF PrepareExisting, Admit, At, Goto, mysql, reconciling, Typed,
       TypeOK, Live, Working, Finishing
  <2> QED
    BY <2>4, <2>5, <2>6 DEF Typed
<1>3. ASSUME NEW r \in Turns, NEW c \in Conversations, Refuse(r, c)
      PROVE  Typed'
  <2>1. pc' \in [Turns -> PCs]
    BY <1>3 DEF Refuse, Goto, Leave, Resume, PCs, Live, Working, Finishing,
       Typed, TypeOK
  <2>2. seen' \in [Turns -> Observations]
    BY <1>3 DEF Refuse, Tell, Observations, Typed, TypeOK
  <2>3. TypeOK'
    BY <1>3, <2>1, <2>2 DEF Refuse, mysql, reconciling, Typed, TypeOK
  <2>4. \A s \in Turns : pc'[s] \in Live => conv'[s] \in Conversations
    BY <1>3 DEF Refuse, At, Goto, mysql, reconciling, Typed, TypeOK, Live,
       Working, Finishing
  <2>5. \A s \in Turns : branch'[s] # "none" =>
          pc'[s] \in Live /\ ckpt'[conv'[s]].turn \in Turns
    BY <1>3 DEF Refuse, At, Goto, mysql, reconciling, Typed, TypeOK, Live,
       Working, Finishing
  <2> QED
    BY <2>3, <2>4, <2>5 DEF Typed
<1>4. ASSUME NEW r \in Turns, Create(r)
      PROVE  Typed'
  <2>1. pc[r] \in Live
    BY <1>4 DEF Create, At, Live, Working, Finishing
  <2>2. created' \subseteq Conversations
    BY <1>4, <2>1, LiveCheckpoint DEF Create, Typed, TypeOK
  <2>3. pc' \in [Turns -> PCs]
    BY <1>4, <2>1 DEF Create, Goto, Leave, Resume, PCs, Live, Working,
       Finishing, Typed, TypeOK
  <2>4. TypeOK'
    BY <1>4, <2>2, <2>3 DEF Create, mysql, reconciling, Typed, TypeOK
  <2>5. \A s \in Turns : pc'[s] \in Live => conv'[s] \in Conversations
    BY <1>4, <2>1 DEF Create, Goto, mysql, reconciling, Typed, TypeOK, Live,
       Working, Finishing
  <2>6. \A s \in Turns : branch'[s] # "none" =>
          pc'[s] \in Live /\ ckpt'[conv'[s]].turn \in Turns
    BY <1>4, <2>1 DEF Create, Goto, mysql, reconciling, Typed, TypeOK, Live,
       Working, Finishing
  <2> QED
    BY <2>4, <2>5, <2>6 DEF Typed
<1>5. ASSUME NEW r \in Turns, Recover(r)
      PROVE  Typed'
  <2>1. /\ pc[r] \in Live
        /\ conv[r] \in Conversations
        /\ UNCHANGED <<active, mysql, ckpt, conv, seen>>
    BY <1>5, LiveCheckpoint DEF Recover, At, Live, Working
  <2>2. CASE (\E why \in {"failed", "conflict"} : Leave(r, why)) /\ UNCHANGED reconciling
    <3>1. /\ pc' \in [Turns -> PCs]
          /\ cause' \in [Turns -> Causes]
          /\ pc'[r] \in Live
          /\ \A s \in Turns \ {r} : pc'[s] = pc[s]
      BY <2>2 DEF Leave, Goto, Causes, PCs, Live, Finishing, Typed, TypeOK
    <3> QED
      BY <2>1, <2>2, <3>1 DEF mysql, reconciling, Typed, TypeOK
  <2>3. ASSUME NEW p \in {"settle", "update"}, NEW b \in {"none", "reset", "repair"},
               NEW h \in Seq(Turns), Plan(r, p, b, h),
               b # "none" => Current(conv[r]) \in Turns
        PROVE  Typed'
    <3>1. /\ pc' \in [Turns -> PCs]
          /\ pc'[r] \in Live
          /\ \A s \in Turns \ {r} : pc'[s] = pc[s]
      BY <2>3 DEF Plan, Goto, PCs, Live, Working, Typed, TypeOK
    <3>2. PendingOf(conv[r]) \subseteq Turns
      BY DEF PendingOf, RowsOf
    <3>3. TypeOK'
      BY <2>1, <2>3, <3>1, <3>2 DEF Plan, mysql, Typed, TypeOK
    <3>4. \A s \in Turns : branch'[s] # "none" =>
            pc'[s] \in Live /\ ckpt'[conv'[s]].turn \in Turns
      BY <2>1, <2>3, <3>1 DEF Plan, Current, Typed, TypeOK
    <3> QED
      BY <2>1, <3>1, <3>3, <3>4 DEF Typed
  <2> QED
    BY <1>5, <2>2, <2>3, RecoverCases
<1>6. ASSUME NEW r \in Turns, Settle(r)
      PROVE  Typed'
  <2>1. pc[r] \in Live /\ conv[r] \in Conversations
    BY <1>6, LiveCheckpoint DEF Settle, At, Live, Working
  <2>2. /\ txn' \in [Conversations -> Transaction]
        /\ pc' \in [Turns -> PCs]
        /\ pc'[r] \in Live
        /\ \A s \in Turns \ {r} : pc'[s] = pc[s]
        /\ cause' \in [Turns -> Causes]
    <3>1. \E t \in Turns, to \in AuditStatus, p \in Live, q \in Live :
            FinishTurn(r, t, to, p, q)
      BY <1>6 DEF Settle, AuditStatus, Terminal, Live, Working
    <3> QED
      BY <2>1, <3>1, FinishTurnType
  <2>3. todo' \in [Turns -> SUBSET Turns]
    BY <1>6 DEF Settle, Typed, TypeOK
  <2>4. UNCHANGED <<active, created, audit, row, ckpt, conv, hist, branch, seen>>
    BY <1>6 DEF Settle
  <2> QED
    BY <2>1, <2>2, <2>3, <2>4 DEF Typed, TypeOK
<1>7. ASSUME NEW r \in Turns, SettleAck(r)
      PROVE  Typed'
  <2>1. /\ pc[r] \in Live
        /\ UNCHANGED <<active, mysql, ckpt, conv, hist, branch, seen>>
        /\ (Goto(r, "settle") /\ UNCHANGED cause) \/ Leave(r, "failed")
    BY <1>7 DEF SettleAck, Resume, At, Live, Working
  <2>2. /\ pc' \in [Turns -> PCs]
        /\ pc'[r] \in Live
        /\ \A s \in Turns \ {r} : pc'[s] = pc[s]
        /\ cause' \in [Turns -> Causes]
    BY <2>1 DEF Leave, Goto, Causes, PCs, Live, Working, Finishing, Typed, TypeOK
  <2>3. todo' \in [Turns -> SUBSET Turns]
    BY <1>7 DEF SettleAck, Typed, TypeOK
  <2> QED
    BY <2>1, <2>2, <2>3 DEF mysql, Typed, TypeOK
<1>8. ASSUME NEW r \in Turns, SettleDone(r)
      PROVE  Typed'
  <2>1. pc[r] \in Live
    BY <1>8 DEF SettleDone, At, Live, Working, Finishing
  <2>2. pc' \in [Turns -> PCs]
    BY <1>8, <2>1 DEF SettleDone, Goto, Leave, Resume, PCs, Live, Working,
       Finishing, Typed, TypeOK
  <2>3. TypeOK'
    BY <1>8, <2>2 DEF SettleDone, mysql, reconciling, Typed, TypeOK
  <2>4. \A s \in Turns : pc'[s] \in Live => conv'[s] \in Conversations
    BY <1>8, <2>1 DEF SettleDone, Goto, mysql, reconciling, Typed, TypeOK,
       Live, Working, Finishing
  <2>5. \A s \in Turns : branch'[s] # "none" =>
          pc'[s] \in Live /\ ckpt'[conv'[s]].turn \in Turns
    BY <1>8, <2>1 DEF SettleDone, Goto, mysql, reconciling, Typed, TypeOK,
       Live, Working, Finishing
  <2> QED
    BY <2>3, <2>4, <2>5 DEF Typed
<1>9. ASSUME NEW r \in Turns, Update(r)
      PROVE  Typed'
  <2>1. pc[r] \in Live /\ conv[r] \in Conversations
    BY <1>9, LiveCheckpoint DEF Update, At, Live, Working
  <2>2. ckpt' \in [Conversations -> Checkpoint]
    BY <1>9, <2>1, SaveType
  <2>3. UNCHANGED <<active, mysql, conv, cause, reconciling, seen>>
    BY <1>9 DEF Update
  <2>4. Goto(r, "window") \/ Goto(r, "settle")
    BY <1>9 DEF Update
  <2>5. /\ pc' \in [Turns -> PCs]
        /\ pc'[r] \in Live
        /\ \A s \in Turns \ {r} : pc'[s] = pc[s]
    BY <2>4 DEF Goto, PCs, Live, Working, Typed, TypeOK
  <2>6. \A c \in Conversations : ckpt'[c].turn = ckpt[c].turn
    <3>1. /\ Repaired(conv[r]).turn = ckpt[conv[r]].turn
          /\ Reset(conv[r]).turn = ckpt[conv[r]].turn
      BY DEF Repaired, Reset, Current
    <3>2. \/ ckpt' = [ckpt EXCEPT ![conv[r]] = Reset(conv[r])]
          \/ ckpt' = [ckpt EXCEPT ![conv[r]] = Repaired(conv[r])]
      BY <1>9 DEF Update
    <3> QED
      BY <2>1, <3>1, <3>2 DEF Typed, TypeOK
  <2>7. TypeOK'
    BY <2>2, <2>3, <2>5 DEF mysql, reconciling, Typed, TypeOK
  <2>8. \A s \in Turns : branch'[s] # "none" =>
          pc'[s] \in Live /\ ckpt'[conv'[s]].turn \in Turns
    BY <2>3, <2>5, <2>6 DEF reconciling, Typed
  <2> QED
    BY <2>1, <2>3, <2>5, <2>7, <2>8 DEF Typed
<1>10. ASSUME NEW r \in Turns, Window(r)
      PROVE  Typed'
  <2>1. pc[r] \in Live
    BY <1>10 DEF Window, At, Live, Working, Finishing
  <2>2. hist' \in [Turns -> Seq(Turns)]
    BY <1>10, WindowType
  <2>3. pc' \in [Turns -> PCs]
    BY <1>10, <2>1 DEF Window, Goto, Leave, Resume, PCs, Live, Working,
       Finishing, Typed, TypeOK
  <2>4. TypeOK'
    BY <1>10, <2>2, <2>3 DEF Window, mysql, reconciling, Typed, TypeOK
  <2>5. \A s \in Turns : pc'[s] \in Live => conv'[s] \in Conversations
    BY <1>10, <2>1 DEF Window, Goto, mysql, reconciling, Typed, TypeOK,
       Live, Working, Finishing
  <2>6. \A s \in Turns : branch'[s] # "none" =>
          pc'[s] \in Live /\ ckpt'[conv'[s]].turn \in Turns
    BY <1>10, <2>1 DEF Window, Goto, mysql, reconciling, Typed, TypeOK,
       Live, Working, Finishing
  <2> QED
    BY <2>4, <2>5, <2>6 DEF Typed
<1>11. ASSUME NEW r \in Turns, Start(r)
      PROVE  Typed'
  <2>1. pc[r] \in Live
    BY <1>11 DEF Start, At, Live, Working, Finishing
  <2>2. txn' \in [Conversations -> Transaction]
    BY <1>11, <2>1, LiveCheckpoint DEF Start, FinishTurn, Begin,
       Transaction, AuditStatus, Terminal, FinalStatus, Typed, TypeOK
  <2>3. pc' \in [Turns -> PCs]
    BY <1>11, <2>1 DEF Start, Goto, Leave, Resume, PCs, Live, Working,
       Finishing, Typed, TypeOK
  <2>4. TypeOK'
    BY <1>11, <2>2, <2>3 DEF Start, mysql, reconciling, Typed, TypeOK
  <2>5. \A s \in Turns : pc'[s] \in Live => conv'[s] \in Conversations
    BY <1>11, <2>1 DEF Start, Goto, mysql, reconciling, Typed, TypeOK, Live,
       Working, Finishing
  <2>6. \A s \in Turns : branch'[s] # "none" =>
          pc'[s] \in Live /\ ckpt'[conv'[s]].turn \in Turns
    BY <1>11, <2>1 DEF Start, Goto, mysql, reconciling, Typed, TypeOK, Live,
       Working, Finishing
  <2> QED
    BY <2>4, <2>5, <2>6 DEF Typed
<1>12. ASSUME NEW r \in Turns, StartAck(r)
      PROVE  Typed'
  <2>1. pc[r] \in Live
    BY <1>12 DEF StartAck, At, Live, Working, Finishing
  <2>2. pc' \in [Turns -> PCs]
    BY <1>12, <2>1 DEF StartAck, Goto, Leave, Resume, PCs, Live, Working,
       Finishing, Typed, TypeOK
  <2>3. cause' \in [Turns -> Causes]
    BY <1>12, <2>1 DEF StartAck, Leave, Resume, Causes, Typed, TypeOK
  <2>4. TypeOK'
    BY <1>12, <2>2, <2>3 DEF StartAck, mysql, reconciling, Typed, TypeOK
  <2>5. \A s \in Turns : pc'[s] \in Live => conv'[s] \in Conversations
    BY <1>12, <2>1 DEF StartAck, Resume, Leave, Goto, mysql, reconciling,
       Typed, TypeOK, Live, Working, Finishing
  <2>6. \A s \in Turns : branch'[s] # "none" =>
          pc'[s] \in Live /\ ckpt'[conv'[s]].turn \in Turns
    BY <1>12, <2>1 DEF StartAck, Resume, Leave, Goto, mysql, reconciling,
       Typed, TypeOK, Live, Working, Finishing
  <2> QED
    BY <2>4, <2>5, <2>6 DEF Typed
<1>13. ASSUME NEW r \in Turns, Stream(r)
      PROVE  Typed'
  <2>1. pc[r] \in Live
    BY <1>13 DEF Stream, At, Live, Working, Finishing
  <2>2. seen' \in [Turns -> Observations]
    BY <1>13, <2>1 DEF Stream, Tell, Observations, Typed, TypeOK
  <2>3. pc' \in [Turns -> PCs]
    BY <1>13, <2>1 DEF Stream, Goto, Leave, Resume, PCs, Live, Working,
       Finishing, Typed, TypeOK
  <2>4. TypeOK'
    BY <1>13, <2>2, <2>3 DEF Stream, mysql, reconciling, Typed, TypeOK
  <2>5. \A s \in Turns : pc'[s] \in Live => conv'[s] \in Conversations
    BY <1>13, <2>1 DEF Stream, Goto, mysql, reconciling, Typed, TypeOK,
       Live, Working, Finishing
  <2>6. \A s \in Turns : branch'[s] # "none" =>
          pc'[s] \in Live /\ ckpt'[conv'[s]].turn \in Turns
    BY <1>13, <2>1 DEF Stream, Goto, mysql, reconciling, Typed, TypeOK,
       Live, Working, Finishing
  <2> QED
    BY <2>4, <2>5, <2>6 DEF Typed
<1>14. ASSUME NEW r \in Turns, Input(r)
      PROVE  Typed'
  <2>1. pc[r] \in Live
    BY <1>14 DEF Input, At, Live, Working, Finishing
  <2>2. ckpt' \in [Conversations -> Checkpoint]
    BY <1>14, <2>1, SaveType
  <2>3. pc' \in [Turns -> PCs]
    BY <1>14, <2>1 DEF Input, Goto, Leave, Resume, PCs, Live, Working,
       Finishing, Typed, TypeOK
  <2>4. TypeOK'
    BY <1>14, <2>2, <2>3 DEF Input, mysql, reconciling, Typed, TypeOK
  <2>5. \A s \in Turns : pc'[s] \in Live => conv'[s] \in Conversations
    BY <1>14, <2>1 DEF Input, Save, Goto, mysql, reconciling, Typed, TypeOK,
       Live, Working, Finishing
  <2>6. \A s \in Turns : branch'[s] # "none" =>
          pc'[s] \in Live /\ ckpt'[conv'[s]].turn \in Turns
    BY <1>14, <2>1, LiveCheckpoint DEF Input, Save, Goto, mysql,
       reconciling, Typed, TypeOK, Live, Working, Finishing, Checkpoint
  <2> QED
    BY <2>4, <2>5, <2>6 DEF Typed
<1>15. ASSUME NEW r \in Turns, Fresh(r)
      PROVE  Typed'
  <2>1. pc[r] \in Live
    BY <1>15 DEF Fresh, At, Live, Working, Finishing
  <2>2. ckpt' \in [Conversations -> Checkpoint]
    BY <1>15, <2>1, SaveType
  <2>3. pc' \in [Turns -> PCs]
    BY <1>15, <2>1 DEF Fresh, Goto, Leave, Resume, PCs, Live, Working,
       Finishing, Typed, TypeOK
  <2>4. TypeOK'
    BY <1>15, <2>2, <2>3 DEF Fresh, mysql, reconciling, Typed, TypeOK
  <2>5. \A s \in Turns : pc'[s] \in Live => conv'[s] \in Conversations
    BY <1>15, <2>1 DEF Fresh, Save, Goto, mysql, reconciling, Typed, TypeOK,
       Live, Working, Finishing
  <2>6. \A s \in Turns : branch'[s] # "none" =>
          pc'[s] \in Live /\ ckpt'[conv'[s]].turn \in Turns
    BY <1>15, <2>1, LiveCheckpoint DEF Fresh, Save, Goto, mysql,
       reconciling, Typed, TypeOK, Live, Working, Finishing, Checkpoint
  <2> QED
    BY <2>4, <2>5, <2>6 DEF Typed
<1>16. ASSUME NEW r \in Turns, Work(r)
      PROVE  Typed'
  <2>1. pc[r] \in Live
    BY <1>16 DEF Work, At, Live, Working, Finishing
  <2>2. ckpt' \in [Conversations -> Checkpoint]
    BY <1>16, <2>1, SaveType
  <2>3. pc' \in [Turns -> PCs]
    BY <1>16, <2>1 DEF Work, Goto, Leave, Resume, PCs, Live, Working,
       Finishing, Typed, TypeOK
  <2>4. TypeOK'
    BY <1>16, <2>2, <2>3 DEF Work, mysql, reconciling, Typed, TypeOK
  <2>5. \A s \in Turns : pc'[s] \in Live => conv'[s] \in Conversations
    BY <1>16, <2>1 DEF Work, Save, Goto, mysql, reconciling, Typed, TypeOK,
       Live, Working, Finishing
  <2>6. \A s \in Turns : branch'[s] # "none" =>
          pc'[s] \in Live /\ ckpt'[conv'[s]].turn \in Turns
    BY <1>16, <2>1, LiveCheckpoint DEF Work, Save, Goto, mysql, reconciling,
       Typed, TypeOK, Live, Working, Finishing, Checkpoint
  <2> QED
    BY <2>4, <2>5, <2>6 DEF Typed
<1>17. ASSUME NEW r \in Turns, Persist(r)
      PROVE  Typed'
  <2>1. pc[r] \in Live /\ conv[r] \in Conversations
    BY <1>17, LiveCheckpoint DEF Persist, At, Live, Working
  <2>2. /\ txn' \in [Conversations -> Transaction]
        /\ pc' \in [Turns -> PCs]
        /\ pc'[r] \in Live
        /\ \A s \in Turns \ {r} : pc'[s] = pc[s]
        /\ cause' \in [Turns -> Causes]
    <3>1. \E t \in Turns, to \in AuditStatus, p \in Live, q \in Live :
            FinishTurn(r, t, to, p, q)
      BY <1>17 DEF Persist, AuditStatus, Terminal, Live, Working
    <3> QED
      BY <2>1, <3>1, FinishTurnType
  <2>3. UNCHANGED <<active, created, audit, row, ckpt, conv, reconciling, seen>>
    BY <1>17 DEF Persist
  <2> QED
    BY <2>1, <2>2, <2>3 DEF reconciling, Typed, TypeOK
<1>18. ASSUME NEW r \in Turns, PersistAck(r)
      PROVE  Typed'
  <2>1. pc[r] \in Live
    BY <1>18 DEF PersistAck, At, Live, Working, Finishing
  <2>2. pc' \in [Turns -> PCs]
    BY <1>18, <2>1 DEF PersistAck, Goto, Leave, Resume, PCs, Live, Working,
       Finishing, Typed, TypeOK
  <2>3. cause' \in [Turns -> Causes]
    BY <1>18, <2>1 DEF PersistAck, Leave, Resume, Causes, Typed, TypeOK
  <2>4. TypeOK'
    BY <1>18, <2>2, <2>3 DEF PersistAck, mysql, reconciling, Typed, TypeOK
  <2>5. \A s \in Turns : pc'[s] \in Live => conv'[s] \in Conversations
    BY <1>18, <2>1 DEF PersistAck, Resume, Leave, Goto, mysql, reconciling,
       Typed, TypeOK, Live, Working, Finishing
  <2>6. \A s \in Turns : branch'[s] # "none" =>
          pc'[s] \in Live /\ ckpt'[conv'[s]].turn \in Turns
    BY <1>18, <2>1 DEF PersistAck, Resume, Leave, Goto, mysql, reconciling,
       Typed, TypeOK, Live, Working, Finishing
  <2> QED
    BY <2>4, <2>5, <2>6 DEF Typed
<1>19. ASSUME NEW r \in Turns, SaveWrites(r)
      PROVE  Typed'
  <2>1. pc[r] \in Live
    BY <1>19 DEF SaveWrites, At, Live, Working, Finishing
  <2>2. ckpt' \in [Conversations -> Checkpoint]
    BY <1>19, <2>1, SaveType
  <2>3. pc' \in [Turns -> PCs]
    BY <1>19, <2>1 DEF SaveWrites, Goto, Leave, Resume, PCs, Live, Working,
       Finishing, Typed, TypeOK
  <2>4. TypeOK'
    BY <1>19, <2>2, <2>3 DEF SaveWrites, mysql, reconciling, Typed, TypeOK
  <2>5. \A s \in Turns : pc'[s] \in Live => conv'[s] \in Conversations
    BY <1>19, <2>1 DEF SaveWrites, Save, Goto, mysql, reconciling, Typed,
       TypeOK, Live, Working, Finishing
  <2>6. \A s \in Turns : branch'[s] # "none" =>
          pc'[s] \in Live /\ ckpt'[conv'[s]].turn \in Turns
    BY <1>19, <2>1, LiveCheckpoint DEF SaveWrites, Save, Goto, mysql,
       reconciling, Typed, TypeOK, Live, Working, Finishing, Checkpoint
  <2> QED
    BY <2>4, <2>5, <2>6 DEF Typed
<1>20. ASSUME NEW r \in Turns, SaveFinal(r)
      PROVE  Typed'
  <2>1. pc[r] \in Live
    BY <1>20 DEF SaveFinal, At, Live, Working, Finishing
  <2>2. ckpt' \in [Conversations -> Checkpoint]
    BY <1>20, <2>1, SaveType
  <2>3. pc' \in [Turns -> PCs]
    BY <1>20, <2>1 DEF SaveFinal, Goto, PCs, Live, Working,
       Finishing, Typed, TypeOK
  <2>4. cause' \in [Turns -> Causes]
    BY <1>20, <2>1 DEF SaveFinal, Causes, Typed, TypeOK
  <2>5. TypeOK'
    BY <1>20, <2>2, <2>3, <2>4 DEF SaveFinal, mysql, reconciling, Typed,
       TypeOK
  <2>6. \A s \in Turns : pc'[s] \in Live => conv'[s] \in Conversations
    BY <1>20, <2>1 DEF SaveFinal, Goto, Save, mysql, reconciling,
       Typed, TypeOK, Live, Working, Finishing
  <2>7. \A s \in Turns : branch'[s] # "none" =>
          pc'[s] \in Live /\ ckpt'[conv'[s]].turn \in Turns
    BY <1>20, <2>1, LiveCheckpoint DEF SaveFinal, Goto, Save, mysql,
       reconciling, Typed, TypeOK, Live, Working, Finishing, Checkpoint
  <2> QED
    BY <2>5, <2>6, <2>7 DEF Typed
<1>21. ASSUME NEW r \in Turns, Drain(r)
      PROVE  Typed'
  <2>1. pc[r] \in Live
    BY <1>21 DEF Drain, At, Live, Working, Finishing
  <2>2. pc' \in [Turns -> PCs]
    BY <1>21, <2>1 DEF Drain, Goto, Leave, Resume, PCs, Live, Working,
       Finishing, Typed, TypeOK
  <2>3. TypeOK'
    BY <1>21, <2>2 DEF Drain, mysql, reconciling, Typed, TypeOK
  <2>4. \A s \in Turns : pc'[s] \in Live => conv'[s] \in Conversations
    BY <1>21, <2>1 DEF Drain, Goto, mysql, reconciling, Typed, TypeOK, Live,
       Working, Finishing
  <2>5. \A s \in Turns : branch'[s] # "none" =>
          pc'[s] \in Live /\ ckpt'[conv'[s]].turn \in Turns
    BY <1>21, <2>1 DEF Drain, Goto, mysql, reconciling, Typed, TypeOK, Live,
       Working, Finishing
  <2> QED
    BY <2>3, <2>4, <2>5 DEF Typed
<1>22. ASSUME NEW r \in Turns, AuditRead(r)
      PROVE  Typed'
  <2>1. pc[r] \in Live
    BY <1>22 DEF AuditRead, At, Live, Working, Finishing
  <2>2. seen' \in [Turns -> Observations]
    BY <1>22, <2>1 DEF AuditRead, Tell, Observations, Typed, TypeOK
  <2>3. pc' \in [Turns -> PCs]
    BY <1>22, <2>1 DEF AuditRead, Goto, Leave, Resume, PCs, Live, Working,
       Finishing, Typed, TypeOK
  <2>4. TypeOK'
    BY <1>22, <2>2, <2>3 DEF AuditRead, mysql, reconciling, Typed, TypeOK
  <2>5. \A s \in Turns : pc'[s] \in Live => conv'[s] \in Conversations
    BY <1>22, <2>1 DEF AuditRead, Goto, mysql, reconciling, Typed, TypeOK,
       Live, Working, Finishing
  <2>6. \A s \in Turns : branch'[s] # "none" =>
          pc'[s] \in Live /\ ckpt'[conv'[s]].turn \in Turns
    BY <1>22, <2>1 DEF AuditRead, Goto, mysql, reconciling, Typed, TypeOK,
       Live, Working, Finishing
  <2> QED
    BY <2>4, <2>5, <2>6 DEF Typed
<1>23. ASSUME NEW r \in Turns, Cleanup(r)
      PROVE  Typed'
  <2>1. pc[r] \in Live
    BY <1>23 DEF Cleanup, At, Live, Working, Finishing
  <2>2. txn' \in [Conversations -> Transaction]
    <3>1. FinalStatus(r) \in AuditStatus
      BY DEF FinalStatus, AuditStatus, Terminal
    <3> QED
      BY <1>23, <2>1, <3>1, BeginType DEF Cleanup, Typed, TypeOK
  <2>3. seen' \in [Turns -> Observations]
    BY <1>23, <2>1 DEF Cleanup, Tell, Observations, Typed, TypeOK
  <2>4. pc' \in [Turns -> PCs]
    BY <1>23, <2>1 DEF Cleanup, Goto, Leave, Resume, PCs, Live, Working,
       Finishing, Typed, TypeOK
  <2>5. TypeOK'
    BY <1>23, <2>2, <2>3, <2>4 DEF Cleanup, mysql, reconciling, Typed,
       TypeOK
  <2>6. \A s \in Turns : pc'[s] \in Live => conv'[s] \in Conversations
    BY <1>23, <2>1 DEF Cleanup, Goto, mysql, reconciling, Typed, TypeOK,
       Live, Working, Finishing
  <2>7. \A s \in Turns : branch'[s] # "none" =>
          pc'[s] \in Live /\ ckpt'[conv'[s]].turn \in Turns
    BY <1>23, <2>1 DEF Cleanup, Goto, mysql, reconciling, Typed, TypeOK,
       Live, Working, Finishing
  <2> QED
    BY <2>5, <2>6, <2>7 DEF Typed
<1>24. ASSUME NEW r \in Turns, CleanupAck(r)
      PROVE  Typed'
  <2>1. pc[r] \in Live
    BY <1>24 DEF CleanupAck, At, Live, Working, Finishing
  <2>2. seen' \in [Turns -> Observations]
    BY <1>24, <2>1 DEF CleanupAck, Tell, Observations, Typed, TypeOK
  <2>3. pc' \in [Turns -> PCs]
    BY <1>24, <2>1 DEF CleanupAck, Goto, Leave, Resume, PCs, Live, Working,
       Finishing, Typed, TypeOK
  <2>4. TypeOK'
    BY <1>24, <2>2, <2>3 DEF CleanupAck, mysql, reconciling, Typed, TypeOK
  <2>5. \A s \in Turns : pc'[s] \in Live => conv'[s] \in Conversations
    BY <1>24, <2>1 DEF CleanupAck, Goto, mysql, reconciling, Typed, TypeOK,
       Live, Working, Finishing
  <2>6. \A s \in Turns : branch'[s] # "none" =>
          pc'[s] \in Live /\ ckpt'[conv'[s]].turn \in Turns
    BY <1>24, <2>1 DEF CleanupAck, Goto, mysql, reconciling, Typed, TypeOK,
       Live, Working, Finishing
  <2> QED
    BY <2>4, <2>5, <2>6 DEF Typed
<1>25. ASSUME NEW r \in Turns, Release(r)
      PROVE  Typed'
  <2>1. pc[r] \in Live
    BY <1>25 DEF Release, At, Live, Working, Finishing
  <2>2. active' \subseteq Conversations
    BY <1>25, <2>1 DEF Release, Admit, Typed, TypeOK
  <2>3. pc' \in [Turns -> PCs]
    BY <1>25, <2>1 DEF Release, Goto, Leave, Resume, PCs, Live, Working,
       Finishing, Typed, TypeOK
  <2>4. cause' \in [Turns -> Causes]
    BY <1>25, <2>1 DEF Release, Forget, Causes, Typed, TypeOK
  <2>5. hist' \in [Turns -> Seq(Turns)]
    BY <1>25, <2>1, EmptySeq DEF Release, Forget, Typed, TypeOK
  <2>6. todo' \in [Turns -> SUBSET Turns]
    BY <1>25, <2>1 DEF Release, Forget, Typed, TypeOK
  <2>7. branch' \in [Turns -> {"none", "reset", "repair"}]
    BY <1>25, <2>1 DEF Release, Forget, Typed, TypeOK
  <2>8. TypeOK'
    BY <1>25, <2>2, <2>3, <2>4, <2>5, <2>6, <2>7 DEF Release, Forget, mysql,
       reconciling, Typed, TypeOK
  <2>9. \A s \in Turns : pc'[s] \in Live => conv'[s] \in Conversations
    BY <1>25, <2>1 DEF Release, Forget, Goto, mysql, reconciling, Typed,
       TypeOK, Live, Working, Finishing
  <2>10. \A s \in Turns : branch'[s] # "none" =>
          pc'[s] \in Live /\ ckpt'[conv'[s]].turn \in Turns
    BY <1>25, <2>1 DEF Release, Forget, Goto, mysql, reconciling, Typed,
       TypeOK, Live, Working, Finishing
  <2> QED
    BY <2>8, <2>9, <2>10 DEF Typed
<1>26. ASSUME NEW r \in Turns, Fail(r)
      PROVE  Typed'
  <2>1. pc[r] \in Live
    BY <1>26 DEF Fail, At, Live, Working, Finishing
  <2>2. pc' \in [Turns -> PCs]
    BY <1>26, <2>1 DEF Fail, Goto, Leave, Resume, PCs, Live, Working,
       Finishing, Typed, TypeOK
  <2>3. cause' \in [Turns -> Causes]
    BY <1>26, <2>1 DEF Fail, Leave, Resume, Causes, Typed, TypeOK
  <2>4. TypeOK'
    BY <1>26, <2>2, <2>3 DEF Fail, Leave, mysql, reconciling, Typed, TypeOK
  <2>5. \A s \in Turns : pc'[s] \in Live => conv'[s] \in Conversations
    BY <1>26, <2>1 DEF Fail, Leave, Goto, mysql, reconciling, Typed, TypeOK,
       Live, Working, Finishing
  <2>6. \A s \in Turns : branch'[s] # "none" =>
          pc'[s] \in Live /\ ckpt'[conv'[s]].turn \in Turns
    BY <1>26, <2>1 DEF Fail, Leave, Goto, mysql, reconciling, Typed, TypeOK,
       Live, Working, Finishing
  <2> QED
    BY <2>4, <2>5, <2>6 DEF Typed
<1>27. ASSUME NEW r \in Turns, Disconnect(r)
      PROVE  Typed'
  <2>1. pc[r] \in Live
    BY <1>27 DEF Disconnect, At, Live, Working, Finishing
  <2>2. pc' \in [Turns -> PCs]
    BY <1>27, <2>1 DEF Disconnect, Goto, Leave, Resume, PCs, Live, Working,
       Finishing, Typed, TypeOK
  <2>3. cause' \in [Turns -> Causes]
    BY <1>27, <2>1 DEF Disconnect, Leave, Resume, Causes, Typed, TypeOK
  <2>4. seen' \in [Turns -> Observations]
    BY <1>27, <2>1 DEF Disconnect, Tell, Observations, Typed, TypeOK
  <2>5. TypeOK'
    BY <1>27, <2>2, <2>3, <2>4 DEF Disconnect, Leave, mysql, reconciling,
       Typed, TypeOK
  <2>6. \A s \in Turns : pc'[s] \in Live => conv'[s] \in Conversations
    BY <1>27, <2>1 DEF Disconnect, Leave, Goto, mysql, reconciling, Typed,
       TypeOK, Live, Working, Finishing
  <2>7. \A s \in Turns : branch'[s] # "none" =>
          pc'[s] \in Live /\ ckpt'[conv'[s]].turn \in Turns
    BY <1>27, <2>1 DEF Disconnect, Leave, Goto, mysql, reconciling, Typed,
       TypeOK, Live, Working, Finishing
  <2> QED
    BY <2>5, <2>6, <2>7 DEF Typed
<1>28. ASSUME NEW c \in Conversations, Commit(c)
      PROVE  Typed'
  <2>1. audit' \in [Turns -> AuditStatus]
    <3>1. txn[c] \in Transaction
      BY DEF Typed, TypeOK
    <3> QED
      BY <1>28, <3>1 DEF Commit, Typed, TypeOK, Transaction
  <2>2. row' \in [Turns -> Nat]
    <3>1. Cardinality(RowsOf(c)) + 1 \in Nat
      BY RowsFinite
    <3>2. \/ row' = [row EXCEPT ![txn[c].turn] = Cardinality(RowsOf(c)) + 1]
          \/ row' = row
      BY <1>28 DEF Commit
    <3> QED
      BY <3>1, <3>2 DEF Typed, TypeOK
  <2>3. txn' \in [Conversations -> Transaction]
    BY <1>28 DEF Commit, Transaction, Free, AuditStatus, Typed, TypeOK
  <2>4. TypeOK'
    BY <1>28, <2>1, <2>2, <2>3 DEF Commit, mysql, reconciling, Typed, TypeOK
  <2>5. \A s \in Turns : pc'[s] \in Live => conv'[s] \in Conversations
    BY <1>28 DEF Commit, mysql, reconciling, Typed, TypeOK, Live, Working,
       Finishing
  <2>6. \A s \in Turns : branch'[s] # "none" =>
          pc'[s] \in Live /\ ckpt'[conv'[s]].turn \in Turns
    BY <1>28 DEF Commit, mysql, reconciling, Typed, TypeOK, Live, Working,
       Finishing
  <2> QED
    BY <2>4, <2>5, <2>6 DEF Typed
<1>29. ASSUME NEW c \in Conversations, Rollback(c)
      PROVE  Typed'
  <2>1. txn' \in [Conversations -> Transaction]
    BY <1>29 DEF Rollback, Transaction, Free, AuditStatus, Typed, TypeOK
  <2>2. TypeOK'
    BY <1>29, <2>1 DEF Rollback, mysql, reconciling, Typed, TypeOK
  <2>3. \A s \in Turns : pc'[s] \in Live => conv'[s] \in Conversations
    BY <1>29 DEF Rollback, mysql, reconciling, Typed, TypeOK, Live, Working,
       Finishing
  <2>4. \A s \in Turns : branch'[s] # "none" =>
          pc'[s] \in Live /\ ckpt'[conv'[s]].turn \in Turns
    BY <1>29 DEF Rollback, mysql, reconciling, Typed, TypeOK, Live, Working,
       Finishing
  <2> QED
    BY <2>2, <2>3, <2>4 DEF Typed
<1>30. ASSUME NEW c \in Conversations, Disown(c)
      PROVE  Typed'
  <2>1. txn' \in [Conversations -> Transaction]
    <3>1. [txn[c] EXCEPT !.by = Server] \in Transaction
      BY DisownedType
    <3> QED
      BY <1>30, <3>1 DEF Disown, Typed, TypeOK
  <2>2. TypeOK'
    BY <1>30, <2>1 DEF Disown, mysql, reconciling, Typed, TypeOK
  <2>3. \A s \in Turns : pc'[s] \in Live => conv'[s] \in Conversations
    BY <1>30 DEF Disown, mysql, reconciling, Typed, TypeOK, Live, Working,
       Finishing
  <2>4. \A s \in Turns : branch'[s] # "none" =>
          pc'[s] \in Live /\ ckpt'[conv'[s]].turn \in Turns
    BY <1>30 DEF Disown, mysql, reconciling, Typed, TypeOK, Live, Working,
       Finishing
  <2> QED
    BY <2>2, <2>3, <2>4 DEF Typed
<1>31. CASE Crash
  <2>1. active' \subseteq Conversations
    BY <1>31 DEF Crash, Admit, Typed, TypeOK
  <2>2. pc' \in [Turns -> PCs]
    BY <1>31 DEF Crash, Goto, Leave, Resume, PCs, Live, Working, Finishing,
       Typed, TypeOK
  <2>3. seen' \in [Turns -> Observations]
    BY <1>31 DEF Crash, Tell, Observations, Typed, TypeOK
  <2>4. txn' \in [Conversations -> Transaction]
    <3>1. \A c \in Conversations : /\ txn[c] \in Transaction
                                  /\ [txn[c] EXCEPT !.by = Server] \in Transaction
      BY DisownedType
    <3> QED
      BY <1>31, <3>1 DEF Crash
  <2>5. cause' \in [Turns -> Causes]
    BY <1>31 DEF Crash, Forget, Causes, Typed, TypeOK
  <2>6. hist' \in [Turns -> Seq(Turns)]
    BY <1>31, EmptySeq DEF Crash, Forget, Typed, TypeOK
  <2>7. todo' \in [Turns -> SUBSET Turns]
    BY <1>31 DEF Crash, Forget, Typed, TypeOK
  <2>8. branch' \in [Turns -> {"none", "reset", "repair"}]
    BY <1>31 DEF Crash, Forget, Typed, TypeOK
  <2>9. TypeOK'
    BY <1>31, <2>1, <2>2, <2>3, <2>4, <2>5, <2>6, <2>7, <2>8 DEF Crash,
       Forget, mysql, reconciling, Typed, TypeOK
  <2>10. \A s \in Turns : pc'[s] \in Live => conv'[s] \in Conversations
    BY <1>31 DEF Crash, Forget, mysql, reconciling, Typed, TypeOK, Live,
       Working, Finishing
  <2>11. \A s \in Turns : branch'[s] # "none" =>
          pc'[s] \in Live /\ ckpt'[conv'[s]].turn \in Turns
    BY <1>31 DEF Crash, Forget, mysql, reconciling, Typed, TypeOK, Live,
       Working, Finishing
  <2> QED
    BY <2>9, <2>10, <2>11 DEF Typed
<1>32. ASSUME NEW r \in Turns, End(r)
      PROVE  Typed'
  <2>1. pc[r] \in Live
    BY <1>32 DEF End, At, Live, Working, Finishing
  <2>2. pc' \in [Turns -> PCs]
    BY <1>32, <2>1 DEF End, Goto, Leave, Resume, PCs, Live, Working,
       Finishing, Typed, TypeOK
  <2>3. cause' \in [Turns -> Causes]
    BY <1>32, <2>1 DEF End, Leave, Resume, Causes, Typed, TypeOK
  <2>4. TypeOK'
    BY <1>32, <2>2, <2>3 DEF End, Leave, mysql, reconciling, Typed, TypeOK
  <2>5. \A s \in Turns : pc'[s] \in Live => conv'[s] \in Conversations
    BY <1>32, <2>1 DEF End, Leave, Goto, mysql, reconciling, Typed, TypeOK,
       Live, Working, Finishing
  <2>6. \A s \in Turns : branch'[s] # "none" =>
          pc'[s] \in Live /\ ckpt'[conv'[s]].turn \in Turns
    BY <1>32, <2>1 DEF End, Leave, Goto, mysql, reconciling, Typed, TypeOK,
       Live, Working, Finishing
  <2> QED
    BY <2>4, <2>5, <2>6 DEF Typed
<1>33. ASSUME NEW r \in Turns, CleanupFails(r)
      PROVE  Typed'
  <2>1. pc[r] \in Live
    BY <1>33 DEF CleanupFails, Live, Working, Finishing
  <2>2. seen' \in [Turns -> Observations]
    BY <1>33, <2>1 DEF CleanupFails, Tell, Observations, Typed, TypeOK
  <2>3. pc' \in [Turns -> PCs]
    BY <1>33, <2>1 DEF CleanupFails, Goto, Leave, Resume, PCs, Live, Working,
       Finishing, Typed, TypeOK
  <2>4. TypeOK'
    BY <1>33, <2>2, <2>3 DEF CleanupFails, mysql, reconciling, Typed, TypeOK
  <2>5. \A s \in Turns : pc'[s] \in Live => conv'[s] \in Conversations
    BY <1>33, <2>1 DEF CleanupFails, Goto, mysql, reconciling, Typed, TypeOK,
       Live, Working, Finishing
  <2>6. \A s \in Turns : branch'[s] # "none" =>
          pc'[s] \in Live /\ ckpt'[conv'[s]].turn \in Turns
    BY <1>33, <2>1 DEF CleanupFails, Goto, mysql, reconciling, Typed, TypeOK,
       Live, Working, Finishing
  <2> QED
    BY <2>4, <2>5, <2>6 DEF Typed
<1>34. CASE UNCHANGED vars
  BY <1>34 DEF vars, Typed, TypeOK
<1> QED
  BY <1>1, <1>2, <1>3, <1>4, <1>5, <1>6, <1>7, <1>8, <1>9, <1>10, <1>11,
     <1>12, <1>13, <1>14, <1>15, <1>16, <1>17, <1>18, <1>19, <1>20, <1>21,
     <1>22, <1>23, <1>24, <1>25, <1>26, <1>27, <1>28, <1>29, <1>30, <1>31,
     <1>32, <1>33, <1>34 DEF Next, Arrive, Step, Resolve

\* Initially the types hold.
LEMMA TypedInit == Init => Typed
BY EmptySeq DEF Init, Typed, TypeOK, AuditStatus, Free, Transaction, NoCheckpoint,
   Checkpoint, GraphStatus, PCs, Live, Working, Finishing, Causes, Observations

\* Every behaviour is typed.
LEMMA TypedAlways == Spec => []Typed
<1>1. Init => Typed
  BY TypedInit
<1>2. Typed /\ [Next]_vars => Typed'
  BY TypedStep
<1> QED
  BY <1>1, <1>2, PTL DEF Spec

\* Every variable keeps its type, in every behaviour of the service.
THEOREM TypeCorrect == Spec => []TypeOK
<1>1. Typed => TypeOK
  BY DEF Typed
<1> QED
  BY <1>1, TypedAlways, PTL

-----------------------------------------------------------------------------
(* The inductive invariant. *)

\* Where a request has not yet touched its own rows.
Early == {"idle", "create", "recover", "settle", "settling", "update",
          "window", "start"}

\* Where a request may own a transaction.
Waiting == {"settling", "starting", "persisting", "cleaning", "closing"}
\* Where the checkpoint belongs to the request.
Running == {"work", "persist", "persisting", "saveWrites", "saveFinal"}

\* A request owns at most the row lock of its conversation, while it waits.
OwnerWaits ==
  \A c \in Conversations : txn[c].by \in Turns =>
    conv[txn[c].by] = c /\ pc[txn[c].by] \in Waiting

\* Nothing of a turn is in MySQL, or on its way there, before start_turn.
EarlyUntouched ==
  \A r \in Turns : pc[r] \in Early =>
    audit[r] = "none" /\ \A c \in Conversations : txn[c].turn # r

\* A request that has not arrived knows no history.
IdleKnowsNothing ==
  \A r \in Turns : pc[r] = "idle" => hist[r] = <<>> /\ todo[r] = {} /\ seen[r] = "none"

\* Recovery settles turns of its own conversation.
TodoHere ==
  \A r \in Turns : \A t \in todo[r] : conv[t] = conv[r] /\ pc[t] # "idle"

\* A transaction in flight is about to write a turn that has not ended.
FlightIsOpen ==
  \A c \in Conversations : txn[c] # Free =>
    /\ txn[c].turn \in Turns
    /\ conv[txn[c].turn] = c
    /\ pc[txn[c].turn] # "idle"
    /\ audit[txn[c].turn] \in {"none", "pending"}

\* Rows, locks and seats.
StoreInv ==
  /\ Typed
  /\ SeatAccounting
  /\ OwnerWaits
  /\ EarlyUntouched
  /\ IdleKnowsNothing
  /\ TodoHere
  /\ FlightIsOpen

\* Every turn of a history is committed in its conversation.
Known(h, c) == \A i \in 1..Len(h) : h[i] \in CompletedOf(c)

\* A checkpoint is of a turn of its conversation, and what it calls completed
\* or offers as history is committed.
CheckpointOK(c) ==
  /\ Known(ckpt[c].history, c)
  /\ Current(c) # NoTurn => conv[Current(c)] = c /\ pc[Current(c)] # "idle"
  /\ ckpt[c].status = "completed" => Current(c) # NoTurn /\ CurrentCompleted(c)

\* The graph of a request works on the checkpoint of that request and calls it
\* completed only after the COMMIT, recovery repairs only a committed turn, and
\* done is sent only for a verified one.
RequestOK(r) ==
  /\ Known(hist[r], conv[r])
  /\ pc[r] \in Running => Current(conv[r]) = r
  /\ pc[r] \in {"saveWrites", "saveFinal"} => audit[r] = "completed"
  /\ At(r, "update") /\ branch[r] = "repair" =>
       Current(conv[r]) # NoTurn /\ CurrentCompleted(conv[r])
  /\ seen[r] = "done" =>
       /\ audit[r] = "completed"
       /\ At(r, "release") => Verified(ckpt[conv[r]], r)

GraphInv ==
  /\ \A c \in Conversations : CheckpointOK(c)
  /\ \A r \in Turns : RequestOK(r)

IInv == StoreInv /\ GraphInv

-----------------------------------------------------------------------------
(* What one step of a live request may do, apart from its last one.  Every *)
(* action between Admit and Release fits this shape, which is enough for   *)
(* the invariants about rows, locks and seats.                             *)

Local(r) ==
  /\ pc[r] \in Live /\ pc'[r] \in Live
  /\ pc'[r] \in Early => pc[r] \in Early
  /\ todo'[r] \subseteq todo[r] \union PendingOf(conv[r])
  /\ \A s \in Turns \ {r} :
       /\ pc'[s] = pc[s]
       /\ todo'[s] = todo[s] /\ hist'[s] = hist[s] /\ branch'[s] = branch[s]
       /\ seen'[s] = seen[s]
  /\ UNCHANGED <<active, audit, row, conv>>

Locks(r) ==
  \/ /\ UNCHANGED txn
     /\ Owns(r) /\ pc[r] \in Waiting => pc'[r] \in Waiting
  \/ /\ LockFree(r)
     /\ pc'[r] \in Waiting
     /\ \E t \in Turns, to \in AuditStatus :
          /\ Begin(r, t, to)
          /\ \/ t = r /\ pc[r] = "start" /\ pc'[r] = "starting"
             \/ audit[t] = "pending" /\ conv[t] = conv[r]

\* finish_turn fits the shape.
LEMMA FinishTurnShape ==
  ASSUME Typed, NEW r \in Turns, NEW t \in Turns, NEW to \in AuditStatus,
         NEW p \in Live \intersect Waiting, NEW q \in Live,
         pc[r] \in Live \ Waiting, conv[t] = conv[r],
         FinishTurn(r, t, to, p, q)
  PROVE  /\ Locks(r)
         /\ pc'[r] \in {p, q, "closing"}
         /\ \A s \in Turns \ {r} : pc'[s] = pc[s]
<1>1. CASE audit[t] = "pending" /\ Begin(r, t, to) /\ Goto(r, p)
  <2>1. pc' = [pc EXCEPT ![r] = p]
    BY <1>1 DEF Goto
  <2>2. pc'[r] = p /\ \A s \in Turns \ {r} : pc'[s] = pc[s]
    BY <2>1 DEF Typed, TypeOK
  <2> QED
    BY <1>1, <2>2 DEF FinishTurn, Locks
<1>2. CASE Resume(r, audit[t] = to, q) /\ UNCHANGED txn
  <2>1. pc' = [pc EXCEPT ![r] = q] \/ pc' = [pc EXCEPT ![r] = "closing"]
    BY <1>2 DEF Resume, Leave, Goto
  <2>2. pc'[r] \in {q, "closing"} /\ \A s \in Turns \ {r} : pc'[s] = pc[s]
    BY <2>1 DEF Typed, TypeOK
  <2> QED
    BY <1>2, <2>2 DEF Locks
<1> QED
  BY <1>1, <1>2 DEF FinishTurn

\* Every step of a live request but Release has the shape.
LEMMA StepShape ==
  ASSUME Typed, SeatAccounting, TodoHere, NEW r \in Turns,
         (Step(r) /\ ~Release(r)) \/ Fail(r) \/ CleanupFails(r) \/ Disconnect(r)
  PROVE  Local(r) /\ Locks(r)
<1>1. CASE Create(r)
  BY <1>1 DEF Create, Local, Locks, At, Goto, mysql, reconciling, Live,
     Working, Finishing, Early, Waiting, Typed, TypeOK
<1>2. CASE SettleAck(r)
  BY <1>2 DEF SettleAck, Resume, Leave, Local, Locks, At, Goto, mysql,
     reconciling, Live, Working, Finishing, Early, Waiting, Typed, TypeOK
<1>3. CASE SettleDone(r)
  BY <1>3 DEF SettleDone, Local, Locks, At, Goto, mysql, reconciling, Live,
     Working, Finishing, Early, Waiting, Typed, TypeOK
<1>4. CASE Update(r)
  BY <1>4 DEF Update, Local, Locks, At, Goto, mysql, reconciling, Live,
     Working, Finishing, Early, Waiting, Typed, TypeOK
<1>5. CASE Window(r)
  BY <1>5 DEF Window, Local, Locks, At, Goto, mysql, reconciling, Live,
     Working, Finishing, Early, Waiting, Typed, TypeOK
<1>6. CASE StartAck(r)
  BY <1>6 DEF StartAck, Resume, Leave, Local, Locks, At, Goto, mysql,
     reconciling, Live, Working, Finishing, Early, Waiting, Typed, TypeOK
<1>7. CASE Stream(r)
  BY <1>7 DEF Stream, Tell, Local, Locks, At, Goto, mysql, reconciling,
     Live, Working, Finishing, Early, Waiting, Typed, TypeOK
<1>8. CASE Input(r)
  BY <1>8 DEF Input, Save, Local, Locks, At, Goto, mysql, reconciling, Live,
     Working, Finishing, Early, Waiting, Typed, TypeOK
<1>9. CASE Fresh(r)
  BY <1>9 DEF Fresh, Save, Local, Locks, At, Goto, mysql, reconciling, Live,
     Working, Finishing, Early, Waiting, Typed, TypeOK
<1>10. CASE Work(r)
  BY <1>10 DEF Work, Save, Local, Locks, At, Goto, mysql, reconciling, Live,
     Working, Finishing, Early, Waiting, Typed, TypeOK
<1>11. CASE PersistAck(r)
  BY <1>11 DEF PersistAck, Resume, Leave, Local, Locks, At, Goto, mysql,
     reconciling, Live, Working, Finishing, Early, Waiting, Typed, TypeOK
<1>12. CASE SaveWrites(r)
  BY <1>12 DEF SaveWrites, Save, Local, Locks, At, Goto, mysql, reconciling,
     Live, Working, Finishing, Early, Waiting, Typed, TypeOK
<1>13. CASE SaveFinal(r)
  BY <1>13 DEF SaveFinal, Save, Local, Locks, At, Goto, mysql,
     reconciling, Live, Working, Finishing, Early, Waiting, Typed, TypeOK
<1>14. CASE Drain(r)
  BY <1>14 DEF Drain, Local, Locks, At, Goto, mysql, reconciling, Live,
     Working, Finishing, Early, Waiting, Typed, TypeOK
<1>15. CASE AuditRead(r)
  BY <1>15 DEF AuditRead, Tell, Local, Locks, At, Goto, mysql, reconciling,
     Live, Working, Finishing, Early, Waiting, Typed, TypeOK
<1>16. CASE CleanupAck(r)
  BY <1>16 DEF CleanupAck, Tell, Local, Locks, At, Goto, mysql, reconciling,
     Live, Working, Finishing, Early, Waiting, Typed, TypeOK
<1>17. CASE Fail(r)
  BY <1>17 DEF Fail, Leave, Local, Locks, At, Goto, mysql, reconciling,
     Live, Working, Finishing, Early, Waiting, Typed, TypeOK
<1>18. CASE Disconnect(r)
  BY <1>18 DEF Disconnect, Leave, Local, Locks, At, Goto, mysql,
     reconciling, Live, Working, Finishing, Early, Waiting, Typed, TypeOK
<1>19. CASE Recover(r)
  <2>1. CASE (\E why \in {"failed", "conflict"} : Leave(r, why)) /\ UNCHANGED reconciling
    BY <1>19, <2>1 DEF Recover, Leave, Local, Locks, At, Goto, mysql,
       reconciling, Live, Working, Finishing, Early, Waiting, Typed, TypeOK
  <2>2. CASE \E p \in {"settle", "update"}, b \in {"none", "reset", "repair"},
                h \in Seq(Turns) : Plan(r, p, b, h)
    BY <1>19, <2>2 DEF Recover, Plan, Local, Locks, At, Goto, mysql,
       reconciling, Live, Working, Finishing, Early, Waiting, Typed, TypeOK
  <2> QED
    BY <1>19, <2>1, <2>2, RecoverCases
<1>20. CASE Settle(r)
  <2>1. PICK t \in Turns : IsNext(r, t) /\ FinishTurn(r, t, "interrupted", "settling", "settle")
    BY <1>20 DEF Settle
  <2>2. conv[t] = conv[r]
    BY <2>1 DEF IsNext, TodoHere
  <2>3. Locks(r) /\ pc'[r] \in {"settling", "settle", "closing"}
        /\ \A s \in Turns \ {r} : pc'[s] = pc[s]
    BY <1>20, <2>1, <2>2, FinishTurnShape
       DEF Settle, At, Live, Working, Waiting, AuditStatus, Terminal
  <2> QED
    BY <1>20, <2>3 DEF Settle, Local, At, Live, Working, Finishing, Early,
       Typed, TypeOK
<1>21. CASE Persist(r)
  <2>1. Locks(r) /\ pc'[r] \in {"persisting", "saveWrites", "closing"}
        /\ \A s \in Turns \ {r} : pc'[s] = pc[s]
    BY <1>21, FinishTurnShape
       DEF Persist, At, Live, Working, Waiting, AuditStatus, Terminal
  <2> QED
    BY <1>21, <2>1 DEF Persist, Local, At, reconciling, Live, Working,
       Finishing, Early
<1>22. CASE Start(r)
  BY <1>22 DEF Start, AuditStatus, Local, Locks, At, Goto, mysql,
     reconciling, Live, Working, Finishing, Early, Waiting, Typed, TypeOK
<1>23. CASE Cleanup(r)
  <2>1. FinalStatus(r) \in AuditStatus
    BY DEF FinalStatus, AuditStatus, Terminal
  <2> QED
    BY <1>23, <2>1 DEF Cleanup, Tell, Local, Locks, At, Goto, mysql,
       reconciling, Live, Working, Finishing, Early, Waiting, Typed, TypeOK
<1>24. CASE End(r)
  BY <1>24 DEF End, Leave, Local, Locks, At, Goto, mysql, reconciling,
     Live, Working, Finishing, Early, Waiting, Typed, TypeOK
<1>25. CASE CleanupFails(r)
  BY <1>25 DEF CleanupFails, Tell, Local, Locks, Goto, mysql, reconciling,
     Live, Working, Finishing, Early, Waiting, Typed, TypeOK
<1> QED
  BY <1>1, <1>2, <1>3, <1>4, <1>5, <1>6, <1>7, <1>8, <1>9, <1>10, <1>11,
     <1>12, <1>13, <1>14, <1>15, <1>16, <1>17, <1>18, <1>19, <1>20, <1>21,
     <1>22, <1>23, <1>24, <1>25 DEF Step

-----------------------------------------------------------------------------
(* StoreInv is inductive. *)

\* StoreInv survives a step of a turn that leaves the rows alone.
LEMMA StoreLocal ==
  ASSUME StoreInv, Typed', NEW r \in Turns, Local(r), Locks(r)
  PROVE  StoreInv'
<1>1. SeatAccounting'
  BY DEF StoreInv, SeatAccounting, Local
<1>2. conv[r] \in Conversations
  BY DEF StoreInv, Typed, Local
<1>3. \A s \in Turns : pc'[s] = "idle" => pc[s] = "idle"
  BY DEF Local, Live, Working, Finishing
<1>4. \A s \in Turns : pc[s] = "idle" => pc'[s] = "idle" /\ s # r
  BY DEF Local, Live, Working, Finishing
<1>5. IdleKnowsNothing'
  BY <1>3, <1>4 DEF StoreInv, IdleKnowsNothing, Local
<1>6. \A t \in PendingOf(conv[r]) : t \in Turns /\ conv[t] = conv[r] /\ pc[t] # "idle"
  BY DEF StoreInv, EarlyUntouched, Early, PendingOf, RowsOf
<1>7. TodoHere'
  <2>1. conv' = conv
    BY DEF Local
  <2>2. \A s \in Turns : \A t \in todo[s] :
          t \in Turns /\ conv[t] = conv[s] /\ pc[t] # "idle"
    BY DEF StoreInv, TodoHere, Typed, TypeOK
  <2>3. \A s \in Turns : \A t \in todo'[s] :
          t \in Turns /\ conv[t] = conv[s] /\ pc[t] # "idle"
    BY <1>6, <2>2 DEF Local
  <2>4. \A s \in Turns : \A t \in todo'[s] : pc'[t] # "idle"
    BY <1>3, <2>3
  <2> QED
    BY <2>1, <2>3, <2>4 DEF TodoHere
<1>8. CASE UNCHANGED txn /\ (Owns(r) /\ pc[r] \in Waiting => pc'[r] \in Waiting)
  <2>1. OwnerWaits'
    BY <1>8 DEF StoreInv, OwnerWaits, Local, Owns
  <2>2. EarlyUntouched'
    BY <1>8 DEF StoreInv, EarlyUntouched, Local
  <2>3. FlightIsOpen'
    BY <1>3, <1>8 DEF StoreInv, FlightIsOpen, Local
  <2> QED
    BY <1>1, <1>5, <1>7, <2>1, <2>2, <2>3 DEF StoreInv
<1>9. CASE /\ pc'[r] \in Waiting
           /\ \E t \in Turns, to \in AuditStatus :
                /\ Begin(r, t, to)
                /\ \/ t = r /\ pc[r] = "start" /\ pc'[r] = "starting"
                   \/ audit[t] = "pending" /\ conv[t] = conv[r]
  <2>1. PICK t \in Turns, to \in AuditStatus :
          /\ Begin(r, t, to)
          /\ \/ t = r /\ pc[r] = "start" /\ pc'[r] = "starting"
             \/ audit[t] = "pending" /\ conv[t] = conv[r]
    BY <1>9
  <2>2. /\ txn'[conv[r]] = [turn |-> t, to |-> to, by |-> r]
        /\ \A c \in Conversations \ {conv[r]} : txn'[c] = txn[c]
    BY <1>2, <2>1 DEF Begin, StoreInv, Typed, TypeOK
  <2>3. conv[t] = conv[r] /\ audit[t] \in {"none", "pending"} /\ pc'[t] \notin Early \ {"settling"}
    BY <2>1 DEF StoreInv, EarlyUntouched, Local, Early
  <2>4. pc'[t] \notin Early
    BY <2>1 DEF StoreInv, EarlyUntouched, Local, Early
  <2>5. OwnerWaits'
    BY <1>9, <2>2 DEF StoreInv, OwnerWaits, Local
  <2>6. EarlyUntouched'
    BY <2>2, <2>4 DEF StoreInv, EarlyUntouched, Local
  <2>7. FlightIsOpen'
    BY <1>3, <2>2, <2>3, <2>4 DEF StoreInv, FlightIsOpen, Local, Early
  <2> QED
    BY <1>1, <1>5, <1>7, <2>5, <2>6, <2>7 DEF StoreInv
<1> QED
  BY <1>8, <1>9 DEF Locks

\* StoreInv survives the arrival of a request.
LEMMA StoreAdmit ==
  ASSUME StoreInv, Typed', NEW r \in Turns, NEW c \in Conversations,
         At(r, "idle"), Admit(r, c), NEW p \in {"create", "recover"}, Goto(r, p),
         UNCHANGED <<audit, txn, hist, todo, seen>>
  PROVE  StoreInv'
<1>1. pc'[r] = p /\ conv'[r] = c
      /\ \A s \in Turns \ {r} : pc'[s] = pc[s] /\ conv'[s] = conv[s]
  BY DEF Goto, Admit, StoreInv, Typed, TypeOK
<1>2. p \in Live /\ p \in Early /\ p # "idle"
  BY DEF Live, Working, Early
<1>3. {s \in Turns : pc'[s] \in Live} = {s \in Turns : pc[s] \in Live} \union {r}
  BY <1>1, <1>2
<1>4. pc[r] = "idle" /\ pc[r] \notin Live /\ pc[r] \notin Waiting /\ pc[r] \in Early
  BY DEF At, Live, Working, Finishing, Waiting, Early
<1>5. SeatAccounting'
  <2>1. active' = active \union {c} /\ c \notin active
    BY DEF Admit
  <2>2. \A s \in Turns : pc[s] \in Live => conv[s] \in active /\ s # r
    BY <1>4 DEF StoreInv, SeatAccounting
  <2>3. active' = {conv'[s] : s \in {s \in Turns : pc'[s] \in Live}}
    BY <1>1, <1>2, <1>4, <2>1 DEF StoreInv, SeatAccounting
  <2>4. \A s, t \in Turns :
          pc'[s] \in Live /\ pc'[t] \in Live /\ conv'[s] = conv'[t] => s = t
    BY <1>1, <2>1, <2>2 DEF StoreInv, SeatAccounting
  <2> QED
    BY <2>3, <2>4 DEF SeatAccounting
<1>6. OwnerWaits'
  BY <1>1, <1>4 DEF StoreInv, OwnerWaits
<1>7. EarlyUntouched'
  BY <1>1, <1>4 DEF StoreInv, EarlyUntouched
<1>8. IdleKnowsNothing'
  BY <1>1, <1>2 DEF StoreInv, IdleKnowsNothing
<1>9. TodoHere'
  <2>1. \A s \in Turns : \A t \in todo[s] :
          t \in Turns /\ t # r /\ s # r /\ conv[t] = conv[s] /\ pc[t] # "idle"
    BY <1>4 DEF StoreInv, TodoHere, IdleKnowsNothing, Typed, TypeOK
  <2> QED
    BY <1>1, <2>1 DEF TodoHere
<1>10. FlightIsOpen'
  BY <1>1, <1>2, <1>4 DEF StoreInv, FlightIsOpen
<1> QED
  BY <1>5, <1>6, <1>7, <1>8, <1>9, <1>10 DEF StoreInv

\* StoreInv survives every step.
LEMMA StoreStep ==
  ASSUME StoreInv, [Next]_vars
  PROVE  StoreInv'
<1>1. Typed'
  BY TypedStep DEF StoreInv
<1>2. ASSUME NEW r \in Turns, NEW c \in Conversations, PrepareNew(r, c)
      PROVE  StoreInv'
  BY <1>1, <1>2, StoreAdmit DEF PrepareNew, mysql, reconciling
<1>3. ASSUME NEW r \in Turns, NEW c \in Conversations, PrepareExisting(r, c)
      PROVE  StoreInv'
  BY <1>1, <1>3, StoreAdmit DEF PrepareExisting, mysql, reconciling
<1>4. ASSUME NEW r \in Turns, NEW c \in Conversations, Refuse(r, c)
      PROVE  StoreInv'
  <2>1. pc[r] = "idle" /\ pc' = [pc EXCEPT ![r] = "over"]
        /\ UNCHANGED <<active, audit, txn, conv, hist, todo>>
        /\ \A s \in Turns \ {r} : seen'[s] = seen[s]
    BY <1>4 DEF Refuse, At, Goto, mysql, reconciling, StoreInv, Typed, TypeOK
  <2>2. pc'[r] = "over" /\ \A s \in Turns \ {r} : pc'[s] = pc[s]
    BY <2>1 DEF StoreInv, Typed, TypeOK
  <2>3. SeatAccounting'
    BY <2>1, <2>2 DEF StoreInv, SeatAccounting, Live, Working, Finishing
  <2>4. OwnerWaits'
    BY <2>1, <2>2 DEF StoreInv, OwnerWaits, Waiting
  <2>5. EarlyUntouched'
    BY <2>1, <2>2 DEF StoreInv, EarlyUntouched, Early
  <2>6. IdleKnowsNothing'
    BY <2>1, <2>2 DEF StoreInv, IdleKnowsNothing
  <2>7. TodoHere'
    BY <2>1, <2>2 DEF StoreInv, TodoHere, Typed, TypeOK
  <2>8. FlightIsOpen'
    BY <2>1, <2>2 DEF StoreInv, FlightIsOpen
  <2> QED
    BY <1>1, <2>3, <2>4, <2>5, <2>6, <2>7, <2>8 DEF StoreInv
<1>5. ASSUME NEW r \in Turns, Release(r)
      PROVE  StoreInv'
  <2>1. pc[r] = "release" /\ pc' = [pc EXCEPT ![r] = "over"]
        /\ active' = active \ {conv[r]} /\ UNCHANGED <<audit, txn, conv, seen>>
    BY <1>5 DEF Release, At, Goto, mysql
  <2>2. pc'[r] = "over" /\ \A s \in Turns \ {r} : pc'[s] = pc[s]
    BY <2>1 DEF StoreInv, Typed, TypeOK
  <2>3. \A s \in Turns : /\ todo'[s] \in {todo[s], {}}
                        /\ hist'[s] \in {hist[s], <<>>}
    BY <1>5 DEF Release, Forget
  <2>4. SeatAccounting'
    BY <2>1, <2>2 DEF StoreInv, SeatAccounting, Live, Working, Finishing
  <2>5. OwnerWaits'
    BY <2>1, <2>2 DEF StoreInv, OwnerWaits, Waiting
  <2>6. EarlyUntouched'
    BY <2>1, <2>2 DEF StoreInv, EarlyUntouched, Early
  <2>7. IdleKnowsNothing'
    <3>1. ASSUME NEW s \in Turns, pc'[s] = "idle"
          PROVE  hist'[s] = <<>> /\ todo'[s] = {} /\ seen'[s] = "none"
      <4>1. pc[s] = "idle" /\ seen'[s] = seen[s]
        BY <2>1, <2>2, <2>3, <3>1 DEF Live, Working, Finishing
      <4>2. hist[s] = <<>> /\ todo[s] = {} /\ seen[s] = "none"
        BY <4>1 DEF StoreInv, IdleKnowsNothing
      <4> QED
        BY <2>1, <2>2, <2>3, <4>1, <4>2
    <3> QED
      BY <3>1 DEF IdleKnowsNothing
  <2>8. TodoHere'
    <3>1. ASSUME NEW s \in Turns, NEW t \in todo'[s]
          PROVE  conv'[t] = conv'[s] /\ pc'[t] # "idle"
      <4>1. t \in todo[s] /\ t \in Turns
        BY <2>1, <2>2, <2>3 DEF StoreInv, Typed, TypeOK
      <4> QED
        BY <2>1, <2>2, <2>3, <4>1 DEF StoreInv, TodoHere
    <3> QED
      BY <3>1 DEF TodoHere
  <2>9. FlightIsOpen'
    BY <2>1, <2>2 DEF StoreInv, FlightIsOpen
  <2> QED
    BY <1>1, <2>4, <2>5, <2>6, <2>7, <2>8, <2>9 DEF StoreInv
<1>6. ASSUME NEW c \in Conversations, Commit(c)
      PROVE  StoreInv'
  <2> DEFINE t == txn[c].turn
  <2>1. /\ txn[c] # Free
        /\ UNCHANGED <<active, conv, pc, hist, todo, seen>>
        /\ \A s \in Turns \ {t} : audit'[s] = audit[s]
        /\ \A d \in Conversations \ {c} : txn'[d] = txn[d]
        /\ txn'[c] = Free
    BY <1>6 DEF Commit, reconciling, StoreInv, Typed, TypeOK
  <2>2. t \in Turns /\ conv[t] = c /\ pc[t] \notin Early
    BY <2>1 DEF StoreInv, FlightIsOpen, EarlyUntouched
  <2>3. SeatAccounting'
    BY <2>1 DEF StoreInv, SeatAccounting
  <2>4. OwnerWaits'
    BY <2>1, NamesAssumption DEF StoreInv, OwnerWaits, Free
  <2>5. EarlyUntouched'
    BY <2>1, <2>2, NamesAssumption DEF StoreInv, EarlyUntouched, Free
  <2>6. IdleKnowsNothing' /\ TodoHere'
    BY <2>1 DEF StoreInv, IdleKnowsNothing, TodoHere
  <2>7. FlightIsOpen'
    BY <2>1, <2>2 DEF StoreInv, FlightIsOpen
  <2> QED
    BY <1>1, <2>3, <2>4, <2>5, <2>6, <2>7 DEF StoreInv
<1>7. ASSUME NEW c \in Conversations, Rollback(c) \/ Disown(c)
      PROVE  StoreInv'
  <2>1. /\ UNCHANGED <<active, audit, conv, pc, hist, todo, seen>>
        /\ \A d \in Conversations :
             \/ txn'[d] = txn[d]
             \/ txn'[d] = Free
             \/ txn[d] # Free /\ txn'[d] = [txn[d] EXCEPT !.by = Server]
    <3>1. CASE Rollback(c)
      BY <3>1 DEF Rollback, reconciling, StoreInv, Typed, TypeOK
    <3>2. CASE Disown(c)
      <4>1. txn[c] # Free
        BY <3>2, NamesAssumption DEF Disown, Free
      <4> QED
        BY <3>2, <4>1 DEF Disown, reconciling, StoreInv, Typed, TypeOK
    <3> QED
      BY <1>7, <3>1, <3>2
  <2>2. \A d \in Conversations :
          \/ txn'[d] = txn[d]
          \/ txn'[d] = Free
          \/ txn[d] # Free /\ txn'[d].turn = txn[d].turn /\ txn'[d].by = Server
    BY <2>1 DEF StoreInv, Typed, TypeOK, Transaction
  <2>3. SeatAccounting' /\ IdleKnowsNothing' /\ TodoHere'
    BY <2>1 DEF StoreInv, SeatAccounting, IdleKnowsNothing, TodoHere
  <2>4. OwnerWaits'
    BY <2>1, <2>2, NamesAssumption DEF StoreInv, OwnerWaits, Free
  <2>5. EarlyUntouched'
    BY <2>1, <2>2, NamesAssumption DEF StoreInv, EarlyUntouched, Free
  <2>6. FlightIsOpen'
    BY <2>1, <2>2 DEF StoreInv, FlightIsOpen
  <2> QED
    BY <1>1, <2>3, <2>4, <2>5, <2>6 DEF StoreInv
<1>8. ASSUME Crash
      PROVE  StoreInv'
  <2>1. /\ active' = {} /\ UNCHANGED <<audit, conv>>
        /\ \A s \in Turns : pc'[s] = IF pc[s] \in Live THEN "dead" ELSE pc[s]
        /\ \A s \in Turns : pc[s] \notin Live => seen'[s] = seen[s]
        /\ \A s \in Turns : /\ todo'[s] \in {todo[s], {}}
                           /\ hist'[s] \in {hist[s], <<>>}
    BY <1>8 DEF Crash, Forget
  <2>2. \A d \in Conversations :
          \/ txn'[d] = txn[d] /\ txn[d].by \notin Turns
          \/ txn[d] # Free /\ txn'[d] = [txn[d] EXCEPT !.by = Server]
    BY <1>8, NamesAssumption DEF Crash, Free
  <2>3. \A d \in Conversations :
          \/ txn'[d] = txn[d] /\ txn[d].by \notin Turns
          \/ txn[d] # Free /\ txn'[d].turn = txn[d].turn /\ txn'[d].by = Server
    BY <2>2 DEF StoreInv, Typed, TypeOK, Transaction
  <2>4. SeatAccounting'
    BY <2>1 DEF SeatAccounting, Live, Working, Finishing
  <2>5. OwnerWaits'
    BY <2>3, NamesAssumption DEF OwnerWaits
  <2>6. EarlyUntouched'
    BY <2>1, <2>3 DEF StoreInv, EarlyUntouched, Early
  <2>7. IdleKnowsNothing'
    <3>1. ASSUME NEW s \in Turns, pc'[s] = "idle"
          PROVE  hist'[s] = <<>> /\ todo'[s] = {} /\ seen'[s] = "none"
      <4>1. pc[s] = "idle" /\ seen'[s] = seen[s]
        BY <2>1, <3>1 DEF Live, Working, Finishing
      <4>2. hist[s] = <<>> /\ todo[s] = {} /\ seen[s] = "none"
        BY <4>1 DEF StoreInv, IdleKnowsNothing
      <4> QED
        BY <2>1, <4>1, <4>2
    <3> QED
      BY <3>1 DEF IdleKnowsNothing
  <2>8. TodoHere'
    <3>1. ASSUME NEW s \in Turns, NEW t \in todo'[s]
          PROVE  conv'[t] = conv'[s] /\ pc'[t] # "idle"
      <4>1. t \in todo[s] /\ t \in Turns
        BY <2>1 DEF StoreInv, Typed, TypeOK
      <4> QED
        BY <2>1, <4>1 DEF StoreInv, TodoHere
    <3> QED
      BY <3>1 DEF TodoHere
  <2>9. FlightIsOpen'
    BY <2>1, <2>3 DEF StoreInv, FlightIsOpen
  <2> QED
    BY <1>1, <2>4, <2>5, <2>6, <2>7, <2>8, <2>9 DEF StoreInv
<1>9. ASSUME NEW r \in Turns, (Step(r) /\ ~Release(r)) \/ Fail(r) \/ CleanupFails(r) \/ Disconnect(r)
      PROVE  StoreInv'
  BY <1>1, <1>9, StepShape, StoreLocal DEF StoreInv
<1>10. CASE UNCHANGED vars
  BY <1>1, <1>10 DEF vars, StoreInv, SeatAccounting, OwnerWaits, EarlyUntouched,
     IdleKnowsNothing, TodoHere, FlightIsOpen
<1> QED
  BY <1>2, <1>3, <1>4, <1>5, <1>6, <1>7, <1>8, <1>9, <1>10
     DEF Next, Arrive, Resolve

\* StoreInv holds of an empty database.
LEMMA StoreInit ==
  ASSUME Init
  PROVE  StoreInv
<1>1. Typed
  BY TypedInit
<1> QED
  BY <1>1, NamesAssumption DEF Init, StoreInv, SeatAccounting, OwnerWaits, EarlyUntouched,
     IdleKnowsNothing, TodoHere, FlightIsOpen, Free, Live, Working, Finishing

\* StoreInv holds throughout.
LEMMA StoreAlways == Spec => []StoreInv
<1>1. Init => StoreInv
  BY StoreInit
<1>2. StoreInv /\ [Next]_vars => StoreInv'
  BY StoreStep
<1> QED
  BY <1>1, <1>2, PTL DEF Spec

\* The guard holds exactly the conversations of the live requests, and no two
\* live requests share one, however many conversations and requests there are
\* (SessionGuard and the finally blocks of prepare).
THEOREM SeatsAccounted == Spec => []SeatAccounting
<1>1. StoreInv => SeatAccounting
  BY DEF StoreInv
<1> QED
  BY <1>1, StoreAlways, PTL

\* A transaction still owned by a request runs under that request's guard:
\* _finish drains the physical work before prepare releases the seat.
THEOREM WritesGuarded == Spec => []WritesUnderGuard
<1>1. StoreInv => WritesUnderGuard
  BY DEF StoreInv, WritesUnderGuard, OwnerWaits, SeatAccounting, Waiting, Live,
     Working, Finishing
<1> QED
  BY <1>1, StoreAlways, PTL

\* Every step keeps the status of a turn that has ended.
LEMMA EndedStays ==
  ASSUME StoreInv, [Next]_vars, NEW t \in Turns, audit[t] \in Terminal
  PROVE  audit'[t] = audit[t]
<1>1. CASE \E c \in Conversations : Commit(c)
  BY <1>1 DEF Commit, StoreInv, FlightIsOpen, Typed, TypeOK, Terminal
<1>2. CASE ~\E c \in Conversations : Commit(c)
  BY <1>2 DEF Next, vars, mysql, Arrive, Resolve, PrepareNew, PrepareExisting, Refuse,
     Rollback, Disown, Crash, Step, Create, Recover, Settle, SettleAck, SettleDone,
     Update, Window, Start, StartAck, Stream, Input, Fresh, Work, Persist,
     PersistAck, SaveWrites, SaveFinal, End, Drain, AuditRead, Cleanup,
     CleanupAck, CleanupFails, Release, Fail, Disconnect
<1> QED
  BY <1>1, <1>2

\* A turn that has ended in MySQL keeps its status, whatever commits late:
\* finish_turn refuses rows that are not pending, under the row lock.
THEOREM EndIsFinal == Spec => TerminalIsFinal
<1>1. StoreInv /\ [Next]_vars =>
        [\A t \in Turns : audit[t] \in Terminal => audit'[t] = audit[t]]_vars
  BY EndedStays
<1> QED
  BY <1>1, StoreAlways, PTL DEF Spec, TerminalIsFinal

-----------------------------------------------------------------------------
(* GraphInv is inductive, given StoreInv. *)

\* A turn that has arrived stays in its conversation, and stays completed.
LEMMA Monotone ==
  ASSUME StoreInv, [Next]_vars, NEW t \in Turns, pc[t] # "idle"
  PROVE  /\ pc'[t] # "idle" /\ conv'[t] = conv[t]
         /\ audit[t] = "completed" => audit'[t] = "completed"
<1>1. audit[t] = "completed" => audit'[t] = "completed"
  BY EndedStays DEF Terminal
<1>2. ASSUME NEW r \in Turns, (Step(r) /\ ~Release(r)) \/ Fail(r) \/ CleanupFails(r) \/ Disconnect(r)
      PROVE  pc'[t] # "idle" /\ conv'[t] = conv[t]
  BY <1>2, StepShape DEF StoreInv, Local, Live, Working, Finishing
<1>3. ASSUME NEW r \in Turns, Arrive(r)
      PROVE  pc'[t] # "idle" /\ conv'[t] = conv[t]
  BY <1>3 DEF Arrive, PrepareNew, PrepareExisting, Refuse, Admit, At, Goto,
     StoreInv, Typed, TypeOK
<1>4. ASSUME NEW r \in Turns, Release(r)
      PROVE  pc'[t] # "idle" /\ conv'[t] = conv[t]
  <2>1. pc' = [pc EXCEPT ![r] = "over"] /\ conv' = conv
    BY <1>4 DEF Release, Goto
  <2> QED
    BY <2>1 DEF StoreInv, Typed, TypeOK
<1>5. CASE (\E c \in Conversations : Resolve(c) \/ Disown(c)) \/ UNCHANGED vars
  <2>1. UNCHANGED <<pc, conv>>
    BY <1>5 DEF Resolve, Commit, Rollback, Disown, vars
  <2> QED
    BY <1>1, <2>1
<1>6. CASE Crash
  BY <1>6 DEF Crash
<1> QED
  BY <1>1, <1>2, <1>3, <1>4, <1>5, <1>6 DEF Next

\* A conversation never loses a completed turn.
LEMMA CompletedGrows ==
  ASSUME StoreInv, [Next]_vars, NEW c, NEW t \in CompletedOf(c)
  PROVE  t \in CompletedOf(c)'
<1>1. t \in Turns /\ conv[t] = c /\ audit[t] = "completed"
  BY DEF CompletedOf, RowsOf
<1>2. pc[t] # "idle"
  BY <1>1 DEF StoreInv, EarlyUntouched, Early
<1>3. conv'[t] = c /\ audit'[t] = "completed"
  BY <1>1, <1>2, Monotone
<1> QED
  BY <1>1, <1>3 DEF CompletedOf, RowsOf

\* A checkpoint that no step writes keeps what is said of it.
LEMMA CheckpointStays ==
  ASSUME StoreInv, [Next]_vars, NEW c \in Conversations, CheckpointOK(c),
         ckpt'[c] = ckpt[c]
  PROVE  CheckpointOK(c)'
<1>1. Known(ckpt[c].history, c)'
  BY CompletedGrows DEF CheckpointOK, Known
<1>2. Current(c) # NoTurn => Current(c) \in Turns
  BY DEF StoreInv, Typed, TypeOK, Checkpoint, Current
<1>3. Current(c)' = Current(c)
  BY DEF Current
<1> QED
  BY <1>1, <1>2, <1>3, Monotone DEF CheckpointOK, CurrentCompleted

\* A request that no step moves keeps what is said of it.
LEMMA RequestStays ==
  ASSUME StoreInv, [Next]_vars, NEW r \in Turns, RequestOK(r),
         pc'[r] = pc[r], conv'[r] = conv[r], hist'[r] = hist[r],
         branch'[r] = branch[r], seen'[r] = seen[r],
         pc[r] \in Live => ckpt'[conv[r]] = ckpt[conv[r]]
  PROVE  RequestOK(r)'
<1>1. Known(hist[r], conv[r])'
  BY CompletedGrows DEF RequestOK, Known
<1>2. seen[r] = "done" => pc[r] # "idle"
  BY DEF StoreInv, IdleKnowsNothing
<1>3. audit[r] = "completed" /\ pc[r] # "idle" => audit'[r] = "completed"
  BY Monotone
<1>4. pc'[r] \in Running => Current(conv[r])' = r
  BY DEF RequestOK, Current, Running, Live, Working
<1>5. pc'[r] \in {"saveWrites", "saveFinal"} => audit'[r] = "completed"
  BY <1>3 DEF RequestOK
<1>6. CASE At(r, "update") /\ branch[r] = "repair"
  <2>1. Current(conv[r]) # NoTurn /\ audit[Current(conv[r])] = "completed"
        /\ conv[r] \in Conversations /\ Current(conv[r])' = Current(conv[r])
    BY <1>6 DEF RequestOK, CurrentCompleted, At, Live, Working, StoreInv, Typed, Current
  <2>2. Current(conv[r]) \in Turns
    BY <2>1 DEF StoreInv, Typed, TypeOK, Checkpoint, Current
  <2>3. pc[Current(conv[r])] # "idle"
    BY <2>1, <2>2 DEF StoreInv, EarlyUntouched, Early
  <2>4. audit'[Current(conv[r])] = "completed"
    BY <2>1, <2>2, <2>3, Monotone
  <2> QED
    BY <1>1, <1>2, <1>3, <1>4, <1>5, <1>6, <2>1, <2>4
       DEF RequestOK, CurrentCompleted, At
<1>7. CASE ~(At(r, "update") /\ branch[r] = "repair")
  <2>1. seen[r] = "done" /\ At(r, "release") => Verified(ckpt[conv[r]], r)'
    BY <1>2, <1>3 DEF RequestOK, Verified, At, Live, Finishing
  <2> QED
    BY <1>1, <1>2, <1>3, <1>4, <1>5, <1>7, <2>1 DEF RequestOK, At
<1> QED
  BY <1>6, <1>7

\* A step of one live request keeps GraphInv if it keeps the part about that
\* request and its conversation.
LEMMA LiveStep ==
  ASSUME StoreInv, GraphInv, [Next]_vars, NEW r \in Turns, Local(r),
         \A c \in Conversations \ {conv[r]} : ckpt'[c] = ckpt[c],
         CheckpointOK(conv[r])', RequestOK(r)'
  PROVE  GraphInv'
<1>1. conv' = conv
  BY DEF Local
<1>2. ASSUME NEW c \in Conversations
      PROVE  CheckpointOK(c)'
  <2>1. CASE c = conv[r]
    BY <1>1, <2>1
  <2>2. CASE c # conv[r]
    BY <2>2, CheckpointStays DEF GraphInv
  <2> QED
    BY <2>1, <2>2
<1>3. ASSUME NEW s \in Turns
      PROVE  RequestOK(s)'
  <2>1. CASE s = r
    BY <2>1
  <2>2. CASE s # r
    <3>1. /\ pc'[s] = pc[s] /\ conv'[s] = conv[s] /\ hist'[s] = hist[s]
          /\ branch'[s] = branch[s] /\ seen'[s] = seen[s]
      BY <1>1, <2>2 DEF Local
    <3>2. pc[s] \in Live => conv[s] # conv[r] /\ conv[s] \in Conversations
      BY <2>2 DEF Local, StoreInv, SeatAccounting, Typed
    <3> QED
      BY <3>1, <3>2, RequestStays DEF GraphInv
  <2> QED
    BY <2>1, <2>2
<1> QED
  BY <1>2, <1>3 DEF GraphInv

\* The same for a step that leaves the checkpoint alone.
LEMMA QuietStep ==
  ASSUME StoreInv, GraphInv, [Next]_vars, NEW r \in Turns, Local(r),
         UNCHANGED ckpt, RequestOK(r)'
  PROVE  GraphInv'
<1>1. conv[r] \in Conversations /\ conv' = conv
  BY DEF Local, StoreInv, Typed
<1>2. CheckpointOK(conv[r])'
  BY <1>1, CheckpointStays DEF GraphInv
<1> QED
  BY <1>2, LiveStep

\* ... and moves the request to where nothing more is asked of it.
LEMMA MoveStep ==
  ASSUME StoreInv, GraphInv, [Next]_vars, NEW r \in Turns, Local(r),
         UNCHANGED <<ckpt, hist>>,
         \/ pc'[r] \notin Running \union {"update"}
         \/ /\ pc[r] \in Running /\ pc'[r] \in {"persist", "persisting"}
         \/ /\ pc[r] \in Running /\ pc'[r] = "saveWrites"
            /\ audit[r] = "completed"
         \/ /\ pc'[r] = "update" /\ branch'[r] # "repair",
         seen'[r] # "done" \/ (seen'[r] = seen[r] /\ pc'[r] # "release")
  PROVE  GraphInv'
<1>1. RequestOK(r)
  BY DEF GraphInv
<1>2. audit' = audit /\ conv' = conv
  BY DEF Local
<1>3. Known(hist[r], conv[r])'
  BY <1>1, <1>2, CompletedGrows DEF RequestOK, Known
<1>4. RequestOK(r)'
  BY <1>1, <1>2, <1>3 DEF RequestOK, Current, Running, At
<1> QED
  BY <1>4, QuietStep

\* What recovery may choose as history is committed.
LEMMA KnownPermitted ==
  ASSUME StoreInv, NEW c \in Conversations, CheckpointOK(c), Current(c) # NoTurn
  PROVE  Known(Permitted(c), c)
<1>1. Current(c) \in Turns /\ ckpt[c].history \in Seq(Turns)
  BY DEF StoreInv, Typed, TypeOK, Checkpoint, Current
<1>2. CASE CurrentCompleted(c) /\ ~Has(ckpt[c].history, Current(c))
  <2>1. Current(c) \in CompletedOf(c)
    BY <1>1, <1>2 DEF CheckpointOK, CompletedOf, RowsOf, CurrentCompleted
  <2>2. Permitted(c) = Append(ckpt[c].history, Current(c))
    BY <1>2 DEF Permitted
  <2>3. \A i \in 1..Len(Permitted(c)) :
          \/ Permitted(c)[i] = Current(c)
          \/ i \in 1..Len(ckpt[c].history) /\ Permitted(c)[i] = ckpt[c].history[i]
    BY <1>1, <2>2, AppendProperties
  <2> QED
    BY <2>1, <2>3 DEF Known, CheckpointOK
<1>3. CASE ~(CurrentCompleted(c) /\ ~Has(ckpt[c].history, Current(c)))
  BY <1>3 DEF Permitted, CheckpointOK
<1> QED
  BY <1>2, <1>3

\* What is known of a history is known of its tail.
LEMMA KnownTail ==
  ASSUME NEW h \in Seq(Turns), NEW k \in Nat, NEW c, Known(h, c)
  PROVE  Known(LastOf(h, k), c) /\ LastOf(h, k) \in Seq(Turns)
<1>1. \A i \in 1..Len(LastOf(h, k)) :
        \E j \in 1..Len(h) : LastOf(h, k)[i] = h[j]
  BY LastOfType
<1>2. LastOf(h, k) \in Seq(Turns)
  BY LastOfType
<1> QED
  BY <1>1, <1>2 DEF Known

\* The steps of a request that only decide where it goes next.
LEMMA MovesSafe ==
  ASSUME StoreInv, GraphInv, [Next]_vars, NEW r \in Turns, Local(r),
         \/ Create(r) \/ Settle(r) \/ SettleAck(r) \/ SettleDone(r)
         \/ Start(r) \/ StartAck(r) \/ Stream(r) \/ Persist(r) \/ PersistAck(r)
         \/ End(r) \/ Drain(r) \/ Cleanup(r) \/ CleanupAck(r) \/ CleanupFails(r)
         \/ Fail(r) \/ Disconnect(r)
  PROVE  GraphInv'
<1> DEFINE Quiet == UNCHANGED <<ckpt, hist>>
           Silent == seen'[r] # "done" \/ (seen'[r] = seen[r] /\ pc'[r] # "release")
<1>1. /\ pc \in [Turns -> PCs] /\ seen \in [Turns -> Observations]
      /\ branch \in [Turns -> {"none", "reset", "repair"}]
  BY DEF StoreInv, Typed, TypeOK
<1>2. CASE Create(r)
  BY <1>1, <1>2, MoveStep DEF Create, Goto, mysql, reconciling, Running
<1>3. CASE Settle(r)
  <2>1. Quiet /\ UNCHANGED seen /\ pc'[r] \in {"settle", "settling", "closing"}
    BY <1>1, <1>3 DEF Settle, FinishTurn, Goto, Resume, Leave
  <2> QED
    BY <2>1, MoveStep DEF Running
<1>4. CASE SettleAck(r)
  <2>1. Quiet /\ UNCHANGED seen /\ pc'[r] \in {"settle", "closing"}
    BY <1>1, <1>4 DEF SettleAck, Goto, Resume, Leave
  <2> QED
    BY <2>1, MoveStep DEF Running
<1>5. CASE SettleDone(r)
  <2>1. /\ Quiet /\ UNCHANGED <<seen, branch>>
        /\ \/ pc'[r] = "window"
           \/ pc'[r] = "update" /\ branch[r] = "reset"
    BY <1>1, <1>5 DEF SettleDone, Goto, reconciling
  <2> QED
    BY <2>1, MoveStep DEF Running
<1>6. CASE Start(r)
  BY <1>1, <1>6, MoveStep DEF Start, Goto, reconciling, Running
<1>7. CASE StartAck(r)
  <2>1. Quiet /\ UNCHANGED seen /\ pc'[r] \in {"opened", "closing"}
    BY <1>1, <1>7 DEF StartAck, Goto, Resume, Leave, reconciling
  <2> QED
    BY <2>1, MoveStep DEF Running
<1>8. CASE Stream(r)
  BY <1>1, <1>8, MoveStep DEF Stream, Goto, Tell, reconciling, Running
<1>9. CASE Persist(r)
  <2>1. Quiet /\ UNCHANGED seen /\ pc[r] = "persist"
        /\ \/ pc'[r] = "persisting"
           \/ pc'[r] = "saveWrites" /\ audit[r] = "completed"
           \/ pc'[r] = "closing"
    BY <1>1, <1>9 DEF Persist, FinishTurn, At, Goto, Resume, Leave, reconciling
  <2> QED
    BY <2>1, MoveStep DEF Running
<1>10. CASE PersistAck(r)
  <2>1. Quiet /\ UNCHANGED seen /\ pc[r] = "persisting"
        /\ \/ pc'[r] = "saveWrites" /\ audit[r] = "completed"
           \/ pc'[r] = "closing"
    BY <1>1, <1>10 DEF PersistAck, At, Goto, Resume, Leave, reconciling
  <2> QED
    BY <2>1, MoveStep DEF Running
<1>11. CASE Drain(r)
  BY <1>1, <1>11, MoveStep DEF Drain, Goto, reconciling, Running
<1>12. CASE Cleanup(r)
  <2>1. /\ Quiet
        /\ \/ pc' = [pc EXCEPT ![r] = "cleaning"] /\ UNCHANGED seen
           \/ pc' = [pc EXCEPT ![r] = "release"] /\ Tell(r, "error")
    BY <1>12 DEF Cleanup, Goto, reconciling
  <2>2. Tell(r, "error") => seen'[r] # "done"
    BY <1>1 DEF Tell
  <2>3. \/ pc'[r] = "cleaning" /\ UNCHANGED seen
        \/ pc'[r] = "release" /\ seen'[r] # "done"
    BY <1>1, <2>1, <2>2
  <2> QED
    BY <2>1, <2>3, MoveStep DEF Running
<1>13. CASE CleanupAck(r)
  <2>1. Quiet /\ pc' = [pc EXCEPT ![r] = "release"] /\ Tell(r, "error")
    BY <1>13 DEF CleanupAck, Goto, reconciling
  <2>2. Tell(r, "error") => seen'[r] # "done"
    BY <1>1 DEF Tell
  <2>3. pc'[r] = "release" /\ seen'[r] # "done"
    BY <1>1, <2>1, <2>2
  <2> QED
    BY <2>1, <2>3, MoveStep DEF Running
<1>14. CASE Fail(r)
  BY <1>1, <1>14, MoveStep DEF Fail, Leave, Goto, reconciling, Running
<1>15. CASE Disconnect(r)
  <2>1. CASE Leave(r, "cancelled")
    <3>1. pc'[r] = "closing" /\ Quiet /\ seen'[r] = "gone"
      BY <1>1, <1>15, <2>1 DEF Disconnect, Leave, Goto, reconciling
    <3> QED
      BY <3>1, MoveStep DEF Running
  <2>2. CASE pc[r] \in Finishing /\ UNCHANGED <<pc, cause>>
    <3>1. pc'[r] = pc[r] /\ Quiet /\ seen'[r] = "gone"
      BY <1>1, <1>15, <2>2 DEF Disconnect, reconciling
    <3>2. audit' = audit /\ conv' = conv /\ RequestOK(r)
      BY DEF Local, GraphInv
    <3>3. Known(hist[r], conv[r])'
      BY <3>1, <3>2, CompletedGrows DEF RequestOK, Known
    <3>4. RequestOK(r)'
      BY <2>2, <3>1, <3>2, <3>3 DEF RequestOK, Finishing, Running, At
    <3> QED
      BY <3>1, <3>4, QuietStep
  <2> QED
    BY <1>15, <2>1, <2>2 DEF Disconnect
<1>16. CASE End(r)
  BY <1>1, <1>16, MoveStep DEF End, Leave, Goto, reconciling, Running
<1>17. CASE CleanupFails(r)
  <2>1. Quiet /\ pc' = [pc EXCEPT ![r] = "release"] /\ Tell(r, "error")
    BY <1>17 DEF CleanupFails, Goto, reconciling
  <2>2. Tell(r, "error") => seen'[r] # "done"
    BY <1>1 DEF Tell
  <2>3. pc'[r] = "release" /\ seen'[r] # "done"
    BY <1>1, <2>1, <2>2
  <2> QED
    BY <2>1, <2>3, MoveStep DEF Running
<1> QED
  BY <1>2, <1>3, <1>4, <1>5, <1>6, <1>7, <1>8, <1>9, <1>10, <1>11, <1>12,
     <1>13, <1>14, <1>15, <1>16, <1>17

\* Recovery: whatever it chooses as history is committed, and it plans a repair
\* only for a committed turn.
LEMMA RecoverSafe ==
  ASSUME StoreInv, GraphInv, [Next]_vars, NEW r \in Turns, Local(r), Recover(r)
  PROVE  GraphInv'
<1> DEFINE c == conv[r]
<1>1. /\ c \in Conversations /\ UNCHANGED <<ckpt, conv, seen, audit>>
      /\ pc[r] = "recover"
  BY LiveCheckpoint DEF StoreInv, Recover, At, Local
<1>2. CASE \E why \in {"failed", "conflict"} : Leave(r, why) /\ UNCHANGED reconciling
  <2>1. pc'[r] = "closing" /\ UNCHANGED hist
    BY <1>2 DEF Leave, Goto, reconciling, StoreInv, Typed, TypeOK
  <2> QED
    BY <1>1, <2>1, MoveStep DEF Running
<1>3. ASSUME NEW p, NEW b, NEW h, Plan(r, p, b, h), Known(h, c),
             p \notin Running \union {"release"},
             p = "update" /\ b = "repair" => Current(c) # NoTurn /\ CurrentCompleted(c)
      PROVE  GraphInv'
  <2>1. pc'[r] = p /\ branch'[r] = b /\ hist'[r] = h
    BY <1>3 DEF Plan, Goto, StoreInv, Typed, TypeOK
  <2>2. Known(hist[r], conv[r])'
    BY <1>1, <1>3, <2>1, CompletedGrows DEF Known
  <2>3. seen[r] = "done" => audit[r] = "completed"
    BY DEF GraphInv, RequestOK
  <2>4. RequestOK(r)'
    BY <1>1, <1>3, <2>1, <2>2, <2>3 DEF RequestOK, Running, At, Current, CurrentCompleted
  <2> QED
    BY <1>1, <2>4, QuietStep
<1>4. ASSUME NEW e \in Listings(c), Plan(r, "settle", "none", e)
      PROVE  GraphInv'
  BY <1>3, <1>4, ListingType DEF Known, Running
<1>5. CASE Plan(r, "settle", "none", ckpt[c].history)
  BY <1>1, <1>3, <1>5 DEF Running, GraphInv, CheckpointOK
<1>6. CASE /\ Current(c) # NoTurn /\ CurrentCompleted(c)
           /\ Plan(r, "update", "repair", Permitted(c))
  BY <1>1, <1>3, <1>6, KnownPermitted DEF Running, GraphInv
<1>7. CASE Plan(r, "settle", "reset", ckpt[c].history)
  BY <1>1, <1>3, <1>7 DEF Running, GraphInv, CheckpointOK
<1> QED
  BY <1>2, <1>4, <1>5, <1>6, <1>7 DEF Recover

\* Saving a checkpoint of the request itself.
LEMMA SaveStep ==
  ASSUME StoreInv, GraphInv, [Next]_vars, NEW r \in Turns, Local(r), NEW k,
         ckpt' = [ckpt EXCEPT ![conv[r]] = k], UNCHANGED <<hist, seen>>,
         pc'[r] # "update", pc'[r] # "release",
         Known(k.history, conv[r]),
         k.turn # NoTurn => k.turn \in Turns /\ conv[k.turn] = conv[r]
                              /\ pc[k.turn] # "idle",
         k.status = "completed" => k.turn # NoTurn /\ audit[k.turn] = "completed",
         pc'[r] \in Running => k.turn = r,
         pc'[r] \in {"saveWrites", "saveFinal"} => audit[r] = "completed"
  PROVE  GraphInv'
<1>1. /\ conv[r] \in Conversations /\ ckpt \in [Conversations -> Checkpoint]
      /\ conv' = conv /\ audit' = audit
  BY DEF Local, StoreInv, Typed, TypeOK
<1>2. ckpt'[conv[r]] = k /\ \A c \in Conversations \ {conv[r]} : ckpt'[c] = ckpt[c]
  BY <1>1
<1>3. k.turn \in Turns /\ pc[k.turn] # "idle" => pc'[k.turn] # "idle"
  BY Monotone
<1>4. (Known(ckpt[conv[r]].history, conv[r]))'
  BY <1>1, <1>2, CompletedGrows DEF Known
<1>5. CheckpointOK(conv[r])'
  BY <1>1, <1>2, <1>3, <1>4 DEF CheckpointOK, Current, CurrentCompleted
<1>6. (Known(hist[r], conv[r]))'
  BY <1>1, CompletedGrows DEF GraphInv, RequestOK, Known
<1>7. seen[r] = "done" => audit[r] = "completed"
  BY DEF GraphInv, RequestOK
<1>8. RequestOK(r)'
  BY <1>1, <1>2, <1>6, <1>7 DEF RequestOK, Current, At
<1> QED
  BY <1>2, <1>5, <1>8, LiveStep

\* The graph and the repair of recovery save only sound checkpoints.
LEMMA SavesSafe ==
  ASSUME StoreInv, GraphInv, [Next]_vars, NEW r \in Turns, Local(r),
         \/ Input(r) \/ Fresh(r) \/ Work(r) \/ SaveWrites(r) \/ SaveFinal(r)
         \/ Update(r)
  PROVE  GraphInv'
<1> DEFINE c == conv[r]
           k == ckpt[c]
<1>1. /\ c \in Conversations /\ k \in Checkpoint /\ k.history \in Seq(Turns)
      /\ pc[r] # "idle"
  BY LiveCheckpoint DEF StoreInv, Local, Live, Working, Finishing
<1>2. /\ Known(k.history, c)
      /\ k.turn # NoTurn => k.turn \in Turns /\ conv[k.turn] = c /\ pc[k.turn] # "idle"
      /\ k.status = "completed" => k.turn # NoTurn /\ audit[k.turn] = "completed"
  BY <1>1 DEF GraphInv, CheckpointOK, Current, CurrentCompleted, Checkpoint
<1>3. RequestOK(r) /\ pc \in [Turns -> PCs]
  BY DEF GraphInv, StoreInv, Typed, TypeOK
<1>4. CASE Input(r)
  <2> DEFINE n == [k EXCEPT !.tasks = TRUE]
  <2>1. ckpt' = [ckpt EXCEPT ![c] = n] /\ UNCHANGED <<hist, seen>> /\ pc'[r] = "fresh"
    BY <1>3, <1>4 DEF Input, Save, Goto, reconciling
  <2>2. n.turn = k.turn /\ n.status = k.status /\ n.history = k.history
    BY <1>1 DEF Checkpoint
  <2> HIDE DEF n
  <2> QED
    BY <1>2, <2>1, <2>2, SaveStep DEF Running
<1>5. CASE Fresh(r)
  <2> DEFINE n == [turn |-> r, status |-> "pending", answered |-> FALSE,
                   history |-> hist[r], tasks |-> TRUE]
  <2>1. ckpt' = [ckpt EXCEPT ![c] = n] /\ UNCHANGED <<hist, seen>> /\ pc'[r] = "work"
    BY <1>3, <1>5 DEF Fresh, Save, Goto, reconciling
  <2>2. n.turn = r /\ n.status = "pending" /\ n.history = hist[r]
    OBVIOUS
  <2>3. Known(hist[r], c)
    BY <1>3 DEF RequestOK
  <2> HIDE DEF n
  <2> QED
    BY <1>1, <2>1, <2>2, <2>3, SaveStep
<1>6. CASE Work(r)
  <2> DEFINE n == [k EXCEPT !.answered = TRUE]
  <2>1. ckpt' = [ckpt EXCEPT ![c] = n] /\ UNCHANGED <<hist, seen>> /\ pc'[r] = "persist"
    BY <1>3, <1>6 DEF Work, Save, Goto, reconciling
  <2>2. n.turn = k.turn /\ n.status = k.status /\ n.history = k.history
    BY <1>1 DEF Checkpoint
  <2>3. k.turn = r
    BY <1>3, <1>6 DEF RequestOK, Work, At, Running, Current
  <2> HIDE DEF n
  <2> QED
    BY <1>2, <2>1, <2>2, <2>3, SaveStep
<1>7. CASE SaveWrites(r)
  <2> DEFINE h == LastOf(Append(k.history, r), MaxHistory)
             n == [k EXCEPT !.status = "completed", !.history = h]
  <2>1. ckpt' = [ckpt EXCEPT ![c] = n] /\ UNCHANGED <<hist, seen>> /\ pc'[r] = "saveFinal"
    BY <1>3, <1>7 DEF SaveWrites, Save, Goto, reconciling
  <2>2. n.turn = k.turn /\ n.status = "completed" /\ n.history = h
    BY <1>1 DEF Checkpoint
  <2>3. k.turn = r /\ audit[r] = "completed"
    BY <1>3, <1>7 DEF RequestOK, SaveWrites, At, Running, Current
  <2>4. r \in CompletedOf(c)
    BY <2>3 DEF CompletedOf, RowsOf
  <2>5. /\ Append(k.history, r) \in Seq(Turns)
        /\ Len(Append(k.history, r)) = Len(k.history) + 1
        /\ Append(k.history, r)[Len(k.history) + 1] = r
        /\ \A i \in 1..Len(k.history) : Append(k.history, r)[i] = k.history[i]
    BY <1>1, AppendProperties
  <2>6. Known(Append(k.history, r), c)
    BY <1>1, <1>2, <2>4, <2>5 DEF Known
  <2>7. Known(h, c)
    BY <2>5, <2>6, KnownTail, BoundsAssumption
  <2> HIDE DEF n, h
  <2> QED
    BY <1>1, <1>2, <2>1, <2>2, <2>3, <2>7, SaveStep, NamesAssumption
<1>8. CASE SaveFinal(r)
  <2> DEFINE n == [k EXCEPT !.tasks = FALSE]
  <2>1. ckpt' = [ckpt EXCEPT ![c] = n] /\ UNCHANGED <<hist, seen>> /\ pc'[r] = "ended"
    BY <1>3, <1>8 DEF SaveFinal, Save, Goto, reconciling
  <2>2. n.turn = k.turn /\ n.status = k.status /\ n.history = k.history
    BY <1>1 DEF Checkpoint
  <2> HIDE DEF n
  <2> QED
    BY <1>2, <2>1, <2>2, SaveStep DEF Running
<1>9. CASE Update(r)
  <2>1. Current(c) \in Turns /\ pc[r] = "update" /\ UNCHANGED <<hist, seen>>
    BY <1>1, <1>9 DEF Update, StoreInv, Typed, Current, reconciling, At
  <2>2. CASE branch[r] = "reset" /\ ckpt' = [ckpt EXCEPT ![c] = Reset(c)] /\ Goto(r, "window")
    <3>1. Reset(c).turn = k.turn /\ Reset(c).status = "cancelled" /\ Reset(c).history = k.history
      BY DEF Reset, Current
    <3>2. pc'[r] = "window"
      BY <1>3, <2>2 DEF Goto
    <3> QED
      BY <1>2, <2>1, <2>2, <3>1, <3>2, SaveStep DEF Running
  <2>3. CASE branch[r] = "repair" /\ ckpt' = [ckpt EXCEPT ![c] = Repaired(c)] /\ Goto(r, "settle")
    <3>1. Repaired(c).turn = k.turn /\ Repaired(c).history = Permitted(c)
      BY DEF Repaired, Current
    <3>2. k.turn # NoTurn /\ audit[k.turn] = "completed"
      BY <1>3, <2>1, <2>3 DEF RequestOK, At, Current, CurrentCompleted
    <3>3. Known(Permitted(c), c)
      BY <1>1, <3>2, KnownPermitted DEF GraphInv, Current
    <3>4. pc'[r] = "settle"
      BY <1>3, <2>3 DEF Goto
    <3> QED
      BY <1>2, <2>1, <2>3, <3>1, <3>2, <3>3, <3>4, SaveStep DEF Running
  <2> QED
    BY <1>9, <2>2, <2>3 DEF Update
<1> QED
  BY <1>4, <1>5, <1>6, <1>7, <1>8, <1>9

\* Cutting the window keeps it committed.
LEMMA WindowSafe ==
  ASSUME StoreInv, GraphInv, [Next]_vars, NEW r \in Turns, Local(r), Window(r)
  PROVE  GraphInv'
<1>1. /\ UNCHANGED <<ckpt, seen>> /\ pc'[r] = "start" /\ audit' = audit /\ conv' = conv
  BY DEF StoreInv, Typed, TypeOK, Window, Goto, Local
<1>2. Known(hist[r], conv[r]) /\ hist[r] \in Seq(Turns)
  BY DEF StoreInv, Typed, TypeOK, GraphInv, RequestOK
<1>3. PICK k \in Fits : hist'[r] = LastOf(LastOf(hist[r], MaxHistory), k)
  BY DEF Window, StoreInv, Typed, TypeOK
<1>4. Known(hist'[r], conv[r])
  BY <1>2, <1>3, KnownTail, BoundsAssumption
<1>5. Known(hist[r], conv[r])'
  BY <1>1, <1>4, CompletedGrows DEF Known
<1>6. seen[r] = "done" => audit[r] = "completed"
  BY DEF GraphInv, RequestOK
<1>7. RequestOK(r)'
  BY <1>1, <1>5, <1>6 DEF RequestOK, Running, At
<1> QED
  BY <1>1, <1>7, QuietStep

\* done is sent only when both stores agree.
LEMMA AuditReadSafe ==
  ASSUME StoreInv, GraphInv, [Next]_vars, NEW r \in Turns, Local(r), AuditRead(r)
  PROVE  GraphInv'
<1>1. /\ pc \in [Turns -> PCs] /\ seen \in [Turns -> Observations]
      /\ UNCHANGED <<ckpt, hist, branch>>
  BY DEF StoreInv, Typed, TypeOK, AuditRead, reconciling
<1>2. CASE Goto(r, "cleanup") /\ UNCHANGED seen
  <2>1. pc'[r] = "cleanup"
    BY <1>1, <1>2 DEF Goto
  <2> QED
    BY <1>1, <1>2, <2>1, MoveStep DEF Running
<1>3. CASE Tell(r, IF cause[r] = "complete" /\ Verified(ckpt[conv[r]], r)
                   THEN "done" ELSE "error") /\ Goto(r, "release")
  <2>1. pc'[r] = "release"
    BY <1>1, <1>3 DEF Goto
  <2>2. CASE ~Verified(ckpt[conv[r]], r)
    <3>1. Tell(r, "error")
      BY <1>3, <2>2
    <3>2. seen'[r] # "done"
      BY <1>1, <3>1 DEF Tell
    <3> QED
      BY <1>1, <2>1, <3>2, MoveStep DEF Running
  <2>3. CASE Verified(ckpt[conv[r]], r)
    <3>1. audit' = audit /\ conv' = conv /\ RequestOK(r)
      BY DEF Local, GraphInv
    <3>2. audit[r] = "completed" /\ Verified(ckpt[conv[r]], r)'
      BY <1>1, <2>3, <3>1 DEF Verified
    <3>3. Known(hist[r], conv[r])'
      BY <1>1, <3>1, CompletedGrows DEF RequestOK, Known
    <3>4. RequestOK(r)'
      BY <2>1, <3>1, <3>2, <3>3 DEF RequestOK, Running, At
    <3> QED
      BY <1>1, <3>4, QuietStep
  <2> QED
    BY <2>2, <2>3
<1> QED
  BY <1>2, <1>3 DEF AuditRead

\* Steps that are nobody's own: the checkpoints stay, and each request stays
\* or is where nothing is asked of it.
LEMMA OuterStep ==
  ASSUME StoreInv, GraphInv, [Next]_vars, UNCHANGED ckpt,
         \A r \in Turns :
           \/ /\ pc'[r] = pc[r] /\ conv'[r] = conv[r] /\ hist'[r] = hist[r]
              /\ branch'[r] = branch[r] /\ seen'[r] = seen[r]
           \/ /\ pc'[r] \in {"over", "dead", "create", "recover"}
              /\ hist'[r] = <<>> \/ (hist'[r] = hist[r] /\ conv'[r] = conv[r])
              /\ seen'[r] # "done" \/ seen'[r] = seen[r]
  PROVE  GraphInv'
<1>1. ASSUME NEW r \in Turns
      PROVE  RequestOK(r)'
  <2>1. RequestOK(r)
    BY DEF GraphInv
  <2>2. CASE /\ pc'[r] = pc[r] /\ conv'[r] = conv[r] /\ hist'[r] = hist[r]
             /\ branch'[r] = branch[r] /\ seen'[r] = seen[r]
    BY <2>1, <2>2, RequestStays
  <2>3. CASE /\ pc'[r] \in {"over", "dead", "create", "recover"}
             /\ hist'[r] = <<>> \/ (hist'[r] = hist[r] /\ conv'[r] = conv[r])
             /\ seen'[r] # "done" \/ seen'[r] = seen[r]
    <3>1. (Known(hist[r], conv[r]))'
      BY <2>1, <2>3, CompletedGrows DEF RequestOK, Known
    <3>2. seen'[r] = "done" => audit'[r] = "completed"
      BY <2>1, <2>3, Monotone DEF RequestOK, StoreInv, IdleKnowsNothing
    <3> QED
      BY <2>3, <3>1, <3>2 DEF RequestOK, Running, At
  <2> QED
    BY <2>2, <2>3
<1>2. \A c \in Conversations : CheckpointOK(c)'
  BY CheckpointStays DEF GraphInv
<1> QED
  BY <1>1, <1>2 DEF GraphInv

\* The invariant of the checkpoint survives every step.
LEMMA GraphStep ==
  ASSUME StoreInv, GraphInv, [Next]_vars
  PROVE  GraphInv'
<1> USE DEF StoreInv, Typed, TypeOK
<1>1. ASSUME NEW r \in Turns, Arrive(r)
      PROVE  GraphInv'
  <2>1. /\ UNCHANGED <<ckpt, hist, branch>> /\ pc[r] = "idle"
        /\ pc'[r] \in {"over", "create", "recover"}
        /\ seen'[r] = seen[r] \/ seen'[r] = "refused"
        /\ \A s \in Turns \ {r} :
             pc'[s] = pc[s] /\ conv'[s] = conv[s] /\ seen'[s] = seen[s]
    BY <1>1 DEF Arrive, PrepareNew, PrepareExisting, Refuse, Admit, At, Goto, reconciling
  <2>2. hist[r] = <<>>
    BY <2>1 DEF IdleKnowsNothing
  <2> QED
    BY <2>1, <2>2, OuterStep
<1>2. ASSUME NEW r \in Turns, Release(r)
      PROVE  GraphInv'
  <2>1. pc' = [pc EXCEPT ![r] = "over"] /\ UNCHANGED <<ckpt, conv, seen>> /\ Forget({r})
    BY <1>2 DEF Release, Goto
  <2>2. /\ pc'[r] = "over" /\ hist'[r] = <<>>
        /\ \A s \in Turns \ {r} :
             pc'[s] = pc[s] /\ hist'[s] = hist[s] /\ branch'[s] = branch[s]
    BY <2>1 DEF Forget
  <2> QED
    BY <2>1, <2>2, OuterStep
<1>3. CASE (\E c \in Conversations : Resolve(c) \/ Disown(c)) \/ UNCHANGED vars
  <2>1. UNCHANGED <<ckpt, pc, conv, hist, branch, seen>>
    BY <1>3 DEF Resolve, Commit, Rollback, Disown, vars, reconciling
  <2> QED
    BY <2>1, OuterStep
<1>4. CASE Crash
  <2>1. /\ UNCHANGED <<ckpt, conv>>
        /\ \A s \in Turns :
             /\ pc[s] \in Live => pc'[s] = "dead" /\ hist'[s] = <<>>
             /\ pc[s] \notin Live => /\ pc'[s] = pc[s] /\ hist'[s] = hist[s]
                                    /\ branch'[s] = branch[s] /\ seen'[s] = seen[s]
             /\ seen'[s] = seen[s] \/ seen'[s] = "gone"
    BY <1>4 DEF Crash, Forget
  <2> QED
    BY <2>1, OuterStep
<1>5. ASSUME NEW r \in Turns, (Step(r) /\ ~Release(r)) \/ Fail(r) \/ CleanupFails(r) \/ Disconnect(r)
      PROVE  GraphInv'
  <2>1. Local(r)
    BY <1>5, StepShape
  <2> QED
    BY <1>5, <2>1, MovesSafe, RecoverSafe, SavesSafe, AuditReadSafe, WindowSafe DEF Step
<1> QED
  BY <1>1, <1>2, <1>3, <1>4, <1>5 DEF Next

\* The invariant of the checkpoint holds at the start.
LEMMA GraphInit ==
  ASSUME Init
  PROVE  GraphInv
<1>1. Len(<<>>) = 0
  OBVIOUS
<1> QED
  BY <1>1 DEF Init, GraphInv, CheckpointOK, RequestOK, Known, NoCheckpoint, Current,
     Running, At

\* Both invariants hold throughout.
LEMMA IInvAlways == Spec => []IInv
<1>1. Init => IInv
  BY StoreInit, GraphInit DEF IInv
<1>2. IInv /\ [Next]_vars => IInv'
  BY StoreStep, GraphStep DEF IInv
<1> QED
  BY <1>1, <1>2, PTL DEF Spec

\* The checkpoint never runs ahead of the audit: persist commits in MySQL before
\* its writes are saved, and recovery adds only what it found committed.
THEOREM NeverAhead == Spec => []CheckpointNeverAhead
<1>1. IInv => CheckpointNeverAhead
  BY DEF IInv, GraphInv, CheckpointOK, Known, CheckpointNeverAhead, CurrentCompleted
<1> QED
  BY <1>1, IInvAlways, PTL

\* A client that was told "done" has its turn committed, and verified in both
\* stores at that moment (_finish and verify_completed_turn).
THEOREM DoneDurable == Spec => []DoneIsDurable
<1>1. IInv => DoneIsDurable
  BY DEF IInv, GraphInv, RequestOK, At, DoneIsDurable
<1> QED
  BY <1>1, IInvAlways, PTL

(* Turns of S in the order of rk, with nothing of S left out behind the     *)
(* first of them.                                                           *)
Unbroken(h, S, rk) ==
  /\ \A i \in 1..Len(h) : h[i] \in S
  /\ \A i, j \in 1..Len(h) : i < j => rk[h[i]] < rk[h[j]]
  /\ \A i \in 1..Len(h) : \A t \in S : rk[h[i]] < rk[t] => Has(h, t)

\* A set of numbers that is not empty has a least one.
LEMMA Least ==
  ASSUME NEW T \in SUBSET Nat, T # {}
  PROVE  \E n \in T : \A m \in T : n <= m
<1> DEFINE Lt == {p \in Nat \X Nat : p[1] < p[2]}
<1>1. IsWellFoundedOn(Lt, Nat)
  BY NatLessThanWellFounded DEF OpToRel
<1>2. PICK n \in T : \A m \in T : <<m, n>> \notin Lt
  BY <1>1, WFMin
<1>3. ASSUME NEW m \in T PROVE n <= m
  <2>1. m \in Nat /\ n \in Nat
    OBVIOUS
  <2>2. m < n => <<m, n>> \in Lt
    BY <2>1
  <2>3. ~(m < n)
    BY <1>2, <2>2
  <2> QED
    BY <2>1, <2>3
<1> QED
  BY <1>3

\* What the slice s[-k:] holds.
LEMMA LastOfValue ==
  ASSUME NEW S, NEW s \in Seq(S), NEW k \in Nat,
         NEW d, d = IF k < Len(s) THEN k ELSE Len(s)
  PROVE  /\ Len(s) \in Nat /\ d \in Nat /\ d <= Len(s) /\ d <= k
         /\ Len(LastOf(s, k)) = d
         /\ \A i \in 1..d : LastOf(s, k)[i] = s[Len(s) - d + i]
<1> DEFINE n == Len(s)
           m == n - d + 1
<1>1. n \in Nat /\ \A i \in 1..n : s[i] \in S
  BY LenProperties, ElementOfSeq
<1>2. d \in Nat /\ d <= n /\ d <= k
  BY <1>1
<1> HIDE DEF n
<1>3. m \in Int /\ m >= 1 /\ m <= n + 1
  <2>1. \A a, b \in Nat : b <= a => a - b + 1 \in Int /\ a - b + 1 >= 1 /\ a - b + 1 <= a + 1
    OBVIOUS
  <2> QED
    BY <1>1, <1>2, <2>1
<1>4. \A i \in m..n : s[i] \in S
  BY <1>1, <1>3
<1>5. LastOf(s, k) = SubSeq(s, m, n)
  BY DEF LastOf, n
<1> HIDE DEF m
<1>6. /\ Len(SubSeq(s, m, n)) = IF m <= n THEN n - m + 1 ELSE 0
      /\ \A i \in 1..(n - m + 1) : SubSeq(s, m, n)[i] = s[m + i - 1]
  BY <1>1, <1>3, <1>4, SubSeqProperties
<1>7. n - m + 1 = d /\ (~(m <= n) => d = 0) /\ \A i \in 1..d : m + i - 1 = n - d + i
  BY <1>1, <1>2 DEF m
<1> QED
  BY <1>1, <1>2, <1>5, <1>6, <1>7 DEF n

\* The end of an unbroken history is one.
LEMMA UnbrokenTail ==
  ASSUME NEW h \in Seq(Turns), NEW S \in SUBSET Turns, NEW rk \in [Turns -> Nat],
         Unbroken(h, S, rk), NEW k \in Nat
  PROVE  /\ Unbroken(LastOf(h, k), S, rk)
         /\ LastOf(h, k) \in Seq(Turns)
         /\ Len(LastOf(h, k)) <= k
<1> DEFINE n == Len(h)
           d == IF k < n THEN k ELSE n
           l == LastOf(h, k)
<1>1. /\ n \in Nat /\ d \in Nat /\ d <= n /\ d <= k
      /\ Len(l) = d /\ \A i \in 1..d : l[i] = h[n - d + i]
  BY LastOfValue
<1>2. l \in Seq(Turns)
  BY LastOfType
<1> HIDE DEF l, d, n
<1>3. \A i \in 1..d : n - d + i \in 1..n
  BY <1>1
<1>4. \A i \in 1..n : h[i] \in S /\ h[i] \in Turns /\ rk[h[i]] \in Nat
  BY DEF Unbroken, n
<1>5. \A i, j \in 1..n : i < j => rk[h[i]] < rk[h[j]]
  BY DEF Unbroken, n
<1>6. \A i \in 1..d : l[i] \in S
  BY <1>1, <1>3, <1>4
<1>7. ASSUME NEW i \in 1..d, NEW j \in 1..d, i < j
      PROVE  rk[l[i]] < rk[l[j]]
  <2>1. n - d + i < n - d + j
    BY <1>1, <1>7
  <2> QED
    BY <1>1, <1>3, <1>5, <2>1
<1>8. ASSUME NEW i \in 1..d, NEW t \in S, rk[l[i]] < rk[t]
      PROVE  Has(l, t)
  <2>1. rk[h[n - d + i]] < rk[t] /\ n - d + i \in 1..n
    BY <1>1, <1>3, <1>8
  <2>2. PICK j \in 1..n : h[j] = t
    BY <2>1 DEF Unbroken, Has, n
  <2>3. rk[h[n - d + i]] \in Nat /\ rk[h[j]] \in Nat /\ rk[h[n - d + i]] < rk[h[j]]
    BY <1>4, <2>1, <2>2
  <2>4. ~(j < n - d + i) /\ j # n - d + i
    BY <1>5, <2>1, <2>3
  <2>5. j - (n - d) \in 1..d /\ n - d + (j - (n - d)) = j
    BY <1>1, <2>4
  <2>6. l[j - (n - d)] = t
    BY <1>1, <2>2, <2>5
  <2> QED
    BY <1>1, <2>5, <2>6 DEF Has
<1>9. Unbroken(l, S, rk)
  BY <1>1, <1>6, <1>7, <1>8 DEF Unbroken
<1> QED
  BY <1>1, <1>2, <1>9 DEF l

\* So is an unbroken history with one more turn, the newest.
LEMMA UnbrokenAppend ==
  ASSUME NEW h \in Seq(Turns), NEW S \in SUBSET Turns, NEW rk \in [Turns -> Nat],
         Unbroken(h, S, rk), NEW t \in Turns, \A u \in S : rk[u] < rk[t]
  PROVE  Unbroken(Append(h, t), S \union {t}, rk)
<1> DEFINE n == Len(h)
           a == Append(h, t)
<1>1. /\ n \in Nat /\ Len(a) = n + 1 /\ a[n + 1] = t
      /\ \A i \in 1..n : a[i] = h[i]
  BY LenProperties, AppendProperties
<1> HIDE DEF a
<1>2. \A i \in 1..n : h[i] \in S
  BY DEF Unbroken
<1>3. \A i, j \in 1..n : i < j => rk[h[i]] < rk[h[j]]
  BY DEF Unbroken
<1>4. \A i \in 1..n : \A u \in S : rk[h[i]] < rk[u] => \E j \in 1..n : h[j] = u
  BY DEF Unbroken, Has
<1> HIDE DEF n
<1>5. \A i \in 1..(n + 1) : i = n + 1 \/ i \in 1..n
  BY <1>1
<1>6. \A i \in 1..(n + 1) : a[i] \in S \union {t}
  BY <1>1, <1>2, <1>5
<1>7. ASSUME NEW i \in 1..(n + 1), NEW j \in 1..(n + 1), i < j
      PROVE  rk[a[i]] < rk[a[j]]
  <2>1. i \in 1..n
    BY <1>1, <1>7
  <2>2. CASE j = n + 1
    BY <1>1, <1>2, <2>1, <2>2
  <2>3. CASE j \in 1..n
    BY <1>1, <1>3, <1>7, <2>1, <2>3
  <2> QED
    BY <1>5, <2>2, <2>3
<1>8. ASSUME NEW i \in 1..(n + 1), NEW u \in S \union {t}, rk[a[i]] < rk[u]
      PROVE  Has(a, u)
  <2>1. CASE u = t
    BY <1>1, <2>1 DEF Has
  <2>2. CASE u \in S
    <3>1. i # n + 1
      <4>1. rk[u] \in Nat /\ rk[t] \in Nat /\ rk[u] < rk[t]
        BY <2>2
      <4> QED
        BY <1>1, <1>8, <4>1
    <3>2. i \in 1..n /\ rk[h[i]] < rk[u]
      BY <1>1, <1>5, <1>8, <3>1
    <3>3. PICK j \in 1..n : h[j] = u
      BY <1>4, <2>2, <3>2
    <3>4. j \in 1..(n + 1) /\ a[j] = u
      BY <1>1, <3>3
    <3> QED
      BY <1>1, <3>4 DEF Has
  <2> QED
    BY <2>1, <2>2
<1>9. Unbroken(a, S \union {t}, rk)
  BY <1>1, <1>6, <1>7, <1>8 DEF Unbroken
<1> QED
  BY <1>9 DEF a

\* Only the rows of the turns themselves matter.
LEMMA UnbrokenSame ==
  ASSUME NEW h, NEW S, NEW rk, NEW qk, Unbroken(h, S, rk),
         \A t \in S : qk[t] = rk[t]
  PROVE  Unbroken(h, S, qk)
BY DEF Unbroken

\* The empty history leaves nothing out behind its first turn.
LEMMA UnbrokenEmpty ==
  ASSUME NEW S, NEW rk
  PROVE  Unbroken(<<>>, S, rk)
<1>1. Len(<<>>) = 0
  OBVIOUS
<1> QED
  BY <1>1 DEF Unbroken

\* The newest turn of all can only be the last.
LEMMA NewestIsLast ==
  ASSUME NEW h \in Seq(Turns), NEW S \in SUBSET Turns, NEW rk \in [Turns -> Nat],
         Unbroken(h, S, rk), NEW t \in S, Has(h, t), \A u \in S : rk[u] <= rk[t]
  PROVE  EndsWith(h, t)
<1> DEFINE n == Len(h)
<1>1. n \in Nat
  BY LenProperties
<1>2. PICK i \in 1..n : h[i] = t
  BY DEF Has
<1>3. n \in 1..n /\ h[n] \in S
  BY <1>1, <1>2 DEF Unbroken
<1>4. ~(i < n)
  <2>1. rk[h[n]] <= rk[t] /\ rk[h[n]] \in Nat /\ rk[t] \in Nat
    BY <1>3
  <2>2. i < n => rk[h[i]] < rk[h[n]]
    BY <1>3 DEF Unbroken
  <2> QED
    BY <1>2, <2>1, <2>2
<1>5. i = n
  BY <1>1, <1>4
<1>6. h # <<>>
  BY <1>3
<1> QED
  BY <1>2, <1>5, <1>6 DEF EndsWith

\* The turns of S in the order of rk, as recovery reads them from MySQL.
Listed(e, S, rk) ==
  /\ e \in [1..Cardinality(S) -> S]
  /\ \A i, j \in 1..Cardinality(S) : i < j => rk[e[i]] < rk[e[j]]

\* Every turn is listed, and once: as many different ones are.
LEMMA ListedOnce ==
  ASSUME NEW S \in SUBSET Turns, NEW rk \in [Turns -> Nat], NEW e, Listed(e, S, rk)
  PROVE  /\ Cardinality(S) \in Nat
         /\ e \in Seq(Turns) /\ Len(e) = Cardinality(S)
         /\ \A i, j \in 1..Cardinality(S) : e[i] = e[j] => i = j
         /\ \A t \in S : \E i \in 1..Cardinality(S) : e[i] = t
<1> DEFINE n == Cardinality(S)
<1>1. IsFiniteSet(S) /\ n \in Nat
  BY TurnsAssumption, FS_Subset, FS_CardinalityType
<1> HIDE DEF n
<1>2. e \in [1..n -> S] /\ \A i, j \in 1..n : i < j => rk[e[i]] < rk[e[j]]
  BY DEF Listed, n
<1>3. \A i \in 1..n : e[i] \in S /\ e[i] \in Turns /\ rk[e[i]] \in Nat
  BY <1>2
<1>4. \A i, j \in 1..n : e[i] = e[j] => i = j
  <2> SUFFICES ASSUME NEW i \in 1..n, NEW j \in 1..n, e[i] = e[j], i # j PROVE FALSE
    OBVIOUS
  <2>1. i < j \/ j < i
    BY <1>1
  <2>2. rk[e[i]] < rk[e[i]] /\ rk[e[i]] \in Nat
    BY <1>2, <1>3, <2>1
  <2> QED
    BY <2>2
<1>5. e \in Injection(1..n, S)
  BY <1>2, <1>4 DEF Injection, IsInjective
<1>6. IsFiniteSet(1..n) /\ Cardinality(1..n) = n
  <2>1. 1 \in Int /\ n \in Int
    BY <1>1
  <2>2. IsFiniteSet(1..n) /\ Cardinality(1..n) = IF 1 > n THEN 0 ELSE n - 1 + 1
    BY <2>1, FS_Interval
  <2> QED
    BY <1>1, <2>2
<1>7. e \in Surjection(1..n, S)
  BY <1>1, <1>5, <1>6, FS_Injection DEF n
<1>8. \A t \in S : \E i \in 1..n : e[i] = t
  BY <1>7 DEF Surjection
<1>9. e \in [1..n -> Turns]
  BY <1>2, <1>3
<1>10. e \in Seq(Turns) /\ Len(e) = n
  BY <1>1, <1>9
<1> QED
  BY <1>1, <1>4, <1>8, <1>10 DEF n

\* An unbroken history is no longer than what is listed.
LEMMA UnbrokenLength ==
  ASSUME NEW h \in Seq(Turns), NEW S \in SUBSET Turns, NEW rk \in [Turns -> Nat],
         Unbroken(h, S, rk)
  PROVE  Len(h) <= Cardinality(S)
<1> DEFINE k == Len(h)
<1>1. k \in Nat /\ h \in [1..k -> Turns]
  BY LenProperties
<1> HIDE DEF k
<1>2. \A i \in 1..k : h[i] \in S /\ rk[h[i]] \in Nat
  BY <1>1 DEF Unbroken, k
<1>3. \A i, j \in 1..k : i < j => rk[h[i]] < rk[h[j]]
  BY DEF Unbroken, k
<1>4. \A i, j \in 1..k : h[i] = h[j] => i = j
  <2> SUFFICES ASSUME NEW i \in 1..k, NEW j \in 1..k, h[i] = h[j], i # j PROVE FALSE
    OBVIOUS
  <2>1. i < j \/ j < i
    BY <1>1
  <2>2. rk[h[i]] < rk[h[i]] /\ rk[h[i]] \in Nat
    BY <1>2, <1>3, <2>1
  <2> QED
    BY <2>2
<1>5. h \in Injection(1..k, S)
  BY <1>1, <1>2, <1>4 DEF Injection, IsInjective
<1>6. IsFiniteSet(S) /\ Cardinality(1..k) <= Cardinality(S)
  BY <1>5, TurnsAssumption, FS_Subset, FS_Injection
<1>7. Cardinality(1..k) = k
  <2>1. 1 \in Int /\ k \in Int
    BY <1>1
  <2>2. Cardinality(1..k) = IF 1 > k THEN 0 ELSE k - 1 + 1
    BY <2>1, FS_Interval
  <2> QED
    BY <1>1, <2>2
<1> QED
  BY <1>6, <1>7 DEF k

\* An unbroken history is the end of what is listed.  Were it not, there would
\* be a last place at which the two differ: the turn listed there is newer
\* than that of the history, hence in it, hence at a later place.
LEMMA UnbrokenIsTail ==
  ASSUME NEW h \in Seq(Turns), NEW S \in SUBSET Turns, NEW rk \in [Turns -> Nat],
         Unbroken(h, S, rk), NEW e, Listed(e, S, rk)
  PROVE  IsTail(h, e)
<1> DEFINE k == Len(h)
           n == Cardinality(S)
           Differ == {m \in Nat : m < k /\ h[k - m] # e[n - m]}
<1>1. /\ n \in Nat /\ e \in Seq(Turns) /\ Len(e) = n
      /\ \A i, j \in 1..n : e[i] = e[j] => i = j
      /\ \A t \in S : \E i \in 1..n : e[i] = t
  BY ListedOnce
<1>2. k \in Nat /\ k <= n
  BY LenProperties, UnbrokenLength
<1>3. \A i \in 1..k : h[i] \in S /\ rk[h[i]] \in Nat
  BY DEF Unbroken
<1>4. \A i \in 1..n : e[i] \in S /\ rk[e[i]] \in Nat
  BY DEF Listed
<1>5. \A i, j \in 1..n : i < j => rk[e[i]] < rk[e[j]]
  BY DEF Listed
<1>6. \A i, j \in 1..k : i < j => rk[h[i]] < rk[h[j]]
  BY DEF Unbroken
<1>7. \A i \in 1..k : \A t \in S : rk[h[i]] < rk[t] => \E j \in 1..k : h[j] = t
  BY DEF Unbroken, Has
<1> HIDE DEF k, n
<1>8. Differ = {}
  <2> SUFFICES ASSUME Differ # {} PROVE FALSE
    OBVIOUS
  <2>1. PICK m \in Differ : \A l \in Differ : m <= l
    BY Least
  <2> HIDE DEF Differ
  <2>14. m \in Nat /\ m < k /\ h[k - m] # e[n - m]
    BY DEF Differ
  <2>2. /\ m \in Nat /\ m < k /\ h[k - m] # e[n - m]
        /\ k - m \in 1..k /\ n - m \in 1..n
    <3>1. \A a, b, d \in Nat : d < a /\ a <= b => a - d \in 1..a /\ b - d \in 1..b
      OBVIOUS
    <3> QED
      BY <1>1, <1>2, <2>14, <3>1
  <2> USE DEF Differ
  <2>3. \A i \in 1..k : i > k - m => h[i] = e[n - k + i] /\ n - k + i \in 1..n
    <3> SUFFICES ASSUME NEW i \in 1..k, i > k - m
                 PROVE  h[i] = e[n - k + i] /\ n - k + i \in 1..n
      OBVIOUS
    <3>1. k - i \in Nat /\ k - i < m /\ k - i < k
      BY <1>2, <2>2
    <3>2. k - i \notin Differ
      BY <2>1, <2>2, <3>1
    <3>3. h[k - (k - i)] = e[n - (k - i)]
      BY <3>1, <3>2
    <3>4. k - (k - i) = i /\ n - (k - i) = n - k + i /\ n - k + i \in 1..n
      BY <1>1, <1>2
    <3> QED
      BY <3>3, <3>4
  <2> DEFINE a == h[k - m]
             b == e[n - m]
  <2>4. a \in S /\ b \in S /\ rk[a] \in Nat /\ rk[b] \in Nat
    BY <1>3, <1>4, <2>2
  <2>5. PICK p \in 1..n : e[p] = a
    BY <1>1, <2>4
  <2>6. p # n - m
    BY <2>2, <2>5
  <2>7. ~(p > n - m)
    <3> SUFFICES ASSUME p > n - m PROVE FALSE
      OBVIOUS
    <3>1. /\ p - (n - k) \in 1..k /\ p - (n - k) > k - m
          /\ n - k + (p - (n - k)) = p
      BY <1>1, <1>2, <2>2
    <3>2. h[p - (n - k)] = e[p]
      BY <2>3, <3>1
    <3>3. rk[a] < rk[h[p - (n - k)]]
      BY <1>6, <2>2, <3>1
    <3> QED
      BY <2>4, <2>5, <3>2, <3>3
  <2>8. p < n - m
    BY <1>1, <2>2, <2>6, <2>7
  <2>9. rk[a] < rk[b]
    BY <1>5, <2>2, <2>5, <2>8
  <2>10. PICK j \in 1..k : h[j] = b
    BY <1>7, <2>2, <2>4, <2>9
  <2>11. j > k - m
    <3>1. j # k - m
      BY <2>2, <2>10
    <3>2. ~(j < k - m)
      <4>1. j < k - m => rk[b] < rk[a]
        BY <1>6, <2>2, <2>10
      <4> QED
        BY <2>4, <2>9, <4>1
    <3> QED
      BY <1>2, <2>2, <3>1, <3>2
  <2>12. e[n - k + j] = e[n - m] /\ n - k + j \in 1..n
    BY <2>3, <2>10, <2>11
  <2>13. n - k + j = n - m
    BY <1>1, <2>2, <2>12
  <2> QED
    BY <1>1, <1>2, <2>2, <2>11, <2>13
<1>9. \A i \in 1..k : h[i] = e[n - k + i]
  <2> SUFFICES ASSUME NEW i \in 1..k PROVE h[i] = e[n - k + i]
    OBVIOUS
  <2>1. k - i \in Nat /\ k - i < k
    BY <1>2
  <2>2. h[k - (k - i)] = e[n - (k - i)]
    BY <1>8, <2>1
  <2>3. k - (k - i) = i /\ n - (k - i) = n - k + i
    BY <1>1, <1>2
  <2> QED
    BY <2>2, <2>3
<1>10. /\ Len(LastOf(e, k)) = k
       /\ \A i \in 1..k : LastOf(e, k)[i] = e[n - k + i]
  <2>1. k = IF k < Len(e) THEN k ELSE Len(e)
    BY <1>1, <1>2
  <2> QED
    BY <1>1, <1>2, <2>1, LastOfValue
<1>11. LastOf(e, k) \in Seq(Turns)
  BY <1>1, <1>2, LastOfType
<1>12. LastOf(e, k) = h
  BY <1>2, <1>9, <1>10, <1>11, SeqEqual DEF k
<1> QED
  BY <1>1, <1>2, <1>12 DEF IsTail, k

-----------------------------------------------------------------------------
(* What keeps HistoryIsTail and RecoveryHeals inductive, beside IInv.       *)

Gapless(h, c) == Unbroken(h, CompletedOf(c), row)
Ended(t) == audit[t] \in Terminal

\* Each turn of a conversation has a place of its own.
RowsOK(c) ==
  /\ \A t \in RowsOf(c) : row[t] \in 1..Cardinality(RowsOf(c))
  /\ \A t, u \in RowsOf(c) : row[t] = row[u] => t = u

\* No turn has been completed after that of the checkpoint, whose history, as
\* a repair would leave it, has no gap.
ThreadOK(c) ==
  /\ \A u \in CompletedOf(c) : Current(c) # NoTurn /\ row[u] <= row[Current(c)]
  /\ Current(c) # NoTurn =>
       /\ audit[Current(c)] # "none"
       /\ Gapless(Permitted(c), c)
       /\ CurrentCompleted(c) => ckpt[c].answered
       /\ ~Has(ckpt[c].history, Current(c)) => Len(ckpt[c].history) <= MaxHistory
  /\ Len(ckpt[c].history) <= MaxHistory + 1
  /\ ckpt[c].status = "completed" => EndsWith(ckpt[c].history, Current(c))

\* What is in flight opens a turn, or ends one that is pending; it completes
\* only the turn of the checkpoint, whose answer is saved.
FlightOK(c) ==
  txn[c] # Free =>
    /\ txn[c].to # "none"
    /\ audit[txn[c].turn] = IF txn[c].to = "pending" THEN "none" ELSE "pending"
    /\ txn[c].to = "completed" => txn[c].turn = Current(c) /\ ckpt[c].answered

\* Recovery and the start of a turn: the history taken over has no gap, and the
\* turn of the checkpoint has ended, or is about to be settled.
HealsOK(r) ==
  LET c == conv[r] IN
  /\ At(r, "create") => hist[r] = <<>> /\ \A u \in Turns \ {r} : conv[u] # c
  /\ pc[r] \in {"settle", "settling"} =>
       \/ Current(c) = NoTurn
       \/ Current(c) \in todo[r]
       \/ audit[Current(c)] \in Terminal \ {"completed"}
       \/ audit[Current(c)] = "completed" /\ branch[r] # "reset"
  /\ pc[r] \in {"settle", "settling"} =>
       Gapless(hist[r], c) \/ (Current(c) \in todo[r] /\ CurrentCompleted(c))
  /\ At(r, "update") /\ branch[r] = "reset" => Current(c) # NoTurn /\ ~CurrentCompleted(c)
  /\ pc[r] \in {"update", "window", "start", "starting", "opened", "input", "fresh"} =>
       /\ Gapless(hist[r], c)
       /\ Current(c) # NoTurn => Ended(Current(c))
  /\ pc[r] \in {"start", "starting", "opened", "input", "fresh"} => Len(hist[r]) <= MaxHistory

\* The run of the graph: the turn is the newest, is pending until persist
\* commits it, and joins the history once, with its answer saved.
RunsOK(r) ==
  LET c == conv[r] IN
  /\ At(r, "starting") => txn[c] = Free \/ (txn[c].turn = r /\ txn[c].to = "pending")
  /\ pc[r] \in {"opened", "input", "fresh", "work", "persist"} => txn[c] = Free /\ audit[r] = "pending"
  /\ pc[r] \in {"starting", "opened", "input", "fresh"} /\ audit[r] # "none" =>
       \A u \in RowsOf(c) : row[u] <= row[r]
  /\ pc[r] \in {"work", "persist", "persisting", "saveWrites"} => ~Has(ckpt[c].history, r)
  /\ pc[r] \in {"persist", "persisting", "saveWrites", "saveFinal"} => ckpt[c].answered
  /\ cause[r] = "conflict" =>
       /\ pc[r] \in Finishing
       /\ ckpt[c].history = <<>>
       /\ CompletedOf(c) # {}

TailInv ==
  /\ \A c \in Conversations : RowsOK(c) /\ ThreadOK(c) /\ FlightOK(c) /\ Listings(c) # {}
  /\ \A r \in Turns : HealsOK(r) /\ RunsOK(r)

-----------------------------------------------------------------------------
(* Frames. *)

\* While statuses and rows stay, so do a conversation's sets and listings.
LEMMA SameRows ==
  ASSUME UNCHANGED <<audit, row, conv>>, NEW c
  PROVE  /\ RowsOf(c)' = RowsOf(c) /\ CompletedOf(c)' = CompletedOf(c)
         /\ PendingOf(c)' = PendingOf(c) /\ Listings(c)' = Listings(c)
<1>1. RowsOf(c)' = RowsOf(c)
  BY DEF RowsOf
<1>2. CompletedOf(c)' = CompletedOf(c) /\ PendingOf(c)' = PendingOf(c)
  BY <1>1 DEF CompletedOf, PendingOf
<1> QED
  BY <1>1, <1>2 DEF Listings

\* A checkpoint keeps what matters if its turn and history stay.
LEMMA ThreadSame ==
  ASSUME UNCHANGED <<audit, row, conv>>, NEW c, ThreadOK(c),
         ckpt'[c].turn = ckpt[c].turn, ckpt'[c].history = ckpt[c].history,
         CurrentCompleted(c) /\ ckpt[c].answered => ckpt'[c].answered,
         ckpt'[c].status = "completed" => ckpt[c].status = "completed"
  PROVE  ThreadOK(c)'
<1>1. CompletedOf(c)' = CompletedOf(c)
  BY SameRows
<1>2. Current(c)' = Current(c) /\ CurrentCompleted(c)' = CurrentCompleted(c)
  BY DEF Current, CurrentCompleted
<1>3. Permitted(c)' = Permitted(c)
  BY <1>2 DEF Permitted
<1>4. Gapless(Permitted(c), c) => Gapless(Permitted(c), c)'
  BY <1>1, <1>3 DEF Gapless
<1> QED
  BY <1>1, <1>2, <1>4 DEF ThreadOK

\* A write in flight stays fit while its checkpoint answers as before.
LEMMA FlightSame ==
  ASSUME UNCHANGED audit, NEW c, FlightOK(c), txn'[c] = txn[c],
         ckpt'[c].turn = ckpt[c].turn,
         txn[c] # Free /\ txn[c].to = "completed" /\ ckpt[c].answered => ckpt'[c].answered
  PROVE  FlightOK(c)'
BY DEF FlightOK, Current

\* A request that a step leaves alone, with its conversation.
LEMMA RequestSame ==
  ASSUME UNCHANGED <<audit, row, conv>>, NEW s, HealsOK(s), RunsOK(s),
         pc'[s] = pc[s], hist'[s] = hist[s], todo'[s] = todo[s],
         branch'[s] = branch[s], cause'[s] = cause[s],
         pc[s] \in Live => ckpt'[conv[s]] = ckpt[conv[s]] /\ txn'[conv[s]] = txn[conv[s]]
  PROVE  HealsOK(s)' /\ RunsOK(s)'
<1>1. RowsOf(conv[s])' = RowsOf(conv[s]) /\ CompletedOf(conv[s])' = CompletedOf(conv[s])
  BY SameRows
<1>2. CASE pc[s] \in Live
  <2>1. /\ Current(conv[s])' = Current(conv[s])
        /\ CurrentCompleted(conv[s])' = CurrentCompleted(conv[s])
    BY <1>2 DEF Current, CurrentCompleted
  <2>2. Gapless(hist[s], conv[s])' = Gapless(hist[s], conv[s])
    BY <1>1 DEF Gapless
  <2>3. HealsOK(s)'
    BY <2>1, <2>2 DEF HealsOK, At, Ended
  <2>4. RunsOK(s)'
    BY <1>1, <1>2 DEF RunsOK, At
  <2> QED
    BY <2>3, <2>4
<1>3. CASE pc[s] \notin Live
  <2>1. cause'[s] # "conflict"
    BY <1>3 DEF RunsOK, Live
  <2> QED
    BY <1>3, <2>1 DEF HealsOK, RunsOK, At, Live, Working
<1> QED
  BY <1>2, <1>3

\* A step of one live request keeps TailInv if it keeps the part about that
\* request and its conversation.
LEMMA TailLocal ==
  ASSUME StoreInv, TailInv, NEW r \in Turns, Local(r),
         \A s \in Turns \ {r} : cause'[s] = cause[s],
         \A c \in Conversations \ {conv[r]} : ckpt'[c] = ckpt[c] /\ txn'[c] = txn[c],
         ThreadOK(conv[r])', FlightOK(conv[r])', HealsOK(r)', RunsOK(r)'
  PROVE  TailInv'
<1>1. UNCHANGED <<audit, row, conv>>
  BY DEF Local
<1>2. ASSUME NEW c \in Conversations
      PROVE  (RowsOK(c) /\ ThreadOK(c) /\ FlightOK(c) /\ Listings(c) # {})'
  <2>1. RowsOf(c)' = RowsOf(c) /\ Listings(c)' = Listings(c)
    BY <1>1, SameRows
  <2>2. RowsOK(c)' /\ (Listings(c) # {})'
    BY <1>1, <2>1 DEF TailInv, RowsOK
  <2>3. CASE c = conv[r]
    BY <1>1, <2>2, <2>3
  <2>4. CASE c # conv[r]
    <3>1. ckpt'[c] = ckpt[c] /\ txn'[c] = txn[c] /\ ThreadOK(c) /\ FlightOK(c)
      BY <2>4 DEF TailInv
    <3> QED
      BY <1>1, <2>2, <3>1, ThreadSame, FlightSame
  <2> QED
    BY <2>3, <2>4
<1>3. ASSUME NEW s \in Turns
      PROVE  HealsOK(s)' /\ RunsOK(s)'
  <2>1. CASE s = r
    BY <2>1
  <2>2. CASE s # r
    <3>1. /\ pc'[s] = pc[s] /\ hist'[s] = hist[s] /\ todo'[s] = todo[s]
          /\ branch'[s] = branch[s] /\ cause'[s] = cause[s]
      BY <2>2 DEF Local
    <3>2. pc[s] \in Live => conv[s] # conv[r] /\ conv[s] \in Conversations
      BY <2>2 DEF Local, StoreInv, SeatAccounting, Typed
    <3>3. pc[s] \in Live => ckpt'[conv[s]] = ckpt[conv[s]] /\ txn'[conv[s]] = txn[conv[s]]
      BY <3>2
    <3>4. HealsOK(s) /\ RunsOK(s)
      BY DEF TailInv
    <3> QED
      BY <1>1, <3>1, <3>3, <3>4, RequestSame
  <2> QED
    BY <2>1, <2>2
<1> QED
  BY <1>2, <1>3 DEF TailInv

\* The same for a step that leaves both stores alone.
LEMMA TailQuiet ==
  ASSUME StoreInv, TailInv, NEW r \in Turns, Local(r),
         \A s \in Turns \ {r} : cause'[s] = cause[s],
         UNCHANGED <<ckpt, txn>>, HealsOK(r)', RunsOK(r)'
  PROVE  TailInv'
<1>1. conv[r] \in Conversations /\ UNCHANGED <<audit, row, conv>>
  BY DEF Local, StoreInv, Typed
<1>2. ThreadOK(conv[r]) /\ FlightOK(conv[r])
  BY <1>1 DEF TailInv
<1>3. (ThreadOK(conv[r]))' /\ (FlightOK(conv[r]))'
  <2> DEFINE c == conv[r]
  <2>1. c' = c
    BY <1>1
  <2>2. ASSUME NEW d, ThreadOK(d), FlightOK(d) PROVE ThreadOK(d)' /\ FlightOK(d)'
    BY <1>1, <2>2, ThreadSame, FlightSame
  <2> QED
    BY <1>1, <1>2, <2>2
<1> QED
  BY <1>3, TailLocal

\* ... and takes the request where nothing more is asked of it.
LEMMA TailLeaves ==
  ASSUME StoreInv, TailInv, NEW r \in Turns, Local(r),
         \A s \in Turns \ {r} : cause'[s] = cause[s],
         UNCHANGED <<ckpt, txn>>,
         \/ pc'[r] \in Finishing
         \/ pc'[r] = "ended" /\ pc[r] \notin Finishing,
         cause'[r] = cause[r] \/ cause'[r] # "conflict"
  PROVE  TailInv'
<1>1. UNCHANGED <<audit, row, conv>> /\ RunsOK(r)
  BY DEF Local, TailInv
<1>2. CompletedOf(conv[r])' = CompletedOf(conv[r])
  BY <1>1, SameRows
<1>3. HealsOK(r)'
  BY DEF HealsOK, At, Finishing
<1>4. RunsOK(r)'
  BY <1>1, <1>2 DEF RunsOK, At, Finishing
<1> QED
  BY <1>3, <1>4, TailQuiet

\* A request sends a transaction on its way.
LEMMA TailBegins ==
  ASSUME StoreInv, TailInv, NEW r \in Turns, Local(r),
         \A s \in Turns \ {r} : cause'[s] = cause[s], UNCHANGED ckpt,
         NEW t \in Turns, NEW to \in AuditStatus, Begin(r, t, to), to # "none",
         audit[t] = IF to = "pending" THEN "none" ELSE "pending",
         to = "completed" => t = Current(conv[r]) /\ ckpt[conv[r]].answered,
         HealsOK(r)', RunsOK(r)'
  PROVE  TailInv'
<1>1. /\ conv[r] \in Conversations /\ UNCHANGED <<audit, row, conv>>
      /\ txn \in [Conversations -> Transaction]
  BY DEF Local, StoreInv, Typed, TypeOK
<1>2. /\ txn'[conv[r]] = [turn |-> t, to |-> to, by |-> r]
      /\ \A c \in Conversations \ {conv[r]} : txn'[c] = txn[c]
  BY <1>1 DEF Begin
<1>3. ASSUME NEW d, ThreadOK(d) PROVE ThreadOK(d)'
  BY <1>1, <1>3, ThreadSame
<1>4. (ThreadOK(conv[r]))'
  BY <1>1, <1>3 DEF TailInv
<1>5. (FlightOK(conv[r]))'
  BY <1>1, <1>2 DEF FlightOK, Current
<1> QED
  BY <1>2, <1>4, <1>5, TailLocal

\* The history that a repair would save ends with the turn of the checkpoint.
LEMMA PermittedEnds ==
  ASSUME IInv, TailInv, NEW c \in Conversations, Current(c) # NoTurn, CurrentCompleted(c)
  PROVE  EndsWith(Permitted(c), Current(c))
<1> DEFINE h == ckpt[c].history
           t == Current(c)
<1>1. h \in Seq(Turns) /\ t \in Turns /\ Permitted(c) \in Seq(Turns)
      /\ row \in [Turns -> Nat]
  BY PermittedType DEF IInv, StoreInv, Typed, TypeOK, Checkpoint
<1>2. ThreadOK(c) /\ CheckpointOK(c)
  BY DEF TailInv, IInv, GraphInv
<1>3. CASE ~Has(h, t)
  <2>1. Permitted(c) = Append(h, t)
    BY <1>3 DEF Permitted
  <2>2. Len(Append(h, t)) = Len(h) + 1 /\ Append(h, t)[Len(h) + 1] = t
    BY <1>1, AppendProperties
  <2>3. Append(h, t) # <<>>
    <3> DEFINE a == Append(h, t)
    <3>1. Len(<<>>) = 0 /\ Len(h) \in Nat /\ Len(a) = Len(h) + 1
      BY <1>1, <2>2, LenProperties
    <3> HIDE DEF a
    <3>2. a # <<>>
      BY <3>1
    <3> QED
      BY <3>2 DEF a
  <2> QED
    BY <2>1, <2>2, <2>3 DEF EndsWith
<1>4. CASE Has(h, t)
  <2>1. Permitted(c) = h
    BY <1>4 DEF Permitted
  <2>2. Unbroken(h, CompletedOf(c), row)
    BY <1>2, <2>1 DEF ThreadOK, Gapless
  <2>3. t \in CompletedOf(c) /\ CompletedOf(c) \in SUBSET Turns
    BY <1>1, <1>2 DEF CheckpointOK, CompletedOf, RowsOf, CurrentCompleted
  <2>4. \A u \in CompletedOf(c) : row[u] <= row[t]
    BY <1>2 DEF ThreadOK
  <2>5. EndsWith(h, t)
    BY <1>1, <1>4, <2>2, <2>3, <2>4, NewestIsLast
  <2> QED
    BY <2>1, <2>5
<1> QED
  BY <1>3, <1>4

\* What the last entry is, the history has.
LEMMA EndHas ==
  ASSUME NEW h \in Seq(Turns), NEW t, EndsWith(h, t)
  PROVE  Has(h, t)
<1>1. h # <<>> /\ h[Len(h)] = t /\ Len(h) \in Nat
  BY LenProperties DEF EndsWith
<1>2. Len(h) # 0
  BY <1>1, EmptySeq
<1> QED
  BY <1>1, <1>2 DEF Has

\* The history of a checkpoint that recovery may take as it is has no gap.
LEMMA SettledHistory ==
  ASSUME IInv, TailInv, NEW c \in Conversations, Current(c) # NoTurn,
         ckpt[c].status = "completed" \/ ~CurrentCompleted(c)
  PROVE  Gapless(ckpt[c].history, c)
<1>1. ThreadOK(c) /\ ckpt[c].history \in Seq(Turns)
  BY DEF TailInv, IInv, StoreInv, Typed, TypeOK, Checkpoint
<1>2. Permitted(c) = ckpt[c].history
  BY <1>1, EndHas DEF ThreadOK, Permitted
<1> QED
  BY <1>1, <1>2 DEF ThreadOK

\* mysql_history itself has no gap.
LEMMA ListingGapless ==
  ASSUME StoreInv, NEW c, NEW e \in Listings(c)
  PROVE  Gapless(e, c)
<1> DEFINE S == CompletedOf(c)
           n == Cardinality(S)
<1>1. S \in SUBSET Turns /\ row \in [Turns -> Nat]
  BY DEF CompletedOf, RowsOf, StoreInv, Typed, TypeOK
<1>2. e \in [1..n -> S] /\ \A i, j \in 1..n : i < j => row[e[i]] < row[e[j]]
  BY DEF Listings
<1>3. Listed(e, S, row)
  BY <1>2 DEF Listed
<1>4. Len(e) = n /\ \A t \in S : \E i \in 1..n : e[i] = t
  BY <1>1, <1>3, ListedOnce
<1> QED
  BY <1>2, <1>4 DEF Gapless, Unbroken, Has

\* A history without a gap is the end of mysql_history.
LEMMA GaplessIsTail ==
  ASSUME StoreInv, NEW c, NEW h \in Seq(Turns), Gapless(h, c), NEW e \in Listings(c)
  PROVE  IsTail(h, e)
<1> DEFINE S == CompletedOf(c)
<1>1. S \in SUBSET Turns /\ row \in [Turns -> Nat]
  BY DEF CompletedOf, RowsOf, StoreInv, Typed, TypeOK
<1>2. Listed(e, S, row)
  BY DEF Listings, Listed
<1>3. Unbroken(h, S, row)
  BY DEF Gapless
<1> QED
  BY <1>1, <1>2, <1>3, UnbrokenIsTail

\* Recovery refuses only an emptied history.
LEMMA ConflictIsEmptied ==
  ASSUME IInv, TailInv, NEW c \in Conversations, Current(c) # NoTurn,
         NEW e \in Listings(c), Conflict(c, e)
  PROVE  ckpt[c].history = <<>> /\ CompletedOf(c) # {}
<1> DEFINE h == ckpt[c].history
           t == Current(c)
<1>1. h \in Seq(Turns) /\ t \in Turns /\ Permitted(c) \in Seq(Turns) /\ StoreInv
  BY PermittedType DEF IInv, StoreInv, Typed, TypeOK, Checkpoint
<1>2. ThreadOK(c) /\ CheckpointOK(c)
  BY DEF TailInv, IInv, GraphInv
<1>3. t \in RowsOf(c)
  BY <1>1, <1>2 DEF RowsOf, ThreadOK, CheckpointOK
<1>4. \A i \in 1..Len(h) : h[i] \in CompletedOf(c)
  BY <1>2 DEF CheckpointOK, Known
<1>5. IsTail(Permitted(c), e)
  BY <1>1, <1>2, GaplessIsTail DEF ThreadOK
<1>6. ckpt[c].status = "completed" => CurrentCompleted(c) /\ EndsWith(h, t)
  BY <1>2 DEF CheckpointOK, ThreadOK
<1>7. CurrentCompleted(c) => ckpt[c].answered /\ EndsWith(Permitted(c), t)
  BY <1>2, PermittedEnds DEF ThreadOK
<1>8. CurrentCompleted(c) /\ Settled(c) => Verified(ckpt[c], t)
  BY <1>6 DEF Settled, Verified, Current, CurrentCompleted
<1>9. CurrentCompleted(c) => Verified(Repaired(c), t)
  BY <1>7 DEF Verified, Repaired, CurrentCompleted
<1>10. CurrentCompleted(c) /\ ckpt[c].status = "completed" =>
         Verified([ckpt[c] EXCEPT !.tasks = FALSE], t)
  <2>1. ckpt[c] \in Checkpoint
    BY DEF IInv, StoreInv, Typed, TypeOK
  <2> QED
    BY <1>6, <2>1 DEF Verified, Current, CurrentCompleted, Checkpoint
<1>11. Permitted(c) = <<>> /\ e # <<>>
  BY <1>3, <1>4, <1>5, <1>6, <1>7, <1>8, <1>9, <1>10 DEF Conflict
<1>12. h = <<>>
  <2>1. ~(CurrentCompleted(c) /\ ~Has(h, t))
    BY <1>7, <1>11 DEF EndsWith
  <2> QED
    BY <1>11, <2>1 DEF Permitted
<1>13. CompletedOf(c) # {}
  <2>1. SUFFICES ASSUME CompletedOf(c) = {} PROVE FALSE
    OBVIOUS
  <2>2. e \in Seq(Turns) /\ \A i \in 1..Len(e) : e[i] \in CompletedOf(c)
    BY ListingType
  <2>3. Len(e) \in Nat
    BY <2>2, LenProperties
  <2>4. Len(e) = 0
    BY <2>1, <2>2, <2>3
  <2> QED
    BY <1>11, <2>2, <2>4, EmptySeq
<1> QED
  BY <1>12, <1>13

\* recover_conversation.
LEMMA TailRecover ==
  ASSUME IInv, TailInv, NEW r \in Turns, Local(r), Recover(r)
  PROVE  TailInv'
<1> DEFINE c == conv[r]
           t == Current(c)
<1>1. /\ c \in Conversations /\ UNCHANGED <<ckpt, conv, txn, audit, row>>
      /\ pc[r] = "recover" /\ pc \in [Turns -> PCs] /\ cause \in [Turns -> Causes]
      /\ hist \in [Turns -> Seq(Turns)] /\ todo \in [Turns -> SUBSET Turns]
      /\ branch \in [Turns -> {"none", "reset", "repair"}]
  BY LiveCheckpoint DEF IInv, StoreInv, Typed, TypeOK, Recover, At, Local, mysql
<1>2. StoreInv /\ ThreadOK(c) /\ CheckpointOK(c) /\ RunsOK(r)
  BY <1>1 DEF IInv, GraphInv, TailInv
<1>3. cause[r] # "conflict"
  BY <1>1, <1>2 DEF RunsOK, Finishing
<1>4. \A d : CompletedOf(d)' = CompletedOf(d) /\ RowsOf(d)' = RowsOf(d)
  BY <1>1, SameRows
<1>5. CASE Leave(r, "failed")
  <2>1. pc'[r] \in Finishing /\ cause'[r] # "conflict" /\ \A s \in Turns \ {r} : cause'[s] = cause[s]
    BY <1>1, <1>5 DEF Leave, Goto, Finishing
  <2> QED
    BY <1>1, <1>2, <2>1, TailLeaves
<1>6. CASE t # NoTurn /\ (\E e \in Listings(c) : Conflict(c, e)) /\ Leave(r, "conflict")
  <2>1. pc'[r] = "closing" /\ \A s \in Turns \ {r} : cause'[s] = cause[s]
    BY <1>1, <1>6 DEF Leave, Goto
  <2>2. ckpt[c].history = <<>> /\ CompletedOf(c) # {}
    BY <1>1, <1>6, ConflictIsEmptied
  <2>3. HealsOK(r)'
    BY <2>1 DEF HealsOK, At
  <2>4. RunsOK(r)'
    BY <1>1, <1>4, <2>1, <2>2 DEF RunsOK, At, Finishing
  <2> QED
    BY <1>1, <1>2, <2>1, <2>3, <2>4, TailQuiet
<1>7. ASSUME NEW p \in {"settle", "update"}, NEW b, NEW h, Plan(r, p, b, h), Gapless(h, c),
             p = "settle" => \/ t = NoTurn
                             \/ t \in PendingOf(c)
                             \/ audit[t] \in Terminal \ {"completed"}
                             \/ audit[t] = "completed" /\ b # "reset",
             p = "update" => b = "repair" /\ (t # NoTurn => Ended(t))
      PROVE  TailInv'
  <2>1. /\ pc'[r] = p /\ branch'[r] = b /\ hist'[r] = h /\ todo'[r] = PendingOf(c)
        /\ UNCHANGED cause
    BY <1>1, <1>7 DEF Plan, Goto
  <2>2. Gapless(hist[r], conv[r])'
    BY <1>1, <1>4, <1>7, <2>1 DEF Gapless
  <2>3. Current(conv[r])' = t
    BY <1>1 DEF Current
  <2>4. HealsOK(r)'
    BY <1>1, <1>7, <2>1, <2>2, <2>3 DEF HealsOK, At, Ended
  <2>5. RunsOK(r)'
    BY <1>3, <1>7, <2>1 DEF RunsOK, At
  <2> QED
    BY <1>1, <1>2, <2>1, <2>4, <2>5, TailQuiet
<1>8. ASSUME t = NoTurn, NEW e \in Listings(c), Plan(r, "settle", "none", e)
      PROVE  TailInv'
  BY <1>2, <1>7, <1>8, ListingGapless
<1>9. CASE t # NoTurn /\ CurrentCompleted(c) /\ Settled(c)
           /\ Plan(r, "settle", "none", ckpt[c].history)
  <2>1. Gapless(ckpt[c].history, c) /\ audit[t] = "completed"
    BY <1>1, <1>9, SettledHistory DEF Settled, CurrentCompleted
  <2> QED
    BY <1>7, <1>9, <2>1
<1>10. CASE t # NoTurn /\ CurrentCompleted(c) /\ Plan(r, "update", "repair", Permitted(c))
  <2>1. Gapless(Permitted(c), c) /\ Ended(t)
    BY <1>2, <1>10 DEF ThreadOK, Ended, Terminal, CurrentCompleted
  <2> QED
    BY <1>7, <1>10, <2>1
<1>11. CASE t # NoTurn /\ ~CurrentCompleted(c) /\ Plan(r, "settle", "reset", ckpt[c].history)
  <2>1. Gapless(ckpt[c].history, c)
    BY <1>1, <1>11, SettledHistory
  <2>2. t \in PendingOf(c) \/ audit[t] \in Terminal \ {"completed"}
    <3>1. t \in Turns /\ conv[t] = c /\ audit[t] # "none" /\ audit[t] # "completed"
          /\ audit[t] \in AuditStatus
      BY <1>1, <1>2, <1>11 DEF CheckpointOK, ThreadOK, CurrentCompleted, IInv, StoreInv, Typed,
         TypeOK, Checkpoint, Current
    <3> QED
      BY <3>1 DEF PendingOf, RowsOf, AuditStatus, Terminal
  <2> QED
    BY <1>7, <1>11, <2>1, <2>2
<1> QED
  BY <1>5, <1>6, <1>8, <1>9, <1>10, <1>11 DEF Recover

\* The facts about a live request that the steps below start from.
LEMMA TailFacts ==
  ASSUME IInv, TailInv, NEW r \in Turns, Local(r)
  PROVE  /\ conv[r] \in Conversations /\ UNCHANGED <<audit, row, conv>>
         /\ StoreInv /\ HealsOK(r) /\ RunsOK(r) /\ RequestOK(r)
         /\ ThreadOK(conv[r]) /\ FlightOK(conv[r]) /\ CheckpointOK(conv[r])
         /\ ckpt[conv[r]] \in Checkpoint /\ ckpt[conv[r]].history \in Seq(Turns)
         /\ pc \in [Turns -> PCs] /\ cause \in [Turns -> Causes]
         /\ audit \in [Turns -> AuditStatus] /\ row \in [Turns -> Nat]
         /\ ckpt \in [Conversations -> Checkpoint]
         /\ txn \in [Conversations -> Transaction]
         /\ hist \in [Turns -> Seq(Turns)] /\ todo \in [Turns -> SUBSET Turns]
         /\ cause[r] = "conflict" => pc[r] \in Finishing
<1>1. conv[r] \in Conversations /\ UNCHANGED <<audit, row, conv>> /\ StoreInv
  BY DEF IInv, StoreInv, Typed, Local
<1>2. RunsOK(r) /\ HealsOK(r) /\ RequestOK(r)
  BY DEF TailInv, IInv, GraphInv
<1>3. cause[r] = "conflict" => pc[r] \in Finishing
  BY <1>2 DEF RunsOK
<1> QED
  BY <1>1, <1>2, <1>3 DEF TailInv, IInv, GraphInv, StoreInv, Typed, TypeOK, Checkpoint

\* The steps on which a request only moves, or gives up.
LEMMA TailMoves ==
  ASSUME IInv, TailInv, NEW r \in Turns, Local(r),
         \/ Create(r) \/ StartAck(r) \/ Stream(r) \/ PersistAck(r) \/ End(r)
         \/ Drain(r) \/ AuditRead(r) \/ CleanupAck(r) \/ CleanupFails(r)
         \/ Fail(r) \/ Disconnect(r)
  PROVE  TailInv'
<1> DEFINE c == conv[r]
<1>1. /\ c \in Conversations /\ UNCHANGED <<audit, row, conv>>
      /\ StoreInv /\ HealsOK(r) /\ RunsOK(r) /\ RequestOK(r)
      /\ ThreadOK(c) /\ FlightOK(c) /\ CheckpointOK(c)
      /\ pc \in [Turns -> PCs] /\ cause \in [Turns -> Causes]
      /\ cause[r] = "conflict" => pc[r] \in Finishing
  BY TailFacts
<1>2. /\ UNCHANGED <<ckpt, txn>>
      /\ (Create(r) \/ StartAck(r) \/ Stream(r) \/ PersistAck(r)) => UNCHANGED <<hist, todo, branch>>
  BY DEF Create, StartAck, Stream, PersistAck, End, Drain, AuditRead, CleanupAck,
     CleanupFails, Fail, Disconnect, mysql, reconciling
<1>3. \A d : /\ CompletedOf(d)' = CompletedOf(d) /\ RowsOf(d)' = RowsOf(d)
             /\ Current(d)' = Current(d)
  BY <1>1, <1>2, SameRows DEF Current
<1>4. \A s \in Turns \ {r} : cause'[s] = cause[s]
  BY <1>1 DEF Create, StartAck, Stream, PersistAck, End, Drain, AuditRead, CleanupAck,
     CleanupFails, Fail, Disconnect, Leave, Resume
<1>5. Gapless(hist[r], c) /\ hist' = hist => Gapless(hist[r], conv[r])'
  BY <1>1, <1>3 DEF Gapless
<1> DEFINE Leaves == /\ \/ pc'[r] \in Finishing
                        \/ pc'[r] = "ended" /\ pc[r] \notin Finishing
                     /\ cause'[r] = cause[r] \/ cause'[r] # "conflict"
<1>6. Leaves => TailInv'
  BY <1>1, <1>2, <1>4, TailLeaves
<1>7. CASE Create(r)
  <2>1. pc[r] = "create" /\ pc'[r] = "start" /\ cause' = cause /\ hist[r] = <<>>
        /\ \A u \in Turns \ {r} : conv[u] # c
    BY <1>1, <1>7 DEF Create, At, Goto, HealsOK
  <2>2. Current(c) = NoTurn
    <3> SUFFICES ASSUME Current(c) # NoTurn PROVE FALSE
      OBVIOUS
    <3>1. Current(c) \in Turns /\ conv[Current(c)] = c /\ audit[Current(c)] # "none"
      BY <1>1 DEF CheckpointOK, ThreadOK, StoreInv, Typed, TypeOK, Checkpoint, Current
    <3>2. audit[r] = "none"
      BY <1>1, <2>1 DEF StoreInv, EarlyUntouched, Early
    <3> QED
      BY <2>1, <3>1, <3>2
  <2>3. Gapless(hist[r], conv[r])'
    BY <1>2, <1>7, <2>1, UnbrokenEmpty DEF Gapless
  <2>4. Len(<<>>) <= MaxHistory
    <3>1. Len(<<>>) = 0
      OBVIOUS
    <3> QED
      BY <3>1, BoundsAssumption
  <2>5. HealsOK(r)'
    BY <1>1, <1>2, <1>3, <1>7, <2>1, <2>2, <2>3, <2>4 DEF HealsOK, At
  <2>6. RunsOK(r)'
    BY <1>1, <2>1 DEF RunsOK, At, Finishing
  <2> QED
    BY <1>1, <1>2, <1>4, <2>5, <2>6, TailQuiet
<1>8. CASE StartAck(r)
  <2>1. pc[r] = "starting" /\ Resume(r, audit[r] = "pending", "opened")
    BY <1>8 DEF StartAck, At
  <2>2. CASE audit[r] = "pending" /\ Goto(r, "opened") /\ UNCHANGED cause
    <3>1. pc'[r] = "opened"
      BY <1>1, <2>2 DEF Goto
    <3>2. txn[c] = Free
      BY <1>1, <2>1, <2>2 DEF RunsOK, FlightOK, At
    <3>3. HealsOK(r)'
      BY <1>1, <1>2, <1>3, <1>5, <1>8, <2>1, <3>1 DEF HealsOK, At, Ended
    <3>4. RunsOK(r)'
      BY <1>1, <1>2, <1>3, <2>1, <2>2, <3>1, <3>2 DEF RunsOK, At, Finishing
    <3> QED
      BY <1>1, <1>2, <1>4, <3>3, <3>4, TailQuiet
  <2>3. CASE Leave(r, "failed")
    <3>1. Leaves
      BY <1>1, <2>3 DEF Leave, Goto, Finishing
    <3> QED
      BY <1>6, <3>1
  <2> QED
    BY <2>1, <2>2, <2>3 DEF Resume
<1>9. CASE Stream(r)
  <2>1. pc[r] = "opened" /\ pc'[r] = "input" /\ cause' = cause
    BY <1>1, <1>9 DEF Stream, At, Goto
  <2>2. HealsOK(r)'
    BY <1>1, <1>2, <1>3, <1>5, <1>9, <2>1 DEF HealsOK, At, Ended
  <2>3. RunsOK(r)'
    BY <1>1, <1>2, <1>3, <2>1 DEF RunsOK, At, Finishing
  <2> QED
    BY <1>1, <1>2, <1>4, <2>2, <2>3, TailQuiet
<1>10. CASE PersistAck(r)
  <2>1. pc[r] = "persisting" /\ Resume(r, audit[r] = "completed", "saveWrites")
    BY <1>10 DEF PersistAck, At
  <2>2. CASE Goto(r, "saveWrites") /\ UNCHANGED cause
    <3>1. pc'[r] = "saveWrites"
      BY <1>1, <2>2 DEF Goto
    <3>2. HealsOK(r)'
      BY <3>1 DEF HealsOK, At
    <3>3. RunsOK(r)'
      BY <1>1, <1>2, <2>1, <2>2, <3>1 DEF RunsOK, At, Finishing
    <3> QED
      BY <1>1, <1>2, <1>4, <3>2, <3>3, TailQuiet
  <2>3. CASE Leave(r, "failed")
    <3>1. Leaves
      BY <1>1, <2>3 DEF Leave, Goto, Finishing
    <3> QED
      BY <1>6, <3>1
  <2> QED
    BY <2>1, <2>2, <2>3 DEF Resume
<1>11. CASE \/ End(r) \/ Drain(r) \/ AuditRead(r) \/ CleanupAck(r) \/ CleanupFails(r)
            \/ Fail(r) \/ Disconnect(r)
  <2>1. Leaves
    BY <1>1, <1>11 DEF End, Drain, AuditRead, CleanupAck, CleanupFails, Fail, Disconnect,
       Leave, Goto, Finishing
  <2> QED
    BY <1>6, <2>1
<1> QED
  BY <1>7, <1>8, <1>9, <1>10, <1>11

\* Recovery settles what is pending.
LEMMA TailSettles ==
  ASSUME IInv, TailInv, NEW r \in Turns, Local(r),
         Settle(r) \/ SettleAck(r) \/ SettleDone(r)
  PROVE  TailInv'
<1> DEFINE c == conv[r]
           t == Current(c)
<1>1. /\ c \in Conversations /\ UNCHANGED <<audit, row, conv, ckpt>>
      /\ StoreInv /\ HealsOK(r) /\ RunsOK(r)
      /\ ThreadOK(c) /\ FlightOK(c)
      /\ pc \in [Turns -> PCs] /\ cause \in [Turns -> Causes]
      /\ todo \in [Turns -> SUBSET Turns]
      /\ pc[r] \in {"settle", "settling"} /\ cause[r] # "conflict"
      /\ UNCHANGED <<hist, branch>>
  BY TailFacts DEF Settle, SettleAck, SettleDone, mysql, reconciling, At, Finishing
<1>2. \A s \in Turns \ {r} : cause'[s] = cause[s]
  BY <1>1 DEF Settle, SettleAck, SettleDone, FinishTurn, Leave, Resume
<1>3. /\ Current(conv[r])' = t /\ CurrentCompleted(conv[r])' = CurrentCompleted(c)
      /\ CompletedOf(conv[r])' = CompletedOf(c)
  BY <1>1, SameRows DEF Current, CurrentCompleted
<1>4. Gapless(hist[r], c) => Gapless(hist[r], conv[r])'
  BY <1>1, <1>3 DEF Gapless
<1>5. ASSUME pc'[r] \in {"settle", "settling"}, cause' = cause,
             \/ todo'[r] = todo[r]
             \/ \E u \in Turns : todo'[r] = todo[r] \ {u} /\ audit[u] = "interrupted"
      PROVE  HealsOK(r)' /\ RunsOK(r)'
  <2>1. RunsOK(r)'
    BY <1>1, <1>5 DEF RunsOK, At
  <2>2. \/ t = NoTurn \/ t \in todo'[r]
        \/ audit[t] \in Terminal \ {"completed"}
        \/ audit[t] = "completed" /\ branch[r] # "reset"
    BY <1>1, <1>5 DEF HealsOK, Terminal
  <2>3. Gapless(hist[r], c) \/ (t \in todo'[r] /\ CurrentCompleted(c))
    BY <1>1, <1>5 DEF HealsOK, CurrentCompleted
  <2>4. HealsOK(r)'
    BY <1>1, <1>3, <1>4, <1>5, <2>2, <2>3 DEF HealsOK, At
  <2> QED
    BY <2>1, <2>4
<1>6. ASSUME Leave(r, "failed"), UNCHANGED txn
      PROVE  TailInv'
  <2>1. pc'[r] \in Finishing /\ cause'[r] # "conflict"
    BY <1>1, <1>6 DEF Leave, Goto, Finishing
  <2> QED
    BY <1>1, <1>2, <1>6, <2>1, TailLeaves
<1>7. CASE Settle(r)
  <2>1. PICK u \in Turns :
          /\ FinishTurn(r, u, "interrupted", "settling", "settle")
          /\ todo' = [todo EXCEPT ![r] = IF audit[u] = "interrupted" THEN @ \ {u} ELSE @]
    BY <1>7 DEF Settle
  <2>2. CASE audit[u] = "pending" /\ Begin(r, u, "interrupted") /\ Goto(r, "settling")
             /\ UNCHANGED cause
    <3>1. pc'[r] = "settling" /\ todo'[r] = todo[r]
      BY <1>1, <2>1, <2>2 DEF Goto
    <3>2. HealsOK(r)' /\ RunsOK(r)'
      BY <1>5, <2>2, <3>1
    <3>3. "interrupted" \in AuditStatus
      BY DEF AuditStatus, Terminal
    <3> QED
      BY <1>1, <1>2, <2>2, <3>2, <3>3, TailBegins
  <2>3. CASE Resume(r, audit[u] = "interrupted", "settle") /\ UNCHANGED txn
    <3>1. CASE audit[u] = "interrupted" /\ Goto(r, "settle") /\ UNCHANGED cause
      <4>1. pc'[r] = "settle" /\ todo'[r] = todo[r] \ {u}
        BY <1>1, <2>1, <3>1 DEF Goto
      <4>2. HealsOK(r)' /\ RunsOK(r)'
        BY <1>5, <3>1, <4>1
      <4> QED
        BY <1>1, <1>2, <2>3, <4>2, TailQuiet
    <3>2. CASE Leave(r, "failed")
      BY <1>6, <2>3, <3>2
    <3> QED
      BY <2>3, <3>1, <3>2 DEF Resume
  <2> QED
    BY <2>1, <2>2, <2>3 DEF FinishTurn
<1>8. CASE SettleAck(r)
  <2>1. PICK u \in Turns :
          /\ Resume(r, audit[u] = "interrupted", "settle")
          /\ todo' = [todo EXCEPT ![r] = @ \ {u}]
    BY <1>8 DEF SettleAck
  <2>2. UNCHANGED txn
    BY <1>8 DEF SettleAck, mysql
  <2>3. CASE audit[u] = "interrupted" /\ Goto(r, "settle") /\ UNCHANGED cause
    <3>1. pc'[r] = "settle" /\ todo'[r] = todo[r] \ {u}
      BY <1>1, <2>1, <2>3 DEF Goto
    <3>2. HealsOK(r)' /\ RunsOK(r)'
      BY <1>5, <2>3, <3>1
    <3> QED
      BY <1>1, <1>2, <2>2, <3>2, TailQuiet
  <2>4. CASE Leave(r, "failed")
    BY <1>6, <2>2, <2>4
  <2> QED
    BY <2>1, <2>3, <2>4 DEF Resume
<1>9. CASE SettleDone(r)
  <2>1. /\ pc[r] = "settle" /\ todo[r] = {} /\ UNCHANGED <<txn, cause, todo>>
        /\ \/ pc'[r] = "window"
           \/ pc'[r] = "update" /\ branch[r] = "reset"
    BY <1>1, <1>9 DEF SettleDone, At, Goto, mysql, reconciling
  <2>2. Gapless(hist[r], c)
    BY <1>1, <2>1 DEF HealsOK
  <2>3. \/ t = NoTurn
        \/ audit[t] \in Terminal \ {"completed"}
        \/ audit[t] = "completed" /\ branch[r] # "reset"
    BY <1>1, <2>1 DEF HealsOK
  <2>4. branch[r] = "reset" => t # NoTurn
    BY NamesAssumption DEF IInv, StoreInv, Typed, Current
  <2>5. HealsOK(r)'
    BY <1>1, <1>3, <1>4, <2>1, <2>2, <2>3, <2>4 DEF HealsOK, At, Ended, CurrentCompleted, Terminal
  <2>6. RunsOK(r)'
    BY <1>1, <2>1 DEF RunsOK, At
  <2> QED
    BY <1>1, <1>2, <2>1, <2>5, <2>6, TailQuiet
<1> QED
  BY <1>7, <1>8, <1>9

\* The other steps that write to MySQL, or choose the window.
LEMMA TailWrites ==
  ASSUME IInv, TailInv, NEW r \in Turns, Local(r),
         Window(r) \/ Start(r) \/ Persist(r) \/ Cleanup(r)
  PROVE  TailInv'
<1> DEFINE c == conv[r]
           t == Current(c)
<1>1. UNCHANGED ckpt /\ (UNCHANGED cause \/ Persist(r))
  BY DEF Window, Start, Cleanup, Persist
<1>2. /\ c \in Conversations /\ UNCHANGED <<audit, row, conv, ckpt>>
      /\ StoreInv /\ HealsOK(r) /\ RunsOK(r) /\ RequestOK(r)
      /\ ThreadOK(c) /\ FlightOK(c)
      /\ pc \in [Turns -> PCs] /\ cause \in [Turns -> Causes]
      /\ hist \in [Turns -> Seq(Turns)]
      /\ cause[r] = "conflict" => pc[r] \in Finishing
  BY <1>1, TailFacts
<1>3. \A s \in Turns \ {r} : cause'[s] = cause[s]
  BY <1>1, <1>2 DEF Persist, FinishTurn, Leave, Resume
<1>4. /\ Current(conv[r])' = t /\ CurrentCompleted(conv[r])' = CurrentCompleted(c)
      /\ CompletedOf(conv[r])' = CompletedOf(c) /\ RowsOf(conv[r])' = RowsOf(c)
  BY <1>2, SameRows DEF Current, CurrentCompleted
<1>5. CASE Window(r)
  <2>1. pc[r] = "window" /\ pc'[r] = "start" /\ UNCHANGED <<cause, txn>>
    BY <1>2, <1>5 DEF Window, At, Goto, mysql
  <2>2. PICK k \in Fits : hist'[r] = LastOf(LastOf(hist[r], MaxHistory), k)
    BY <1>2, <1>5 DEF Window
  <2>3. Unbroken(hist[r], CompletedOf(c), row)
    BY <1>2, <2>1 DEF HealsOK, Gapless
  <2>4. CompletedOf(c) \in SUBSET Turns /\ row \in [Turns -> Nat] /\ hist[r] \in Seq(Turns)
        /\ MaxHistory \in Nat /\ k \in Nat
    BY <1>2, BoundsAssumption DEF CompletedOf, RowsOf, StoreInv, Typed, TypeOK
  <2> DEFINE l == LastOf(hist[r], MaxHistory)
  <2>5. Unbroken(l, CompletedOf(c), row) /\ l \in Seq(Turns) /\ Len(l) <= MaxHistory
    BY <2>3, <2>4, UnbrokenTail
  <2> HIDE DEF l
  <2>6. Unbroken(LastOf(l, k), CompletedOf(c), row)
    BY <2>4, <2>5, UnbrokenTail
  <2>7. Len(LastOf(l, k)) <= MaxHistory
    <3> DEFINE d == IF k < Len(l) THEN k ELSE Len(l)
    <3>1. Len(l) \in Nat /\ d <= Len(l) /\ Len(LastOf(l, k)) = d /\ d \in Nat
      BY <2>4, <2>5, LastOfValue
    <3> HIDE DEF d
    <3> QED
      BY <2>4, <2>5, <3>1
  <2>8. hist'[r] = LastOf(l, k)
    BY <2>2 DEF l
  <2>9. Gapless(hist[r], conv[r])' /\ Len(hist'[r]) <= MaxHistory
    BY <1>2, <1>4, <2>6, <2>7, <2>8 DEF Gapless
  <2>10. t # NoTurn => Ended(t)
    BY <1>2, <2>1 DEF HealsOK
  <2>11. HealsOK(r)'
    BY <1>2, <1>4, <2>1, <2>9, <2>10 DEF HealsOK, At, Ended
  <2>12. RunsOK(r)'
    BY <1>2, <2>1 DEF RunsOK, At, Finishing
  <2> QED
    BY <1>2, <1>3, <2>1, <2>11, <2>12, TailQuiet
<1>6. CASE Start(r)
  <2>1. /\ pc[r] = "start" /\ pc'[r] = "starting" /\ UNCHANGED <<cause, hist, todo, branch>>
        /\ Begin(r, r, "pending")
    BY <1>2, <1>6 DEF Start, At, Goto, reconciling
  <2>2. audit[r] = "none"
    BY <1>2, <2>1 DEF StoreInv, EarlyUntouched, Early
  <2>3. txn'[c] = [turn |-> r, to |-> "pending", by |-> r]
    BY <1>2, <2>1 DEF Begin, StoreInv, Typed, TypeOK
  <2>4. Gapless(hist[r], conv[r])'
    BY <1>2, <1>4, <2>1 DEF Gapless, HealsOK
  <2>5. HealsOK(r)'
    BY <1>2, <1>4, <2>1, <2>4 DEF HealsOK, At, Ended
  <2>6. RunsOK(r)'
    BY <1>2, <2>1, <2>2, <2>3 DEF RunsOK, At, Finishing
  <2>7. "pending" \in AuditStatus
    BY DEF AuditStatus
  <2> QED
    BY <1>2, <1>3, <2>1, <2>2, <2>5, <2>6, <2>7, TailBegins
<1>7. CASE Persist(r)
  <2>1. /\ pc[r] = "persist" /\ audit[r] = "pending" /\ t = r /\ ckpt[c].answered
        /\ ~Has(ckpt[c].history, r)
    BY <1>2, <1>7 DEF Persist, At, RunsOK, RequestOK, Running
  <2>2. pc'[r] = "persisting" /\ cause' = cause /\ Begin(r, r, "completed")
    BY <1>2, <1>7, <2>1 DEF Persist, FinishTurn, Goto
  <2>3. HealsOK(r)'
    BY <2>2 DEF HealsOK, At
  <2>4. RunsOK(r)'
    BY <1>2, <2>1, <2>2 DEF RunsOK, At, Finishing
  <2>5. "completed" \in AuditStatus
    BY DEF AuditStatus, Terminal
  <2> QED
    BY <1>2, <1>3, <2>1, <2>2, <2>3, <2>4, <2>5, TailBegins
<1>8. CASE Cleanup(r)
  <2>1. CASE audit[r] = "pending" /\ Begin(r, r, FinalStatus(r)) /\ Goto(r, "cleaning")
    <3>1. pc'[r] = "cleaning" /\ cause' = cause /\ pc[r] = "cleanup"
      BY <1>2, <1>8, <2>1 DEF Cleanup, Goto, At
    <3>2. HealsOK(r)'
      BY <3>1 DEF HealsOK, At
    <3>3. RunsOK(r)'
      BY <1>2, <1>4, <3>1 DEF RunsOK, At, Finishing
    <3>4. FinalStatus(r) \in AuditStatus \ {"none", "pending", "completed"}
      BY DEF FinalStatus, AuditStatus, Terminal
    <3> QED
      BY <1>2, <1>3, <2>1, <3>2, <3>3, <3>4, TailBegins
  <2>2. CASE Goto(r, "release") /\ UNCHANGED txn
    <3>1. pc'[r] \in Finishing /\ cause' = cause
      BY <1>2, <1>8, <2>2 DEF Cleanup, Goto, Finishing
    <3> QED
      BY <1>2, <1>3, <2>2, <3>1, TailLeaves
  <2> QED
    BY <1>8, <2>1, <2>2 DEF Cleanup
<1> QED
  BY <1>5, <1>6, <1>7, <1>8

\* The slice of a history that is not empty ends like the history.
LEMMA TailEnds ==
  ASSUME NEW h \in Seq(Turns), NEW k \in Nat \ {0}, NEW t, EndsWith(h, t)
  PROVE  EndsWith(LastOf(h, k), t)
<1> DEFINE n == Len(h)
           d == IF k < n THEN k ELSE n
           l == LastOf(h, k)
<1>1. /\ n \in Nat /\ d \in Nat /\ d <= n
      /\ Len(l) = d /\ \A i \in 1..d : l[i] = h[n - d + i]
  BY LastOfValue
<1>2. h # <<>> /\ h[n] = t
  BY DEF EndsWith
<1>3. n # 0
  BY <1>1, <1>2, EmptySeq
<1>4. d # 0
  BY <1>1, <1>3
<1> HIDE DEF d, n, l
<1>5. d \in 1..d /\ n - d + d = n
  BY <1>1, <1>4
<1>6. l[d] = t
  BY <1>1, <1>2, <1>5
<1>7. l # <<>>
  <2>1. Len(<<>>) = 0
    OBVIOUS
  <2> QED
    BY <1>1, <1>4, <2>1
<1> QED
  BY <1>1, <1>6, <1>7 DEF EndsWith, l

\* The checkpoints that the graph and recovery save.
LEMMA TailSaves ==
  ASSUME IInv, TailInv, NEW r \in Turns, Local(r),
         \/ Input(r) \/ Fresh(r) \/ Work(r) \/ SaveWrites(r) \/ SaveFinal(r)
         \/ Update(r)
  PROVE  TailInv'
<1> DEFINE c == conv[r]
           k == ckpt[c]
           t == Current(c)
<1>1. /\ c \in Conversations /\ UNCHANGED <<audit, row, conv, txn, cause>>
      /\ StoreInv /\ HealsOK(r) /\ RunsOK(r) /\ RequestOK(r)
      /\ ThreadOK(c) /\ FlightOK(c) /\ CheckpointOK(c)
      /\ k \in Checkpoint /\ k.history \in Seq(Turns)
      /\ pc \in [Turns -> PCs] /\ ckpt \in [Conversations -> Checkpoint]
      /\ hist \in [Turns -> Seq(Turns)]
      /\ UNCHANGED <<hist, todo, branch>>
  BY TailFacts DEF Input, Fresh, Work, SaveWrites, SaveFinal, Update, mysql, reconciling
<1>2. cause[r] # "conflict"
  BY <1>1 DEF RunsOK, Finishing, Input, Fresh, Work, SaveWrites, SaveFinal, Update, At
<1>3. /\ CompletedOf(conv[r])' = CompletedOf(c) /\ RowsOf(conv[r])' = RowsOf(c)
      /\ \A h : Gapless(h, c) = Unbroken(h, CompletedOf(c), row)
  BY <1>1, SameRows DEF Gapless
<1>4. /\ Current(conv[r])' = ckpt'[c].turn
      /\ CurrentCompleted(conv[r])' = (audit[ckpt'[c].turn] = "completed")
  BY <1>1 DEF Current, CurrentCompleted
<1>5. Gapless(hist[r], c) => Gapless(hist[r], conv[r])'
  BY <1>1, <1>3 DEF Gapless
<1>6. ASSUME NEW n, ckpt' = [ckpt EXCEPT ![c] = n],
             (ThreadOK(c))', (FlightOK(c))', HealsOK(r)', RunsOK(r)'
      PROVE  TailInv'
  <2>1. \A d \in Conversations \ {c} : ckpt'[d] = ckpt[d] /\ txn'[d] = txn[d]
    BY <1>1, <1>6
  <2> QED
    BY <1>1, <1>6, <2>1, TailLocal
<1>7. ASSUME NEW d, d = c, ThreadOK(d), FlightOK(d),
             ckpt'[c].turn = k.turn, ckpt'[c].history = k.history,
             CurrentCompleted(c) /\ k.answered => ckpt'[c].answered,
             txn[c] # Free /\ txn[c].to = "completed" /\ k.answered => ckpt'[c].answered,
             ckpt'[c].status = "completed" => k.status = "completed"
      PROVE  (ThreadOK(d))' /\ (FlightOK(d))'
  BY <1>1, <1>7, ThreadSame, FlightSame
<1>8. CASE Input(r)
  <2> DEFINE n == [k EXCEPT !.tasks = TRUE]
  <2>1. ckpt' = [ckpt EXCEPT ![c] = n] /\ pc[r] = "input" /\ pc'[r] = "fresh"
    BY <1>1, <1>8 DEF Input, Save, Goto, At
  <2>2. n.turn = k.turn /\ n.status = k.status /\ n.history = k.history /\ n.answered = k.answered
    BY <1>1 DEF Checkpoint
  <2> HIDE DEF n
  <2>3. ckpt'[c] = n
    BY <1>1, <2>1
  <2>4. (ThreadOK(c))' /\ (FlightOK(c))'
    BY <1>1, <1>7, <2>2, <2>3
  <2>5. HealsOK(r)'
    BY <1>1, <1>4, <1>5, <2>1, <2>2, <2>3 DEF HealsOK, At, Ended, Current
  <2>6. RunsOK(r)'
    BY <1>1, <1>2, <1>3, <2>1 DEF RunsOK, At
  <2> QED
    BY <1>6, <2>1, <2>4, <2>5, <2>6
<1>9. CASE Fresh(r)
  <2> DEFINE n == [turn |-> r, status |-> "pending", answered |-> FALSE,
                   history |-> hist[r], tasks |-> TRUE]
  <2>1. ckpt' = [ckpt EXCEPT ![c] = n] /\ pc[r] = "fresh" /\ pc'[r] = "work"
    BY <1>1, <1>9 DEF Fresh, Save, Goto, At
  <2>2. n.turn = r /\ n.status = "pending" /\ n.history = hist[r]
    OBVIOUS
  <2> HIDE DEF n
  <2>3. ckpt'[c] = n
    BY <1>1, <2>1
  <2>4. /\ txn[c] = Free /\ audit[r] = "pending" /\ Unbroken(hist[r], CompletedOf(c), row)
        /\ Len(hist[r]) <= MaxHistory /\ \A u \in RowsOf(c) : row[u] <= row[r]
    BY <1>1, <2>1 DEF HealsOK, RunsOK, Gapless
  <2>5. Len(hist[r]) <= MaxHistory + 1
    BY <1>1, <2>4, LenProperties, BoundsAssumption
  <2>6. (Permitted(c))' = hist[r]
    BY <1>1, <2>2, <2>3, <2>4 DEF Permitted, CurrentCompleted, Current
  <2>7. (Gapless(Permitted(c), c))'
    BY <1>1, <1>3, <2>4, <2>6 DEF Gapless
  <2>8. (ThreadOK(c))'
    BY <1>1, <1>3, <2>2, <2>3, <2>4, <2>5, <2>7, NamesAssumption
       DEF ThreadOK, CurrentCompleted, Current, CompletedOf
  <2>9. (FlightOK(c))'
    BY <1>1, <2>4 DEF FlightOK
  <2>10. ~Has(hist[r], r)
    <3>1. r \notin CompletedOf(c)
      BY <2>4 DEF CompletedOf
    <3> QED
      BY <2>4, <3>1 DEF Unbroken, Has
  <2>11. HealsOK(r)'
    BY <2>1 DEF HealsOK, At
  <2>12. RunsOK(r)'
    BY <1>1, <1>2, <2>1, <2>2, <2>3, <2>4, <2>10 DEF RunsOK, At
  <2> QED
    BY <1>6, <2>1, <2>8, <2>9, <2>11, <2>12
<1>10. CASE Work(r)
  <2> DEFINE n == [k EXCEPT !.answered = TRUE]
  <2>1. ckpt' = [ckpt EXCEPT ![c] = n] /\ pc[r] = "work" /\ pc'[r] = "persist"
    BY <1>1, <1>10 DEF Work, Save, Goto, At
  <2>2. n.turn = k.turn /\ n.status = k.status /\ n.history = k.history /\ n.answered
    BY <1>1 DEF Checkpoint
  <2> HIDE DEF n
  <2>3. ckpt'[c] = n
    BY <1>1, <2>1
  <2>4. (ThreadOK(c))' /\ (FlightOK(c))'
    BY <1>1, <1>7, <2>2, <2>3
  <2>5. HealsOK(r)'
    BY <2>1 DEF HealsOK, At
  <2>6. RunsOK(r)'
    BY <1>1, <1>2, <2>1, <2>2, <2>3 DEF RunsOK, At
  <2> QED
    BY <1>6, <2>1, <2>4, <2>5, <2>6
<1>11. CASE SaveWrites(r)
  <2> DEFINE a == Append(k.history, r)
             h == LastOf(a, MaxHistory)
             n == [k EXCEPT !.status = "completed", !.history = h]
  <2>1. ckpt' = [ckpt EXCEPT ![c] = n] /\ pc[r] = "saveWrites" /\ pc'[r] = "saveFinal"
    BY <1>1, <1>11 DEF SaveWrites, Save, Goto, At
  <2>2. n.turn = k.turn /\ n.status = "completed" /\ n.history = h /\ n.answered = k.answered
    BY <1>1 DEF Checkpoint
  <2>3. k.turn = r /\ audit[r] = "completed" /\ k.answered /\ ~Has(k.history, r)
    BY <1>1, <2>1 DEF RequestOK, RunsOK, Running, Current
  <2>4. Permitted(c) = a
    BY <2>3 DEF Permitted, CurrentCompleted, Current
  <2>5. a \in Seq(Turns) /\ MaxHistory \in Nat \ {0}
    BY <1>1, AppendProperties, BoundsAssumption
  <2>6. EndsWith(a, r)
    <3>1. r # NoTurn
      BY NamesAssumption
    <3>2. EndsWith(Permitted(c), Current(c))
      BY <1>1, <2>3, <3>1, PermittedEnds DEF Current, CurrentCompleted
    <3> QED
      BY <2>3, <2>4, <3>2 DEF Current
  <2>7. Unbroken(a, CompletedOf(c), row)
    BY <1>1, <1>3, <2>3, <2>4, NamesAssumption DEF ThreadOK, Current
  <2>8. CompletedOf(c) \in SUBSET Turns /\ row \in [Turns -> Nat]
    BY <1>1 DEF CompletedOf, RowsOf, StoreInv, Typed, TypeOK
  <2> HIDE DEF a
  <2>9. /\ Unbroken(h, CompletedOf(c), row) /\ h \in Seq(Turns) /\ Len(h) <= MaxHistory
        /\ EndsWith(h, r)
    BY <2>5, <2>6, <2>7, <2>8, UnbrokenTail, TailEnds
  <2> HIDE DEF h, n
  <2>10. ckpt'[c] = n
    BY <1>1, <2>1
  <2>11. Has(h, r)
    BY <2>9, EndHas
  <2>12. Len(h) <= MaxHistory + 1
    BY <2>5, <2>9, LenProperties
  <2>13. (Permitted(c))' = h
    BY <1>1, <2>2, <2>3, <2>10, <2>11 DEF Permitted, Current
  <2>14. (Gapless(Permitted(c), c))'
    BY <1>1, <1>3, <2>9, <2>13 DEF Gapless
  <2>15. Current(c) = r /\ (Current(c))' = r /\ ThreadOK(c)
    BY <1>1, <2>2, <2>3, <2>10 DEF Current
  <2>16. (ThreadOK(c))'
    BY <1>1, <1>3, <2>2, <2>3, <2>9, <2>10, <2>11, <2>12, <2>14, <2>15, NamesAssumption
       DEF ThreadOK, CurrentCompleted
  <2>17. (FlightOK(c))'
    BY <1>1, <2>2, <2>10 DEF FlightOK, Current
  <2>18. HealsOK(r)'
    BY <2>1 DEF HealsOK, At
  <2>19. RunsOK(r)'
    BY <1>1, <1>2, <2>1, <2>2, <2>3, <2>10 DEF RunsOK, At
  <2> QED
    BY <1>6, <2>1, <2>16, <2>17, <2>18, <2>19
<1>12. CASE SaveFinal(r)
  <2> DEFINE n == [k EXCEPT !.tasks = FALSE]
  <2>1. ckpt' = [ckpt EXCEPT ![c] = n] /\ pc[r] = "saveFinal" /\ pc'[r] = "ended"
    BY <1>1, <1>12 DEF SaveFinal, Save, Goto, At
  <2>2. n.turn = k.turn /\ n.status = k.status /\ n.history = k.history /\ n.answered = k.answered
    BY <1>1 DEF Checkpoint
  <2> HIDE DEF n
  <2>3. ckpt'[c] = n
    BY <1>1, <2>1
  <2>4. (ThreadOK(c))' /\ (FlightOK(c))'
    BY <1>1, <1>7, <2>2, <2>3
  <2>5. HealsOK(r)'
    BY <2>1 DEF HealsOK, At
  <2>6. RunsOK(r)'
    BY <1>1, <1>2, <2>1 DEF RunsOK, At
  <2> QED
    BY <1>6, <2>1, <2>4, <2>5, <2>6
<1>13. CASE Update(r)
  <2>1. /\ pc[r] = "update" /\ t \in Turns /\ Unbroken(hist[r], CompletedOf(c), row)
        /\ t # NoTurn /\ Ended(t)
    BY <1>1, <1>13, NamesAssumption DEF Update, At, HealsOK, Gapless, StoreInv, Typed, Current
  <2>2. txn[c] # Free => txn[c].to # "completed"
    BY <1>1, <2>1 DEF FlightOK, Ended, Terminal
  <2>3. CASE branch[r] = "reset" /\ ckpt' = [ckpt EXCEPT ![c] = Reset(c)] /\ Goto(r, "window")
    <3>1. ~CurrentCompleted(c) /\ pc'[r] = "window" /\ ckpt'[c] = Reset(c)
      BY <1>1, <2>1, <2>3 DEF HealsOK, At, Goto
    <3>2. /\ Reset(c).turn = k.turn /\ Reset(c).status = "cancelled"
          /\ Reset(c).history = k.history
      BY DEF Reset, Current
    <3>3. (ThreadOK(c))' /\ (FlightOK(c))'
      BY <1>1, <1>7, <2>2, <3>1, <3>2
    <3>4. HealsOK(r)'
      BY <1>1, <1>4, <1>5, <2>1, <3>1, <3>2 DEF HealsOK, At, Ended, Current, Gapless
    <3>5. RunsOK(r)'
      BY <1>1, <1>2, <3>1 DEF RunsOK, At
    <3> QED
      BY <1>6, <2>3, <3>3, <3>4, <3>5
  <2>4. CASE branch[r] = "repair" /\ ckpt' = [ckpt EXCEPT ![c] = Repaired(c)] /\ Goto(r, "settle")
    <3> DEFINE h == Permitted(c)
    <3>1. CurrentCompleted(c) /\ pc'[r] = "settle" /\ ckpt'[c] = Repaired(c)
      BY <1>1, <2>1, <2>4 DEF RequestOK, At, Goto
    <3>2. /\ Repaired(c).turn = t /\ Repaired(c).status = "completed"
          /\ Repaired(c).answered /\ Repaired(c).history = h
      BY DEF Repaired
    <3>3. h \in Seq(Turns) /\ EndsWith(h, t) /\ Gapless(h, c)
      BY <1>1, <2>1, <3>1, PermittedEnds, PermittedType DEF ThreadOK, StoreInv, Typed
    <3>4. Has(h, t)
      BY <3>3, EndHas
    <3>5. Len(h) <= MaxHistory + 1
      <4>1. CASE ~Has(k.history, t)
        <5>1. Len(h) = Len(k.history) + 1 /\ Len(k.history) <= MaxHistory
          BY <1>1, <2>1, <3>1, <4>1, AppendProperties DEF Permitted, ThreadOK
        <5>2. Len(k.history) \in Nat
          BY <1>1, LenProperties
        <5> QED
          BY <5>1, <5>2, BoundsAssumption
      <4>2. CASE Has(k.history, t)
        BY <1>1, <4>2 DEF Permitted, ThreadOK
      <4> QED
        BY <4>1, <4>2
    <3> HIDE DEF h
    <3>6. (Current(c))' = t /\ (Permitted(c))' = h /\ (CurrentCompleted(c))'
      BY <1>1, <3>1, <3>2, <3>4 DEF Permitted, Current, CurrentCompleted
    <3>7. (Gapless(Permitted(c), c))'
      BY <1>1, <1>3, <3>3, <3>6 DEF Gapless
    <3>8. (ThreadOK(c))'
      BY <1>1, <1>3, <2>1, <3>1, <3>2, <3>3, <3>4, <3>5, <3>6, <3>7 DEF ThreadOK
    <3>9. (FlightOK(c))'
      BY <1>1, <2>2, <3>1, <3>2 DEF FlightOK, Current
    <3>10. HealsOK(r)'
      BY <1>1, <1>4, <1>5, <2>1, <2>4, <3>1, <3>2 DEF HealsOK, At, Ended, Current,
         CurrentCompleted, Gapless
    <3>11. RunsOK(r)'
      BY <1>1, <1>2, <3>1 DEF RunsOK, At
    <3> QED
      BY <1>6, <2>4, <3>8, <3>9, <3>10, <3>11
  <2> QED
    BY <1>13, <2>3, <2>4 DEF Update
<1> QED
  BY <1>8, <1>9, <1>10, <1>11, <1>12, <1>13

\* A step that is nobody's own and commits nothing.
LEMMA TailOuter ==
  ASSUME StoreInv, TailInv, UNCHANGED <<audit, row, ckpt>>,
         \A t \in Turns : conv'[t] = conv[t] \/ audit[t] = "none",
         \A c \in Conversations :
           \/ txn'[c] = Free
           \/ txn[c] # Free /\ txn'[c].turn = txn[c].turn /\ txn'[c].to = txn[c].to,
         \A s \in Turns :
           \/ /\ pc'[s] = pc[s] /\ conv'[s] = conv[s] /\ hist'[s] = hist[s]
              /\ todo'[s] = todo[s] /\ branch'[s] = branch[s] /\ cause'[s] = cause[s]
              /\ At(s, "create") => \A u \in Turns \ {s} : conv'[u] # conv[s]
           \/ /\ pc'[s] \in {"over", "dead", "recover", "create"} /\ cause'[s] # "conflict"
              /\ pc'[s] = "create" =>
                   hist'[s] = <<>> /\ \A u \in Turns \ {s} : conv'[u] # conv'[s]
  PROVE  TailInv'
<1>1. ASSUME NEW c
      PROVE  /\ RowsOf(c)' = RowsOf(c) /\ CompletedOf(c)' = CompletedOf(c)
             /\ Listings(c)' = Listings(c) /\ Current(c)' = Current(c)
             /\ CurrentCompleted(c)' = CurrentCompleted(c)
             /\ Permitted(c)' = Permitted(c)
  <2>1. RowsOf(c)' = RowsOf(c)
    BY DEF RowsOf
  <2>2. CompletedOf(c)' = CompletedOf(c)
    BY <2>1 DEF CompletedOf
  <2>3. Listings(c)' = Listings(c)
    BY <2>2 DEF Listings
  <2>4. Current(c)' = Current(c) /\ CurrentCompleted(c)' = CurrentCompleted(c)
    BY DEF Current, CurrentCompleted
  <2>5. Permitted(c)' = Permitted(c)
    BY <2>4 DEF Permitted
  <2> QED
    BY <2>1, <2>2, <2>3, <2>4, <2>5
<1>2. ASSUME NEW h, NEW c
      PROVE  Gapless(h, c)' = Gapless(h, c)
  BY <1>1 DEF Gapless
<1>3. ASSUME NEW c \in Conversations
      PROVE  (RowsOK(c) /\ ThreadOK(c) /\ FlightOK(c) /\ Listings(c) # {})'
  <2>1. RowsOK(c) /\ ThreadOK(c) /\ FlightOK(c) /\ Listings(c) # {}
    BY DEF TailInv
  <2>2. RowsOK(c)' /\ Listings(c)' # {}
    BY <1>1, <2>1 DEF RowsOK
  <2>3. Gapless(Permitted(c), c) => Gapless(Permitted(c), c)'
    BY <1>1 DEF Gapless
  <2>4. ThreadOK(c)'
    BY <1>1, <2>1, <2>3 DEF ThreadOK
  <2>5. FlightOK(c)'
    BY <1>1, <2>1 DEF FlightOK
  <2> QED
    BY <2>2, <2>4, <2>5
<1>4. ASSUME NEW s \in Turns
      PROVE  HealsOK(s)' /\ RunsOK(s)'
  <2>1. HealsOK(s) /\ RunsOK(s)
    BY DEF TailInv
  <2>2. CASE /\ pc'[s] = pc[s] /\ conv'[s] = conv[s] /\ hist'[s] = hist[s]
             /\ todo'[s] = todo[s] /\ branch'[s] = branch[s] /\ cause'[s] = cause[s]
             /\ At(s, "create") => \A u \in Turns \ {s} : conv'[u] # conv[s]
    <3>1. /\ Current(conv[s])' = Current(conv[s])
          /\ CurrentCompleted(conv[s])' = CurrentCompleted(conv[s])
          /\ RowsOf(conv[s])' = RowsOf(conv[s]) /\ CompletedOf(conv[s])' = CompletedOf(conv[s])
      BY <1>1, <2>2
    <3>2. Gapless(hist[s], conv[s])' = Gapless(hist[s], conv[s])
      BY <2>2, <3>1 DEF Gapless
    <3>3. HealsOK(s)'
      BY <2>1, <2>2, <3>1, <3>2 DEF HealsOK, At, Ended
    <3>4. pc[s] \in Live => conv[s] \in Conversations
      BY DEF StoreInv, Typed
    <3>5. RunsOK(s)'
      BY <2>1, <2>2, <3>1, <3>4 DEF RunsOK, At, Live, Working
    <3> QED
      BY <3>3, <3>5
  <2>3. CASE /\ pc'[s] \in {"over", "dead", "recover", "create"} /\ cause'[s] # "conflict"
             /\ pc'[s] = "create" =>
                  hist'[s] = <<>> /\ \A u \in Turns \ {s} : conv'[u] # conv'[s]
    BY <2>3 DEF HealsOK, RunsOK, At
  <2> QED
    BY <2>2, <2>3
<1> QED
  BY <1>3, <1>4 DEF TailInv

\* A request arrives.
LEMMA TailArrives ==
  ASSUME IInv, TailInv, NEW r \in Turns, NEW c \in Conversations,
         PrepareNew(r, c) \/ PrepareExisting(r, c) \/ Refuse(r, c)
  PROVE  TailInv'
<1>1. /\ pc[r] = "idle" /\ UNCHANGED <<audit, row, ckpt, txn, hist, todo, branch, cause>>
      /\ StoreInv /\ pc \in [Turns -> PCs] /\ conv \in [Turns -> Conversations \union {NoConversation}]
      /\ RunsOK(r)
  BY DEF PrepareNew, PrepareExisting, Refuse, At, mysql, reconciling, IInv, StoreInv,
     Typed, TypeOK, TailInv
<1>2. audit[r] = "none" /\ hist[r] = <<>> /\ cause[r] # "conflict"
  BY <1>1 DEF StoreInv, EarlyUntouched, IdleKnowsNothing, Early, RunsOK, Finishing
<1>3. \A s \in Turns : At(s, "create") =>
        /\ conv[s] \in active /\ s # r
        /\ \A u \in Turns \ {s} : conv[u] # conv[s]
  BY <1>1 DEF TailInv, HealsOK, At, StoreInv, SeatAccounting, Live, Working
<1>4. \A s \in Turns \ {r} : pc'[s] = pc[s] /\ conv'[s] = conv[s]
  BY <1>1 DEF PrepareNew, PrepareExisting, Refuse, Admit, Goto
<1>5. CASE PrepareNew(r, c)
  <2>1. pc'[r] = "create" /\ conv'[r] = c /\ c \notin active /\ \A u \in Turns : conv[u] # c
    BY <1>1, <1>5 DEF PrepareNew, Admit, Goto
  <2> QED
    BY <1>1, <1>2, <1>3, <1>4, <2>1, TailOuter
<1>6. CASE PrepareExisting(r, c)
  <2>1. pc'[r] = "recover" /\ conv'[r] = c /\ c \notin active
    BY <1>1, <1>6 DEF PrepareExisting, Admit, Goto
  <2> QED
    BY <1>1, <1>2, <1>3, <1>4, <2>1, TailOuter
<1>7. CASE Refuse(r, c)
  <2>1. pc'[r] = "over" /\ conv' = conv
    BY <1>1, <1>7 DEF Refuse, Goto
  <2> QED
    BY <1>1, <1>2, <1>3, <1>4, <2>1, TailOuter
<1> QED
  BY <1>5, <1>6, <1>7

\* A request or the process goes, a transaction is given up or left alone.
LEMMA TailGoes ==
  ASSUME IInv, TailInv,
         \/ \E r \in Turns : Release(r)
         \/ \E c \in Conversations : Rollback(c) \/ Disown(c)
         \/ Crash
         \/ UNCHANGED vars
  PROVE  TailInv'
<1>1. /\ StoreInv /\ UNCHANGED <<audit, row, ckpt, conv>>
      /\ txn \in [Conversations -> Transaction] /\ pc \in [Turns -> PCs]
      /\ Server \notin Turns /\ Server # NoTurn /\ NoTurn \notin Turns
  BY NamesAssumption DEF Release, Rollback, Disown, Crash, vars, mysql, IInv, StoreInv, Typed, TypeOK
<1>2. \A s \in Turns : At(s, "create") => \A u \in Turns \ {s} : conv'[u] # conv[s]
  BY <1>1 DEF TailInv, HealsOK
<1>3. \A s \in Turns : pc[s] \notin Live => cause[s] # "conflict"
  BY DEF TailInv, RunsOK, Live
<1> DEFINE Same(s) == /\ pc'[s] = pc[s] /\ hist'[s] = hist[s] /\ todo'[s] = todo[s]
                      /\ branch'[s] = branch[s] /\ cause'[s] = cause[s]
           Gone(s) == pc'[s] \in {"over", "dead"} /\ cause'[s] # "conflict"
<1>4. \A c : txn[c].by \in Turns => txn[c] # Free
  BY <1>1 DEF Free
<1>5. ASSUME \A s \in Turns : Same(s) \/ Gone(s),
             \A c \in Conversations :
               \/ txn'[c] = Free
               \/ txn[c] # Free /\ txn'[c].turn = txn[c].turn /\ txn'[c].to = txn[c].to
      PROVE  TailInv'
  BY <1>1, <1>2, <1>5, TailOuter
<1>6. ASSUME NEW r \in Turns, Release(r)
      PROVE  TailInv'
  <2>1. \A s \in Turns : Same(s) \/ Gone(s)
    BY <1>1, <1>6 DEF Release, Forget, Goto
  <2> QED
    BY <1>5, <1>6, <2>1 DEF Release, mysql
<1>7. ASSUME NEW c \in Conversations, Rollback(c)
      PROVE  TailInv'
  <2>1. \A s \in Turns : Same(s)
    BY <1>7 DEF Rollback, reconciling
  <2>2. txn' = [txn EXCEPT ![c] = Free]
    BY <1>7 DEF Rollback
  <2> QED
    BY <1>1, <1>5, <2>1, <2>2
<1>8. ASSUME NEW c \in Conversations, Disown(c)
      PROVE  TailInv'
  <2>1. \A s \in Turns : Same(s)
    BY <1>8 DEF Disown, reconciling
  <2>2. txn[c].by \in Turns /\ txn' = [txn EXCEPT ![c].by = Server]
    BY <1>8 DEF Disown
  <2>3. txn'[c].turn = txn[c].turn /\ txn'[c].to = txn[c].to
    BY <1>1, <2>2 DEF Transaction
  <2> QED
    BY <1>1, <1>4, <1>5, <2>1, <2>2, <2>3
<1>9. CASE Crash
  <2>1. \A s \in Turns : Same(s) \/ Gone(s)
    BY <1>1, <1>9 DEF Crash, Forget
  <2> QED
    BY <1>1, <1>4, <1>5, <1>9, <2>1 DEF Crash, Transaction
<1>10. CASE UNCHANGED vars
  BY <1>5, <1>10 DEF vars, mysql, reconciling
<1> QED
  BY <1>6, <1>7, <1>8, <1>9, <1>10

\* Histories and listings only depend on the rows of the completed turns.
LEMMA ListsKept ==
  ASSUME NEW d, CompletedOf(d)' = CompletedOf(d),
         \A u \in CompletedOf(d) : row'[u] = row[u]
  PROVE  /\ \A h : Gapless(h, d) => Gapless(h, d)'
         /\ \A e : e \in Listings(d) => e \in Listings(d)'
<1>1. ASSUME NEW h, Gapless(h, d)
      PROVE  Gapless(h, d)'
  BY <1>1, UnbrokenSame DEF Gapless
<1>2. ASSUME NEW e \in Listings(d)
      PROVE  e \in Listings(d)'
  <2> DEFINE S == CompletedOf(d)
             n == Cardinality(S)
  <2>1. e \in [1..n -> S] /\ \A i, j \in 1..n : i < j => row[e[i]] < row[e[j]]
    BY DEF Listings
  <2>2. \A i \in 1..n : row'[e[i]] = row[e[i]]
    BY <2>1
  <2>3. \A i, j \in 1..n : i < j => row'[e[i]] < row'[e[j]]
    BY <2>1, <2>2
  <2> QED
    BY <2>1, <2>3 DEF Listings
<1> QED
  BY <1>1, <1>2

\* A COMMIT that completes the newest turn adds it to the listing.
LEMMA ListingGrows ==
  ASSUME NEW c, NEW t \in Turns, UNCHANGED row, row \in [Turns -> Nat],
         CompletedOf(c) \subseteq Turns, CompletedOf(c)' = CompletedOf(c) \union {t},
         t \notin CompletedOf(c), \A u \in CompletedOf(c) : row[u] < row[t],
         NEW e \in Listings(c)
  PROVE  Append(e, t) \in Listings(c)'
<1> DEFINE S == CompletedOf(c)
           n == Cardinality(S)
           a == Append(e, t)
<1>1. IsFiniteSet(S) /\ n \in Nat
  BY TurnsAssumption, FS_Subset, FS_CardinalityType
<1>2. Cardinality(S \union {t}) = n + 1
  BY <1>1, FS_AddElement
<1>3. e \in [1..n -> S] /\ \A i, j \in 1..n : i < j => row[e[i]] < row[e[j]]
  BY DEF Listings
<1>4. e \in Seq(S) /\ Len(e) = n
  BY <1>1, <1>3
<1>5. e \in Seq(S \union {t})
  BY <1>1, <1>3
<1>6. /\ a \in Seq(S \union {t}) /\ Len(a) = n + 1 /\ a[n + 1] = t
      /\ \A i \in 1..n : a[i] = e[i]
  BY <1>4, <1>5, AppendProperties
<1> HIDE DEF a, n, S
<1>7. a \in [1..(n + 1) -> S \union {t}]
  BY <1>6, LenProperties
<1>8. ASSUME NEW i \in 1..(n + 1), NEW j \in 1..(n + 1), i < j
      PROVE  row[a[i]] < row[a[j]]
  <2>1. i \in 1..n
    BY <1>1, <1>8
  <2>2. CASE j = n + 1
    BY <1>3, <1>6, <2>1, <2>2 DEF S
  <2>3. CASE j \in 1..n
    BY <1>3, <1>6, <1>8, <2>1, <2>3
  <2> QED
    BY <1>1, <2>2, <2>3
<1>9. CompletedOf(c)' = S \union {t} /\ Cardinality(CompletedOf(c)') = n + 1
  BY <1>2 DEF S, n
<1>10. a \in [1..Cardinality(CompletedOf(c)') -> CompletedOf(c)']
  BY <1>7, <1>9
<1>11. DOMAIN a = 1..(n + 1)
  BY <1>7
<1> QED
  BY <1>8, <1>10, <1>11 DEF Listings, a

\* A COMMIT that does not change what is completed keeps the thread.
LEMMA ThreadKept ==
  ASSUME NEW d, ThreadOK(d), UNCHANGED ckpt, CompletedOf(d)' = CompletedOf(d),
         \A u \in CompletedOf(d) : row'[u] = row[u],
         Current(d) # NoTurn =>
           /\ row'[Current(d)] = row[Current(d)]
           /\ audit'[Current(d)] # "none"
           /\ audit'[Current(d)] = "completed" <=> audit[Current(d)] = "completed"
  PROVE  ThreadOK(d)'
<1>1. Current(d)' = Current(d)
  BY DEF Current
<1>2. Current(d) # NoTurn => CurrentCompleted(d)' = CurrentCompleted(d)
  BY <1>1 DEF CurrentCompleted
<1>3. Current(d) # NoTurn => Permitted(d)' = Permitted(d)
  BY <1>1, <1>2 DEF Permitted
<1>4. Current(d) # NoTurn => Gapless(Permitted(d), d)'
  <2>1. \A h : Gapless(h, d) => Gapless(h, d)'
    BY ListsKept
  <2> QED
    BY <1>3, <2>1 DEF ThreadOK, Gapless
<1> QED
  BY <1>1, <1>2, <1>4 DEF ThreadOK

\* ... and what recovery has planned.
LEMMA HealsKept ==
  ASSUME NEW s, HealsOK(s), UNCHANGED <<ckpt, conv, pc, hist, todo, branch>>,
         CompletedOf(conv[s])' = CompletedOf(conv[s]),
         \A u \in CompletedOf(conv[s]) : row'[u] = row[u],
         Current(conv[s]) # NoTurn =>
           /\ audit[Current(conv[s])] \in Terminal =>
                audit'[Current(conv[s])] = audit[Current(conv[s])]
           /\ audit'[Current(conv[s])] = "completed" <=> audit[Current(conv[s])] = "completed",
         pc[s] \in {"settle", "settling"} => NoTurn \notin todo[s]
  PROVE  HealsOK(s)'
<1> DEFINE d == conv[s]
           t == Current(d)
<1>1. (Current(conv[s]))' = t
  BY DEF Current
<1>2. Gapless(hist[s], d) => Gapless(hist[s], conv[s])'
  BY UnbrokenSame DEF Gapless
<1>3. t # NoTurn => CurrentCompleted(conv[s])' = CurrentCompleted(d)
  BY <1>1 DEF CurrentCompleted
<1>4. pc[s] \in {"settle", "settling"} =>
        \/ t = NoTurn \/ t \in todo[s]
        \/ audit'[t] \in Terminal \ {"completed"}
        \/ audit'[t] = "completed" /\ branch[s] # "reset"
  BY DEF HealsOK, Terminal
<1>5. pc[s] \in {"settle", "settling"} =>
        Gapless(hist[s], d) \/ (t \in todo[s] /\ CurrentCompleted(conv[s])')
  BY <1>3 DEF HealsOK
<1> QED
  BY <1>1, <1>2, <1>3, <1>4, <1>5 DEF HealsOK, At, Ended

\* The effect of a COMMIT on rows and completed turns.
LEMMA CommitFacts ==
  ASSUME IInv, TailInv, NEW c \in Conversations, Commit(c)
  PROVE  LET t == txn[c].turn
             to == txn[c].to IN
         /\ t \in Turns /\ conv[t] = c /\ txn[c] # Free
         /\ to \in AuditStatus \ {"none"}
         /\ audit[t] = IF to = "pending" THEN "none" ELSE "pending"
         /\ audit' = [audit EXCEPT ![t] = to]
         /\ audit'[t] = to /\ \A u \in Turns \ {t} : audit'[u] = audit[u]
         /\ \A u \in Turns \ {t} : row'[u] = row[u]
         /\ to = "pending" => row'[t] = Cardinality(RowsOf(c)) + 1
         /\ to # "pending" => row' = row
         /\ txn'[c] = Free /\ \A d \in Conversations \ {c} : txn'[d] = txn[d]
         /\ UNCHANGED <<ckpt, conv, pc, cause, hist, todo, branch>>
         /\ to = "completed" => t = Current(c) /\ ckpt[c].answered
         /\ \A d : d # c => RowsOf(d)' = RowsOf(d) /\ CompletedOf(d)' = CompletedOf(d)
         /\ t \in RowsOf(c)'
         /\ RowsOf(c)' = RowsOf(c) \union {t}
         /\ CompletedOf(c)' = CompletedOf(c) \union (IF to = "completed" THEN {t} ELSE {})
         /\ t \notin CompletedOf(c)
         /\ to = "pending" => t \notin RowsOf(c)
         /\ to # "pending" => t \in RowsOf(c)
<1> DEFINE t == txn[c].turn
           to == txn[c].to
<1>1. /\ txn[c] # Free /\ t \in Turns /\ conv[t] = c
      /\ txn \in [Conversations -> Transaction] /\ audit \in [Turns -> AuditStatus]
      /\ row \in [Turns -> Nat]
  BY DEF Commit, IInv, StoreInv, FlightIsOpen, Typed, TypeOK
<1>2. /\ to \in AuditStatus \ {"none"}
      /\ audit[t] = IF to = "pending" THEN "none" ELSE "pending"
      /\ to = "completed" => t = Current(c) /\ ckpt[c].answered
  BY <1>1 DEF TailInv, FlightOK, Transaction
<1>3. /\ audit' = [audit EXCEPT ![t] = to]
      /\ row' = IF audit[t] = "none"
                THEN [row EXCEPT ![t] = Cardinality(RowsOf(c)) + 1] ELSE row
      /\ txn' = [txn EXCEPT ![c] = Free]
      /\ UNCHANGED <<ckpt, conv, pc, cause, hist, todo, branch>>
  BY DEF Commit, reconciling
<1>4. /\ audit'[t] = to /\ \A u \in Turns \ {t} : audit'[u] = audit[u]
      /\ \A u \in Turns \ {t} : row'[u] = row[u]
      /\ to = "pending" => row'[t] = Cardinality(RowsOf(c)) + 1
      /\ to # "pending" => row' = row
      /\ txn'[c] = Free /\ \A d \in Conversations \ {c} : txn'[d] = txn[d]
  BY <1>1, <1>2, <1>3
<1> HIDE DEF t, to
<1>5. ASSUME NEW d, d # c
      PROVE  RowsOf(d)' = RowsOf(d) /\ CompletedOf(d)' = CompletedOf(d)
  BY <1>1, <1>3, <1>4, <1>5 DEF RowsOf, CompletedOf
<1>6. RowsOf(c)' = RowsOf(c) \union {t} /\ t \in RowsOf(c)'
  BY <1>1, <1>2, <1>3, <1>4 DEF RowsOf
<1>7. /\ CompletedOf(c)' = CompletedOf(c) \union (IF to = "completed" THEN {t} ELSE {})
      /\ t \notin CompletedOf(c)
      /\ to = "pending" => t \notin RowsOf(c)
      /\ to # "pending" => t \in RowsOf(c)
  <2>1. CASE to = "completed"
    BY <1>1, <1>2, <1>3, <1>4, <2>1 DEF RowsOf, CompletedOf
  <2>2. CASE to # "completed"
    BY <1>1, <1>2, <1>3, <1>4, <2>2 DEF RowsOf, CompletedOf
  <2> QED
    BY <2>1, <2>2
<1> QED
  BY <1>1, <1>2, <1>3, <1>4, <1>5, <1>6, <1>7 DEF t, to

\* COMMIT.
LEMMA TailCommit ==
  ASSUME IInv, TailInv, [Next]_vars, NEW c \in Conversations, Commit(c)
  PROVE  TailInv'
<1> DEFINE t == txn[c].turn
           to == txn[c].to
           N == Cardinality(RowsOf(c))
<1>1. /\ t \in Turns /\ conv[t] = c /\ txn[c] # Free
      /\ to \in AuditStatus \ {"none"}
      /\ audit[t] = IF to = "pending" THEN "none" ELSE "pending"
      /\ audit'[t] = to /\ \A u \in Turns \ {t} : audit'[u] = audit[u]
      /\ \A u \in Turns \ {t} : row'[u] = row[u]
      /\ to = "pending" => row'[t] = N + 1
      /\ to # "pending" => row' = row
      /\ txn'[c] = Free /\ \A d \in Conversations \ {c} : txn'[d] = txn[d]
      /\ UNCHANGED <<ckpt, conv, pc, cause, hist, todo, branch>>
      /\ to = "completed" => t = Current(c) /\ ckpt[c].answered
      /\ \A d : d # c => RowsOf(d)' = RowsOf(d) /\ CompletedOf(d)' = CompletedOf(d)
      /\ RowsOf(c)' = RowsOf(c) \union {t}
      /\ CompletedOf(c)' = CompletedOf(c) \union (IF to = "completed" THEN {t} ELSE {})
      /\ t \notin CompletedOf(c)
      /\ to = "pending" => t \notin RowsOf(c)
      /\ to # "pending" => t \in RowsOf(c)
  BY CommitFacts
<1>2. /\ StoreInv /\ N \in Nat /\ IsFiniteSet(RowsOf(c)) /\ row \in [Turns -> Nat]
      /\ \A d \in Conversations :
           /\ RowsOK(d) /\ ThreadOK(d) /\ FlightOK(d) /\ Listings(d) # {} /\ CheckpointOK(d)
           /\ ckpt[d].history \in Seq(Turns)
           /\ Current(d) # NoTurn => Current(d) \in Turns /\ conv[Current(d)] = d
           /\ txn[d] # Free => txn[d].turn \in Turns /\ conv[txn[d].turn] = d
      /\ \A s \in Turns : HealsOK(s) /\ RunsOK(s)
      /\ \A d : RowsOf(d) \subseteq Turns /\ CompletedOf(d) \subseteq RowsOf(d)
  <2>1. RowsOf(c) \subseteq Turns
    BY DEF RowsOf
  <2>2. IsFiniteSet(RowsOf(c)) /\ N \in Nat
    BY <2>1, TurnsAssumption, FS_Subset, FS_CardinalityType
  <2>3. \A d : RowsOf(d) \subseteq Turns /\ CompletedOf(d) \subseteq RowsOf(d)
    BY DEF RowsOf, CompletedOf
  <2> QED
    BY <2>2, <2>3 DEF TailInv, IInv, GraphInv, StoreInv, Typed, TypeOK, Checkpoint, CheckpointOK,
       Current, FlightIsOpen
<1> HIDE DEF t, to, N
<1>3. RowsOK(c)'
  <2>1. CASE to = "pending"
    <3>1. Cardinality(RowsOf(c) \union {t}) = N + 1
      BY <1>1, <1>2, <2>1, FS_AddElement DEF N
    <3>2. \A u \in RowsOf(c) : u # t /\ row'[u] = row[u] /\ row[u] \in 1..N
      BY <1>1, <1>2, <2>1 DEF RowsOK, N
    <3>3. \A u, v \in RowsOf(c) : row[u] = row[v] => u = v
      BY <1>2 DEF RowsOK
    <3>4. \A u \in RowsOf(c)' : row'[u] \in 1..(N + 1)
      BY <1>1, <1>2, <2>1, <3>2
    <3>5. \A u, v \in RowsOf(c)' : row'[u] = row'[v] => u = v
      BY <1>1, <1>2, <2>1, <3>2, <3>3
    <3>6. Cardinality(RowsOf(c)') = N + 1
      BY <1>1, <3>1
    <3> QED
      BY <3>4, <3>5, <3>6 DEF RowsOK
  <2>2. CASE to # "pending"
    <3>1. RowsOf(c)' = RowsOf(c) /\ row' = row
      BY <1>1, <2>2
    <3>2. RowsOK(c)
      BY <1>2
    <3> QED
      BY <3>1, <3>2 DEF RowsOK
  <2> QED
    BY <2>1, <2>2
<1>4. ASSUME NEW d \in Conversations, d # c
      PROVE  (RowsOK(d) /\ ThreadOK(d) /\ FlightOK(d) /\ Listings(d) # {})'
  <2>1. /\ RowsOf(d)' = RowsOf(d) /\ CompletedOf(d)' = CompletedOf(d)
        /\ \A u \in RowsOf(d) : u # t /\ row'[u] = row[u]
    BY <1>1, <1>2, <1>4 DEF RowsOf
  <2>2. RowsOK(d)'
    BY <1>2, <2>1 DEF RowsOK
  <2>3. Current(d) # NoTurn => /\ row'[Current(d)] = row[Current(d)]
                               /\ audit'[Current(d)] = audit[Current(d)]
    BY <1>1, <1>2, <1>4
  <2>4. ThreadOK(d)'
    <3>1. \A u \in CompletedOf(d) : row'[u] = row[u]
      BY <1>2, <2>1
    <3>2. ThreadOK(d) /\ (Current(d) # NoTurn => audit[Current(d)] # "none")
      BY <1>2 DEF ThreadOK
    <3> QED
      BY <1>1, <2>1, <2>3, <3>1, <3>2, ThreadKept
  <2>5. FlightOK(d)'
    <3>1. txn'[d] = txn[d] /\ ckpt' = ckpt
      BY <1>1, <1>4
    <3>2. txn[d] # Free => audit'[txn[d].turn] = audit[txn[d].turn]
      <4> SUFFICES ASSUME txn[d] # Free
                   PROVE  audit'[txn[d].turn] = audit[txn[d].turn]
        OBVIOUS
      <4>1. txn[d].turn \in Turns /\ conv[txn[d].turn] = d
        BY <1>2, <1>4
      <4>2. txn[d].turn # t
        BY <1>1, <1>4, <4>1
      <4> QED
        BY <1>1, <4>1, <4>2
    <3>3. FlightOK(d)
      BY <1>2, <1>4
    <3> QED
      BY <3>1, <3>2, <3>3 DEF FlightOK, Current
  <2>6. PICK e : e \in Listings(d)
    BY <1>2
  <2>7. e \in Listings(d)'
    BY <1>2, <2>1, <2>6, ListsKept
  <2> QED
    BY <2>2, <2>4, <2>5, <2>7
<1>5. FlightOK(c)'
  BY <1>1 DEF FlightOK
<1>6. (ThreadOK(c))' /\ (Listings(c) # {})'
  <2>1. CASE to # "completed"
    <3>1. /\ CompletedOf(c)' = CompletedOf(c)
          /\ \A u \in CompletedOf(c) : row'[u] = row[u]
      BY <1>1, <1>2, <2>1
    <3>2. Current(c) # NoTurn =>
            /\ row'[Current(c)] = row[Current(c)]
            /\ audit'[Current(c)] # "none"
            /\ audit'[Current(c)] = "completed" <=> audit[Current(c)] = "completed"
      <4>1. Current(c) # NoTurn => audit[Current(c)] # "none" /\ Current(c) \in Turns
        BY <1>2 DEF ThreadOK
      <4>2. CASE Current(c) = t
        BY <1>1, <2>1, <4>1, <4>2
      <4>3. CASE Current(c) # t
        BY <1>1, <4>1, <4>3
      <4> QED
        BY <4>2, <4>3
    <3>3. ThreadOK(c)'
      BY <1>1, <1>2, <3>1, <3>2, ThreadKept
    <3>4. Listings(c)' # {}
      BY <1>2, <3>1, ListsKept
    <3> QED
      BY <3>3, <3>4
  <2>2. CASE to = "completed"
    <3> DEFINE S == CompletedOf(c)
               h == ckpt[c].history
    <3>1. /\ t = Current(c) /\ ckpt[c].answered /\ row' = row /\ t # NoTurn
          /\ CompletedOf(c)' = S \union {t} /\ t \notin S /\ t \in RowsOf(c)
          /\ audit[t] = "pending" /\ audit'[t] = "completed"
          /\ S \in SUBSET Turns /\ h \in Seq(Turns) /\ t \in Turns
      BY <1>1, <1>2, <2>2, NamesAssumption
    <3>2. \A u \in S : row[u] < row[t]
      <4> SUFFICES ASSUME NEW u \in S PROVE row[u] < row[t]
        OBVIOUS
      <4>1. row[u] <= row[t] /\ u # t
        BY <1>2, <3>1 DEF ThreadOK
      <4>2. row[u] # row[t]
        BY <1>2, <3>1, <4>1 DEF RowsOK
      <4>3. row[u] \in Nat /\ row[t] \in Nat
        BY <1>2, <3>1
      <4> QED
        BY <4>1, <4>2, <4>3
    <3>3. ~CurrentCompleted(c) /\ Permitted(c) = h /\ ckpt[c].status # "completed"
      BY <1>2, <3>1 DEF CurrentCompleted, Permitted, CheckpointOK
    <3>4. Unbroken(h, S, row)
      BY <1>2, <3>1, <3>3 DEF ThreadOK, Gapless
    <3>5. ~Has(h, t)
      BY <3>1, <3>4 DEF Unbroken, Has
    <3>6. Unbroken(Append(h, t), S \union {t}, row)
      BY <1>2, <3>1, <3>2, <3>4, UnbrokenAppend
    <3>7. Current(c)' = t /\ CurrentCompleted(c)' /\ Permitted(c)' = Append(h, t)
      BY <1>1, <3>1, <3>5 DEF Current, CurrentCompleted, Permitted
    <3>8. (Gapless(Permitted(c), c))'
      BY <3>1, <3>6, <3>7 DEF Gapless
    <3>9. \A u \in S \union {t} : row[u] <= row[t]
      BY <1>2, <3>1, <3>2
    <3>10. ThreadOK(c)'
      BY <1>1, <1>2, <3>1, <3>3, <3>7, <3>8, <3>9 DEF ThreadOK
    <3>11. PICK e : e \in Listings(c)
      BY <1>2
    <3>12. Append(e, t) \in Listings(c)'
      BY <1>2, <3>1, <3>2, <3>11, ListingGrows
    <3> QED
      BY <3>10, <3>12
  <2> QED
    BY <2>1, <2>2
<1>7. ASSUME NEW s \in Turns
      PROVE  HealsOK(s)'
  <2> DEFINE d == conv[s]
  <2>1. HealsOK(s) /\ (pc[s] \in Live => d \in Conversations)
    BY <1>2 DEF StoreInv, Typed
  <2>2. CASE pc[s] \notin Live
    BY <1>1, <2>2 DEF HealsOK, At, Live, Working
  <2>3. CASE pc[s] \in Live /\ ~(d = c /\ to = "completed")
    <3>1. d \in Conversations /\ CompletedOf(d)' = CompletedOf(d)
      BY <1>1, <2>1, <2>3
    <3>2. \A u \in CompletedOf(d) : row'[u] = row[u]
      BY <1>1, <1>2, <2>3, <3>1 DEF CompletedOf, RowsOf
    <3>3. Current(d) # NoTurn =>
            /\ audit[Current(d)] \in Terminal => audit'[Current(d)] = audit[Current(d)]
            /\ audit'[Current(d)] = "completed" <=> audit[Current(d)] = "completed"
      <4>1. Current(d) # NoTurn => Current(d) \in Turns /\ conv[Current(d)] = d
        BY <1>2, <3>1
      <4>2. CASE Current(d) = t
        BY <1>1, <2>3, <4>1, <4>2 DEF Terminal
      <4>3. CASE Current(d) # t
        BY <1>1, <4>1, <4>3
      <4> QED
        BY <4>2, <4>3
    <3>4. NoTurn \notin todo[s]
      BY <1>2, NamesAssumption DEF StoreInv, Typed, TypeOK
    <3> QED
      BY <1>1, <2>1, <3>1, <3>2, <3>3, <3>4, HealsKept
  <2>4. CASE d = c /\ to = "completed"
    <3>1. /\ t = Current(d) /\ audit[t] = "pending" /\ audit'[t] = "completed"
          /\ t # NoTurn /\ Current(conv[s])' = t
      BY <1>1, <2>4, NamesAssumption DEF Current
    <3>2. pc[s] \in {"settle", "settling"} => t \in todo[s]
      BY <2>1, <3>1 DEF HealsOK, Terminal
    <3>3. pc[s] \notin {"update", "window", "start", "starting", "opened", "input", "fresh"}
      BY <2>1, <3>1 DEF HealsOK, Ended, Terminal
    <3> QED
      BY <1>1, <2>1, <3>1, <3>2, <3>3 DEF HealsOK, At, CurrentCompleted
  <2> QED
    BY <2>2, <2>3, <2>4
<1>8. ASSUME NEW s \in Turns
      PROVE  RunsOK(s)'
  <2> DEFINE d == conv[s]
  <2>1. RunsOK(s) /\ (pc[s] \in Live => d \in Conversations)
    BY <1>2 DEF StoreInv, Typed
  <2>2. At(s, "starting") => txn'[d] = Free \/ (txn'[d].turn = s /\ txn'[d].to = "pending")
    BY <1>1, <2>1 DEF RunsOK, At, Live, Working
  <2>3. pc[s] \in {"opened", "input", "fresh", "work", "persist"} =>
          d # c /\ txn'[d] = Free /\ audit'[s] = "pending"
    BY <1>1, <2>1 DEF RunsOK, Live, Working
  <2>4. pc[s] \in {"starting", "opened", "input", "fresh"} /\ audit'[s] # "none" =>
          \A u \in RowsOf(d)' : row'[u] <= row'[s]
    <3> SUFFICES ASSUME pc[s] \in {"starting", "opened", "input", "fresh"}, audit'[s] # "none"
                 PROVE  \A u \in RowsOf(d)' : row'[u] <= row'[s]
      OBVIOUS
    <3>1. CASE d # c
      <4>1. s # t /\ RowsOf(d)' = RowsOf(d) /\ \A u \in RowsOf(d) : u # t /\ u \in Turns
        BY <1>1, <1>2, <3>1 DEF RowsOf
      <4>2. audit[s] # "none" /\ row'[s] = row[s] /\ \A u \in RowsOf(d) : row'[u] = row[u]
        BY <1>1, <4>1
      <4> QED
        BY <2>1, <4>1, <4>2 DEF RunsOK
    <3>2. CASE d = c
      <4>1. pc[s] = "starting" /\ s = t /\ to = "pending"
        BY <1>1, <2>1, <2>3, <3>2 DEF RunsOK, At, t, to
      <4>2. \A u \in RowsOf(c) : u # t /\ row'[u] = row[u] /\ row[u] \in 1..N
        BY <1>1, <1>2, <4>1 DEF RowsOK, N
      <4> QED
        BY <1>1, <1>2, <3>2, <4>1, <4>2
    <3> QED
      BY <3>1, <3>2
  <2>5. CompletedOf(d)' # {} \/ CompletedOf(d) = {}
    <3>1. \A e : CompletedOf(e) \subseteq CompletedOf(e)'
      BY <1>2, CompletedGrows
    <3> QED
      BY <1>1, <3>1
  <2> QED
    BY <1>1, <2>1, <2>2, <2>3, <2>4, <2>5 DEF RunsOK, At
<1>9. ASSUME NEW d \in Conversations
      PROVE  (RowsOK(d) /\ ThreadOK(d) /\ FlightOK(d) /\ Listings(d) # {})'
  BY <1>3, <1>4, <1>5, <1>6
<1> QED
  BY <1>7, <1>8, <1>9 DEF TailInv

\* TailInv survives every step.
LEMMA TailStep ==
  ASSUME IInv, TailInv, [Next]_vars
  PROVE  TailInv'
<1>1. ASSUME NEW r \in Turns, Arrive(r)
      PROVE  TailInv'
  BY <1>1, TailArrives DEF Arrive
<1>2. ASSUME NEW r \in Turns, (Step(r) /\ ~Release(r)) \/ Fail(r) \/ CleanupFails(r) \/ Disconnect(r)
      PROVE  TailInv'
  <2>1. Local(r)
    BY <1>2, StepShape DEF IInv, StoreInv
  <2> QED
    BY <1>2, <2>1, TailRecover, TailMoves, TailSettles, TailWrites, TailSaves DEF Step
<1>3. ASSUME NEW c \in Conversations, Commit(c)
      PROVE  TailInv'
  BY <1>3, TailCommit
<1> QED
  BY <1>1, <1>2, <1>3, TailGoes DEF Next, Resolve, Step

\* TailInv holds at the start.
LEMMA TailInit ==
  ASSUME Init
  PROVE  TailInv
<1>1. Len(<<>>) = 0 /\ MaxHistory \in Nat
  BY BoundsAssumption
<1>2. ASSUME NEW c \in Conversations
      PROVE  RowsOK(c) /\ ThreadOK(c) /\ FlightOK(c) /\ Listings(c) # {}
  <2>1. RowsOf(c) = {} /\ CompletedOf(c) = {} /\ txn[c] = Free /\ ckpt[c] = NoCheckpoint
    BY <1>2 DEF Init, RowsOf, CompletedOf
  <2>2. RowsOK(c) /\ FlightOK(c)
    BY <2>1 DEF RowsOK, FlightOK
  <2>3. ThreadOK(c)
    BY <1>1, <2>1 DEF ThreadOK, NoCheckpoint, Current
  <2>4. Listings(c) # {}
    <3>1. Cardinality(CompletedOf(c)) = 0
      BY <2>1, FS_EmptySet
    <3> DEFINE f == [i \in 1..0 |-> i]
    <3>2. f \in [1..0 -> CompletedOf(c)] /\ \A i, j \in DOMAIN f : i < j => row[f[i]] < row[f[j]]
      OBVIOUS
    <3>3. f \in Listings(c)
      BY <3>1, <3>2 DEF Listings
    <3> QED
      BY <3>3
  <2> QED
    BY <2>2, <2>3, <2>4
<1>3. ASSUME NEW r \in Turns
      PROVE  HealsOK(r) /\ RunsOK(r)
  BY <1>3 DEF Init, HealsOK, RunsOK, At
<1> QED
  BY <1>2, <1>3 DEF TailInv

\* TailInv holds throughout.
LEMMA TailAlways == Spec => [](IInv /\ TailInv)
<1>1. Init => IInv /\ TailInv
  BY StoreInit, GraphInit, TailInit DEF IInv
<1>2. IInv /\ TailInv /\ [Next]_vars => (IInv /\ TailInv)'
  BY StoreStep, GraphStep, TailStep DEF IInv
<1> QED
  BY <1>1, <1>2, PTL DEF Spec

\* What the checkpoint offers as history, with the turn a repair would add, is
\* the end of the committed turns in order, and no model gets more of it than
\* max_history_turns: no crash, retry, late COMMIT or recovery leaves a gap.
THEOREM HistoryIsTheTail == Spec => []HistoryIsTail
<1>1. IInv /\ TailInv => HistoryIsTail
  <2> SUFFICES ASSUME IInv, TailInv PROVE HistoryIsTail
    OBVIOUS
  <2>1. CheckpointIsTail
    <3> SUFFICES ASSUME NEW c \in Conversations, Current(c) # NoTurn, NEW e \in Listings(c)
                 PROVE  IsTail(Permitted(c), e)
      BY DEF CheckpointIsTail
    <3>1. Permitted(c) \in Seq(Turns) /\ StoreInv
      BY PermittedType DEF IInv, StoreInv, Typed
    <3>2. Gapless(Permitted(c), c)
      BY DEF TailInv, ThreadOK
    <3> QED
      BY <3>1, <3>2, GaplessIsTail
  <2>2. HistoryBounded
    BY DEF TailInv, HealsOK, ThreadOK, HistoryBounded
  <2> QED
    BY <2>1, <2>2 DEF HistoryIsTail
<1> QED
  BY <1>1, TailAlways, PTL

\* The next request heals whatever the last ones left in the two stores: a
\* committed turn can be repaired, the turn of the checkpoint is settled before
\* the graph starts again, and recovery refuses nothing but a history that the
\* token window has emptied (recover_conversation).
THEOREM RecoveryIsComplete == Spec => []RecoveryHeals
<1>1. IInv /\ TailInv => RecoveryHeals
  <2> SUFFICES ASSUME IInv, TailInv PROVE RecoveryHeals
    OBVIOUS
  <2>1. RepairIsPossible
    BY DEF TailInv, ThreadOK, RepairIsPossible
  <2>2. RecoverySettles
    <3> SUFFICES ASSUME NEW r \in Turns, NEW t \in Turns,
                        pc[r] \in {"start", "starting", "opened", "input"},
                        audit[t] = "pending", Current(conv[r]) = t
                 PROVE  FALSE
      BY DEF RecoverySettles
    <3>1. t # NoTurn /\ HealsOK(r)
      BY NamesAssumption DEF TailInv
    <3> QED
      BY <3>1 DEF HealsOK, Ended, Terminal
  <2>3. RefusesOnlyEmptied
    BY DEF TailInv, RunsOK, RefusesOnlyEmptied
  <2> QED
    BY <2>1, <2>2, <2>3 DEF RecoveryHeals
<1> QED
  BY <1>1, TailAlways, PTL

-----------------------------------------------------------------------------
(* The promise of a conversation: every step is one of ConversationLog, or  *)
(* none.                                                                    *)

\* The completed turns have one listing.
LEMMA OneListing ==
  ASSUME NEW S \in SUBSET Turns, NEW rk \in [Turns -> Nat],
         NEW e, NEW f, Listed(e, S, rk), Listed(f, S, rk)
  PROVE  e = f
<1> DEFINE n == Cardinality(S)
<1>1. /\ n \in Nat /\ e \in Seq(Turns) /\ Len(e) = n /\ f \in Seq(Turns) /\ Len(f) = n
      /\ \A t \in S : \E i \in 1..n : e[i] = t
  <2>1. ASSUME NEW g, Listed(g, S, rk)
        PROVE  /\ n \in Nat /\ g \in Seq(Turns) /\ Len(g) = n
               /\ \A t \in S : \E i \in 1..n : g[i] = t
    BY <2>1, ListedOnce
  <2> QED
    BY <2>1
<1>2. Unbroken(e, S, rk)
  <2>1. \A i \in 1..n : e[i] \in S
    BY DEF Listed
  <2>2. \A i, j \in 1..n : i < j => rk[e[i]] < rk[e[j]]
    BY DEF Listed
  <2> QED
    BY <1>1, <2>1, <2>2 DEF Unbroken, Has
<1>3. LastOf(f, n) = e
  BY <1>1, <1>2, UnbrokenIsTail DEF IsTail
<1> HIDE DEF n
<1>4. /\ Len(LastOf(f, n)) = n
      /\ \A i \in 1..n : LastOf(f, n)[i] = f[n - n + i]
  <2>1. n = IF n < Len(f) THEN n ELSE Len(f)
    BY <1>1
  <2>2. /\ Len(LastOf(f, n)) = n
        /\ \A i \in 1..n : LastOf(f, n)[i] = f[Len(f) - n + i]
    BY <1>1, <2>1, LastOfValue
  <2> QED
    BY <1>1, <2>2
<1>5. \A i \in 1..n : e[i] = f[i]
  <2> SUFFICES ASSUME NEW i \in 1..n PROVE e[i] = f[i]
    OBVIOUS
  <2>1. n - n + i = i
    BY <1>1
  <2> QED
    BY <1>3, <1>4, <2>1
<1> QED
  BY <1>1, <1>5, SeqEqual

Log(c) == CHOOSE h \in Listings(c) : TRUE

\* A conversation's log is its one listing.
LEMMA LogIs ==
  ASSUME StoreInv, NEW c, NEW e \in Listings(c)
  PROVE  Log(c) = e
<1>1. CompletedOf(c) \in SUBSET Turns /\ row \in [Turns -> Nat]
  BY DEF CompletedOf, RowsOf, StoreInv, Typed, TypeOK
<1>2. \A f \in Listings(c) : Listed(f, CompletedOf(c), row)
  BY DEF Listings, Listed
<1>3. Log(c) \in Listings(c)
  BY DEF Log
<1> QED
  BY <1>1, <1>2, <1>3, OneListing

\* The same, after a step.
LEMMA LogIsNext ==
  ASSUME StoreInv', NEW c, NEW e \in Listings(c)'
  PROVE  Log(c)' = e
<1>1. CompletedOf(c)' \in SUBSET Turns /\ row' \in [Turns -> Nat]
  BY DEF CompletedOf, RowsOf, StoreInv, Typed, TypeOK
<1>2. \A f \in Listings(c)' : Listed(f, CompletedOf(c)', row')
  BY DEF Listings, Listed
<1>3. Log(c)' \in Listings(c)'
  BY DEF Log
<1> QED
  BY <1>1, <1>2, <1>3, OneListing

\* A client that has been told is not told again.
DoneLast == \A r \in Turns : seen[r] = "done" => pc[r] \in {"release", "over", "dead"}

\* Only the last event of a turn, sent after AuditRead, tells of "done".
LEMMA ToldBy ==
  ASSUME StoreInv, DoneLast, [Next]_vars, NEW s \in Turns
  PROVE  /\ seen[s] = "done" => seen'[s] = "done"
         /\ seen'[s] = "done" => seen[s] = "done" \/ AuditRead(s)
         /\ seen'[s] = "done" => pc'[s] \in {"release", "over", "dead"}
<1>1. pc \in [Turns -> PCs] /\ seen \in [Turns -> Observations]
      /\ (seen[s] = "done" => pc[s] \in {"release", "over", "dead"})
  BY DEF StoreInv, Typed, TypeOK, DoneLast
<1>2. ASSUME NEW r \in Turns, (Step(r) /\ ~Release(r)) \/ Fail(r) \/ CleanupFails(r) \/ Disconnect(r),
             r # s
      PROVE  seen'[s] = seen[s] /\ pc'[s] = pc[s]
  BY <1>2, StepShape DEF StoreInv, Local
<1>3. CASE \/ Create(s) \/ Recover(s) \/ Settle(s) \/ SettleAck(s) \/ SettleDone(s)
           \/ Update(s) \/ Window(s) \/ Start(s) \/ StartAck(s) \/ Input(s) \/ Fresh(s)
           \/ Work(s) \/ Persist(s) \/ PersistAck(s) \/ SaveWrites(s) \/ SaveFinal(s)
           \/ End(s) \/ Drain(s) \/ Fail(s)
  <2>1. seen' = seen /\ pc[s] \notin {"release", "over", "dead"}
    BY <1>3 DEF Create, Recover, Settle, SettleAck, SettleDone, Update, Window, Start, StartAck,
       Input, Fresh, Work, Persist, PersistAck, SaveWrites, SaveFinal, End, Drain, Fail, At, Working
  <2> QED
    BY <1>1, <2>1
<1>4. CASE Stream(s) \/ Cleanup(s) \/ CleanupAck(s) \/ CleanupFails(s)
  <2>1. /\ pc[s] \notin {"release", "over", "dead"}
        /\ seen'[s] = seen[s] \/ seen'[s] \in {"open", "error", "gone"}
    BY <1>1, <1>4 DEF Stream, Cleanup, CleanupAck, CleanupFails, At, Tell
  <2> QED
    BY <1>1, <2>1
<1>5. CASE AuditRead(s)
  <2>1. /\ pc[s] = "audit"
        /\ \/ seen' = seen
           \/ pc'[s] = "release"
    BY <1>1, <1>5 DEF AuditRead, At, Goto
  <2> QED
    BY <1>1, <1>5, <2>1
<1>6. CASE Disconnect(s)
  BY <1>1, <1>6 DEF Disconnect
<1>7. ASSUME NEW r \in Turns, Release(r) \/ Arrive(r)
      PROVE  /\ seen[s] = "done" => seen'[s] = "done"
             /\ seen'[s] = "done" => seen[s] = "done"
             /\ seen'[s] = "done" => pc'[s] \in {"release", "over", "dead"}
  <2>1. CASE Release(r)
    BY <1>1, <2>1 DEF Release, Goto
  <2>2. CASE Arrive(r)
    <3>1. /\ pc[r] = "idle" /\ \A u \in Turns \ {r} : pc'[u] = pc[u] /\ seen'[u] = seen[u]
          /\ seen'[r] = seen[r] \/ seen'[r] = "refused"
      BY <1>1, <2>2 DEF Arrive, PrepareNew, PrepareExisting, Refuse, Admit, At, Goto
    <3> QED
      BY <1>1, <3>1
  <2> QED
    BY <1>7, <2>1, <2>2
<1>8. CASE (\E c \in Conversations : Resolve(c) \/ Disown(c)) \/ UNCHANGED vars
  <2>1. UNCHANGED <<pc, seen>>
    BY <1>8 DEF Resolve, Commit, Rollback, Disown, vars
  <2> QED
    BY <1>1, <2>1
<1>9. CASE Crash
  BY <1>1, <1>9 DEF Crash
<1> QED
  BY <1>1, <1>2, <1>3, <1>4, <1>5, <1>6, <1>7, <1>8, <1>9 DEF Next, Step

OpenTurns == {t \in Turns : audit[t] = "pending"}
ClosedTurns == {t \in Turns : audit[t] \in Terminal \ {"completed"}}
ToldTurns == {t \in Turns : seen[t] = "done"}

\* What is in the log of a conversation is committed there.
LEMMA InLogIs ==
  ASSUME StoreInv, TailInv, NEW c \in Conversations
  PROVE  /\ \A i \in DOMAIN Log(c) : Log(c)[i] \in CompletedOf(c)
         /\ \A t \in CompletedOf(c) : \E i \in DOMAIN Log(c) : Log(c)[i] = t
<1>1. PICK e : e \in Listings(c)
  BY DEF TailInv
<1>2. Log(c) = e
  BY <1>1, LogIs
<1>3. CompletedOf(c) \in SUBSET Turns /\ row \in [Turns -> Nat]
  BY DEF CompletedOf, RowsOf, StoreInv, Typed, TypeOK
<1>4. e \in [1..Cardinality(CompletedOf(c)) -> CompletedOf(c)] /\ Listed(e, CompletedOf(c), row)
  BY <1>1 DEF Listings, Listed
<1>5. \A t \in CompletedOf(c) : \E i \in 1..Cardinality(CompletedOf(c)) : e[i] = t
  BY <1>3, <1>4, ListedOnce
<1> QED
  BY <1>2, <1>4, <1>5

\* A step that commits nothing leaves every log alone.
LEMMA LogStays ==
  ASSUME UNCHANGED <<audit, row>>,
         \A t \in Turns : conv'[t] = conv[t] \/ audit[t] = "none", NEW c
  PROVE  Log(c)' = Log(c)
<1>1. RowsOf(c)' = RowsOf(c)
  BY DEF RowsOf
<1>2. CompletedOf(c)' = CompletedOf(c)
  BY <1>1 DEF CompletedOf
<1>3. Listings(c)' = Listings(c)
  BY <1>2 DEF Listings
<1> QED
  BY <1>3 DEF Log

\* A step of the system is a step of the promise, or a stutter.
LEMMA PromiseStep ==
  ASSUME IInv, TailInv, IInv', TailInv', DoneLast, [Next]_vars
  PROVE  [Promise!Next]_(Promise!logVars)
<1>1. StoreInv /\ StoreInv'
  BY DEF IInv
<1> DEFINE Logs == [c \in Conversations |-> Log(c)]
<1>2. CASE ~\E c \in Conversations : Commit(c)
  <2>1. UNCHANGED <<audit, row>>
    BY <1>2 DEF Next, vars, mysql, Arrive, Resolve, PrepareNew, PrepareExisting, Refuse,
       Rollback, Disown, Crash, Step, Create, Recover, Settle, SettleAck, SettleDone,
       Update, Window, Start, StartAck, Stream, Input, Fresh, Work, Persist,
       PersistAck, SaveWrites, SaveFinal, End, Drain, AuditRead, Cleanup,
       CleanupAck, CleanupFails, Release, Fail, Disconnect
  <2>2. \A t \in Turns : conv'[t] = conv[t] \/ audit[t] = "none"
    BY <1>1, Monotone DEF StoreInv, EarlyUntouched, Early
  <2>3. Logs' = Logs /\ OpenTurns' = OpenTurns /\ ClosedTurns' = ClosedTurns
    BY <2>1, <2>2, LogStays DEF OpenTurns, ClosedTurns
  <2>4. CASE ToldTurns' = ToldTurns
    <3>1. UNCHANGED Promise!logVars
      BY <2>3, <2>4 DEF Promise!logVars, Log, OpenTurns, ClosedTurns, ToldTurns
    <3> QED
      BY <3>1
  <2>5. CASE ToldTurns' # ToldTurns
    <3>1. PICK r \in Turns : AuditRead(r) /\ seen'[r] = "done" /\ seen[r] # "done"
      BY <1>1, <2>5, ToldBy DEF ToldTurns
    <3>2. \A s \in Turns \ {r} : seen'[s] = seen[s]
      BY <1>1, <3>1 DEF AuditRead, Tell, StoreInv, Typed, TypeOK
    <3>3. ToldTurns' = ToldTurns \union {r}
      BY <3>1, <3>2 DEF ToldTurns
    <3>4. audit[r] = "completed" /\ conv[r] \in Conversations
      BY <1>1, <3>1 DEF AuditRead, Tell, Verified, At, StoreInv, Typed, TypeOK, Live, Finishing
    <3>5. r \in CompletedOf(conv[r])
      BY <3>4 DEF CompletedOf, RowsOf
    <3>6. \E i \in DOMAIN Logs[conv[r]] : Logs[conv[r]][i] = r
      BY <1>1, <3>4, <3>5, InLogIs
    <3>7. Promise!Report(r)
      BY <2>3, <3>3, <3>4, <3>6
         DEF Promise!Report, Promise!InLog, Log, OpenTurns, ClosedTurns, ToldTurns
    <3> QED
      BY <3>1, <3>7 DEF Promise!Next
  <2> QED
    BY <2>4, <2>5
<1>3. ASSUME NEW c \in Conversations, Commit(c)
      PROVE  Promise!Next
  <2>1. PICK t \in Turns, to \in AuditStatus \ {"none"} :
        /\ conv[t] = c
        /\ audit[t] = IF to = "pending" THEN "none" ELSE "pending"
        /\ audit'[t] = to /\ \A u \in Turns \ {t} : audit'[u] = audit[u]
        /\ \A u \in Turns \ {t} : row'[u] = row[u]
        /\ to # "pending" => row' = row
        /\ to = "completed" => t = Current(c)
        /\ \A d : d # c => RowsOf(d)' = RowsOf(d) /\ CompletedOf(d)' = CompletedOf(d)
        /\ CompletedOf(c)' = CompletedOf(c) \union (IF to = "completed" THEN {t} ELSE {})
        /\ t \notin CompletedOf(c)
        /\ to # "pending" => t \in RowsOf(c)
    BY <1>3, CommitFacts
  <2>2. seen' = seen
    BY <1>3 DEF Commit
  <2>3. ToldTurns' = ToldTurns
    BY <2>2 DEF ToldTurns
  <2>4. ASSUME NEW d \in Conversations, d # c \/ to # "completed"
        PROVE  Log(d)' = Log(d)
    <3>1. CompletedOf(d)' = CompletedOf(d)
      BY <2>1, <2>4
    <3>2. \A u \in CompletedOf(d) : row'[u] = row[u]
      BY <2>1, <2>4 DEF CompletedOf, RowsOf
    <3>3. PICK e : e \in Listings(d)
      BY DEF TailInv
    <3>4. e \in Listings(d)'
      BY <3>1, <3>2, <3>3, ListsKept
    <3> QED
      BY <1>1, <3>3, <3>4, LogIs, LogIsNext
  <2>5. \A d \in Conversations : t \notin CompletedOf(d)
    BY <2>1 DEF CompletedOf, RowsOf
  <2>6. CASE to = "pending"
    <3>1. Logs' = Logs
      BY <2>4, <2>6
    <3>2. OpenTurns' = OpenTurns \union {t} /\ ClosedTurns' = ClosedTurns
      BY <2>1, <2>6 DEF OpenTurns, ClosedTurns, Terminal
    <3>3. t \notin OpenTurns \union ClosedTurns
      BY <2>1, <2>6 DEF OpenTurns, ClosedTurns, Terminal
    <3>4. \A d \in Conversations : ~\E i \in DOMAIN Logs[d] : Logs[d][i] = t
      BY <1>1, <2>5, InLogIs
    <3>5. Promise!Open(t)
      BY <2>3, <3>1, <3>2, <3>3, <3>4
         DEF Promise!Open, Promise!New, Promise!InLog, Log, OpenTurns, ClosedTurns, ToldTurns
    <3>6. \E u \in Turns : Promise!Open(u)
      BY <3>5
    <3> QED
      BY <3>6 DEF Promise!Next
  <2>7. CASE to = "completed"
    <3>1. /\ t = Current(c) /\ UNCHANGED row /\ row \in [Turns -> Nat]
          /\ CompletedOf(c)' = CompletedOf(c) \union {t} /\ t \notin CompletedOf(c)
          /\ t \in RowsOf(c) /\ CompletedOf(c) \subseteq Turns /\ CompletedOf(c) \subseteq RowsOf(c)
      BY <1>1, <2>1, <2>7 DEF CompletedOf, RowsOf, StoreInv, Typed, TypeOK
    <3>2. \A u \in CompletedOf(c) : row[u] < row[t]
      <4> SUFFICES ASSUME NEW u \in CompletedOf(c) PROVE row[u] < row[t]
        OBVIOUS
      <4>1. row[u] <= row[t] /\ u # t
        BY <3>1 DEF TailInv, ThreadOK
      <4>2. row[u] # row[t]
        BY <3>1, <4>1 DEF TailInv, RowsOK
      <4>3. row[u] \in Nat /\ row[t] \in Nat
        BY <2>1, <3>1
      <4> QED
        BY <4>1, <4>2, <4>3
    <3>3. PICK e : e \in Listings(c)
      BY DEF TailInv
    <3>4. Append(e, t) \in Listings(c)'
      BY <2>1, <3>1, <3>2, <3>3, ListingGrows
    <3>5. Log(c) = e /\ Log(c)' = Append(e, t)
      BY <1>1, <3>3, <3>4, LogIs, LogIsNext
    <3>6. Logs' = [Logs EXCEPT ![c] = Append(Logs[c], t)]
      BY <2>4, <3>5
    <3>7. OpenTurns' = OpenTurns \ {t} /\ ClosedTurns' = ClosedTurns /\ t \in OpenTurns
      BY <2>1, <2>7 DEF OpenTurns, ClosedTurns, Terminal
    <3>8. Promise!Complete(t, c)
      BY <2>3, <3>6, <3>7 DEF Promise!Complete, Log, OpenTurns, ClosedTurns, ToldTurns
    <3> QED
      BY <2>1, <3>8 DEF Promise!Next
  <2>8. CASE to \in Terminal \ {"completed"}
    <3>1. Logs' = Logs
      BY <2>4, <2>8
    <3>2. OpenTurns' = OpenTurns \ {t} /\ ClosedTurns' = ClosedTurns \union {t} /\ t \in OpenTurns
      BY <2>1, <2>8 DEF OpenTurns, ClosedTurns, Terminal
    <3>3. Promise!Close(t)
      BY <2>3, <3>1, <3>2 DEF Promise!Close, Log, OpenTurns, ClosedTurns, ToldTurns
    <3>4. \E u \in Turns : Promise!Close(u)
      BY <3>3
    <3> QED
      BY <3>4 DEF Promise!Next
  <2> QED
    BY <2>1, <2>6, <2>7, <2>8 DEF AuditStatus
<1> QED
  BY <1>2, <1>3

\* The system starts where the promise does.
LEMMA PromiseInit ==
  ASSUME Init
  PROVE  Promise!Init
<1>1. StoreInv /\ TailInv
  BY StoreInit, TailInit
<1>2. ASSUME NEW c \in Conversations
      PROVE  Log(c) = <<>>
  <2>1. CompletedOf(c) = {}
    BY DEF Init, CompletedOf, RowsOf
  <2>2. PICK e : e \in Listings(c)
    BY <1>1 DEF TailInv
  <2>3. e \in Seq(Turns) /\ \A i \in 1..Len(e) : e[i] \in CompletedOf(c)
    BY <2>2, ListingType
  <2>4. Len(e) \in Nat /\ Len(e) = 0
    BY <2>1, <2>3, LenProperties
  <2>5. e = <<>>
    BY <2>3, <2>4, EmptySeq
  <2> QED
    BY <1>1, <2>2, <2>5, LogIs
<1>3. [c \in Conversations |-> Log(c)] = [c \in Conversations |-> <<>>]
  BY <1>2
<1>4. OpenTurns = {} /\ ClosedTurns = {} /\ ToldTurns = {}
  BY DEF Init, OpenTurns, ClosedTurns, ToldTurns, Terminal
<1> QED
  BY <1>3, <1>4 DEF Promise!Init, Log, OpenTurns, ClosedTurns, ToldTurns

\* A conversation keeps its promise whatever happens to its requests, its
\* stores and the process: the committed turns are a log that only grows at its
\* end, each turn joins it or is closed, once, and "done" is true.
THEOREM PromiseIsKept == Spec => PromiseSpec
<1>1. Init => Promise!Init
  BY PromiseInit
<1>2. Init => IInv /\ TailInv /\ DoneLast
  BY StoreInit, GraphInit, TailInit DEF IInv, Init, DoneLast
<1>3. IInv /\ TailInv /\ DoneLast /\ [Next]_vars => (IInv /\ TailInv /\ DoneLast)'
  <2> SUFFICES ASSUME IInv, TailInv, DoneLast, [Next]_vars
               PROVE  (IInv /\ TailInv /\ DoneLast)'
    OBVIOUS
  <2>1. (IInv /\ TailInv)'
    BY StoreStep, GraphStep, TailStep DEF IInv
  <2>2. DoneLast'
    BY ToldBy DEF IInv, DoneLast
  <2> QED
    BY <2>1, <2>2
<1>4. IInv /\ TailInv /\ DoneLast /\ (IInv /\ TailInv /\ DoneLast)' /\ [Next]_vars
        => [Promise!Next]_(Promise!logVars)
  BY PromiseStep
<1> QED
  BY <1>1, <1>2, <1>3, <1>4, PTL DEF Spec, PromiseSpec, Promise!Spec
=============================================================================
