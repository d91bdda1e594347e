---------------------------- MODULE TurnGraphProofs ----------------------------
(* Safety of TurnGraph, for any limits, any budget and any costs. *)
EXTENDS TurnGraph, TLAPS

-----------------------------------------------------------------------------
(* The inductive invariant. *)

\* Nodes at which a turn has proposed a tool call but has not settled it.
Settling == {"tool", "result"}

\* Where the counters stand: a call is audited before its tool runs, its
\* result before the next decision, and one tool was left when it was proposed.
Counters ==
  /\ node \in Settling => calls = tools + 1 /\ results = tools
  /\ node \in Nodes \ (Settling \union {"end"}) => calls = tools /\ results = tools
  /\ node \in {"call"} \union Settling => tools < MaxTools
  /\ calls <= MaxTools
  /\ outcome # "none" => node = "end"
  /\ outcome = "completed" => calls = tools /\ results = tools

\* One final generation, and none before the agent's final node.
Finals ==
  /\ node \notin {"stream", "persist", "end"} => finals = 0
  /\ finals <= 1

\* Nothing has been said before the node that says it.
Said ==
  /\ node \notin {"stream", "persist", "end"} => sent = {}
  /\ node = "stream" => sent \subseteq {"tokens"}
  /\ OneAnswer

\* A turn without tools has not been where tools are used.
OnlyGenerates ==
  /\ node \in {"classify", "retrieve", "retrieving", "evidence_gate"} =>
       decisions = 0 /\ calls = 0
  /\ mode = "generate_only" =>
       /\ decisions = 0
       /\ calls = 0
       /\ node \notin {"decide", "call", "limit"} \union Settling

\* Where a knowledge question goes once its evidence was judged.
Judged ==
  /\ node = "classify" => route = "none"
  /\ route = "knowledge" /\ node \in Agent \union {"workflow_answer"} =>
       evidence = "sufficient"
  /\ node \in {"complaint", "chitchat"} => route # "knowledge"
  /\ node \in {"fallback", "recorded"} => evidence = "insufficient"
  /\ node = "recorded" => pooled
  /\ node \in {"classify", "retrieve", "retrieving", "evidence_gate"} => ~pooled

IInv ==
  /\ TypeOK
  /\ Counters
  /\ Finals
  /\ Said
  /\ OnlyGenerates
  /\ Judged
  /\ EvidenceFirst

-----------------------------------------------------------------------------
LEMMA Initially == Init => IInv
<1> USE LimitsAssumption DEF Init
<1>1. Init => TypeOK
  <2>1. Init => limited \in BOOLEAN /\ pooled \in BOOLEAN
    BY Zenon
  <2>2. Init => decisions \in 0..MaxDecisions /\ tools \in 0..MaxTools /\ spent \in 0..Budget
    OBVIOUS
  <2>3. Init => calls \in Nat /\ results \in Nat /\ finals \in Nat
    OBVIOUS
  <2>4. Init => clock \in 0..2 /\ deadline \in 1..2 /\ waiting \in 1..2
    OBVIOUS
  <2>5. Init => /\ node \in Nodes
                /\ sent \subseteq {"tokens", "template", "fixed", "refusal"}
    BY DEF Nodes, Outer
  <2> QED BY <2>1, <2>2, <2>3, <2>4, <2>5, Zenon DEF TypeOK
<1>2. Init => Counters /\ OnlyGenerates
  BY DEF Counters, OnlyGenerates, Settling
<1>3. Init => Finals /\ Said /\ Judged /\ EvidenceFirst
  BY DEF Finals, Said, OneAnswer, Judged, EvidenceFirst, Agent
<1> QED BY <1>1, <1>2, <1>3 DEF IInv

\* A reservation keeps the turn within its budget.
LEMMA Reserved ==
  ASSUME TypeOK, Affordable
  PROVE  spent' \in 0..Budget
  BY LimitsAssumption DEF TypeOK, Affordable, Reserve

(* A tool is settled only while one is left, hence the premise Counters. *)
LEMMA TypeStep ==
  ASSUME TypeOK, Counters, [Next]_vars
  PROVE  TypeOK'
<1> USE LimitsAssumption, Reserved
<1> USE DEF TypeOK, Nodes, Outer, Agent, request, counts, stores, time, Await, Send, End
<1>1. CASE Classify
  BY <1>1 DEF Classify
<1>2. CASE OutOfBudget
  BY <1>2 DEF OutOfBudget
<1>3. CASE Retrieve
  BY <1>3 DEF Retrieve
<1>4. CASE Retrieved
  BY <1>4 DEF Retrieved
<1>5. CASE EvidenceGate
  BY <1>5 DEF EvidenceGate, Target
<1>6. CASE Template
  BY <1>6 DEF Template
<1>7. CASE Fallback
  BY <1>7 DEF Fallback
<1>8. CASE Refuse
  BY <1>8 DEF Refuse
<1>9. CASE Persist
  BY <1>9 DEF Persist
<1>10. CASE Decide
  BY <1>10 DEF Decide
<1>11. CASE Limited
  BY <1>11 DEF Limited
<1>12. CASE AppendCall
  BY <1>12 DEF AppendCall
<1>13. CASE RunTool
  BY <1>13 DEF RunTool
<1>14. CASE AppendResult
  BY <1>14 DEF AppendResult, Counters, Settling
<1>15. CASE Limit
  BY <1>15 DEF Limit
<1>16. CASE Generate
  BY <1>16 DEF Generate
<1>17. CASE FixedReply
  BY <1>17 DEF FixedReply
<1>18. CASE Answered
  BY <1>18 DEF Answered
<1>19. CASE Token
  BY <1>19 DEF Token
<1>20. CASE Tick
  BY <1>20 DEF Tick
<1>21. CASE Timeout
  <2>1. pooled' \in BOOLEAN /\ limited' \in BOOLEAN
    BY <1>21, Zenon DEF Timeout, MayHaveWritten
  <2>2. calls' \in Nat /\ results' \in Nat
    BY <1>21 DEF Timeout, MayHaveWritten
  <2>3. node' \in Nodes /\ outcome' \in {"none", "completed", "error", "timeout"}
    BY <1>21 DEF Timeout, MayHaveWritten
  <2> QED BY <1>21, <2>1, <2>2, <2>3 DEF Timeout, MayHaveWritten
<1>22. CASE Raise
  <2>1. pooled' \in BOOLEAN /\ limited' \in BOOLEAN
    BY <1>22, Zenon DEF Raise, MayHaveWritten
  <2>2. calls' \in Nat /\ results' \in Nat
    BY <1>22 DEF Raise, MayHaveWritten
  <2>3. node' \in Nodes /\ outcome' \in {"none", "completed", "error", "timeout"}
    BY <1>22 DEF Raise, MayHaveWritten
  <2> QED BY <1>22, <2>1, <2>2, <2>3 DEF Raise, MayHaveWritten
<1>23. CASE UNCHANGED vars
  BY <1>23 DEF vars
<1> QED
  BY <1>1, <1>2, <1>3, <1>4, <1>5, <1>6, <1>7, <1>8, <1>9, <1>10, <1>11, <1>12,
     <1>13, <1>14, <1>15, <1>16, <1>17, <1>18, <1>19, <1>20, <1>21, <1>22, <1>23
     DEF Next, NodeStep

(* The counters: one step per action, none disturbs what it cannot reach. *)
LEMMA CountersStep ==
  ASSUME IInv, [Next]_vars
  PROVE  Counters' /\ Finals' /\ OnlyGenerates'
<1> USE LimitsAssumption DEF IInv, TypeOK, Nodes, Outer, Agent, Settling, request, counts, stores, time, Await, Send, End
<1> USE DEF Counters, Finals, OnlyGenerates
<1>1. CASE Classify
  BY <1>1 DEF Classify
<1>2. CASE OutOfBudget
  BY <1>2 DEF OutOfBudget
<1>3. CASE Retrieve
  BY <1>3 DEF Retrieve
<1>4. CASE Retrieved
  BY <1>4 DEF Retrieved
<1>5. CASE EvidenceGate
  BY <1>5 DEF EvidenceGate, Target
<1>6. CASE Template
  BY <1>6 DEF Template
<1>7. CASE Fallback
  BY <1>7 DEF Fallback
<1>8. CASE Refuse
  BY <1>8 DEF Refuse
<1>9. CASE Persist
  BY <1>9 DEF Persist
<1>10. CASE Decide
  BY <1>10 DEF Decide
<1>11. CASE Limited
  BY <1>11 DEF Limited
<1>12. CASE AppendCall
  BY <1>12 DEF AppendCall
<1>13. CASE RunTool
  BY <1>13 DEF RunTool
<1>14. CASE AppendResult
  BY <1>14 DEF AppendResult
<1>15. CASE Limit
  BY <1>15 DEF Limit
<1>16. CASE Generate
  BY <1>16 DEF Generate
<1>17. CASE FixedReply
  BY <1>17 DEF FixedReply
<1>18. CASE Answered
  BY <1>18 DEF Answered
<1>19. CASE Token
  BY <1>19 DEF Token
<1>20. CASE Tick
  BY <1>20 DEF Tick
<1>21. CASE Timeout
  BY <1>21 DEF Timeout, MayHaveWritten
<1>22. CASE Raise
  BY <1>22 DEF Raise, MayHaveWritten
<1>23. CASE UNCHANGED vars
  BY <1>23 DEF vars
<1> QED
  BY <1>1, <1>2, <1>3, <1>4, <1>5, <1>6, <1>7, <1>8, <1>9, <1>10, <1>11, <1>12,
     <1>13, <1>14, <1>15, <1>16, <1>17, <1>18, <1>19, <1>20, <1>21, <1>22, <1>23
     DEF Next, NodeStep

(* What the client has been sent. *)
LEMMA SaidStep ==
  ASSUME IInv, [Next]_vars
  PROVE  Said'
<1> USE LimitsAssumption DEF IInv, TypeOK, Nodes, Outer, Agent, Settling, request, counts, stores, time, Await, Send, End
<1> USE DEF Said, OneAnswer
<1>1. CASE Classify
  BY <1>1 DEF Classify
<1>2. CASE OutOfBudget
  BY <1>2 DEF OutOfBudget
<1>3. CASE Retrieve
  BY <1>3 DEF Retrieve
<1>4. CASE Retrieved
  BY <1>4 DEF Retrieved
<1>5. CASE EvidenceGate
  BY <1>5 DEF EvidenceGate, Target
<1>6. CASE Template
  BY <1>6 DEF Template
<1>7. CASE Fallback
  BY <1>7 DEF Fallback
<1>8. CASE Refuse
  BY <1>8 DEF Refuse
<1>9. CASE Persist
  BY <1>9 DEF Persist
<1>10. CASE Decide
  BY <1>10 DEF Decide
<1>11. CASE Limited
  BY <1>11 DEF Limited
<1>12. CASE AppendCall
  BY <1>12 DEF AppendCall
<1>13. CASE RunTool
  BY <1>13 DEF RunTool
<1>14. CASE AppendResult
  BY <1>14 DEF AppendResult
<1>15. CASE Limit
  BY <1>15 DEF Limit
<1>16. CASE Generate
  BY <1>16 DEF Generate
<1>17. CASE FixedReply
  BY <1>17 DEF FixedReply
<1>18. CASE Answered
  BY <1>18 DEF Answered
<1>19. CASE Token
  BY <1>19 DEF Token
<1>20. CASE Tick
  BY <1>20 DEF Tick
<1>21. CASE Timeout
  BY <1>21 DEF Timeout, MayHaveWritten
<1>22. CASE Raise
  BY <1>22 DEF Raise, MayHaveWritten
<1>23. CASE UNCHANGED vars
  BY <1>23 DEF vars
<1> QED
  BY <1>1, <1>2, <1>3, <1>4, <1>5, <1>6, <1>7, <1>8, <1>9, <1>10, <1>11, <1>12,
     <1>13, <1>14, <1>15, <1>16, <1>17, <1>18, <1>19, <1>20, <1>21, <1>22, <1>23
     DEF Next, NodeStep

(* How the evidence was judged. *)
LEMMA JudgedStep ==
  ASSUME IInv, [Next]_vars
  PROVE  Judged' /\ EvidenceFirst'
<1> USE LimitsAssumption DEF IInv, TypeOK, Nodes, Outer, Agent, Settling, request, counts, stores, time, Await, Send, End
<1> USE DEF Judged, EvidenceFirst, Said
<1>1. CASE Classify
  BY <1>1 DEF Classify
<1>2. CASE OutOfBudget
  BY <1>2 DEF OutOfBudget
<1>3. CASE Retrieve
  BY <1>3 DEF Retrieve
<1>4. CASE Retrieved
  BY <1>4 DEF Retrieved
<1>5. CASE EvidenceGate
  BY <1>5 DEF EvidenceGate, Target
<1>6. CASE Template
  BY <1>6 DEF Template
<1>7. CASE Fallback
  BY <1>7 DEF Fallback
<1>8. CASE Refuse
  BY <1>8 DEF Refuse
<1>9. CASE Persist
  BY <1>9 DEF Persist
<1>10. CASE Decide
  BY <1>10 DEF Decide
<1>11. CASE Limited
  BY <1>11 DEF Limited
<1>12. CASE AppendCall
  BY <1>12 DEF AppendCall
<1>13. CASE RunTool
  BY <1>13 DEF RunTool
<1>14. CASE AppendResult
  BY <1>14 DEF AppendResult
<1>15. CASE Limit
  BY <1>15 DEF Limit
<1>16. CASE Generate
  BY <1>16 DEF Generate
<1>17. CASE FixedReply
  BY <1>17 DEF FixedReply
<1>18. CASE Answered
  BY <1>18 DEF Answered
<1>19. CASE Token
  BY <1>19 DEF Token
<1>20. CASE Tick
  BY <1>20 DEF Tick
<1>21. CASE Timeout
  BY <1>21 DEF Timeout, MayHaveWritten
<1>22. CASE Raise
  BY <1>22 DEF Raise, MayHaveWritten
<1>23. CASE UNCHANGED vars
  BY <1>23 DEF vars
<1> QED
  BY <1>1, <1>2, <1>3, <1>4, <1>5, <1>6, <1>7, <1>8, <1>9, <1>10, <1>11, <1>12,
     <1>13, <1>14, <1>15, <1>16, <1>17, <1>18, <1>19, <1>20, <1>21, <1>22, <1>23
     DEF Next, NodeStep

-----------------------------------------------------------------------------
LEMMA Inductive == Spec => []IInv
<1>1. Init => IInv
  BY Initially
<1>2. IInv /\ [Next]_vars => IInv'
  BY TypeStep, CountersStep, SaidStep, JudgedStep DEF IInv
<1> QED BY <1>1, <1>2, PTL DEF Spec

\* Every variable has its type: the counters never leave the limits of the
\* settings, and the reserved budget never exceeds the turn's.
THEOREM TypeCorrect == Spec => []TypeOK
<1>1. IInv => TypeOK
  BY DEF IInv
<1> QED BY <1>1, Inductive, PTL

\* However often the model proposes tools, a turn stays within its decisions,
\* tool calls, budget and one final generation, and a turn that may only
\* generate runs no tool: decide, after_decision, execute_tools and final.
THEOREM WithinLimits == Spec => []Limits
<1>1. IInv => Limits
  <2>1. IInv => decisions <= MaxDecisions /\ spent <= Budget
    BY LimitsAssumption DEF IInv, TypeOK
  <2>2. IInv => calls <= MaxTools /\ finals <= 1
    BY DEF IInv, Counters, Finals
  <2>3. IInv => (mode = "generate_only" => decisions = 0 /\ calls = 0)
    BY DEF IInv, OnlyGenerates
  <2> QED BY <2>1, <2>2, <2>3 DEF Limits
<1> QED BY <1>1, Inductive, PTL

\* execute_tools commits a call before its tool runs and its result before the
\* next decision, so the model and a completed turn never know more than the
\* audit.
THEOREM AuditPaced == Spec => []AuditKeepsPace
<1>1. IInv => AuditKeepsPace
  BY DEF IInv, Counters, Settling, AuditKeepsPace
<1> QED BY <1>1, Inductive, PTL

\* final sends its fixed reply only when it has sent no token, and the limits
\* met before it are not told at once: a client sees one kind of answer.
THEOREM OneKindOfAnswer == Spec => []OneAnswer
<1>1. IInv => OneAnswer
  BY DEF IInv, Said
<1> QED BY <1>1, Inductive, PTL

\* A knowledge question is answered from sufficient evidence or refused after
\* it was recorded: evidence_gate, knowledge_target and fallback.
THEOREM EvidenceComesFirst == Spec => []EvidenceFirst
<1>1. IInv => EvidenceFirst
  BY DEF IInv
<1> QED BY <1>1, Inductive, PTL

\* The client gets one kind of answer, the one the evidence allows.
THEOREM AnswersFollowEvidence == Spec => []AnswerFollowsEvidence
  BY OneKindOfAnswer, EvidenceComesFirst, PTL DEF AnswerFollowsEvidence

-----------------------------------------------------------------------------
(* Time. *)

\* A knowledge question has the longer deadline, and the service waits under it
\* from retrieve's first event on, until the end.
LongWait ==
  route = "knowledge" =>
    /\ deadline = 2
    /\ node \notin {"retrieve", "end"} => waiting = 2

\* A knowledge question that times out after retrieve's first event had the
\* knowledge timeout: classify extends the deadline, retrieve makes it heard.
THEOREM KnowledgeHadItsTime == Spec => KnowledgeHasItsTime
<1>1. Init => LongWait
  BY DEF Init, LongWait
<1>2. LongWait /\ [Next]_vars => LongWait'
  <2> SUFFICES ASSUME LongWait, [Next]_vars PROVE LongWait'
    OBVIOUS
  <2> USE DEF LongWait, request, counts, stores, time, Await
  <2>1. CASE Classify
    BY <2>1 DEF Classify
  <2>2. CASE OutOfBudget \/ Retrieve \/ Retrieved \/ EvidenceGate
    BY <2>2 DEF OutOfBudget, Retrieve, Retrieved, EvidenceGate
  <2>3. CASE Template \/ Fallback \/ Refuse \/ Persist
    BY <2>3 DEF Template, Fallback, Refuse, Persist, End
  <2>4. CASE Decide \/ Limited \/ AppendCall \/ RunTool \/ AppendResult \/ Limit
    <3>1. /\ UNCHANGED <<route, deadline>>
          /\ node \notin {"retrieve", "end"}
          /\ waiting' \in {waiting, deadline}
      BY <2>4 DEF Decide, Limited, AppendCall, RunTool, AppendResult, Limit
    <3> QED
      BY <3>1
  <2>5. CASE Generate \/ FixedReply \/ Token \/ Answered
    BY <2>5 DEF Generate, FixedReply, Token, Answered
  <2>6. CASE Tick \/ Timeout \/ Raise \/ UNCHANGED vars
    BY <2>6 DEF Tick, Timeout, Raise, End, vars
  <2> HIDE DEF LongWait
  <2> QED
    BY <2>1, <2>2, <2>3, <2>4, <2>5, <2>6 DEF Next, NodeStep
<1>3. IInv /\ LongWait /\ [Next]_vars
        => [outcome = "none" /\ outcome' = "timeout"
             /\ route = "knowledge" /\ node # "retrieve" => clock = 2]_vars
  <2> SUFFICES ASSUME IInv, LongWait, Next, outcome = "none", outcome' = "timeout",
                      route = "knowledge", node # "retrieve"
               PROVE  clock = 2
    OBVIOUS
  <2>1. CASE Timeout
    BY <2>1 DEF Timeout, LongWait, IInv, TypeOK
  <2>2. CASE ~Timeout
    BY <2>2 DEF Next, NodeStep, Classify, OutOfBudget, Retrieve, Retrieved, EvidenceGate,
       Template, Fallback, Refuse, Persist, Decide, Limited, AppendCall, RunTool,
       AppendResult, Limit, Generate, FixedReply, Answered, Token, Tick, Raise, End, time
  <2> QED
    BY <2>1, <2>2
<1> QED
  BY <1>1, <1>2, <1>3, Inductive, PTL DEF Spec, KnowledgeHasItsTime
=============================================================================
