------------------------------- MODULE TurnGraph -------------------------------
(***************************************************************************)
(* The graph that answers one turn: the fixed outer workflow (build_nodes, *)
(* build_workflow), the agent subgraph (build_agent_graph) with its tool   *)
(* loop, the turn's model budget (RequestBudget) and its deadline, which   *)
(* classification may extend while the service is already waiting for the  *)
(* next event under the old one.  WorkflowTurn sees all of this as `Work'. *)
(***************************************************************************)
EXTENDS Naturals

CONSTANTS
  MaxDecisions, \* Settings.agent_max_decisions
  MaxTools,     \* Settings.agent_max_tool_calls
  Budget,       \* Settings.turn_model_budget
  Costs         \* what a model request may reserve: input estimate plus output

ASSUME LimitsAssumption ==
  /\ MaxDecisions \in Nat \ {0}
  /\ MaxTools \in Nat \ {0}
  /\ Budget \in Nat
  /\ Costs \subseteq Nat \ {0}

VARIABLES
  node,       \* the node about to run, or the await a node is at
  route,      \* route_intent of the classified intent
  evidence,   \* what the evidence gate found
  mode,       \* agent_mode
  decisions,  \* decision_count
  tools,      \* tool_count
  limited,    \* budget_exhausted
  spent,      \* RequestBudget._reserved
  calls,      \* MySQL: tool calls of the turn
  results,    \* MySQL: tool results of the turn
  pooled,     \* MySQL: the question is in low_confidence_questions
  finals,     \* final generations requested
  sent,       \* kinds of answer text the client has been sent
  clock,      \* 0, then 1 after request_timeout, 2 after the knowledge timeout
  deadline,   \* TurnRuntime.deadline, in those units
  waiting,    \* the deadline under which the service awaits the next event
  outcome     \* how the graph run ended

request == <<route, evidence, mode>>
counts == <<decisions, tools, limited, spent, finals>>
stores == <<calls, results, pooled>>
time == <<clock, deadline, waiting>>
vars == <<node, route, evidence, mode, decisions, tools, limited, spent, calls,
          results, pooled, finals, sent, clock, deadline, waiting, outcome>>

Outer == {"classify", "retrieve", "retrieving", "evidence_gate", "workflow_answer",
          "fallback", "recorded", "complaint", "chitchat", "refused", "persist"}
Agent == {"decide", "call", "tool", "result", "limit", "final", "stream"}
Nodes == Outer \union Agent \union {"end"}

TypeOK ==
  /\ node \in Nodes
  /\ route \in {"none", "business", "knowledge", "complaint", "chitchat"}
  /\ evidence \in {"none", "sufficient", "insufficient"}
  /\ mode \in {"none", "tools", "generate_only"}
  /\ decisions \in 0..MaxDecisions
  /\ tools \in 0..MaxTools
  /\ limited \in BOOLEAN
  /\ spent \in 0..Budget
  /\ calls \in Nat
  /\ results \in Nat
  /\ pooled \in BOOLEAN
  /\ finals \in Nat
  /\ sent \subseteq {"tokens", "template", "fixed", "refusal"}
  /\ clock \in 0..2
  /\ deadline \in 1..2
  /\ waiting \in 1..2
  /\ outcome \in {"none", "completed", "error", "timeout"}

Init ==
  /\ node = "classify"
  /\ route = "none"
  /\ evidence = "none"
  /\ mode = "none"
  /\ decisions = 0
  /\ tools = 0
  /\ limited = FALSE
  /\ spent = 0
  /\ calls = 0
  /\ results = 0
  /\ pooled = FALSE
  /\ finals = 0
  /\ sent = {}
  /\ clock = 0
  /\ deadline = 1
  /\ waiting = 1
  /\ outcome = "none"

-----------------------------------------------------------------------------
Expired == clock >= deadline
Send(kind) == sent' = sent \union {kind}

\* The consumer takes an event and awaits the next one under the deadline of
\* that moment.
Await == waiting' = deadline

\* RequestBudget.reserve: what is reserved is never refunded.
Reserve(k) == spent + k <= Budget /\ spent' = spent + k
Exhausted(k) == spent + k > Budget

\* A model request at this point has cost k, whatever becomes of it.
Affordable == \E k \in Costs : Reserve(k)
Unaffordable == \E k \in Costs : Exhausted(k)

End(how) ==
  /\ node' = "end"
  /\ outcome' = how

-----------------------------------------------------------------------------
(* The outer workflow. *)

\* classify, with route_intent: the knowledge route extends the deadline.
Classify ==
  /\ node = "classify"
  /\ ~Expired
  /\ Affordable
  /\ \/ /\ route' = "knowledge"
        /\ deadline' = 2
        /\ mode' = "none"
        /\ node' = "retrieve"
     \/ /\ route' = "business"
        /\ mode' = "tools"
        /\ node' = "decide"
        /\ UNCHANGED deadline
     \/ /\ route' \in {"complaint", "chitchat"}
        /\ mode' = "none"
        /\ node' = route'
        /\ UNCHANGED deadline
  /\ UNCHANGED <<evidence, decisions, tools, limited, finals, stores, sent,
                 clock, waiting, outcome>>

\* TURN_BUDGET_EXHAUSTED in classify, retrieve or evidence_gate.
OutOfBudget ==
  /\ node \in {"classify", "retrieving", "evidence_gate"}
  /\ Unaffordable
  /\ limited' = TRUE
  /\ node' = "refused"
  /\ UNCHANGED <<request, decisions, tools, spent, finals, stores, sent, time, outcome>>

\* Mutant: the service keeps the deadline it was called with.
RetrieveUnseen ==
  /\ node = "retrieve"
  /\ node' = "retrieving"
  /\ UNCHANGED <<request, counts, stores, sent, time, outcome>>
\* The first status event of retrieve.
Retrieve ==
  /\ node = "retrieve"
  /\ Await
  /\ node' = "retrieving"
  /\ UNCHANGED <<request, counts, stores, sent, clock, deadline, outcome>>

\* The normalized query, or the original one when the gateway fails before or
\* after its reservation; then one retrieval.
Retrieved ==
  /\ node = "retrieving"
  /\ ~Expired
  /\ Affordable \/ UNCHANGED spent
  /\ node' = "evidence_gate"
  /\ UNCHANGED <<request, decisions, tools, limited, finals, stores, sent, time, outcome>>

\* Mutant: the band alone chooses the target.
TargetByBand(band, business, sufficient) ==
  CASE business \/ band = "middle" -> "agent_tools"
    [] band = "high" -> "workflow_answer"
    [] OTHER -> "agent_generate"

\* knowledge_target
Target(band, business, sufficient) ==
  CASE ~sufficient -> "fallback"
    [] sufficient /\ (business \/ band = "middle") -> "agent_tools"
    [] sufficient /\ ~business /\ band = "high" -> "workflow_answer"
    [] OTHER -> "agent_generate"

\* evidence_gate: without usable candidates no model is asked.
EvidenceGate ==
  /\ node = "evidence_gate"
  /\ \E band \in {"low", "middle", "high"}, business, sufficient \in BOOLEAN :
       LET target == Target(band, business, sufficient) IN
       /\ \/ ~Expired /\ Affordable
          \/ ~sufficient /\ UNCHANGED spent
       /\ evidence' = IF sufficient THEN "sufficient" ELSE "insufficient"
       /\ mode' = CASE target = "agent_tools" -> "tools"
                    [] target = "agent_generate" -> "generate_only"
                    [] OTHER -> "none"
       /\ node' = CASE target = "agent_tools" -> "decide"
                    [] target = "agent_generate" -> "final"
                    [] OTHER -> target
  /\ Await
  /\ UNCHANGED <<route, decisions, tools, limited, finals, stores, sent,
                 clock, deadline, outcome>>

\* The verified source text, or the fixed reply of a route.
Template ==
  /\ \/ node \in {"workflow_answer", "complaint", "chitchat"} /\ Send("template")
     \/ node = "refused" /\ Send("fixed")
  /\ Await
  /\ node' = "persist"
  /\ UNCHANGED <<request, counts, stores, clock, deadline, outcome>>

\* fallback records the question before it refuses.
Fallback ==
  /\ node = "fallback"
  /\ ~Expired
  /\ pooled' = TRUE
  /\ node' = "recorded"
  /\ UNCHANGED <<request, counts, calls, results, sent, time, outcome>>

Refuse ==
  /\ node = "recorded"
  /\ Send("refusal")
  /\ Await
  /\ node' = "persist"
  /\ UNCHANGED <<request, counts, stores, clock, deadline, outcome>>

\* The turn is closed in MySQL, which runs under the deadline too.
Persist ==
  /\ node = "persist"
  /\ ~Expired
  /\ End("completed")
  /\ UNCHANGED <<request, counts, stores, sent, time>>

-----------------------------------------------------------------------------
(* The agent subgraph. *)

\* Mutant: one tool beyond its limit.
DecideOneMore ==
  /\ node = "decide"
  /\ ~Expired /\ decisions < MaxDecisions
  /\ Affordable
  /\ decisions' = decisions + 1
  /\ node' \in {"final", IF tools > MaxTools THEN "limit" ELSE "call"}
  /\ UNCHANGED <<request, tools, limited, finals, stores, sent, time, outcome>>

\* decide and after_decision: settle the control, propose one tool, or find
\* that no tool call is left.
Decide ==
  /\ node = "decide"
  /\ ~Expired /\ decisions < MaxDecisions
  /\ Affordable
  /\ decisions' = decisions + 1
  /\ node' \in {"final", IF tools >= MaxTools THEN "limit" ELSE "call"}
  /\ UNCHANGED <<request, tools, limited, finals, stores, sent, time, outcome>>

\* decide or execute_tools meets a limit: the deadline, the number of
\* decisions, the budget or the token window (after a reservation or before).
Limited ==
  /\ \/ node = "decide"
     \/ node = "call" /\ Expired
  /\ limited' = TRUE
  /\ \/ UNCHANGED spent
     \/ node = "decide" /\ decisions < MaxDecisions /\ Affordable
  /\ node' = "limit"
  /\ UNCHANGED <<request, decisions, tools, finals, stores, sent, time, outcome>>

\* append_call: the audit knows of the call before the tool runs.
AppendCall ==
  /\ node = "call"
  /\ ~Expired
  /\ calls' = calls + 1
  /\ node' = "tool"
  /\ UNCHANGED <<request, counts, results, pooled, sent, time, outcome>>

\* ToolExecutor.run is exhausted; its progress is shown.
RunTool ==
  /\ node = "tool"
  /\ ~Expired
  /\ Await
  /\ node' = "result"
  /\ UNCHANGED <<request, counts, stores, sent, clock, deadline, outcome>>

\* Mutant: the next decision does not wait for the audit of the result.
AppendResultLater ==
  /\ node = "result"
  /\ ~Expired
  /\ results' \in {results, results + 1}
  /\ tools' = tools + 1
  /\ node' = "decide"
  /\ UNCHANGED <<request, decisions, limited, spent, finals, calls, pooled, sent,
                 time, outcome>>

\* append_result: the audit has the result before the model sees it.
AppendResult ==
  /\ node = "result"
  /\ ~Expired
  /\ results' = results + 1
  /\ tools' = tools + 1
  /\ Await
  /\ node' = "decide"
  /\ UNCHANGED <<request, decisions, limited, spent, finals, calls, pooled, sent,
                 clock, deadline, outcome>>

\* The agent's budget_reply: no more calls, one answer from what is known.
Limit ==
  /\ node = "limit"
  /\ limited' = TRUE
  /\ node' = "final"
  /\ UNCHANGED <<request, decisions, tools, spent, finals, stores, sent, time, outcome>>

\* final opens the stream of the answer ...
Generate ==
  /\ node = "final"
  /\ ~Expired
  /\ Affordable
  /\ finals' = finals + 1
  /\ node' = "stream"
  /\ UNCHANGED <<request, decisions, tools, limited, stores, sent, time, outcome>>

\* ... or answers with the fixed reply: no time, no budget or no room is left.
FixedReply ==
  /\ node = "final"
  /\ limited' = TRUE
  /\ Send("fixed")
  /\ Await
  /\ node' = "persist"
  /\ UNCHANGED <<request, decisions, tools, spent, finals, stores, clock, deadline,
                 outcome>>

Token ==
  /\ node = "stream"
  /\ ~Expired
  /\ Send("tokens")
  /\ Await
  /\ UNCHANGED <<node, request, counts, stores, clock, deadline, outcome>>

\* A complete stream with valid citations.
Answered ==
  /\ node = "stream"
  /\ "tokens" \in sent
  /\ node' = "persist"
  /\ UNCHANGED <<request, counts, stores, sent, time, outcome>>

-----------------------------------------------------------------------------
(* Time and failures. *)

Tick ==
  /\ node # "end"
  /\ clock < 2
  /\ clock' = clock + 1
  /\ UNCHANGED <<node, request, counts, stores, sent, deadline, waiting, outcome>>

\* The row a node was writing may be committed although it ends otherwise.
MayHaveWritten ==
  \/ node = "call" /\ calls' = calls + 1 /\ UNCHANGED <<results, pooled>>
  \/ node = "result" /\ results' = results + 1 /\ UNCHANGED <<calls, pooled>>
  \/ node = "fallback" /\ pooled' = TRUE /\ UNCHANGED <<calls, results>>
  \/ UNCHANGED stores

\* The service's wait for the next event, or an await inside a node, passes
\* its deadline.
Timeout ==
  /\ node # "end"
  /\ clock >= waiting
  /\ MayHaveWritten
  /\ End("timeout")
  /\ UNCHANGED <<request, counts, sent, time>>

\* A model, a tool protocol, a store or a citation fails.
Raise ==
  /\ node # "end"
  /\ MayHaveWritten
  /\ End("error")
  /\ UNCHANGED <<request, counts, sent, time>>

NodeStep ==
  \/ Classify \/ OutOfBudget \/ Retrieve \/ Retrieved \/ EvidenceGate \/ Template
  \/ Fallback \/ Refuse \/ Persist
  \/ Decide \/ Limited \/ AppendCall \/ RunTool \/ AppendResult \/ Limit
  \/ Generate \/ FixedReply \/ Answered

Next == NodeStep \/ Token \/ Tick \/ Timeout \/ Raise

Spec == Init /\ [][Next]_vars

\* A node that can go on does so, unless it fails or times out; a stream of
\* tokens ends, and time passes.
Fairness ==
  /\ WF_vars(NodeStep \/ Timeout \/ Raise)
  /\ WF_vars(Tick)
FairSpec == Spec /\ Fairness

-----------------------------------------------------------------------------
(* Properties *)

\* One turn never runs more tools, asks for more decisions, reserves more
\* budget or generates more answers than it is allowed, whatever the model
\* keeps proposing; a turn that may only generate runs no tool.
Limits ==
  /\ decisions <= MaxDecisions
  /\ calls <= MaxTools
  /\ spent <= Budget
  /\ finals <= 1
  /\ mode = "generate_only" => decisions = 0 /\ calls = 0

\* The model never sees, and a completed turn never contains, a tool call or a
\* result that the audit does not have: each is committed before the next step.
AuditKeepsPace ==
  node \in Nodes \ {"tool", "result", "end"} \/ outcome = "completed" =>
    calls = tools /\ results = tools

\* A client is sent one kind of answer: never a fixed reply on top of
\* generated text, and no generated text after a refusal.
OneAnswer == \A a, b \in sent : a = b

\* A knowledge question is answered only when the evidence was found to be
\* sufficient, is refused only after it was recorded, and is recorded only
\* when the evidence was not sufficient (a technical failure is no gap).
EvidenceFirst ==
  /\ route = "knowledge" /\ sent \intersect {"tokens", "template"} # {} =>
       evidence = "sufficient"
  /\ "refusal" \in sent => pooled
  /\ pooled => evidence = "insufficient"

\* A client is sent one kind of answer, and for a knowledge question the one
\* its evidence allows (routing.py, nodes.py).
AnswerFollowsEvidence == OneAnswer /\ EvidenceFirst

\* Every turn ends, whatever the model proposes.
Ends == <>(node = "end")

\* A knowledge question that times out has had the knowledge timeout, unless
\* it never came to retrieve's first event: classify extends the deadline while
\* the service is already waiting under the old one, and takes it up only there.
KnowledgeHasItsTime ==
  [][outcome = "none" /\ outcome' = "timeout"
       /\ route = "knowledge" /\ node # "retrieve" => clock = 2]_vars

\* Every turn ends, and a knowledge question that is cut off had its time.
EndsInTime == Ends /\ KnowledgeHasItsTime
=============================================================================
