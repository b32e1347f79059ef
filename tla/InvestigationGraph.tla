------------------------- MODULE InvestigationGraph -------------------------
(***************************************************************************)
(* One run of the formal V2 investigation graph on one round's thread: the *)
(* LangGraph nodes, the bounded wrapper around each of them, the budgets,  *)
(* the retry policy and the routes that connect them.                      *)
(*                                                                         *)
(* A node is one step.  What a node computes from prompts, evidence and    *)
(* provider answers is reduced to the outcomes the routes and the budgets  *)
(* tell apart; each node therefore offers a set of results, and the        *)
(* wrapper settles whichever one happens.                                  *)
(***************************************************************************)
EXTENDS Naturals, FiniteSets

CONSTANTS
  MaxIterations,           \* InvestigationBudget.iteration_limit
  MaxToolCalls,            \* InvestigationBudget.max_tool_calls
  MaxConsecutiveFailures,  \* InvestigationBudget.max_consecutive_failures
  MaxLLMCalls,             \* InvestigationBudget.max_llm_calls
  MaxRetries,              \* InvestigationBudget.max_workflow_retries
  RecursionLimit,          \* DEFAULT_WORKFLOW_RECURSION_LIMIT
  AvailableTools,          \* ToolExecutionDependencies.available_tools
  Faults                   \* what the environment may do to the run

Tools == {"search_knowledge", "query_logs", "query_metrics", "query_traces",
          "get_deployment_history"}
RuntimeTools == Tools \ {"search_knowledge"}

FaultKinds ==
  { "llm",         \* an LLM call fails, times out or returns no JSON
    "invalid",     \* a node raises an error the retry policy does not know
    "planner",     \* the planner fails, or plans something illegal
    "tool",        \* a provider times out or is unavailable
    "refused",     \* a provider rejects the request
    "capability",  \* a provider reports the capability as not configured
    "retrieval",   \* the knowledge search returns a failure
    "late" }       \* the active-execution budget runs out

ASSUME BudgetAssumption ==
  /\ {MaxIterations, MaxToolCalls, MaxConsecutiveFailures, MaxLLMCalls,
      MaxRetries, RecursionLimit} \subseteq Nat \ {0}
  /\ AvailableTools \subseteq Tools
  /\ Faults \subseteq FaultKinds

VARIABLES
  incident,  \* what the deterministic planner reads: environment and symptoms
  state,     \* AgentState
  node,      \* the node the graph runs next, "END", or "raised"
  steps,     \* supersteps of this invocation
  attempts,  \* LLM calls made, the failed ones included
  final      \* the status the round was terminalized with, or "none"

vars == <<incident, state, node, steps, attempts, final>>

Stages == {"intake", "retrieval", "hypothesis_generation",
           "investigation_planning", "tool_execution", "hypothesis_update",
           "evidence_evaluation", "conclusion"}

Decisions == {"none", "CONTINUE", "CONCLUDE", "NEEDS_MANUAL_ACTION"}

FailureReasons == {"repeated_failures", "retry_budget_exhausted", "workflow_failure"}
StopReasons == {"iteration_budget_exhausted", "tool_budget_exhausted",
                "no_further_investigation", "active_execution_budget_exhausted",
                "llm_call_budget_exhausted", "investigation_inconclusive"}
Reasons == {"none", "sufficient_evidence"} \union FailureReasons \union StopReasons

(* The hypotheses, by what conclusion and evaluation ask of them: none yet, *)
(* some still ACTIVE, all settled, or one CONFIRMED and grounded.          *)
Verdicts == {"none", "active", "settled", "confirmed"}

(* probed: the runtime tools in tool_history: none, the only one, or       *)
(* "several".  exhausted: exhausted_tool_capabilities.                     *)
AgentState ==
  [stage : Stages, decision : Decisions, reason : Reasons, failed : BOOLEAN,
   retries : Nat, retrying : BOOLEAN, failures : Nat, rounds : Nat,
   tools : Nat, llm : Nat, pending : Tools \union {"none"},
   probed : RuntimeTools \union {"none", "several"}, exhausted : SUBSET Tools,
   verdict : Verdicts, grounded : BOOLEAN, concluded : BOOLEAN]

InitialState ==
  [stage |-> "intake", decision |-> "none", reason |-> "none", failed |-> FALSE,
   retries |-> 0, retrying |-> FALSE, failures |-> 0, rounds |-> 0,
   tools |-> 0, llm |-> 0, pending |-> "none",
   probed |-> "none", exhausted |-> {},
   verdict |-> "none", grounded |-> FALSE, concluded |-> FALSE]

Nodes == Stages \union {"planning_guard"}
Terminalizations == {"conclusion_terminalization", "inconclusive_terminalization",
                     "failure_terminalization"}
Finals == {"none", "CONCLUDED", "INCONCLUSIVE", "FAILED"}

TypeOK ==
  /\ incident \in [local : BOOLEAN, latency : BOOLEAN]
  /\ state \in AgentState
  /\ node \in Nodes \union Terminalizations \union {"END", "raised"}
  /\ steps \in 0..RecursionLimit
  /\ attempts \in Nat
  /\ final \in Finals

Init ==
  /\ incident \in [local : BOOLEAN, latency : BOOLEAN]
  /\ state = InitialState
  /\ node = "intake"
  /\ steps = 0
  /\ attempts = 0
  /\ final = "none"

-----------------------------------------------------------------------------
(***************************************************************************)
(* What a node may do: return an updated state, or raise; calls counts the *)
(* LLM calls it makes.                                                     *)
(***************************************************************************)
Ran(s, calls) == [raised |-> "no", state |-> s, calls |-> calls]
Raised(kind, calls) == [raised |-> kind, state |-> state, calls |-> calls]

When(fault, results) == IF fault \in Faults THEN results ELSE {}

AtStage(stage, results) == IF state.stage = stage THEN results ELSE {Ran(state, 0)}

Manual(s, reason) ==
  [s EXCEPT !.decision = "NEEDS_MANUAL_ACTION", !.reason = reason]

Failed(s, reason) == [s EXCEPT !.failed = TRUE, !.reason = reason]

Deadline(s) == Manual(s, "active_execution_budget_exhausted")

(* _enforce_llm_budget_node *)
WithLLMBudget(results) ==
  IF state.llm >= MaxLLMCalls
    THEN {Ran(Manual(state, "llm_call_budget_exhausted"), 0)}
    ELSE results

(* A call whose node returns is added to llm_call_count; one whose node    *)
(* raises is not.                                                          *)
Called(s) == Ran([s EXCEPT !.llm = @ + 1], 1)

LLMFaults ==
  When("llm", {Raised("retryable", 1)}) \union When("invalid", {Raised("unexpected", 1)})

(* The active-execution budget: found exhausted on entry, overrun by an    *)
(* LLM call (whose node then returns the state it was given), or found     *)
(* exhausted after the node returned.                                      *)
WithDeadline(r) ==
  {r} \union When("late",
    {Ran(Deadline(state), calls) : calls \in 0..r.calls}
      \union (IF r.raised = "no" THEN {Ran(Deadline(r.state), r.calls)} ELSE {}))

-----------------------------------------------------------------------------
(***************************************************************************)
(* The bounded wrapper: retry_decision, then the state the failed or       *)
(* successful node leaves.                                                 *)
(***************************************************************************)
RetryAllowedOffByOne(nextTools) ==  \* mutant: one retry too many
  /\ state.retries <= MaxRetries
  /\ nextTools < MaxToolCalls
  /\ state.rounds < MaxIterations

RetryAllowedOverBudget(nextTools) ==  \* mutant: the retried call is not budgeted
  state.retries < MaxRetries /\ state.rounds < MaxIterations

(* nextTools: tool_call_count after the failed Tool call; 0 for a node.    *)
RetryAllowed(nextTools) ==
  /\ state.retries < MaxRetries
  /\ nextTools < MaxToolCalls
  /\ state.rounds < MaxIterations

RetriesExhausted == state.retries >= MaxRetries

RetrySucceededOnArrival(name, updated) ==  \* mutant: looks at the stage reached
  /\ state.retrying
  /\ name = updated.stage

(* _v2_retry_succeeded *)
RetrySucceeded(name, updated) ==
  /\ state.retrying
  /\ name = state.stage
  /\ name = "tool_execution" => updated.stage = "hypothesis_update"

Settle(name, r) ==
  CASE r.raised = "no" /\ RetrySucceeded(name, r.state) ->
         [r.state EXCEPT !.retries = 0, !.retrying = FALSE]
    [] r.raised = "no" /\ ~RetrySucceeded(name, r.state) -> r.state
    [] r.raised = "retryable" /\ RetryAllowed(0) ->
         [state EXCEPT !.retries = @ + 1, !.retrying = TRUE]
    [] r.raised = "retryable" /\ RetriesExhausted ->
         Failed(state, "retry_budget_exhausted")
    [] OTHER -> Failed(state, "workflow_failure")

(***************************************************************************)
(* The routes.                                                             *)
(***************************************************************************)
FailureOrManual(s, otherwise) ==
  IF s.failed THEN "failure_terminalization"
  ELSE IF s.decision = "NEEDS_MANUAL_ACTION" THEN "inconclusive_terminalization"
  ELSE otherwise

(* _v2_route *)
NormalRoute(name, s, expected, target) ==
  FailureOrManual(s,
    IF s.retrying THEN name
    ELSE IF s.stage = expected THEN target
    ELSE "END")

RouteAfterPlanning(s) ==
  FailureOrManual(s,
    IF s.retrying /\ s.stage = "investigation_planning" THEN "planning_guard"
    ELSE IF s.stage = "tool_execution" THEN "tool_execution"
    ELSE "END")

RouteAfterToolUnretried(s) ==  \* mutant: a kept pending call is not re-run
  FailureOrManual(s,
    CASE s.stage = "hypothesis_update" -> "hypothesis_update"
      [] s.stage = "investigation_planning" -> "planning_guard"
      [] OTHER -> "END")

RouteAfterTool(s) ==
  FailureOrManual(s,
    CASE s.stage = "tool_execution" /\ s.pending # "none" -> "tool_execution"
      [] s.stage = "hypothesis_update" -> "hypothesis_update"
      [] s.stage = "investigation_planning" -> "planning_guard"
      [] OTHER -> "END")

RouteAfterEvaluation(s) ==
  IF s.failed THEN "failure_terminalization"
  ELSE IF s.retrying /\ s.stage = "evidence_evaluation" THEN "evidence_evaluation"
  ELSE CASE s.decision = "CONCLUDE" -> "conclusion"
         [] s.decision = "CONTINUE" -> "planning_guard"
         [] OTHER -> "inconclusive_terminalization"

RouteAfterConclusionAlways(s) ==  \* mutant: concludes without a conclusion
  IF s.failed THEN "failure_terminalization" ELSE "conclusion_terminalization"

RouteAfterConclusion(s) ==
  IF s.failed THEN "failure_terminalization"
  ELSE IF s.retrying /\ s.stage = "conclusion" THEN "conclusion"
  ELSE IF s.concluded THEN "conclusion_terminalization"
  ELSE "inconclusive_terminalization"

Route(name, s) ==
  CASE name = "intake" -> NormalRoute(name, s, "retrieval", "retrieval")
    [] name = "retrieval" ->
         NormalRoute(name, s, "hypothesis_generation", "hypothesis_generation")
    [] name = "hypothesis_generation" ->
         NormalRoute(name, s, "investigation_planning", "planning_guard")
    [] name = "planning_guard" ->
         NormalRoute(name, s, "investigation_planning", "investigation_planning")
    [] name = "investigation_planning" -> RouteAfterPlanning(s)
    [] name = "tool_execution" -> RouteAfterTool(s)
    [] name = "hypothesis_update" ->
         NormalRoute(name, s, "evidence_evaluation", "evidence_evaluation")
    [] name = "evidence_evaluation" -> RouteAfterEvaluation(s)
    [] name = "conclusion" -> RouteAfterConclusion(s)

RunNode(name, results) ==
  /\ node = name
  /\ steps < RecursionLimit
  /\ \E r \in UNION {WithDeadline(q) : q \in results} :
       /\ state' = Settle(name, r)
       /\ node' = Route(name, Settle(name, r))
       /\ attempts' = attempts + r.calls
  /\ steps' = steps + 1
  /\ UNCHANGED <<incident, final>>

-----------------------------------------------------------------------------
(***************************************************************************)
(* The nodes.                                                              *)
(***************************************************************************)

(* The API schema has already demanded everything intake_node asks for, so *)
(* the incident is READY.                                                  *)
Intake ==
  RunNode("intake", {Ran([state EXCEPT !.stage = "retrieval"], 0)})

(* The first search_knowledge call.  Its failure is recorded like its      *)
(* success; only the stage differs.                                        *)
Retrieval ==
  LET searched == [state EXCEPT !.tools = @ + 1] IN
  RunNode("retrieval", AtStage("retrieval",
    {Ran([searched EXCEPT !.stage = "hypothesis_generation"], 0)}
      \union When("retrieval", {Ran(searched, 0)})
      \union When("invalid", {Raised("unexpected", 0)})))

HypothesisGeneration ==
  RunNode("hypothesis_generation", WithLLMBudget(AtStage("hypothesis_generation",
    {Called([state EXCEPT !.verdict = "active", !.stage = "investigation_planning"])}
      \union LLMFaults)))

(* _v2_planning_guard_node *)
PlanningGuard ==
  RunNode("planning_guard", AtStage("investigation_planning",
    {Ran(IF state.failures >= MaxConsecutiveFailures
           THEN Failed(state, "repeated_failures")
         ELSE IF state.rounds >= MaxIterations
           THEN Manual(state, "iteration_budget_exhausted")
         ELSE IF state.tools >= MaxToolCalls
           THEN Manual(state, "tool_budget_exhausted")
         ELSE state, 0)}))

RemainingTools == AvailableTools \ state.exhausted

FirstOf(t, u, v) ==
  CASE t \in RemainingTools -> t
    [] t \notin RemainingTools /\ u \in RemainingTools -> u
    [] t \notin RemainingTools /\ u \notin RemainingTools /\ v \in RemainingTools -> v
    [] OTHER -> "none"

(* deterministic_initial_evidence_plan: at most two complementary probes   *)
(* before the LLM planner is asked.                                        *)
InitialProbe ==
  CASE ~incident.local \/ state.probed \in {"several", "get_deployment_history"} -> "none"
    [] incident.local /\ state.probed = "none" ->
         IF incident.latency
           THEN FirstOf("query_traces", "query_metrics", "query_logs")
           ELSE FirstOf("query_logs", "query_metrics", "query_metrics")
    [] incident.local /\ state.probed = "query_traces" ->
         FirstOf("query_metrics", "query_logs", "query_logs")
    [] incident.local /\ state.probed = "query_logs" ->
         FirstOf("get_deployment_history", "query_metrics", "query_metrics")
    [] incident.local /\ state.probed = "query_metrics" ->
         FirstOf("query_logs", "query_logs", "query_logs")

Planned(tool) == [state EXCEPT !.pending = tool, !.stage = "tool_execution"]

(* The LLM planner: a legal next call, an exact repeat of a successful one *)
(* (the first knowledge search always is one), or a failure.               *)
RepeatPossible == "search_knowledge" \in RemainingTools \/ state.grounded

PlannerResults ==
  {Called(Planned(tool)) : tool \in RemainingTools}
    \union (IF RepeatPossible
              THEN {Called(Manual(state, "no_further_investigation"))} ELSE {})
    \union When("planner", {Raised("retryable", 1)})

InvestigationPlanning ==
  RunNode("investigation_planning", AtStage("investigation_planning",
    IF RemainingTools = {} THEN {Ran(Manual(state, "no_further_investigation"), 0)}
    ELSE IF InitialProbe # "none" THEN {Ran(Planned(InitialProbe), 0)}
    ELSE WithLLMBudget(PlannerResults)))

(* _should_collect_complementary_initial_probe, after a success recorded   *)
(* as the second entry of tool_history.                                    *)
Complementary(tool) ==
  /\ state.tools = 1
  /\ \/ tool = "query_traces" /\ {"query_metrics", "query_logs"} \intersect AvailableTools # {}
     \/ tool = "query_logs"
          /\ {"get_deployment_history", "query_metrics"} \intersect AvailableTools # {}
     \/ tool = "query_metrics" /\ "query_logs" \in AvailableTools

ProbedByAny(tool) ==  \* mutant: the knowledge search counts as a probe
  IF state.probed = "none" THEN tool ELSE "several"

Probed(tool) ==
  IF tool = "search_knowledge" THEN state.probed
  ELSE IF state.probed = "none" THEN tool
  ELSE "several"

RecordedUncounted(tool) == [state EXCEPT !.probed = Probed(tool)]  \* mutant

Recorded(tool) == [state EXCEPT !.tools = @ + 1, !.probed = Probed(tool)]

ToolSucceeded(tool) ==
  [Recorded(tool) EXCEPT
     !.failures = 0, !.retries = 0, !.retrying = FALSE, !.pending = "none",
     !.exhausted = @ \ {tool},
     !.grounded = @ \/ tool \in RuntimeTools,
     !.stage = IF Complementary(tool) THEN "investigation_planning"
                                      ELSE "hypothesis_update"]

(* A failure that is not retried sends the run back to the planner.        *)
ToolDropped(tool) ==
  [Recorded(tool) EXCEPT !.pending = "none", !.stage = "investigation_planning"]

(* _tool_failure_state for an execution failure.                           *)
ToolFailed(tool) ==
  LET counted == [ToolDropped(tool) EXCEPT !.failures = @ + 1] IN
  IF counted.failures >= MaxConsecutiveFailures
    THEN Failed(counted, "repeated_failures")
  ELSE IF RetryAllowed(state.tools + 1)
    THEN [counted EXCEPT !.retries = @ + 1, !.retrying = TRUE,
                         !.pending = tool, !.stage = "tool_execution"]
  ELSE IF RetriesExhausted
    THEN Failed([counted EXCEPT !.retrying = FALSE], "retry_budget_exhausted")
  ELSE counted

(* A runtime fact that is too large for EvidenceContext raises, and the    *)
(* call that brought it is not recorded.                                   *)
Oversized(tool) ==
  IF tool \in RuntimeTools THEN When("invalid", {Raised("unexpected", 0)}) ELSE {}

ToolExecution ==
  LET tool == state.pending IN
  RunNode("tool_execution", AtStage("tool_execution",
    {Ran(ToolSucceeded(tool), 0)}
      \union When("tool", {Ran(ToolFailed(tool), 0)})
      \union When("refused", {Ran(ToolDropped(tool), 0)})
      \union When("capability",
           {Ran([ToolDropped(tool) EXCEPT !.exhausted = @ \union {tool}], 0)})
      \union Oversized(tool)))

(* A hypothesis is CONFIRMED only on runtime evidence of this round.       *)
HypothesisUpdate ==
  RunNode("hypothesis_update", WithLLMBudget(AtStage("hypothesis_update",
    {Called([state EXCEPT !.verdict = v, !.rounds = @ + 1,
                          !.stage = "evidence_evaluation"]) :
       v \in {"active", "settled"} \union (IF state.grounded THEN {"confirmed"} ELSE {})}
      \union LLMFaults)))

Continued == [state EXCEPT !.decision = "CONTINUE", !.stage = "investigation_planning"]

(* A grounded conclusion and an ACTIVE hypothesis each decide without the  *)
(* LLM; an LLM that answers CONCLUDE without a grounded hypothesis raises. *)
EvidenceEvaluation ==
  RunNode("evidence_evaluation", AtStage("evidence_evaluation",
    IF state.verdict = "confirmed"
      THEN {Ran([state EXCEPT !.decision = "CONCLUDE", !.reason = "none"], 0)}
    ELSE IF state.verdict = "active" THEN {Ran(Continued, 0)}
    ELSE WithLLMBudget(
      {Called(Continued), Called(Manual(state, "investigation_inconclusive"))}
        \union LLMFaults)))

Conclusion ==
  RunNode("conclusion",
    {Ran(IF state.decision # "CONCLUDE" THEN state
         ELSE IF state.verdict # "confirmed"
           THEN Manual(state, "investigation_inconclusive")
         ELSE [state EXCEPT !.concluded = TRUE, !.stage = "conclusion",
                            !.reason = "sufficient_evidence"], 0)})

(* The terminalization nodes are not wrapped: no budget stops them.        *)
Terminalize ==
  /\ node \in Terminalizations
  /\ steps < RecursionLimit
  /\ final' = CASE node = "conclusion_terminalization" -> "CONCLUDED"
                [] node = "inconclusive_terminalization" -> "INCONCLUSIVE"
                [] node = "failure_terminalization" -> "FAILED"
  /\ state' = [state EXCEPT !.stage = "conclusion"]
  /\ node' = "END"
  /\ steps' = steps + 1
  /\ UNCHANGED <<incident, attempts>>

(* LangGraph raises when nodes are left after RecursionLimit supersteps.   *)
ExceedRecursion ==
  /\ node \notin {"END", "raised"}
  /\ steps = RecursionLimit
  /\ node' = "raised"
  /\ UNCHANGED <<incident, state, steps, attempts, final>>

Finished ==
  /\ node \in {"END", "raised"}
  /\ UNCHANGED vars

NodeStep ==
  \/ Intake
  \/ Retrieval
  \/ HypothesisGeneration
  \/ PlanningGuard
  \/ InvestigationPlanning
  \/ ToolExecution
  \/ HypothesisUpdate
  \/ EvidenceEvaluation
  \/ Conclusion
  \/ Terminalize
  \/ ExceedRecursion

Next == NodeStep \/ Finished

Spec     == Init /\ [][Next]_vars
FairSpec == Spec /\ WF_vars(NodeStep)

-----------------------------------------------------------------------------
(***************************************************************************)
(* Properties.                                                             *)
(***************************************************************************)

(* No path through the graph spends more than a budget allows, although    *)
(* only the planning guard checks the iteration and Tool budgets and the   *)
(* retries and the complementary probe bypass it.                          *)
BudgetsHold ==
  /\ state.rounds <= MaxIterations
  /\ state.tools <= MaxToolCalls
  /\ state.llm <= MaxLLMCalls
  /\ state.retries <= MaxRetries
  /\ state.failures <= MaxConsecutiveFailures

(* Failed LLM calls are not added to llm_call_count; the retry budget      *)
(* still bounds all the calls one run makes.                               *)
AttemptsBounded == attempts <= MaxLLMCalls * (MaxRetries + 1)

(* The status a round ends with and the facts it ends on agree: CONCLUDED  *)
(* only on a confirmed hypothesis with runtime evidence, FAILED only on a  *)
(* recorded failure (whose reason the deadline may overwrite),             *)
(* INCONCLUSIVE only for a stated stop reason.                             *)
FinalStatusJustified ==
  /\ final = "CONCLUDED" =>
       /\ state.concluded /\ state.grounded /\ state.verdict = "confirmed"
       /\ ~state.failed
  /\ final = "FAILED" =>
       /\ state.failed
       /\ state.reason \in FailureReasons \union {"active_execution_budget_exhausted"}
  /\ final = "INCONCLUSIVE" => ~state.failed /\ state.reason \in StopReasons

(* A hypothesis pass is paid for by evidence: every completed round has a  *)
(* Tool call of its own, and the knowledge search is not one.              *)
RoundsNeedTools == state.rounds = 0 \/ state.rounds < state.tools

(* The two dead ends of the routes: retrieval failed, or a retry waits for *)
(* the planning guard.                                                     *)
DeadEnd ==
  \/ node = "END" /\ state.stage = "retrieval"
  \/ node = "planning_guard" /\ state.retrying

(* Whatever LLM and provider failures it meets, a run reaches a            *)
(* terminalization node within the recursion limit, or one of the two dead *)
(* ends above.                                                             *)
RunTerminalizes == <>(final # "none" \/ DeadEnd)

(* A planner failure that is to be retried is retried, or ends the run.    *)
PlannerRetryProceeds ==
  (node = "planning_guard" /\ state.retrying)
    ~> (node \in {"investigation_planning", "END"})
=============================================================================
