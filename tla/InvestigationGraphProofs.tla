----------------------- MODULE InvestigationGraphProofs -----------------------
(***************************************************************************)
(* Proofs about InvestigationGraph, for every budget, every set of Tools   *)
(* and every set of faults.                                                *)
(*                                                                         *)
(* The invariants are not inductive: that a Tool call fits its budget is   *)
(* known at planning_guard and spent two nodes later, and that a final     *)
(* status is justified is decided by the route to its terminalization      *)
(* node.  The inductive invariant therefore says what holds of a state in  *)
(* general (Clean) and of a state on its way into each node (AtNode).      *)
(***************************************************************************)
EXTENDS InvestigationGraph, TLAPS

RecordedReasons == FailureReasons \union {"active_execution_budget_exhausted"}

Clean(s) ==
  /\ s \in AgentState
  /\ s.rounds <= MaxIterations
  /\ s.tools <= MaxToolCalls
  /\ s.llm <= MaxLLMCalls
  /\ s.retries <= MaxRetries
  /\ s.failures <= MaxConsecutiveFailures
  /\ s.rounds = 0 \/ s.rounds < s.tools
  /\ s.verdict = "confirmed" => s.grounded
  /\ s.concluded => s.verdict = "confirmed"
  /\ s.failed => s.reason \in RecordedReasons
  /\ s.decision = "NEEDS_MANUAL_ACTION" /\ ~s.failed => s.reason \in StopReasons

Underway(n, s) ==
  /\ ~s.failed
  /\ ~s.concluded
  /\ s.decision # "NEEDS_MANUAL_ACTION"
  /\ n \notin {"planning_guard", "conclusion"} => s.stage = n
  /\ n = "planning_guard" => s.stage = "investigation_planning"
  /\ n = "conclusion" =>
       s.decision = "CONCLUDE" /\ s.verdict = "confirmed" /\ ~s.retrying
  /\ n \in {"intake", "retrieval"} => s.rounds = 0 /\ s.tools = 0 /\ ~s.retrying
  /\ n \in {"investigation_planning", "tool_execution"} =>
       /\ s.tools < MaxToolCalls
       /\ s.failures < MaxConsecutiveFailures
  /\ n \in {"investigation_planning", "tool_execution", "hypothesis_update"} =>
       s.rounds < MaxIterations
  /\ n = "tool_execution" => s.pending \in Tools
  /\ n = "hypothesis_update" => s.rounds + 1 < s.tools
  /\ n \notin {"intake", "retrieval"} => s.rounds < s.tools

AtNode(n, s) ==
  /\ n \in Nodes => Underway(n, s)
  /\ n = "conclusion_terminalization" => s.concluded /\ ~s.failed
  /\ n = "inconclusive_terminalization" =>
       ~s.failed /\ s.decision = "NEEDS_MANUAL_ACTION"
  /\ n = "failure_terminalization" => s.failed

Sound(n, s) == Clean(s) /\ AtNode(n, s)

IInv ==
  /\ TypeOK
  /\ Sound(node, state)
  /\ FinalStatusJustified
  /\ final # "none" => node = "END"

-----------------------------------------------------------------------------
(***************************************************************************)
(* The bounded wrapper and the routes, whatever the node.                  *)
(***************************************************************************)

(* A step of a node settles one of its results, or a deadline on top of    *)
(* the state it was given or of the state it returned.                     *)
LEMMA NodeOutcome ==
  ASSUME NEW name \in Nodes, NEW results, RunNode(name, results)
  PROVE  /\ node = name
         /\ \E q \in results : \E r :
              /\ state' = Settle(name, r)
              /\ node' = Route(name, state')
              /\ \/ r = q
                 \/ \E c : r = Ran(Deadline(state), c)
                 \/ q.raised = "no" /\ \E c : r = Ran(Deadline(q.state), c)
<1>1. PICK r \in UNION {WithDeadline(q) : q \in results} :
        state' = Settle(name, r) /\ node' = Route(name, Settle(name, r))
  BY DEF RunNode
<1>2. PICK q \in results : r \in WithDeadline(q)
  BY <1>1
<1>3. \/ r = q
      \/ \E c : r = Ran(Deadline(state), c)
      \/ q.raised = "no" /\ \E c : r = Ran(Deadline(q.state), c)
  BY <1>2 DEF WithDeadline, When
<1> QED
  BY <1>1, <1>2, <1>3 DEF RunNode

(* A result that is returned is kept, but for a retry chain it ends.       *)
LEMMA SettleReturned ==
  ASSUME NEW name, NEW s, NEW c
  PROVE  Settle(name, Ran(s, c)) =
           IF RetrySucceeded(name, s)
             THEN [s EXCEPT !.retries = 0, !.retrying = FALSE]
             ELSE s
BY DEF Settle, Ran

(* Ending a retry chain disturbs nothing else.                             *)
LEMMA SettledClean ==
  ASSUME NEW name, NEW s, NEW c, Clean(s)
  PROVE  /\ Clean(Settle(name, Ran(s, c)))
         /\ \/ Settle(name, Ran(s, c)) = s
            \/ Settle(name, Ran(s, c)) = [s EXCEPT !.retries = 0, !.retrying = FALSE]
<1>1. CASE RetrySucceeded(name, s)
  <2>1. Settle(name, Ran(s, c)) = [s EXCEPT !.retries = 0, !.retrying = FALSE]
    BY <1>1, SettleReturned
  <2>2. Clean([s EXCEPT !.retries = 0, !.retrying = FALSE])
    <3> DEFINE t == [s EXCEPT !.retries = 0, !.retrying = FALSE]
    <3>1. t \in AgentState
      BY DEF Clean, AgentState
    <3>2. 0 <= MaxRetries
      BY BudgetAssumption DEF BudgetAssumption
    <3> QED
      BY <3>1, <3>2 DEF Clean, AgentState
  <2> QED
    BY <2>1, <2>2
<1>2. CASE ~RetrySucceeded(name, s)
  <2>1. Settle(name, Ran(s, c)) = s
    BY <1>2, SettleReturned
  <2> QED
    BY <2>1
<1> QED
  BY <1>1, <1>2

(* Whatever state a node stops on, the run goes to a terminalization node  *)
(* that the state justifies.                                               *)
LEMMA ManualStep ==
  ASSUME NEW name \in Nodes, NEW s, NEW c, NEW reason \in StopReasons,
         Clean(s), Sound(name, state), s.failed => reason \in RecordedReasons,
         name # "tool_execution" => s.retrying = state.retrying,
         s.concluded => name = "conclusion"
  PROVE  Sound(Route(name, Settle(name, Ran(Manual(s, reason), c))),
               Settle(name, Ran(Manual(s, reason), c)))
<1> DEFINE d == Manual(s, reason)
           t == Settle(name, Ran(d, c))
<1>1. /\ d \in AgentState
      /\ d = [s EXCEPT !.decision = "NEEDS_MANUAL_ACTION",
                       !.reason = reason]
  BY DEF Clean, Manual, AgentState, Reasons, StopReasons, Decisions
<1>2. Clean(d)
  BY <1>1 DEF Clean, AgentState, RecordedReasons, StopReasons
<1>3. Clean(t)
  BY <1>2, SettledClean
<1>4. t = d \/ t = [d EXCEPT !.retries = 0, !.retrying = FALSE]
  BY <1>2, SettledClean
<1>5. /\ t.decision = "NEEDS_MANUAL_ACTION"
      /\ t.failed = s.failed
      /\ t.concluded = s.concluded
      /\ t.stage = s.stage
  <2>1. /\ d.decision = "NEEDS_MANUAL_ACTION"
        /\ d.failed = s.failed
        /\ d.concluded = s.concluded
        /\ d.stage = s.stage
    BY <1>1 DEF Clean, AgentState
  <2>2. CASE t = d
    BY <2>1, <2>2
  <2>3. CASE t = [d EXCEPT !.retries = 0, !.retrying = FALSE]
    BY <2>1, <2>3, <1>1 DEF AgentState
  <2> HIDE DEF t
  <2> QED
    BY <2>2, <2>3, <1>4
<1>6. CASE name = "evidence_evaluation"
  <2>1. ~t.retrying
    <3>1. CASE state.retrying
      <4>1. RetrySucceeded(name, d)
        BY <1>6, <3>1 DEF RetrySucceeded, Sound, AtNode, Underway, Nodes, Stages
      <4>2. t = [d EXCEPT !.retries = 0, !.retrying = FALSE]
        BY <4>1, SettleReturned
      <4> QED
        BY <4>2, <1>1 DEF AgentState
    <3>2. CASE ~state.retrying
      <4>1. ~RetrySucceeded(name, d)
        BY <3>2 DEF RetrySucceeded
      <4>2. t = d
        BY <4>1, SettleReturned
      <4> QED
        BY <4>2, <1>1, <3>2, <1>6 DEF AgentState, Clean
    <3> QED
      BY <3>1, <3>2
  <2>2. Route(name, t) = IF t.failed THEN "failure_terminalization"
                                     ELSE "inconclusive_terminalization"
    BY <1>5, <1>6, <2>1 DEF Route, RouteAfterEvaluation
  <2> QED
    BY <1>3, <1>5, <2>2 DEF Sound, AtNode, Nodes, Stages
<1>7. CASE name = "conclusion"
  <2>1. ~t.retrying
    <3>1. ~state.retrying
      BY <1>7 DEF Sound, AtNode, Underway, Nodes, Stages
    <3>2. ~RetrySucceeded(name, d)
      BY <3>1 DEF RetrySucceeded
    <3>3. t = d
      BY <3>2, SettleReturned
    <3> QED
      BY <3>1, <3>3, <1>1, <1>7 DEF AgentState, Clean
  <2>2. Route(name, t) = IF t.failed THEN "failure_terminalization"
                         ELSE IF t.concluded THEN "conclusion_terminalization"
                         ELSE "inconclusive_terminalization"
    BY <1>5, <1>7, <2>1 DEF Route, RouteAfterConclusion
  <2> QED
    BY <1>3, <1>5, <2>2 DEF Sound, AtNode, Nodes, Stages
<1>8. CASE name \notin {"evidence_evaluation", "conclusion"}
  <2>1. Route(name, t) = IF t.failed THEN "failure_terminalization"
                                     ELSE "inconclusive_terminalization"
    BY <1>5, <1>8 DEF Route, NormalRoute, RouteAfterPlanning, RouteAfterTool,
                      FailureOrManual, Nodes, Stages
  <2> QED
    BY <1>3, <1>5, <2>1 DEF Sound, AtNode, Nodes, Stages
<1> QED
  BY <1>6, <1>7, <1>8

(* The deadline is one of those stops.                                     *)
LEMMA DeadlineStep ==
  ASSUME NEW name \in Nodes, NEW s, NEW c, Clean(s), Sound(name, state),
         name # "tool_execution" => s.retrying = state.retrying,
         s.concluded => name = "conclusion"
  PROVE  Sound(Route(name, Settle(name, Ran(Deadline(s), c))),
               Settle(name, Ran(Deadline(s), c)))
<1>1. "active_execution_budget_exhausted" \in StopReasons \intersect RecordedReasons
  BY DEF StopReasons, RecordedReasons
<1> QED
  BY <1>1, ManualStep DEF Deadline

LLMNodes == {"hypothesis_generation", "investigation_planning",
             "hypothesis_update", "evidence_evaluation"}

(* A node that raises is retried on its own budget, or ends the run.       *)
LEMMA RaisedStep ==
  ASSUME NEW name \in LLMNodes \union {"retrieval", "tool_execution"}, NEW kind, NEW c,
         Sound(name, state), kind # "no",
         name \in {"retrieval", "tool_execution"} => kind # "retryable"
  PROVE  Sound(Route(name, Settle(name, Raised(kind, c))),
               Settle(name, Raised(kind, c)))
<1> DEFINE t == Settle(name, Raised(kind, c))
<1> SUFFICES Sound(Route(name, t), t)
  OBVIOUS
<1>1. /\ Clean(state)
      /\ Underway(name, state)
  BY DEF Sound, AtNode, LLMNodes, Nodes, Stages
<1>2. CASE kind = "retryable" /\ RetryAllowed(0)
  <2> DEFINE again == state.retries + 1
  <2>0. again \in Nat
    BY <1>1 DEF Clean, AgentState
  <2>1. t = [state EXCEPT !.retries = again, !.retrying = TRUE]
    <3>1. Raised(kind, c) = [raised |-> "retryable", state |-> state, calls |-> c]
      BY <1>2 DEF Raised
    <3>2. RetryAllowed(0) /\ ~RetriesExhausted
      BY <1>1, <1>2, BudgetAssumption
         DEF RetryAllowed, RetriesExhausted, Clean, AgentState, BudgetAssumption
    <3> HIDE DEF again
    <3>3. Settle(name, Raised(kind, c)) =
            [state EXCEPT !.retries = state.retries + 1, !.retrying = TRUE]
      BY <3>1, <3>2 DEF Settle
    <3> QED
      BY <3>3 DEF again
  <2> HIDE DEF again, t
  <2>2. /\ t \in AgentState
        /\ t.retries = again
        /\ t.retrying
    BY <1>1, <2>0, <2>1 DEF Clean, AgentState
  <2>3. Clean(t)
    <3>1. t.retries <= MaxRetries
      BY <1>1, <1>2, <2>2, BudgetAssumption
         DEF again, RetryAllowed, BudgetAssumption, Clean, AgentState
    <3> QED
      BY <1>1, <2>1, <2>2, <3>1 DEF Clean, AgentState
  <2>4. CASE name = "investigation_planning"
    <3>1. Route(name, t) = "planning_guard"
      BY <1>1, <2>1, <2>2, <2>4
         DEF Route, RouteAfterPlanning, FailureOrManual, Underway, Clean, AgentState
    <3>2. Underway("planning_guard", t)
      BY <1>1, <2>1, <2>2, <2>4 DEF Underway, Clean, AgentState
    <3> QED
      BY <2>3, <3>1, <3>2 DEF Sound, AtNode
  <2>5. CASE name # "investigation_planning"
    <3>1. Route(name, t) = name
      BY <1>1, <1>2, <2>1, <2>2, <2>5
         DEF Route, NormalRoute, RouteAfterEvaluation, FailureOrManual, LLMNodes,
             Underway, Clean, AgentState
    <3>2. Underway(name, t)
      BY <1>1, <1>2, <2>1, <2>2, <2>5 DEF Underway, LLMNodes, Clean, AgentState
    <3> QED
      BY <2>3, <2>5, <3>1, <3>2 DEF Sound, AtNode, LLMNodes
  <2> QED
    BY <2>4, <2>5
<1>3. CASE ~(kind = "retryable" /\ RetryAllowed(0))
  <2>1. PICK reason \in FailureReasons : t = Failed(state, reason)
    BY <1>3 DEF Settle, Raised, FailureReasons
  <2>2. /\ t \in AgentState
        /\ t = [state EXCEPT !.failed = TRUE, !.reason = reason]
    BY <1>1, <2>1 DEF Failed, Clean, AgentState, Reasons
  <2>3. Clean(t)
    BY <1>1, <2>1, <2>2 DEF Clean, AgentState, RecordedReasons
  <2>4. t.failed
    BY <2>2, <1>1 DEF Clean, AgentState
  <2>5. Route(name, t) = "failure_terminalization"
    BY <2>4 DEF Route, NormalRoute, RouteAfterPlanning, RouteAfterTool,
                RouteAfterEvaluation, FailureOrManual, LLMNodes
  <2> QED
    BY <2>3, <2>4, <2>5 DEF Sound, AtNode, Nodes, Stages
<1> QED
  BY <1>2, <1>3

(* What a returned result has to satisfy for the step to be sound.         *)
Returned(name, q) ==
  /\ q.raised = "no"
  /\ Clean(q.state)
  /\ name # "tool_execution" => q.state.retrying = state.retrying
  /\ q.state.concluded => name = "conclusion"
  /\ Sound(Route(name, Settle(name, q)), Settle(name, q))

MayRaise(name, q) ==
  \E kind, c :
    /\ q = Raised(kind, c)
    /\ kind # "no"
    /\ name \in LLMNodes \union {"retrieval", "tool_execution"}
    /\ name \in {"retrieval", "tool_execution"} => kind # "retryable"

(* A node whose results are all returned soundly, or raised where the      *)
(* wrapper settles them, leads from a sound state to a sound state.        *)
LEMMA NodePreserves ==
  ASSUME NEW name \in Nodes, NEW results, RunNode(name, results), Sound(node, state),
         \A q \in results : Returned(name, q) \/ MayRaise(name, q)
  PROVE  Sound(node', state')
<1>0. PICK q \in results : \E r :
        /\ state' = Settle(name, r)
        /\ node' = Route(name, state')
        /\ \/ r = q
           \/ \E c : r = Ran(Deadline(state), c)
           \/ q.raised = "no" /\ \E c : r = Ran(Deadline(q.state), c)
  BY NodeOutcome
<1>1. PICK r :
        /\ state' = Settle(name, r)
        /\ node' = Route(name, state')
        /\ \/ r = q
           \/ \E c : r = Ran(Deadline(state), c)
           \/ q.raised = "no" /\ \E c : r = Ran(Deadline(q.state), c)
  BY <1>0
<1>2. /\ node = name
      /\ Clean(state)
      /\ ~state.concluded
  BY NodeOutcome DEF Sound, AtNode, Underway
<1>3. CASE r = q /\ Returned(name, q)
  BY <1>1, <1>3 DEF Returned
<1>4. CASE r = q /\ MayRaise(name, q)
  BY <1>1, <1>2, <1>4, RaisedStep DEF MayRaise
<1>5. CASE \E c : r = Ran(Deadline(state), c)
  <2>1. PICK c : r = Ran(Deadline(state), c)
    BY <1>5
  <2> QED
    BY <1>1, <1>2, <2>1, DeadlineStep
<1>6. CASE q.raised = "no" /\ \E c : r = Ran(Deadline(q.state), c)
  <2>1. PICK c : r = Ran(Deadline(q.state), c)
    BY <1>6
  <2>2. Returned(name, q)
    BY <1>6 DEF MayRaise, Raised
  <2> QED
    BY <1>1, <1>2, <2>1, <2>2, DeadlineStep DEF Returned
<1> QED
  BY <1>1, <1>3, <1>4, <1>5, <1>6

(* What the wrapper keeps of a returned state s in the state t it settles. *)
Kept(name, s, t) ==
  /\ Clean(t)
  /\ t.stage = s.stage
  /\ t.decision = s.decision
  /\ t.failed = s.failed
  /\ t.failures = s.failures
  /\ t.rounds = s.rounds
  /\ t.tools = s.tools
  /\ t.pending = s.pending
  /\ t.verdict = s.verdict
  /\ t.concluded = s.concluded
  /\ t.retrying => s.retrying
  /\ RetrySucceeded(name, s) => ~t.retrying

(* A returned result is judged by where the kept state is routed to.       *)
LEMMA ReturnedTo ==
  ASSUME NEW name \in Nodes, NEW s, NEW c, Clean(s),
         name # "tool_execution" => s.retrying = state.retrying,
         s.concluded => name = "conclusion",
         \A t : Kept(name, s, t) => AtNode(Route(name, t), t)
  PROVE  Returned(name, Ran(s, c))
<1> DEFINE t == Settle(name, Ran(s, c))
<1>1. /\ Clean(t)
      /\ t = s \/ t = [s EXCEPT !.retries = 0, !.retrying = FALSE]
  BY SettledClean
<1>2. RetrySucceeded(name, s) => t = [s EXCEPT !.retries = 0, !.retrying = FALSE]
  BY SettleReturned
<1>3. s \in AgentState
  BY DEF Clean
<1> HIDE DEF t
<1>4. Kept(name, s, t)
  BY <1>1, <1>2, <1>3 DEF Kept, AgentState
<1>5. Sound(Route(name, t), t)
  BY <1>1, <1>4 DEF Sound
<1> QED
  BY <1>5 DEF t, Returned, Ran

(* A node that gives the run up returns a sound result, whatever calls it  *)
(* has counted before.                                                     *)
LEMMA StoppedReturned ==
  ASSUME NEW name \in Nodes, NEW s, NEW c, NEW reason \in StopReasons,
         Sound(name, state), Clean(s), ~s.failed, ~s.concluded,
         s.retrying = state.retrying
  PROVE  Returned(name, Ran(Manual(s, reason), c))
<1>1. Sound(Route(name, Settle(name, Ran(Manual(s, reason), c))),
            Settle(name, Ran(Manual(s, reason), c)))
  BY ManualStep
<1> DEFINE d == Manual(s, reason)
<1>2. /\ d \in AgentState
      /\ d = [s EXCEPT !.decision = "NEEDS_MANUAL_ACTION", !.reason = reason]
  BY DEF Manual, Clean, AgentState, Decisions, Reasons
<1>3. Clean(d) /\ ~d.concluded /\ d.retrying = state.retrying
  BY <1>2 DEF Clean, AgentState, RecordedReasons
<1> HIDE DEF d
<1>4. Ran(d, c).raised = "no" /\ Ran(d, c).state = d
  BY DEF Ran
<1> QED
  BY <1>1, <1>3, <1>4 DEF Returned, d

(* In particular when it changes nothing else.                             *)
LEMMA ManualReturned ==
  ASSUME NEW name \in Nodes, NEW c, NEW reason \in StopReasons, Sound(name, state)
  PROVE  Returned(name, Ran(Manual(state, reason), c))
<1>1. /\ Clean(state)
      /\ ~state.concluded
      /\ ~state.failed
  BY DEF Sound, AtNode, Underway
<1> QED
  BY <1>1, StoppedReturned

(* Counting a call, a round or a failure leaves a legal state.             *)
LEMMA CountedTyped ==
  ASSUME NEW s \in AgentState
  PROVE  /\ [s EXCEPT !.tools = @ + 1] \in AgentState
         /\ [s EXCEPT !.llm = @ + 1] \in AgentState
         /\ [s EXCEPT !.rounds = @ + 1] \in AgentState
         /\ [s EXCEPT !.failures = @ + 1] \in AgentState
         /\ [s EXCEPT !.retries = @ + 1] \in AgentState
<1> DEFINE tools == s.tools + 1
           llm == s.llm + 1
           rounds == s.rounds + 1
           failures == s.failures + 1
           retries == s.retries + 1
<1>1. {tools, llm, rounds, failures, retries} \subseteq Nat
  BY DEF AgentState
<1> HIDE DEF tools, llm, rounds, failures, retries
<1>2. /\ [s EXCEPT !.tools = tools] \in AgentState
      /\ [s EXCEPT !.llm = llm] \in AgentState
      /\ [s EXCEPT !.rounds = rounds] \in AgentState
      /\ [s EXCEPT !.failures = failures] \in AgentState
      /\ [s EXCEPT !.retries = retries] \in AgentState
  BY <1>1 DEF AgentState
<1> QED
  BY <1>2 DEF tools, llm, rounds, failures, retries

(* So does one that gives up after a call of its own.                      *)
LEMMA StoppedCallReturned ==
  ASSUME NEW name \in Nodes, NEW reason \in StopReasons, Sound(name, state),
         state.llm < MaxLLMCalls
  PROVE  Returned(name, Called(Manual(state, reason)))
<1>1. /\ Clean(state) /\ state \in AgentState
      /\ ~state.concluded
      /\ ~state.failed
  BY DEF Sound, AtNode, Underway, Clean
<1> DEFINE s == [state EXCEPT !.llm = @ + 1]
           d == Manual(s, reason)
<1>2. s \in AgentState
  BY <1>1, CountedTyped
<1>3. s.llm = state.llm + 1 /\ s = [state EXCEPT !.llm = s.llm]
  BY <1>1 DEF AgentState
<1>4. [Manual(state, reason) EXCEPT !.llm = @ + 1] = d
  BY <1>1, <1>3 DEF Manual, AgentState
<1> HIDE DEF s
<1>5. s.llm <= MaxLLMCalls
  BY <1>1, <1>3, BudgetAssumption DEF AgentState, BudgetAssumption
<1>6. Clean(s) /\ ~s.failed /\ ~s.concluded /\ s.retrying = state.retrying
  <2>1. /\ s.failed = state.failed /\ s.concluded = state.concluded
        /\ s.decision = state.decision /\ s.reason = state.reason
        /\ s.rounds = state.rounds /\ s.tools = state.tools
        /\ s.retries = state.retries /\ s.failures = state.failures
        /\ s.retrying = state.retrying
        /\ s.verdict = state.verdict /\ s.grounded = state.grounded
    BY <1>1, <1>3 DEF AgentState
  <2>2. Clean(s)
    BY <1>1, <1>2, <1>5, <2>1 DEF Clean
  <2> QED
    BY <1>1, <2>1, <2>2
<1>7. Returned(name, Ran(d, 1))
  BY <1>6, StoppedReturned
<1> QED
  BY <1>4, <1>7 DEF Called

(* An LLM node may also raise; the wrapper settles that.                   *)
LEMMA FaultsMayRaise ==
  ASSUME NEW name \in LLMNodes
  PROVE  \A q \in LLMFaults : MayRaise(name, q)
<1>1. \A q \in LLMFaults : q = Raised("retryable", 1) \/ q = Raised("unexpected", 1)
  BY DEF LLMFaults, When
<1> QED
  BY <1>1 DEF MayRaise, LLMNodes

-----------------------------------------------------------------------------
(***************************************************************************)
(* The nodes, one lemma each: from a sound state on its way into the node, *)
(* every result of the node leads to a sound state on its way into the     *)
(* node the route chooses.                                                 *)
(***************************************************************************)

(* intake leads to retrieval.                                              *)
LEMMA IntakeStep ==
  ASSUME Intake, Sound(node, state)
  PROVE  Sound(node', state')
<1> DEFINE s == [state EXCEPT !.stage = "retrieval"]
<1>1. RunNode("intake", {Ran(s, 0)})
  BY DEF Intake
<1>2. node = "intake" /\ "intake" \in Nodes
  BY <1>1 DEF RunNode, Nodes, Stages
<1>3. Clean(state) /\ Underway("intake", state)
  BY <1>2 DEF Sound, AtNode
<1>4. s \in AgentState
  BY <1>3 DEF Clean, AgentState, Stages
<1>5. Clean(s)
  BY <1>3, <1>4 DEF Clean, AgentState
<1>6. \A t : Kept("intake", s, t) => AtNode(Route("intake", t), t)
  <2> SUFFICES ASSUME NEW t, Kept("intake", s, t)
               PROVE  AtNode(Route("intake", t), t)
    OBVIOUS
  <2>1. /\ t.stage = "retrieval" /\ ~t.failed /\ ~t.concluded /\ ~t.retrying
        /\ t.decision # "NEEDS_MANUAL_ACTION" /\ t.rounds = 0 /\ t.tools = 0
    BY <1>3, <1>4 DEF Kept, Underway, Clean, AgentState
  <2>2. Route("intake", t) = "retrieval"
    BY <2>1 DEF Route, NormalRoute, FailureOrManual
  <2> QED
    BY <2>1, <2>2 DEF AtNode, Underway
<1>7. Returned("intake", Ran(s, 0))
  <2>1. s.retrying = state.retrying /\ ~s.concluded
    BY <1>3, <1>4 DEF Clean, AgentState, Underway
  <2> HIDE DEF s
  <2> QED
    BY <1>2, <1>5, <1>6, <2>1, ReturnedTo
<1> QED
  BY <1>1, <1>2, <1>7, NodePreserves

(* The search is counted whether it succeeds or not; only its success goes *)
(* on to hypothesis_generation.                                            *)
LEMMA RetrievalStep ==
  ASSUME Retrieval, Sound(node, state)
  PROVE  Sound(node', state')
<1> DEFINE searched == [state EXCEPT !.tools = @ + 1]
           found == [searched EXCEPT !.stage = "hypothesis_generation"]
           results == {Ran(found, 0)}
                        \union When("retrieval", {Ran(searched, 0)})
                        \union When("invalid", {Raised("unexpected", 0)})
<1>1. RunNode("retrieval", AtStage("retrieval", results))
  BY DEF Retrieval
<1>2. node = "retrieval" /\ "retrieval" \in Nodes
  BY <1>1 DEF RunNode, Nodes, Stages
<1>3. /\ Clean(state) /\ state \in AgentState
      /\ Underway("retrieval", state)
      /\ state.stage = "retrieval" /\ state.tools = 0 /\ state.rounds = 0
  BY <1>2 DEF Sound, AtNode, Underway, Clean
<1>4. /\ searched \in AgentState /\ searched.tools = 1
      /\ found \in AgentState /\ found.tools = 1 /\ found.stage = "hypothesis_generation"
  <2>1. searched \in AgentState
    BY <1>3, CountedTyped
  <2>2. searched.tools = 1
    BY <1>3 DEF AgentState
  <2> HIDE DEF searched
  <2> QED
    BY <2>1, <2>2 DEF AgentState, Stages
<1>5. Clean(searched) /\ Clean(found)
  <2>1. 1 <= MaxToolCalls
    BY BudgetAssumption DEF BudgetAssumption
  <2>2. /\ searched = [state EXCEPT !.tools = 1]
        /\ found = [state EXCEPT !.tools = 1, !.stage = "hypothesis_generation"]
    BY <1>3, <1>4 DEF AgentState
  <2> HIDE DEF searched, found
  <2>3. Clean(searched)
    BY <1>3, <1>4, <2>1, <2>2 DEF Clean, AgentState
  <2>4. Clean(found)
    BY <1>3, <1>4, <2>1, <2>2 DEF Clean, AgentState
  <2> QED
    BY <2>3, <2>4
<1>6. Returned("retrieval", Ran(found, 0))
  <2>1. \A t : Kept("retrieval", found, t) => AtNode(Route("retrieval", t), t)
    <3> SUFFICES ASSUME NEW t, Kept("retrieval", found, t)
                 PROVE  AtNode(Route("retrieval", t), t)
      OBVIOUS
    <3>1. /\ t.stage = "hypothesis_generation" /\ ~t.failed /\ ~t.concluded
          /\ t.decision # "NEEDS_MANUAL_ACTION" /\ ~t.retrying
          /\ t.rounds = 0 /\ t.tools = 1
      BY <1>3, <1>4 DEF Kept, Underway, AgentState
    <3>2. Route("retrieval", t) = "hypothesis_generation"
      BY <3>1 DEF Route, NormalRoute, FailureOrManual
    <3> QED
      BY <3>1, <3>2 DEF AtNode, Underway
  <2>2. found.retrying = state.retrying /\ ~found.concluded
    BY <1>3, <1>4 DEF AgentState, Underway
  <2> HIDE DEF found
  <2> QED
    BY <1>2, <1>5, <2>1, <2>2, ReturnedTo
<1>7. Returned("retrieval", Ran(searched, 0))
  <2>1. \A t : Kept("retrieval", searched, t) => AtNode(Route("retrieval", t), t)
    <3> SUFFICES ASSUME NEW t, Kept("retrieval", searched, t)
                 PROVE  AtNode(Route("retrieval", t), t)
      OBVIOUS
    <3>1. /\ t.stage = "retrieval" /\ ~t.failed /\ ~t.retrying
          /\ t.decision # "NEEDS_MANUAL_ACTION"
      BY <1>3, <1>4 DEF Kept, Underway, AgentState
    <3>2. Route("retrieval", t) = "END"
      BY <3>1 DEF Route, NormalRoute, FailureOrManual
    <3> QED
      BY <3>2 DEF AtNode, Nodes, Stages
  <2>2. searched.retrying = state.retrying /\ ~searched.concluded
    BY <1>3, <1>4 DEF AgentState, Underway
  <2> HIDE DEF searched
  <2> QED
    BY <1>2, <1>5, <2>1, <2>2, ReturnedTo
<1>8. MayRaise("retrieval", Raised("unexpected", 0))
  BY DEF MayRaise
<1>9. \A q \in AtStage("retrieval", results) :
        Returned("retrieval", q) \/ MayRaise("retrieval", q)
  <2> HIDE DEF found, searched
  <2> QED
    BY <1>3, <1>6, <1>7, <1>8 DEF AtStage, When
<1> HIDE DEF results
<1> QED
  BY <1>1, <1>2, <1>9, NodePreserves

(* A call of the LLM is budgeted before the node runs.                     *)
LEMMA BudgetedResults ==
  ASSUME NEW name \in LLMNodes, NEW results, Sound(name, state),
         state.llm < MaxLLMCalls =>
           \A q \in results : Returned(name, q) \/ MayRaise(name, q)
  PROVE  \A q \in WithLLMBudget(results) : Returned(name, q) \/ MayRaise(name, q)
<1>1. CASE state.llm >= MaxLLMCalls
  <2>1. "llm_call_budget_exhausted" \in StopReasons /\ name \in Nodes
    BY DEF StopReasons, LLMNodes, Nodes, Stages
  <2>2. Returned(name, Ran(Manual(state, "llm_call_budget_exhausted"), 0))
    BY <2>1, ManualReturned
  <2> QED
    BY <1>1, <2>2 DEF WithLLMBudget
<1>2. CASE ~(state.llm >= MaxLLMCalls)
  <2>1. state.llm < MaxLLMCalls
    BY <1>2, BudgetAssumption DEF Sound, Clean, AgentState, BudgetAssumption
  <2> QED
    BY <1>2, <2>1 DEF WithLLMBudget
<1> QED
  BY <1>1, <1>2

(* The hypotheses are generated once, and the planning guard comes next.   *)
LEMMA HypothesisGenerationStep ==
  ASSUME HypothesisGeneration, Sound(node, state)
  PROVE  Sound(node', state')
<1> DEFINE name == "hypothesis_generation"
           s == [[state EXCEPT !.verdict = "active", !.stage = "investigation_planning"]
                   EXCEPT !.llm = @ + 1]
           results == AtStage(name, {Ran(s, 1)} \union LLMFaults)
<1>1. RunNode(name, WithLLMBudget(results))
  BY DEF HypothesisGeneration, Called
<1>2. node = name /\ name \in Nodes /\ name \in LLMNodes
  BY <1>1 DEF RunNode, Nodes, Stages, LLMNodes
<1>3. /\ Clean(state) /\ state \in AgentState
      /\ Underway(name, state) /\ state.stage = name
  BY <1>2 DEF Sound, AtNode, Underway, Clean
<1>4. s \in AgentState
  <2>1. [state EXCEPT !.verdict = "active", !.stage = "investigation_planning"]
          \in AgentState
    BY <1>3 DEF AgentState, Stages, Verdicts
  <2> QED
    BY <2>1, CountedTyped
<1>5. Returned(name, Ran(s, 1)) \/ ~(state.llm < MaxLLMCalls)
  <2> SUFFICES ASSUME state.llm < MaxLLMCalls
               PROVE  Returned(name, Ran(s, 1))
    OBVIOUS
  <2>1. Clean(s)
    <3>1. state.llm + 1 <= MaxLLMCalls
      BY <1>3, BudgetAssumption DEF AgentState, BudgetAssumption
    <3> DEFINE calls == state.llm + 1
    <3>2. s = [state EXCEPT !.verdict = "active", !.stage = "investigation_planning",
                            !.llm = calls]
      BY <1>3 DEF AgentState
    <3> HIDE DEF s
    <3>3. /\ s.llm <= MaxLLMCalls /\ s.verdict = "active" /\ ~s.concluded /\ ~s.failed
          /\ s.rounds = state.rounds /\ s.tools = state.tools
          /\ s.retries = state.retries /\ s.failures = state.failures
          /\ s.decision = state.decision
      BY <1>3, <3>1, <3>2 DEF AgentState, Underway
    <3> QED
      BY <1>3, <1>4, <3>3 DEF Clean, Underway
  <2>2. \A t : Kept(name, s, t) => AtNode(Route(name, t), t)
    <3> SUFFICES ASSUME NEW t, Kept(name, s, t)
                 PROVE  AtNode(Route(name, t), t)
      OBVIOUS
    <3>1. /\ t.stage = "investigation_planning" /\ ~t.failed /\ ~t.concluded
          /\ t.decision # "NEEDS_MANUAL_ACTION" /\ t.rounds < t.tools
      BY <1>3, <1>4 DEF Kept, Underway, AgentState
    <3>2. ~t.retrying
      <4>1. s.retrying => RetrySucceeded(name, s)
        BY <1>3, <1>4 DEF RetrySucceeded, AgentState
      <4> QED
        BY <4>1 DEF Kept
    <3>3. Route(name, t) = "planning_guard"
      BY <3>1, <3>2 DEF Route, NormalRoute, FailureOrManual
    <3> QED
      BY <3>1, <3>3 DEF AtNode, Underway
  <2>3. s.retrying = state.retrying /\ ~s.concluded
    BY <1>3, <1>4 DEF AgentState, Underway
  <2> HIDE DEF s
  <2> QED
    BY <1>2, <2>1, <2>2, <2>3, ReturnedTo
<1>6. state.llm < MaxLLMCalls =>
        \A q \in results : Returned(name, q) \/ MayRaise(name, q)
  <2> HIDE DEF s
  <2> QED
    BY <1>2, <1>3, <1>5, FaultsMayRaise DEF AtStage
<1> HIDE DEF results
<1>7. \A q \in WithLLMBudget(results) : Returned(name, q) \/ MayRaise(name, q)
  BY <1>2, <1>6, BudgetedResults
<1> QED
  BY <1>1, <1>2, <1>7, NodePreserves

(* A recorded failure goes to failure_terminalization from every node.     *)
LEMMA FailedReturned ==
  ASSUME NEW name \in Nodes, NEW s, NEW c, NEW reason \in FailureReasons,
         Clean(s), ~s.concluded,
         name # "tool_execution" => s.retrying = state.retrying
  PROVE  Returned(name, Ran(Failed(s, reason), c))
<1> DEFINE d == Failed(s, reason)
<1>1. /\ d \in AgentState
      /\ d = [s EXCEPT !.failed = TRUE, !.reason = reason]
  BY DEF Failed, Clean, AgentState, Reasons
<1> HIDE DEF d
<1>2. Clean(d) /\ ~d.concluded /\ d.failed /\ d.retrying = s.retrying
  BY <1>1 DEF Clean, AgentState, RecordedReasons
<1>3. \A t : Kept(name, d, t) => AtNode(Route(name, t), t)
  <2> SUFFICES ASSUME NEW t, Kept(name, d, t)
               PROVE  AtNode(Route(name, t), t)
    OBVIOUS
  <2>1. t.failed
    BY <1>2 DEF Kept
  <2>2. Route(name, t) = "failure_terminalization"
    BY <2>1 DEF Route, NormalRoute, RouteAfterPlanning, RouteAfterTool,
                RouteAfterEvaluation, RouteAfterConclusion, FailureOrManual, Nodes, Stages
  <2> QED
    BY <2>1, <2>2 DEF AtNode, Nodes, Stages
<1>4. Returned(name, Ran(d, c))
  BY <1>2, <1>3, ReturnedTo
<1> QED
  BY <1>4 DEF d

(* The planning guard lets a run go on only within its budgets.            *)
LEMMA PlanningGuardStep ==
  ASSUME PlanningGuard, Sound(node, state)
  PROVE  Sound(node', state')
<1> DEFINE name == "planning_guard"
           s == IF state.failures >= MaxConsecutiveFailures
                  THEN Failed(state, "repeated_failures")
                ELSE IF state.rounds >= MaxIterations
                  THEN Manual(state, "iteration_budget_exhausted")
                ELSE IF state.tools >= MaxToolCalls
                  THEN Manual(state, "tool_budget_exhausted")
                ELSE state
<1>1. RunNode(name, AtStage("investigation_planning", {Ran(s, 0)}))
  BY DEF PlanningGuard
<1>2. node = name /\ name \in Nodes
  BY <1>1 DEF RunNode, Nodes, Stages
<1>3. /\ Clean(state) /\ state \in AgentState /\ Sound(name, state)
      /\ Underway(name, state) /\ state.stage = "investigation_planning"
  BY <1>2 DEF Sound, AtNode, Underway, Clean
<1>4. Returned(name, Ran(s, 0))
  <2>1. CASE state.failures >= MaxConsecutiveFailures
    <3>1. s = Failed(state, "repeated_failures")
      BY <2>1
    <3>2. "repeated_failures" \in FailureReasons
      BY DEF FailureReasons
    <3>3. ~state.concluded
      BY <1>3 DEF Underway
    <3> HIDE DEF s
    <3> QED
      BY <1>2, <1>3, <3>1, <3>2, <3>3, FailedReturned
  <2>2. CASE /\ ~(state.failures >= MaxConsecutiveFailures)
             /\ state.rounds >= MaxIterations
    <3>1. s = Manual(state, "iteration_budget_exhausted")
      BY <2>2
    <3>2. "iteration_budget_exhausted" \in StopReasons
      BY DEF StopReasons
    <3> HIDE DEF s
    <3> QED
      BY <1>2, <1>3, <3>1, <3>2, ManualReturned
  <2>3. CASE /\ ~(state.failures >= MaxConsecutiveFailures)
             /\ ~(state.rounds >= MaxIterations)
             /\ state.tools >= MaxToolCalls
    <3>1. s = Manual(state, "tool_budget_exhausted")
      BY <2>3
    <3>2. "tool_budget_exhausted" \in StopReasons
      BY DEF StopReasons
    <3> HIDE DEF s
    <3> QED
      BY <1>2, <1>3, <3>1, <3>2, ManualReturned
  <2>4. CASE /\ ~(state.failures >= MaxConsecutiveFailures)
             /\ ~(state.rounds >= MaxIterations)
             /\ ~(state.tools >= MaxToolCalls)
    <3>1. s = state
      BY <2>4
    <3>2. /\ state.failures < MaxConsecutiveFailures
          /\ state.rounds < MaxIterations
          /\ state.tools < MaxToolCalls
      BY <1>3, <2>4, BudgetAssumption DEF AgentState, BudgetAssumption
    <3> HIDE DEF s
    <3>3. \A t : Kept(name, state, t) => AtNode(Route(name, t), t)
      <4> SUFFICES ASSUME NEW t, Kept(name, state, t)
                   PROVE  AtNode(Route(name, t), t)
        OBVIOUS
      <4>1. /\ t.stage = "investigation_planning" /\ ~t.failed /\ ~t.concluded
            /\ t.decision # "NEEDS_MANUAL_ACTION" /\ t.rounds < t.tools
            /\ t.failures < MaxConsecutiveFailures
            /\ t.rounds < MaxIterations
            /\ t.tools < MaxToolCalls
        BY <1>3, <3>2 DEF Kept, Underway
      <4>2. Route(name, t) = IF t.retrying THEN name ELSE "investigation_planning"
        BY <4>1 DEF Route, NormalRoute, FailureOrManual
      <4> QED
        BY <4>1, <4>2 DEF AtNode, Underway
    <3>4. ~state.concluded
      BY <1>3 DEF Underway
    <3> QED
      BY <1>2, <1>3, <3>1, <3>3, <3>4, ReturnedTo
  <2> QED
    BY <2>1, <2>2, <2>3, <2>4
<1> HIDE DEF s
<1>5. \A q \in AtStage("investigation_planning", {Ran(s, 0)}) : Returned(name, q)
  BY <1>3, <1>4 DEF AtStage
<1> QED
  BY <1>1, <1>2, <1>5, NodePreserves

(* A planned call takes the run to tool_execution.                         *)
LEMMA PlannedReturned ==
  ASSUME NEW tool \in Tools, NEW c, NEW s, Sound("investigation_planning", state),
         Clean(s), s.stage = "tool_execution", s.pending = tool,
         s.failed = state.failed, s.concluded = state.concluded,
         s.decision = state.decision, s.rounds = state.rounds,
         s.tools = state.tools, s.failures = state.failures,
         s.retrying = state.retrying
  PROVE  Returned("investigation_planning", Ran(s, c))
<1> DEFINE name == "investigation_planning"
<1>1. name \in Nodes /\ Underway(name, state)
  BY DEF Sound, AtNode, Nodes, Stages
<1>2. \A t : Kept(name, s, t) => AtNode(Route(name, t), t)
  <2> SUFFICES ASSUME NEW t, Kept(name, s, t)
               PROVE  AtNode(Route(name, t), t)
    OBVIOUS
  <2>1. /\ t.stage = "tool_execution" /\ ~t.failed /\ ~t.concluded /\ t.pending \in Tools
        /\ t.decision # "NEEDS_MANUAL_ACTION" /\ t.rounds < t.tools
        /\ t.failures < MaxConsecutiveFailures
        /\ t.rounds < MaxIterations
        /\ t.tools < MaxToolCalls
    BY <1>1 DEF Kept, Underway
  <2>2. Route(name, t) = "tool_execution"
    BY <2>1 DEF Route, RouteAfterPlanning, FailureOrManual
  <2> QED
    BY <2>1, <2>2 DEF AtNode, Underway
<1>3. ~s.concluded
  BY <1>1 DEF Underway
<1> QED
  BY <1>1, <1>2, <1>3, ReturnedTo

(* The deterministic planner only names Tools.                             *)
LEMMA InitialProbeTyped ==
  ASSUME state \in AgentState, InitialProbe # "none"
  PROVE  InitialProbe \in Tools
<1>1. \A t, u, v \in Tools : FirstOf(t, u, v) \in Tools \union {"none"}
  BY DEF FirstOf
<1>2. CASE ~incident.local \/ state.probed \in {"several", "get_deployment_history"}
  BY <1>2 DEF InitialProbe
<1>3. CASE ~(~incident.local \/ state.probed \in {"several", "get_deployment_history"})
  <2>1. state.probed \in {"none", "query_traces", "query_logs", "query_metrics"}
    BY <1>3 DEF AgentState, RuntimeTools, Tools
  <2>2. InitialProbe \in Tools \union {"none"}
    BY <1>1, <1>3, <2>1 DEF InitialProbe, Tools
  <2> QED
    BY <2>2
<1> QED
  BY <1>2, <1>3

(* The planner plans a Tool, or gives up, or fails.                        *)
LEMMA InvestigationPlanningStep ==
  ASSUME InvestigationPlanning, Sound(node, state)
  PROVE  Sound(node', state')
<1> DEFINE name == "investigation_planning"
           none == {Ran(Manual(state, "no_further_investigation"), 0)}
           probe == {Ran(Planned(InitialProbe), 0)}
           results == AtStage(name,
                        IF RemainingTools = {} THEN none
                        ELSE IF InitialProbe # "none" THEN probe
                        ELSE WithLLMBudget(PlannerResults))
<1>1. RunNode(name, results)
  BY DEF InvestigationPlanning
<1>2. node = name /\ name \in Nodes /\ name \in LLMNodes
  BY <1>1 DEF RunNode, Nodes, Stages, LLMNodes
<1>3. /\ Clean(state) /\ state \in AgentState /\ Sound(name, state)
      /\ Underway(name, state) /\ state.stage = name
  BY <1>2 DEF Sound, AtNode, Underway, Clean
<1>4. "no_further_investigation" \in StopReasons
  BY DEF StopReasons
<1>5. \A tool \in Tools : /\ Planned(tool) \in AgentState
                          /\ Planned(tool) = [state EXCEPT !.pending = tool,
                                                           !.stage = "tool_execution"]
  BY <1>3 DEF Planned, AgentState, Stages
<1>6. \A q \in none : Returned(name, q)
  BY <1>2, <1>3, <1>4, ManualReturned
<1>7. InitialProbe # "none" => \A q \in probe : Returned(name, q)
  <2> SUFFICES ASSUME InitialProbe # "none"
               PROVE  Returned(name, Ran(Planned(InitialProbe), 0))
    OBVIOUS
  <2>1. InitialProbe \in Tools
    BY <1>3, InitialProbeTyped
  <2> DEFINE s == Planned(InitialProbe)
  <2>2. /\ s \in AgentState
        /\ s = [state EXCEPT !.pending = InitialProbe, !.stage = "tool_execution"]
    BY <1>5, <2>1
  <2> HIDE DEF s
  <2>3. Clean(s)
    BY <1>3, <2>2 DEF Clean, AgentState
  <2>4. Returned(name, Ran(s, 0))
    <3>1. /\ s.stage = "tool_execution" /\ s.pending = InitialProbe
          /\ s.failed = state.failed /\ s.concluded = state.concluded
          /\ s.decision = state.decision /\ s.rounds = state.rounds
          /\ s.tools = state.tools /\ s.failures = state.failures
          /\ s.retrying = state.retrying
      BY <1>3, <2>2 DEF AgentState
    <3> QED
      BY <1>3, <2>1, <2>3, <3>1, PlannedReturned
  <2> QED
    BY <2>4 DEF s

<1>8. state.llm < MaxLLMCalls =>
        \A q \in PlannerResults : Returned(name, q) \/ MayRaise(name, q)
  <2> SUFFICES ASSUME state.llm < MaxLLMCalls, NEW q \in PlannerResults
               PROVE  Returned(name, q) \/ MayRaise(name, q)
    OBVIOUS
  <2>1. state.llm + 1 <= MaxLLMCalls
    BY <1>3, BudgetAssumption DEF AgentState, BudgetAssumption
  <2>2. CASE \E tool \in RemainingTools : q = Called(Planned(tool))
    <3>1. PICK tool \in RemainingTools : q = Called(Planned(tool))
      BY <2>2
    <3>2. tool \in Tools
      BY BudgetAssumption DEF RemainingTools, BudgetAssumption
    <3> DEFINE s == [Planned(tool) EXCEPT !.llm = @ + 1]
    <3>3. s \in AgentState
      BY <1>5, <3>2, CountedTyped
    <3> DEFINE p == Planned(tool)
    <3>4. /\ p \in AgentState
          /\ p = [state EXCEPT !.pending = tool, !.stage = "tool_execution"]
          /\ s = [p EXCEPT !.llm = @ + 1]
      BY <1>5, <3>2
    <3> HIDE DEF s, p
    <3>5. /\ s.llm = state.llm + 1
          /\ s.stage = "tool_execution" /\ s.pending = tool
          /\ s.failed = state.failed /\ s.concluded = state.concluded
          /\ s.decision = state.decision /\ s.rounds = state.rounds
          /\ s.tools = state.tools /\ s.failures = state.failures
          /\ s.retrying = state.retrying /\ s.retries = state.retries
          /\ s.verdict = state.verdict /\ s.grounded = state.grounded
          /\ s.reason = state.reason
      BY <1>3, <3>4 DEF AgentState
    <3>6. Clean(s)
      BY <1>3, <2>1, <3>3, <3>5 DEF Clean
    <3>7. Returned(name, Ran(s, 1))
      BY <1>3, <3>2, <3>5, <3>6, PlannedReturned
    <3> QED
      BY <3>1, <3>7 DEF Called, s
  <2>3. CASE q = Called(Manual(state, "no_further_investigation"))
    <3>1. name \in Nodes
      BY <1>2
    <3> QED
      BY <1>3, <1>4, <2>3, <3>1, StoppedCallReturned
  <2>4. CASE q = Raised("retryable", 1)
    BY <1>2, <2>4 DEF MayRaise
  <2> QED
    BY <2>2, <2>3, <2>4 DEF PlannerResults, When
<1>9. \A q \in WithLLMBudget(PlannerResults) : Returned(name, q) \/ MayRaise(name, q)
  BY <1>2, <1>3, <1>8, BudgetedResults
<1>10. \A q \in results : Returned(name, q) \/ MayRaise(name, q)
  <2> HIDE DEF none, probe
  <2> QED
    BY <1>3, <1>6, <1>7, <1>9 DEF AtStage
<1> HIDE DEF results
<1> QED
  BY <1>1, <1>2, <1>10, NodePreserves

(* A hypothesis pass adds a round, which the Tool calls already cover.     *)
LEMMA HypothesisUpdateStep ==
  ASSUME HypothesisUpdate, Sound(node, state)
  PROVE  Sound(node', state')
<1> DEFINE name == "hypothesis_update"
           verdicts == {"active", "settled"}
                         \union (IF state.grounded THEN {"confirmed"} ELSE {})
           s(v) == [[state EXCEPT !.verdict = v, !.rounds = @ + 1,
                                  !.stage = "evidence_evaluation"]
                      EXCEPT !.llm = @ + 1]
           results == AtStage(name, {Ran(s(v), 1) : v \in verdicts} \union LLMFaults)
<1>1. RunNode(name, WithLLMBudget(results))
  BY DEF HypothesisUpdate, Called
<1>2. node = name /\ name \in Nodes /\ name \in LLMNodes
  BY <1>1 DEF RunNode, Nodes, Stages, LLMNodes
<1>3. /\ Clean(state) /\ state \in AgentState /\ Sound(name, state)
      /\ Underway(name, state) /\ state.stage = name
  BY <1>2 DEF Sound, AtNode, Underway, Clean
<1>4. ASSUME state.llm < MaxLLMCalls, NEW v \in verdicts
      PROVE  Returned(name, Ran(s(v), 1))
  <2> DEFINE p == [state EXCEPT !.rounds = @ + 1]
             q == [p EXCEPT !.verdict = v, !.stage = "evidence_evaluation"]
             u == [q EXCEPT !.llm = @ + 1]
  <2>1. p \in AgentState
    BY <1>3, CountedTyped
  <2>2. /\ p.rounds = state.rounds + 1
        /\ p = [state EXCEPT !.rounds = p.rounds]
    BY <1>3 DEF AgentState
  <2> HIDE DEF p
  <2>3. v \in Verdicts
    BY DEF Verdicts
  <2>4. q \in AgentState
    BY <2>1, <2>3 DEF AgentState, Stages
  <2>5. u \in AgentState
    BY <2>4, CountedTyped
  <2>6. u = s(v)
    BY <1>3 DEF p, AgentState
  <2>7. q = [state EXCEPT !.rounds = p.rounds, !.verdict = v,
                          !.stage = "evidence_evaluation"]
    BY <1>3, <2>2 DEF AgentState
  <2> HIDE DEF q
  <2>8. u.llm = state.llm + 1 /\ u = [q EXCEPT !.llm = u.llm]
    BY <1>3, <2>4, <2>7 DEF AgentState
  <2> HIDE DEF u, s
  <2>9. /\ u.rounds = state.rounds + 1 /\ u.verdict = v /\ u.stage = "evidence_evaluation"
        /\ u.tools = state.tools /\ u.retries = state.retries
        /\ u.failures = state.failures /\ u.grounded = state.grounded
        /\ u.failed = state.failed /\ u.concluded = state.concluded
        /\ u.decision = state.decision /\ u.retrying = state.retrying
    BY <1>3, <2>2, <2>7, <2>8 DEF AgentState
  <2>10. Clean(u)
    <3>1. state.llm + 1 <= MaxLLMCalls /\ state.rounds + 1 <= MaxIterations
      BY <1>3, <1>4, BudgetAssumption DEF AgentState, BudgetAssumption, Underway
    <3>2. v = "confirmed" => u.grounded
      BY <2>9
    <3> QED
      BY <1>3, <2>5, <2>8, <2>9, <3>1, <3>2 DEF Clean, Underway
  <2>11. \A t : Kept(name, u, t) => AtNode(Route(name, t), t)
    <3> SUFFICES ASSUME NEW t, Kept(name, u, t)
                 PROVE  AtNode(Route(name, t), t)
      OBVIOUS
    <3>1. /\ t.stage = "evidence_evaluation" /\ ~t.failed /\ ~t.concluded
          /\ t.decision # "NEEDS_MANUAL_ACTION" /\ t.rounds < t.tools
      BY <1>3, <2>9 DEF Kept, Underway
    <3>2. ~t.retrying
      BY <1>3, <2>9 DEF Kept, RetrySucceeded
    <3>3. Route(name, t) = "evidence_evaluation"
      BY <3>1, <3>2 DEF Route, NormalRoute, FailureOrManual
    <3> QED
      BY <3>1, <3>3 DEF AtNode, Underway
  <2>12. ~u.concluded
    BY <1>3, <2>9 DEF Underway
  <2> QED
    BY <1>2, <2>6, <2>9, <2>10, <2>11, <2>12, ReturnedTo
<1>5. state.llm < MaxLLMCalls =>
        \A q \in results : Returned(name, q) \/ MayRaise(name, q)
  <2> HIDE DEF s, verdicts
  <2> QED
    BY <1>2, <1>3, <1>4, FaultsMayRaise DEF AtStage
<1> HIDE DEF results
<1>6. \A q \in WithLLMBudget(results) : Returned(name, q) \/ MayRaise(name, q)
  BY <1>2, <1>3, <1>5, BudgetedResults
<1> QED
  BY <1>1, <1>2, <1>6, NodePreserves

(* Going on after the evaluation takes the run back to the planning guard. *)
LEMMA ContinuedReturned ==
  ASSUME NEW s, NEW c, Sound("evidence_evaluation", state), Clean(s),
         s.stage = "investigation_planning", s.decision = "CONTINUE",
         ~s.failed, ~s.concluded, s.rounds < s.tools, s.retrying = state.retrying
  PROVE  Returned("evidence_evaluation", Ran(s, c))
<1> DEFINE name == "evidence_evaluation"
<1>1. name \in Nodes /\ Underway(name, state) /\ state.stage = name
  BY DEF Sound, AtNode, Underway, Nodes, Stages
<1>2. \A t : Kept(name, s, t) => AtNode(Route(name, t), t)
  <2> SUFFICES ASSUME NEW t, Kept(name, s, t)
               PROVE  AtNode(Route(name, t), t)
    OBVIOUS
  <2>1. /\ t.stage = "investigation_planning" /\ ~t.failed /\ ~t.concluded
        /\ t.decision = "CONTINUE" /\ t.rounds < t.tools
    BY DEF Kept
  <2>2. Route(name, t) = "planning_guard"
    BY <2>1 DEF Route, RouteAfterEvaluation
  <2> QED
    BY <2>1, <2>2 DEF AtNode, Underway
<1> QED
  BY <1>1, <1>2, ReturnedTo

(* The evaluation concludes on a confirmed hypothesis, goes on with an     *)
(* active one, and asks the LLM about settled ones.                        *)
LEMMA EvidenceEvaluationStep ==
  ASSUME EvidenceEvaluation, Sound(node, state)
  PROVE  Sound(node', state')
<1> DEFINE name == "evidence_evaluation"
           concluding == [state EXCEPT !.decision = "CONCLUDE", !.reason = "none"]
           asked == {Called(Continued), Called(Manual(state, "investigation_inconclusive"))}
                      \union LLMFaults
           results == AtStage(name,
                        IF state.verdict = "confirmed" THEN {Ran(concluding, 0)}
                        ELSE IF state.verdict = "active" THEN {Ran(Continued, 0)}
                        ELSE WithLLMBudget(asked))
<1>1. RunNode(name, results)
  BY DEF EvidenceEvaluation
<1>2. node = name /\ name \in Nodes /\ name \in LLMNodes
  BY <1>1 DEF RunNode, Nodes, Stages, LLMNodes
<1>3. /\ Clean(state) /\ state \in AgentState /\ Sound(name, state)
      /\ Underway(name, state) /\ state.stage = name
      /\ ~state.failed /\ ~state.concluded /\ state.rounds < state.tools
  BY <1>2 DEF Sound, AtNode, Underway, Clean
<1>4. /\ Continued \in AgentState
      /\ Continued = [state EXCEPT !.decision = "CONTINUE",
                                   !.stage = "investigation_planning"]
  BY <1>3 DEF Continued, AgentState, Stages, Decisions
<1>5. /\ Clean(Continued)
      /\ Continued.stage = "investigation_planning" /\ Continued.decision = "CONTINUE"
      /\ ~Continued.failed /\ ~Continued.concluded
      /\ Continued.rounds < Continued.tools /\ Continued.retrying = state.retrying
  BY <1>3, <1>4 DEF Clean, AgentState
<1>6. Returned(name, Ran(Continued, 0))
  BY <1>3, <1>5, ContinuedReturned
<1>7. state.verdict = "confirmed" => Returned(name, Ran(concluding, 0))
  <2> SUFFICES ASSUME state.verdict = "confirmed"
               PROVE  Returned(name, Ran(concluding, 0))
    OBVIOUS
  <2>1. concluding \in AgentState
    BY <1>3 DEF AgentState, Decisions, Reasons
  <2>2. Clean(concluding) /\ ~concluding.concluded /\ concluding.retrying = state.retrying
    BY <1>3, <2>1 DEF Clean, AgentState
  <2>3. \A t : Kept(name, concluding, t) => AtNode(Route(name, t), t)
    <3> SUFFICES ASSUME NEW t, Kept(name, concluding, t)
                 PROVE  AtNode(Route(name, t), t)
      OBVIOUS
    <3>1. /\ ~t.failed /\ ~t.concluded /\ t.decision = "CONCLUDE"
          /\ t.verdict = "confirmed" /\ t.rounds < t.tools
      BY <1>3 DEF Kept, AgentState
    <3>2. ~t.retrying
      BY <1>3 DEF Kept, RetrySucceeded, AgentState
    <3>3. Route(name, t) = "conclusion"
      BY <3>1, <3>2 DEF Route, RouteAfterEvaluation
    <3> QED
      BY <3>1, <3>2, <3>3 DEF AtNode, Underway
  <2> HIDE DEF concluding
  <2> QED
    BY <1>2, <2>2, <2>3, ReturnedTo
<1>8. state.llm < MaxLLMCalls => Returned(name, Called(Continued))
  <2> SUFFICES ASSUME state.llm < MaxLLMCalls
               PROVE  Returned(name, Called(Continued))
    OBVIOUS
  <2> DEFINE s == [Continued EXCEPT !.llm = @ + 1]
  <2>1. s \in AgentState
    BY <1>4, CountedTyped
  <2>2. /\ s.llm = Continued.llm + 1 /\ Continued.llm = state.llm
        /\ s = [Continued EXCEPT !.llm = s.llm]
    BY <1>3, <1>4 DEF AgentState
  <2> HIDE DEF s
  <2>3. s.llm <= MaxLLMCalls
    BY <1>3, <2>2, BudgetAssumption DEF AgentState, BudgetAssumption
  <2>4. /\ Clean(s) /\ s.stage = "investigation_planning" /\ s.decision = "CONTINUE"
        /\ ~s.failed /\ ~s.concluded /\ s.rounds < s.tools /\ s.retrying = state.retrying
    <3>1. /\ s.stage = Continued.stage /\ s.decision = Continued.decision
          /\ s.failed = Continued.failed /\ s.concluded = Continued.concluded
          /\ s.rounds = Continued.rounds /\ s.tools = Continued.tools
          /\ s.retries = Continued.retries /\ s.failures = Continued.failures
          /\ s.retrying = Continued.retrying /\ s.reason = Continued.reason
          /\ s.verdict = Continued.verdict /\ s.grounded = Continued.grounded
      BY <1>4, <2>2 DEF AgentState
    <3>2. Clean(s)
      BY <1>5, <2>1, <2>3, <3>1 DEF Clean
    <3> QED
      BY <1>5, <3>1, <3>2
  <2>5. Returned(name, Ran(s, 1))
    BY <1>3, <2>4, ContinuedReturned
  <2> QED
    BY <2>5 DEF Called, s
<1>9. state.llm < MaxLLMCalls =>
        Returned(name, Called(Manual(state, "investigation_inconclusive")))
  <2> SUFFICES ASSUME state.llm < MaxLLMCalls
               PROVE  Returned(name, Called(Manual(state, "investigation_inconclusive")))
    OBVIOUS
  <2>1. "investigation_inconclusive" \in StopReasons
    BY DEF StopReasons
  <2> QED
    BY <1>2, <1>3, <2>1, StoppedCallReturned
<1>10. \A q \in WithLLMBudget(asked) : Returned(name, q) \/ MayRaise(name, q)
  <2>1. state.llm < MaxLLMCalls =>
          \A q \in asked : Returned(name, q) \/ MayRaise(name, q)
    BY <1>2, <1>8, <1>9, FaultsMayRaise
  <2> HIDE DEF asked
  <2> QED
    BY <1>2, <1>3, <2>1, BudgetedResults
<1>11. \A q \in results : Returned(name, q) \/ MayRaise(name, q)
  <2> HIDE DEF asked, concluding
  <2> QED
    BY <1>3, <1>6, <1>7, <1>10 DEF AtStage
<1> HIDE DEF results
<1> QED
  BY <1>1, <1>2, <1>11, NodePreserves

(* A conclusion is drawn from the confirmed hypothesis the route demanded. *)
LEMMA ConclusionStep ==
  ASSUME Conclusion, Sound(node, state)
  PROVE  Sound(node', state')
<1> DEFINE name == "conclusion"
           drawn == [state EXCEPT !.concluded = TRUE, !.stage = "conclusion",
                                  !.reason = "sufficient_evidence"]
           s == IF state.decision # "CONCLUDE" THEN state
                ELSE IF state.verdict # "confirmed"
                  THEN Manual(state, "investigation_inconclusive")
                ELSE drawn
<1>1. RunNode(name, {Ran(s, 0)})
  BY DEF Conclusion
<1>2. node = name /\ name \in Nodes
  BY <1>1 DEF RunNode, Nodes, Stages
<1>3. /\ Clean(state) /\ state \in AgentState
      /\ ~state.failed /\ state.decision = "CONCLUDE" /\ state.verdict = "confirmed"
      /\ ~state.retrying
  BY <1>2 DEF Sound, AtNode, Underway, Clean
<1>4. s = drawn
  BY <1>3
<1>5. drawn \in AgentState
  BY <1>3 DEF AgentState, Stages, Reasons
<1>6. Clean(drawn) /\ drawn.retrying = state.retrying
  BY <1>3, <1>5 DEF Clean, AgentState
<1>7. \A t : Kept(name, drawn, t) => AtNode(Route(name, t), t)
  <2> SUFFICES ASSUME NEW t, Kept(name, drawn, t)
               PROVE  AtNode(Route(name, t), t)
    OBVIOUS
  <2>1. ~t.failed /\ t.concluded /\ ~t.retrying
    BY <1>3 DEF Kept, AgentState
  <2>2. Route(name, t) = "conclusion_terminalization"
    BY <2>1 DEF Route, RouteAfterConclusion
  <2> QED
    BY <2>1, <2>2 DEF AtNode, Nodes, Stages
<1> HIDE DEF drawn, s
<1>8. Returned(name, Ran(drawn, 0))
  BY <1>2, <1>6, <1>7, ReturnedTo
<1> QED
  BY <1>1, <1>2, <1>4, <1>8, NodePreserves

(* A Tool call is recorded, and counted, whatever comes of it.             *)
LEMMA RecordedClean ==
  ASSUME NEW tool \in Tools, Sound("tool_execution", state)
  PROVE  /\ Recorded(tool) \in AgentState
         /\ Clean(Recorded(tool))
         /\ Recorded(tool).tools = state.tools + 1
         /\ Recorded(tool).rounds = state.rounds
         /\ Recorded(tool).failures = state.failures
         /\ Recorded(tool).retries = state.retries
         /\ Recorded(tool).failed = state.failed
         /\ Recorded(tool).concluded = state.concluded
         /\ Recorded(tool).decision = state.decision
<1>1. Clean(state) /\ state \in AgentState /\ state.tools < MaxToolCalls
  BY DEF Sound, AtNode, Underway, Clean, Nodes, Stages
<1> DEFINE p == [state EXCEPT !.tools = @ + 1]
           u == [p EXCEPT !.probed = Probed(tool)]
<1>2. p \in AgentState /\ p.tools = state.tools + 1
  BY <1>1, CountedTyped DEF AgentState
<1>3. Probed(tool) \in RuntimeTools \union {"none", "several"}
  BY <1>1 DEF Probed, AgentState, RuntimeTools
<1>4. u = Recorded(tool)
  BY <1>1 DEF Recorded, AgentState
<1>5. p = [state EXCEPT !.tools = p.tools]
  BY <1>1 DEF AgentState
<1> HIDE DEF p
<1>6. u \in AgentState
  BY <1>2, <1>3 DEF AgentState
<1>7. u = [state EXCEPT !.tools = p.tools, !.probed = Probed(tool)]
  BY <1>1, <1>5 DEF AgentState
<1> HIDE DEF u
<1>8. /\ u.tools = state.tools + 1 /\ u.rounds = state.rounds
      /\ u.failures = state.failures /\ u.retries = state.retries
      /\ u.failed = state.failed /\ u.concluded = state.concluded
      /\ u.decision = state.decision /\ u.llm = state.llm
      /\ u.verdict = state.verdict /\ u.grounded = state.grounded
      /\ u.reason = state.reason
  BY <1>1, <1>2, <1>7 DEF AgentState
<1>9. state.tools + 1 <= MaxToolCalls
  BY <1>1, BudgetAssumption DEF AgentState, BudgetAssumption
<1>10. /\ state.tools \in Nat /\ state.rounds \in Nat
  BY <1>1 DEF AgentState
<1>11. Clean(u)
  BY <1>1, <1>6, <1>8, <1>9, <1>10 DEF Clean
<1> QED
  BY <1>4, <1>6, <1>8, <1>11

(* A Tool call that is not failed, and goes on by its stage.               *)
LEMMA ToolGoesOn ==
  ASSUME NEW s, NEW c, Sound("tool_execution", state), Clean(s),
         ~s.failed, ~s.concluded, s.decision # "NEEDS_MANUAL_ACTION",
         s.rounds = state.rounds, s.tools = state.tools + 1,
         \/ s.stage = "hypothesis_update"
         \/ s.stage = "investigation_planning"
         \/ /\ s.stage = "tool_execution" /\ s.pending \in Tools
            /\ s.tools < MaxToolCalls /\ s.failures < MaxConsecutiveFailures
  PROVE  Returned("tool_execution", Ran(s, c))
<1> DEFINE name == "tool_execution"
<1>1. /\ name \in Nodes /\ state.rounds < state.tools /\ state.rounds < MaxIterations
      /\ state.rounds \in Nat /\ state.tools \in Nat
  BY DEF Sound, AtNode, Underway, Clean, AgentState, Nodes, Stages
<1>2. \A t : Kept(name, s, t) => AtNode(Route(name, t), t)
  <2> SUFFICES ASSUME NEW t, Kept(name, s, t)
               PROVE  AtNode(Route(name, t), t)
    OBVIOUS
  <2>1. /\ ~t.failed /\ ~t.concluded /\ t.decision # "NEEDS_MANUAL_ACTION"
        /\ t.rounds = state.rounds /\ t.tools = state.tools + 1
    BY DEF Kept
  <2>2. /\ t.rounds + 1 < t.tools /\ t.rounds < t.tools /\ t.rounds < MaxIterations
    BY <1>1, <2>1
  <2>3. CASE s.stage = "hypothesis_update"
    <3>1. t.stage = "hypothesis_update"
      BY <2>3 DEF Kept
    <3>2. Route(name, t) = "hypothesis_update"
      BY <2>1, <3>1 DEF Route, RouteAfterTool, FailureOrManual
    <3> QED
      BY <2>1, <2>2, <3>1, <3>2 DEF AtNode, Underway
  <2>4. CASE s.stage = "investigation_planning"
    <3>1. t.stage = "investigation_planning"
      BY <2>4 DEF Kept
    <3>2. Route(name, t) = "planning_guard"
      BY <2>1, <3>1 DEF Route, RouteAfterTool, FailureOrManual
    <3> QED
      BY <2>1, <2>2, <3>1, <3>2 DEF AtNode, Underway
  <2>5. CASE /\ s.stage = "tool_execution" /\ s.pending \in Tools
             /\ s.tools < MaxToolCalls /\ s.failures < MaxConsecutiveFailures
    <3>1. /\ t.stage = "tool_execution" /\ t.pending \in Tools
          /\ t.tools < MaxToolCalls /\ t.failures < MaxConsecutiveFailures
      BY <2>5 DEF Kept
    <3>2. t.pending # "none"
      BY <3>1 DEF Tools
    <3>3. Route(name, t) = "tool_execution"
      BY <2>1, <3>1, <3>2 DEF Route, RouteAfterTool, FailureOrManual
    <3> QED
      BY <2>1, <2>2, <3>1, <3>3 DEF AtNode, Underway
  <2> QED
    BY <2>3, <2>4, <2>5
<1> QED
  BY <1>1, <1>2, ReturnedTo

(* The success of a Tool call.                                             *)
LEMMA ToolSucceededReturned ==
  ASSUME NEW tool \in Tools, Sound("tool_execution", state)
  PROVE  Returned("tool_execution", Ran(ToolSucceeded(tool), 0))
<1> DEFINE r == Recorded(tool)
           next == IF Complementary(tool) THEN "investigation_planning"
                                          ELSE "hypothesis_update"
           s == [r EXCEPT !.failures = 0, !.retries = 0, !.retrying = FALSE,
                          !.pending = "none", !.exhausted = @ \ {tool},
                          !.grounded = @ \/ tool \in RuntimeTools, !.stage = next]
<1>1. /\ ~state.failed /\ ~state.concluded /\ state.decision # "NEEDS_MANUAL_ACTION"
  BY DEF Sound, AtNode, Underway, Nodes, Stages
<1>2. /\ r \in AgentState /\ Clean(r) /\ r.tools = state.tools + 1
      /\ r.rounds = state.rounds
      /\ ~r.failed /\ ~r.concluded /\ r.decision # "NEEDS_MANUAL_ACTION"
  BY <1>1, RecordedClean
<1>3. s = ToolSucceeded(tool)
  BY DEF ToolSucceeded
<1>4. next \in {"investigation_planning", "hypothesis_update"}
  OBVIOUS
<1> HIDE DEF r, next
<1> DEFINE left == r.exhausted \ {tool}
           grounds == r.grounded \/ tool \in RuntimeTools
<1>5. /\ left \in SUBSET Tools
      /\ grounds \in BOOLEAN
  BY <1>2 DEF AgentState
<1>6. s = [r EXCEPT !.failures = 0, !.retries = 0, !.retrying = FALSE,
                    !.pending = "none", !.exhausted = left,
                    !.grounded = grounds, !.stage = next]
  OBVIOUS
<1>7. r.grounded => grounds
  OBVIOUS
<1> HIDE DEF left, grounds, s
<1>8. s \in AgentState
  BY <1>2, <1>4, <1>5, <1>6 DEF AgentState, Stages
<1>9. /\ s.failures = 0 /\ s.retries = 0 /\ s.grounded = grounds /\ s.stage = next
      /\ s.tools = r.tools /\ s.rounds = r.rounds /\ s.llm = r.llm
      /\ s.failed = r.failed /\ s.concluded = r.concluded /\ s.decision = r.decision
      /\ s.verdict = r.verdict /\ s.reason = r.reason
  BY <1>2, <1>6 DEF AgentState
<1>10. Clean(s)
  <2>1. 0 <= MaxRetries /\ 0 <= MaxConsecutiveFailures
    BY BudgetAssumption DEF BudgetAssumption
  <2> QED
    BY <1>2, <1>7, <1>8, <1>9, <2>1 DEF Clean
<1>11. Returned("tool_execution", Ran(s, 0))
  BY <1>2, <1>4, <1>9, <1>10, ToolGoesOn
<1> QED
  BY <1>3, <1>11

(* A call that is refused, or whose capability is exhausted, is dropped.   *)
LEMMA ToolDroppedClean ==
  ASSUME NEW tool \in Tools, Sound("tool_execution", state)
  PROVE  LET s == ToolDropped(tool) IN
         /\ s \in AgentState /\ Clean(s)
         /\ s.tools = state.tools + 1 /\ s.rounds = state.rounds
         /\ s.failures = state.failures /\ s.retries = state.retries
         /\ ~s.failed /\ ~s.concluded /\ s.decision # "NEEDS_MANUAL_ACTION"
         /\ s.stage = "investigation_planning"
<1> DEFINE r == Recorded(tool)
           s == [r EXCEPT !.pending = "none", !.stage = "investigation_planning"]
<1>1. /\ ~state.failed /\ ~state.concluded /\ state.decision # "NEEDS_MANUAL_ACTION"
  BY DEF Sound, AtNode, Underway, Nodes, Stages
<1>2. /\ r \in AgentState /\ Clean(r) /\ r.tools = state.tools + 1
      /\ r.rounds = state.rounds
      /\ r.failures = state.failures /\ r.retries = state.retries
      /\ ~r.failed /\ ~r.concluded /\ r.decision # "NEEDS_MANUAL_ACTION"
  BY <1>1, RecordedClean
<1>3. s = ToolDropped(tool)
  BY DEF ToolDropped
<1> HIDE DEF r
<1>4. s \in AgentState
  BY <1>2 DEF AgentState, Stages
<1>5. /\ s.tools = r.tools /\ s.rounds = r.rounds /\ s.llm = r.llm
      /\ s.failures = r.failures /\ s.retries = r.retries
      /\ s.failed = r.failed /\ s.concluded = r.concluded /\ s.decision = r.decision
      /\ s.verdict = r.verdict /\ s.reason = r.reason /\ s.grounded = r.grounded
      /\ s.stage = "investigation_planning"
  BY <1>2 DEF AgentState
<1> HIDE DEF s
<1>6. Clean(s)
  BY <1>2, <1>4, <1>5 DEF Clean
<1> QED
  BY <1>2, <1>3, <1>4, <1>5, <1>6

(* A failed call is counted; it ends the run, is retried, or is dropped.   *)
LEMMA ToolFailedReturned ==
  ASSUME NEW tool \in Tools, Sound("tool_execution", state)
  PROVE  Returned("tool_execution", Ran(ToolFailed(tool), 0))
<1> DEFINE name == "tool_execution"
           d == ToolDropped(tool)
           counted == [d EXCEPT !.failures = @ + 1]
<1>0. /\ name \in Nodes /\ state \in AgentState /\ Clean(state)
      /\ state.failures < MaxConsecutiveFailures
  BY DEF Sound, AtNode, Underway, Clean, Nodes, Stages
<1>1. /\ d \in AgentState /\ Clean(d)
      /\ d.tools = state.tools + 1 /\ d.rounds = state.rounds
      /\ d.failures = state.failures /\ d.retries = state.retries
      /\ ~d.failed /\ ~d.concluded /\ d.decision # "NEEDS_MANUAL_ACTION"
      /\ d.stage = "investigation_planning"
  BY ToolDroppedClean
<1> HIDE DEF d
<1>2. counted \in AgentState
  BY <1>1, CountedTyped
<1>3. /\ counted.failures = state.failures + 1
      /\ counted.tools = state.tools + 1 /\ counted.rounds = state.rounds
      /\ counted.retries = state.retries /\ counted.llm = d.llm
      /\ ~counted.failed /\ ~counted.concluded
      /\ counted.decision = d.decision /\ counted.decision # "NEEDS_MANUAL_ACTION"
      /\ counted.verdict = d.verdict /\ counted.reason = d.reason
      /\ counted.grounded = d.grounded
      /\ counted.stage = "investigation_planning"
  BY <1>1 DEF AgentState
<1>4. ToolFailed(tool) =
        IF counted.failures >= MaxConsecutiveFailures
          THEN Failed(counted, "repeated_failures")
        ELSE IF RetryAllowed(state.tools + 1)
          THEN [counted EXCEPT !.retries = @ + 1, !.retrying = TRUE,
                               !.pending = tool, !.stage = "tool_execution"]
        ELSE IF RetriesExhausted
          THEN Failed([counted EXCEPT !.retrying = FALSE], "retry_budget_exhausted")
        ELSE counted
  BY DEF ToolFailed, d
<1> HIDE DEF counted
<1>5. state.failures + 1 <= MaxConsecutiveFailures
  BY <1>0, BudgetAssumption DEF AgentState, BudgetAssumption
<1>6. Clean(counted)
  BY <1>1, <1>2, <1>3, <1>5 DEF Clean
<1>7. {"repeated_failures", "retry_budget_exhausted"} \subseteq FailureReasons
  BY DEF FailureReasons
<1>8. CASE counted.failures >= MaxConsecutiveFailures
  BY <1>0, <1>3, <1>4, <1>6, <1>7, <1>8, FailedReturned
<1>9. CASE /\ ~(counted.failures >= MaxConsecutiveFailures)
           /\ RetryAllowed(state.tools + 1)
  <2> DEFINE again == counted.retries + 1
             s == [counted EXCEPT !.retries = again, !.retrying = TRUE,
                                  !.pending = tool, !.stage = "tool_execution"]
  <2>1. ToolFailed(tool) = s
    BY <1>4, <1>9
  <2>2. /\ again \in Nat /\ again <= MaxRetries
        /\ counted.tools < MaxToolCalls
        /\ counted.failures < MaxConsecutiveFailures
    BY <1>0, <1>2, <1>3, <1>9, BudgetAssumption
       DEF RetryAllowed, BudgetAssumption, AgentState
  <2> HIDE DEF again
  <2>3. s \in AgentState
    BY <1>2, <2>2 DEF AgentState, Stages
  <2>4. /\ s.retries = again /\ s.pending = tool /\ s.stage = "tool_execution"
        /\ s.failures = counted.failures /\ s.tools = counted.tools
        /\ s.rounds = counted.rounds /\ s.llm = counted.llm
        /\ s.failed = counted.failed /\ s.concluded = counted.concluded
        /\ s.decision = counted.decision /\ s.verdict = counted.verdict
        /\ s.reason = counted.reason /\ s.grounded = counted.grounded
    BY <1>2 DEF AgentState
  <2> HIDE DEF s
  <2>5. Clean(s)
    BY <1>6, <2>2, <2>3, <2>4 DEF Clean
  <2> QED
    BY <1>3, <2>1, <2>2, <2>4, <2>5, ToolGoesOn
<1>10. CASE /\ ~(counted.failures >= MaxConsecutiveFailures)
            /\ ~RetryAllowed(state.tools + 1)
            /\ RetriesExhausted
  <2> DEFINE s == [counted EXCEPT !.retrying = FALSE]
  <2>1. ToolFailed(tool) = Failed(s, "retry_budget_exhausted")
    BY <1>4, <1>10
  <2>2. s \in AgentState
    BY <1>2 DEF AgentState
  <2>3. Clean(s) /\ ~s.concluded
    BY <1>2, <1>3, <1>6, <2>2 DEF Clean, AgentState
  <2> HIDE DEF s
  <2> QED
    BY <1>0, <1>7, <2>1, <2>3, FailedReturned
<1>11. CASE /\ ~(counted.failures >= MaxConsecutiveFailures)
            /\ ~RetryAllowed(state.tools + 1)
            /\ ~RetriesExhausted
  <2>1. ToolFailed(tool) = counted
    BY <1>4, <1>11
  <2> QED
    BY <1>3, <1>6, <2>1, ToolGoesOn
<1> QED
  BY <1>8, <1>9, <1>10, <1>11

(* Every result of a Tool call leads on soundly.                           *)
LEMMA ToolExecutionStep ==
  ASSUME ToolExecution, Sound(node, state)
  PROVE  Sound(node', state')
<1> DEFINE name == "tool_execution"
           tool == state.pending
           missing == [ToolDropped(tool) EXCEPT !.exhausted = @ \union {tool}]
           results == AtStage(name,
                        {Ran(ToolSucceeded(tool), 0)}
                          \union When("tool", {Ran(ToolFailed(tool), 0)})
                          \union When("refused", {Ran(ToolDropped(tool), 0)})
                          \union When("capability", {Ran(missing, 0)})
                          \union Oversized(tool))
<1>1. RunNode(name, results)
  BY DEF ToolExecution
<1>2. node = name /\ name \in Nodes
  BY <1>1 DEF RunNode, Nodes, Stages
<1>3. /\ Sound(name, state) /\ tool \in Tools /\ state.stage = name
  BY <1>2 DEF Sound, AtNode, Underway
<1> HIDE DEF tool
<1>4. Returned(name, Ran(ToolSucceeded(tool), 0)) /\ Returned(name, Ran(ToolFailed(tool), 0))
  BY <1>3, ToolSucceededReturned, ToolFailedReturned
<1> DEFINE d == ToolDropped(tool)
<1>5. /\ d \in AgentState /\ Clean(d)
      /\ d.tools = state.tools + 1 /\ d.rounds = state.rounds
      /\ ~d.failed /\ ~d.concluded /\ d.decision # "NEEDS_MANUAL_ACTION"
      /\ d.stage = "investigation_planning"
  BY <1>3, ToolDroppedClean
<1>6. Returned(name, Ran(d, 0))
  <2> HIDE DEF d
  <2> QED
    BY <1>3, <1>5, ToolGoesOn
<1>7. Returned(name, Ran(missing, 0))
  <2> DEFINE more == d.exhausted \union {tool}
             s == [d EXCEPT !.exhausted = more]
  <2>1. s = missing
    OBVIOUS
  <2> HIDE DEF d, missing
  <2>2. more \in SUBSET Tools
    BY <1>3, <1>5 DEF AgentState
  <2> HIDE DEF more
  <2>3. s \in AgentState
    BY <1>5, <2>2 DEF AgentState
  <2>4. /\ s.tools = d.tools /\ s.rounds = d.rounds /\ s.stage = d.stage
        /\ s.failed = d.failed /\ s.concluded = d.concluded /\ s.decision = d.decision
    BY <1>5 DEF AgentState
  <2>5. Clean(s)
    BY <1>5, <2>3 DEF Clean, AgentState
  <2> HIDE DEF s
  <2>6. Returned(name, Ran(s, 0))
    BY <1>3, <1>5, <2>4, <2>5, ToolGoesOn
  <2> QED
    BY <2>1, <2>6
<1>8. \A q \in Oversized(tool) : MayRaise(name, q)
  <2>1. \A q \in Oversized(tool) : q = Raised("unexpected", 0)
    BY DEF Oversized, When
  <2> QED
    BY <2>1 DEF MayRaise
<1>9. \A q \in results : Returned(name, q) \/ MayRaise(name, q)
  <2> HIDE DEF missing
  <2> QED
    BY <1>3, <1>4, <1>6, <1>7, <1>8 DEF AtStage, When
<1> HIDE DEF results
<1> QED
  BY <1>1, <1>2, <1>9, NodePreserves

-----------------------------------------------------------------------------
(***************************************************************************)
(* The specification.                                                      *)
(***************************************************************************)
WrappedNode ==
  \/ Intake
  \/ Retrieval
  \/ HypothesisGeneration
  \/ PlanningGuard
  \/ InvestigationPlanning
  \/ ToolExecution
  \/ HypothesisUpdate
  \/ EvidenceEvaluation
  \/ Conclusion

(* What a node does to everything but the state it settles.                *)
LEMMA NodeFrame ==
  ASSUME NEW name \in Nodes, NEW results, RunNode(name, results), TypeOK,
         \A q \in results : q.calls \in Nat
  PROVE  /\ node \in Nodes
         /\ attempts' \in Nat
         /\ steps' \in 0..RecursionLimit
         /\ UNCHANGED <<incident, final>>
<1>1. PICK r \in UNION {WithDeadline(q) : q \in results} :
        attempts' = attempts + r.calls
  BY DEF RunNode
<1>2. PICK q \in results : r \in WithDeadline(q)
  BY <1>1
<1>3. q.calls \in Nat
  BY <1>2
<1>4. r.calls \in Nat
  <2>1. CASE r = q
    BY <1>3, <2>1
  <2>2. CASE \E calls \in 0..q.calls : r = Ran(Deadline(state), calls)
    BY <1>3, <2>2 DEF Ran
  <2>3. CASE r = Ran(Deadline(q.state), q.calls)
    BY <1>3, <2>3 DEF Ran
  <2> QED
    BY <1>2, <2>1, <2>2, <2>3 DEF WithDeadline, When
<1>5. steps + 1 \in 0..RecursionLimit
  BY BudgetAssumption DEF RunNode, TypeOK, BudgetAssumption
<1> QED
  BY <1>1, <1>4, <1>5 DEF RunNode, TypeOK

(* Every wrapped node counts its LLM calls in natural numbers.             *)
LEMMA WrappedFrame ==
  ASSUME WrappedNode, TypeOK
  PROVE  /\ node \in Nodes
         /\ attempts' \in Nat
         /\ steps' \in 0..RecursionLimit
         /\ UNCHANGED <<incident, final>>
<1>0. /\ \A name, results :
           (\A q \in results : q.calls \in Nat) =>
             \A q \in AtStage(name, results) : q.calls \in Nat
      /\ \A results :
           (\A q \in results : q.calls \in Nat) =>
             \A q \in WithLLMBudget(results) : q.calls \in Nat
      /\ \A q \in LLMFaults : q.calls \in Nat
      /\ \A s : Ran(s, 0).calls \in Nat /\ Called(s).calls \in Nat
      /\ \A kind : Raised(kind, 0).calls \in Nat /\ Raised(kind, 1).calls \in Nat
  BY DEF AtStage, WithLLMBudget, LLMFaults, When, Ran, Called, Raised
<1>00. Stages \subseteq Nodes /\ "planning_guard" \in Nodes
  BY DEF Nodes
<1>1. CASE Intake
  BY <1>0, <1>00, <1>1, NodeFrame DEF Intake, Stages
<1>2. CASE Retrieval
  BY <1>0, <1>00, <1>2, NodeFrame DEF Retrieval, Stages, When
<1>3. CASE HypothesisGeneration
  BY <1>0, <1>00, <1>3, NodeFrame DEF HypothesisGeneration, Stages
<1>4. CASE PlanningGuard
  BY <1>0, <1>00, <1>4, NodeFrame DEF PlanningGuard
<1>5. CASE InvestigationPlanning
  <2>1. \A q \in PlannerResults : q.calls \in Nat
    BY <1>0 DEF PlannerResults, When
  <2> QED
    BY <1>0, <1>00, <1>5, <2>1, NodeFrame DEF InvestigationPlanning, Stages
<1>6. CASE ToolExecution
  <2>1. \A q \in Oversized(state.pending) : q.calls \in Nat
    BY <1>0 DEF Oversized, When
  <2> QED
    BY <1>0, <1>00, <1>6, <2>1, NodeFrame DEF ToolExecution, Stages, When
<1>7. CASE HypothesisUpdate
  BY <1>0, <1>00, <1>7, NodeFrame DEF HypothesisUpdate, Stages
<1>8. CASE EvidenceEvaluation
  BY <1>0, <1>00, <1>8, NodeFrame DEF EvidenceEvaluation, Stages
<1>9. CASE Conclusion
  BY <1>0, <1>00, <1>9, NodeFrame DEF Conclusion, Stages
<1> QED
  BY <1>1, <1>2, <1>3, <1>4, <1>5, <1>6, <1>7, <1>8, <1>9 DEF WrappedNode

(* Every wrapped node leads from a sound state to a sound state.           *)
LEMMA WrappedSound ==
  ASSUME WrappedNode, Sound(node, state)
  PROVE  Sound(node', state')
BY IntakeStep, RetrievalStep, HypothesisGenerationStep, PlanningGuardStep,
   InvestigationPlanningStep, ToolExecutionStep, HypothesisUpdateStep,
   EvidenceEvaluationStep, ConclusionStep
   DEF WrappedNode

(* A route only leads to a node of the graph.                              *)
LEMMA RouteTarget ==
  ASSUME NEW name \in Nodes, NEW s
  PROVE  Route(name, s) \in Nodes \union Terminalizations \union {"END"}
BY DEF Route, NormalRoute, RouteAfterPlanning, RouteAfterTool, RouteAfterEvaluation,
       RouteAfterConclusion, FailureOrManual, Nodes, Stages, Terminalizations

(* So a wrapped node leads to one.                                         *)
LEMMA WrappedTarget ==
  ASSUME WrappedNode
  PROVE  node' \in Nodes \union Terminalizations \union {"END"}
<1>1. \A name \in Nodes : \A results :
        RunNode(name, results) => node' \in Nodes \union Terminalizations \union {"END"}
  BY RouteTarget DEF RunNode
<1>2. Stages \subseteq Nodes /\ "planning_guard" \in Nodes
  BY DEF Nodes
<1> QED
  BY <1>1, <1>2 DEF WrappedNode, Intake, Retrieval, HypothesisGeneration, PlanningGuard,
     InvestigationPlanning, ToolExecution, HypothesisUpdate, EvidenceEvaluation,
     Conclusion, Stages

(* The first state is sound.                                               *)
LEMMA InitIInv == Init => IInv
<1> SUFFICES ASSUME Init PROVE IInv
  OBVIOUS
<1>1. InitialState \in AgentState
  BY DEF InitialState, AgentState, Stages, Decisions, Reasons, Verdicts
<1>2. /\ 0 <= MaxIterations /\ 0 <= MaxToolCalls /\ 0 <= MaxLLMCalls
      /\ 0 <= MaxRetries /\ 0 <= MaxConsecutiveFailures /\ 0 \in 0..RecursionLimit
  BY BudgetAssumption DEF BudgetAssumption
<1>3. TypeOK
  BY <1>1, <1>2 DEF Init, TypeOK, Nodes, Stages, Finals
<1>4. Clean(state)
  BY <1>1, <1>2 DEF Init, InitialState, Clean
<1>5. Underway("intake", state)
  BY DEF Init, InitialState, Underway
<1>6. AtNode(node, state)
  BY <1>5 DEF Init, AtNode
<1> QED
  BY <1>3, <1>4, <1>6 DEF IInv, Sound, FinalStatusJustified, Init

(* No step leaves the sound states.                                        *)
LEMMA NextIInv == IInv /\ [Next]_vars => IInv'
<1> SUFFICES ASSUME IInv, [Next]_vars PROVE IInv'
  OBVIOUS
<1>1. CASE WrappedNode
  <2>1. /\ node \in Nodes /\ attempts' \in Nat /\ steps' \in 0..RecursionLimit
        /\ UNCHANGED <<incident, final>>
    BY <1>1, WrappedFrame DEF IInv
  <2>2. Sound(node', state')
    BY <1>1, WrappedSound DEF IInv
  <2>3. node' \in Nodes \union Terminalizations \union {"END", "raised"}
    BY <1>1, WrappedTarget
  <2>4. TypeOK'
    BY <2>1, <2>2, <2>3 DEF IInv, TypeOK, Sound, Clean
  <2>5. final = "none"
    BY <2>1 DEF IInv, Nodes, Stages
  <2> QED
    BY <2>1, <2>2, <2>4, <2>5 DEF IInv, Sound, Clean, AtNode, Underway, FinalStatusJustified
<1>2. CASE Terminalize
  <2>1. /\ state \in AgentState /\ Clean(state) /\ AtNode(node, state)
        /\ node \in Terminalizations
        /\ state' = [state EXCEPT !.stage = "conclusion"]
        /\ node' = "END" /\ steps' = steps + 1
        /\ UNCHANGED <<incident, attempts>>
    BY <1>2 DEF Terminalize, IInv, Sound, Clean
  <2>2. state' \in AgentState
    BY <2>1 DEF AgentState, Stages
  <2>3. Clean(state')
    BY <2>1, <2>2 DEF Clean, AgentState
  <2>4. AtNode(node', state')
    BY <2>1 DEF AtNode, Nodes, Stages
  <2>5. steps' \in 0..RecursionLimit
    BY <1>2, BudgetAssumption DEF Terminalize, IInv, TypeOK, BudgetAssumption
  <2>6. final' \in Finals /\ FinalStatusJustified'
    <3>1. /\ state'.concluded = state.concluded /\ state'.failed = state.failed
          /\ state'.grounded = state.grounded /\ state'.verdict = state.verdict
          /\ state'.reason = state.reason
      BY <2>1 DEF AgentState
    <3>2. CASE node = "conclusion_terminalization"
      <4>1. final' = "CONCLUDED"
        BY <1>2, <3>2 DEF Terminalize
      <4> QED
        BY <2>1, <3>1, <3>2, <4>1 DEF AtNode, Clean, FinalStatusJustified, Finals
    <3>3. CASE node = "inconclusive_terminalization"
      <4>1. final' = "INCONCLUSIVE"
        BY <1>2, <3>3 DEF Terminalize
      <4> QED
        BY <2>1, <3>1, <3>3, <4>1 DEF AtNode, Clean, FinalStatusJustified, Finals
    <3>4. CASE node = "failure_terminalization"
      <4>1. final' = "FAILED"
        BY <1>2, <3>4 DEF Terminalize
      <4> QED
        BY <2>1, <3>1, <3>4, <4>1
           DEF AtNode, Clean, FinalStatusJustified, Finals, RecordedReasons
    <3> QED
      BY <2>1, <3>2, <3>3, <3>4 DEF Terminalizations
  <2>7. TypeOK'
    BY <2>1, <2>2, <2>5, <2>6 DEF IInv, TypeOK
  <2> QED
    BY <2>1, <2>3, <2>4, <2>6, <2>7 DEF IInv, Sound
<1>3. CASE ExceedRecursion
  <2>1. /\ node' = "raised" /\ final = "none"
        /\ UNCHANGED <<incident, state, steps, attempts, final>>
    BY <1>3 DEF ExceedRecursion, IInv
  <2> QED
    BY <2>1 DEF IInv, TypeOK, Sound, AtNode, Nodes, Stages, FinalStatusJustified
<1>4. CASE UNCHANGED vars
  BY <1>4 DEF vars, IInv, TypeOK, Sound, Clean, AtNode, Underway, FinalStatusJustified
<1> QED
  BY <1>1, <1>2, <1>3, <1>4 DEF Next, NodeStep, WrappedNode, Finished

(* Every reachable state of a run is sound.                                *)
LEMMA SpecIInv == Spec => []IInv
<1>1. Init => IInv
  BY InitIInv
<1>2. IInv /\ [Next]_vars => IInv'
  BY NextIInv
<1> QED
  BY <1>1, <1>2, PTL DEF Spec

(* The graph state of a run is always a legal AgentState at a legal node.  *)
THEOREM TypeCorrect == Spec => []TypeOK
<1>1. IInv => TypeOK
  BY DEF IInv
<1> QED
  BY <1>1, SpecIInv, PTL

(* _v2_planning_guard_node, _enforce_llm_budget_node and _retry_decision   *)
(* together keep every counter of a run within its budget, although each   *)
(* of them looks at some counters only.                                    *)
THEOREM BudgetsAlwaysHold == Spec => []BudgetsHold
<1>1. IInv => BudgetsHold
  BY DEF IInv, Sound, Clean, BudgetsHold
<1> QED
  BY <1>1, SpecIInv, PTL

(* The routes into the three terminalization nodes only let through states *)
(* that justify the status the node writes.                                *)
THEOREM FinalStatusAlwaysJustified == Spec => []FinalStatusJustified
<1>1. IInv => FinalStatusJustified
  BY DEF IInv
<1> QED
  BY <1>1, SpecIInv, PTL

(* hypothesis_update_node never completes more rounds than the recorded    *)
(* Tool calls pay for.                                                     *)
THEOREM RoundsAlwaysNeedTools == Spec => []RoundsNeedTools
<1>1. IInv => RoundsNeedTools
  BY DEF IInv, Sound, Clean, RoundsNeedTools
<1> QED
  BY <1>1, SpecIInv, PTL

(* A round is terminalized only as the last thing its run does: no node    *)
(* runs, and nothing changes, after the terminalization.                   *)
THEOREM TerminalIsLast == Spec => [](final # "none" => node = "END")
<1>1. IInv => (final # "none" => node = "END")
  BY DEF IInv
<1> QED
  BY <1>1, SpecIInv, PTL

-----------------------------------------------------------------------------
(***************************************************************************)
(* All LLM calls, the failed ones included.  Only a returned call is added *)
(* to llm_call_count, and each can follow at most MaxRetries failed ones:  *)
(* the calls made so far are those of the counted ones and of the current  *)
(* chain of retries, unless that chain is one of Tool calls.               *)
(***************************************************************************)
Cost(calls) == calls * (MaxRetries + 1)

Chain(n, s) == IF n = "tool_execution" THEN 0 ELSE s.retries

Stopped(s) == s.failed \/ s.decision = "NEEDS_MANUAL_ACTION"

(* A planner to be retried waits in planning_guard for good, so no call is *)
(* made in its name.                                                       *)
Spent(n, s, a) ==
  /\ a <= Cost(MaxLLMCalls)
  /\ n \in Nodes =>
       /\ ~s.retrying => s.retries = 0
       /\ n = "investigation_planning" => ~s.retrying
       /\ n = "evidence_evaluation" /\ s.retrying => s.verdict \notin {"active", "confirmed"}
       /\ ~(n = "planning_guard" /\ s.retrying) => a <= Cost(s.llm) + Chain(n, s)

CInv == IInv /\ Spent(node, state, attempts)

(* Every counted call pays for one more chain of failed ones.              *)
LEMMA CostGrows ==
  ASSUME NEW l \in Nat
  PROVE  /\ Cost(l) \in Nat /\ Cost(l + 1) = Cost(l) + MaxRetries + 1
         /\ \A m \in Nat : l <= m => Cost(l) <= Cost(m)
<1> DEFINE k == MaxRetries + 1
<1>1. k \in Nat /\ MaxRetries \in Nat
  BY BudgetAssumption
<1>2. Cost(l) = l * k /\ Cost(l + 1) = (l + 1) * k /\ \A m : Cost(m) = m * k
  BY DEF Cost
<1>3. ASSUME NEW m \in Nat, l <= m PROVE l * k <= m * k
  <2> DEFINE d == m - l
  <2>1. d \in Nat /\ m = l + d
    BY <1>3
  <2> HIDE DEF d, k
  <2>2. m * k = l * k + d * k
    BY <1>1, <2>1
  <2>3. d * k \in Nat /\ l * k \in Nat
    BY <1>1, <2>1
  <2> QED
    BY <2>2, <2>3
<1>4. (l + 1) * k = l * k + k /\ l * k \in Nat
  <2> HIDE DEF k
  <2> QED
    BY <1>1
<1> QED
  BY <1>1, <1>2, <1>3, <1>4

(* Before a call is made it fits, wherever it is in its chain.             *)
LEMMA CallFits ==
  ASSUME NEW l \in Nat, NEW retries \in Nat, NEW a \in Nat, NEW b \in Nat,
         retries <= MaxRetries, a <= Cost(l) + retries, b <= a + 1
  PROVE  /\ b <= Cost(l + 1)
         /\ l < MaxLLMCalls => b <= Cost(MaxLLMCalls)
<1>1. /\ Cost(l) \in Nat /\ Cost(l + 1) = Cost(l) + MaxRetries + 1
      /\ MaxLLMCalls \in Nat /\ MaxRetries \in Nat /\ Cost(l + 1) \in Nat
      /\ l + 1 <= MaxLLMCalls => Cost(l + 1) <= Cost(MaxLLMCalls)
      /\ Cost(MaxLLMCalls) \in Nat
  BY BudgetAssumption, CostGrows
<1>2. b <= Cost(l + 1)
  BY <1>1
<1>3. l < MaxLLMCalls => l + 1 <= MaxLLMCalls
  BY <1>1
<1> QED
  BY <1>1, <1>2, <1>3

(* A retry never leads into the planner, and into the evaluation only from *)
(* itself.                                                                 *)
LEMMA RouteRetrying ==
  ASSUME NEW name \in Nodes, NEW s, s.retrying
  PROVE  /\ Route(name, s) # "investigation_planning"
         /\ Route(name, s) = "evidence_evaluation" => name = "evidence_evaluation"
         /\ name = "planning_guard" /\ Route(name, s) \in Nodes => Route(name, s) = name
BY DEF Route, NormalRoute, RouteAfterPlanning, RouteAfterTool, RouteAfterEvaluation,
       RouteAfterConclusion, FailureOrManual, Nodes, Stages

-----------------------------------------------------------------------------
(* What the result of a node adds to the calls.                            *)
GoesOn(name, q) ==
  /\ q.state.llm = state.llm + q.calls
  /\ name = "tool_execution" => (~q.state.retrying => q.state.retries = 0)
  /\ name # "tool_execution" =>
       q.state.retries = state.retries /\ q.state.retrying = state.retrying
  /\ q.calls = 0 => name \in {"tool_execution", "planning_guard"} \/ ~state.retrying

Priced(name, q) ==
  /\ q.calls \in {0, 1}
  /\ q.calls = 1 => name \in LLMNodes /\ state.llm < MaxLLMCalls
  /\ \/ \E kind : /\ q = Raised(kind, q.calls) /\ kind # "no"
                  /\ kind = "retryable" => q.calls = 1
                  /\ name = "evidence_evaluation" =>
                       state.verdict \notin {"active", "confirmed"}
     \/ /\ q = Ran(q.state, q.calls) /\ q.state \in AgentState
        /\ Stopped(q.state) \/ GoesOn(name, q)

(* A step of a node settles one of its results, or a deadline, at its      *)
(* price.                                                                  *)
LEMMA NodePays ==
  ASSUME NEW name \in Nodes, NEW results, RunNode(name, results),
         \A q \in results : q.calls \in {0, 1}
  PROVE  /\ node = name
         /\ \E q \in results : \E r :
              /\ state' = Settle(name, r)
              /\ node' = Route(name, state')
              /\ attempts' = attempts + r.calls
              /\ r.calls \in {0, q.calls}
              /\ \/ r = q
                 \/ \E c : r = Ran(Deadline(state), c)
                 \/ q.raised = "no" /\ \E c : r = Ran(Deadline(q.state), c)
<1>1. PICK r \in UNION {WithDeadline(q) : q \in results} :
        state' = Settle(name, r) /\ node' = Route(name, Settle(name, r))
        /\ attempts' = attempts + r.calls
  BY DEF RunNode
<1>2. PICK q \in results : r \in WithDeadline(q)
  BY <1>1
<1>3. \/ r = q
      \/ \E c \in 0..q.calls : r = Ran(Deadline(state), c)
      \/ q.raised = "no" /\ r = Ran(Deadline(q.state), q.calls)
  BY <1>2 DEF WithDeadline, When
<1>4. r.calls \in {0, q.calls}
  <2>1. CASE \E c \in 0..q.calls : r = Ran(Deadline(state), c)
    <3>1. PICK c \in 0..q.calls : r = Ran(Deadline(state), c)
      BY <2>1
    <3>2. r.calls = c
      BY <3>1 DEF Ran
    <3>3. q.calls \in {0, 1}
      BY <1>2
    <3> QED
      BY <3>2, <3>3
  <2>2. CASE r = q \/ r = Ran(Deadline(q.state), q.calls)
    BY <2>2 DEF Ran
  <2> QED
    BY <1>3, <2>1, <2>2
<1>5. \/ r = q
      \/ \E c : r = Ran(Deadline(state), c)
      \/ q.raised = "no" /\ \E c : r = Ran(Deadline(q.state), c)
  BY <1>3
<1> QED
  BY <1>1, <1>2, <1>4, <1>5 DEF RunNode

(* A state that stops the run stays one when it is settled.                *)
LEMMA StoppedStays ==
  ASSUME NEW name, NEW s \in AgentState, NEW c, Stopped(s)
  PROVE  Stopped(Settle(name, Ran(s, c)))
<1>1. Stopped([s EXCEPT !.retries = 0, !.retrying = FALSE])
  BY DEF Stopped, AgentState
<1> QED
  BY <1>1, SettleReturned

LEMMA DeadlineStops ==
  ASSUME NEW name, NEW s \in AgentState, NEW c
  PROVE  Stopped(Settle(name, Ran(Deadline(s), c)))
<1> DEFINE d == Deadline(s)
<1>1. d \in AgentState /\ d.decision = "NEEDS_MANUAL_ACTION"
  BY DEF Deadline, Manual, AgentState, Decisions, Reasons, StopReasons
<1> HIDE DEF d
<1>2. Stopped(Settle(name, Ran(d, c)))
  BY <1>1, StoppedStays DEF Stopped
<1> QED
  BY <1>2 DEF d

(* A raised error that keeps the run going is a retry of this node.        *)
LEMMA RaisedGoesOn ==
  ASSUME NEW name, NEW kind, NEW c, state \in AgentState, kind # "no",
         ~Stopped(Settle(name, Raised(kind, c)))
  PROVE  /\ kind = "retryable"
         /\ Settle(name, Raised(kind, c)) =
              [state EXCEPT !.retries = state.retries + 1, !.retrying = TRUE]
<1>1. \A reason : Stopped(Failed(state, reason))
  BY DEF Stopped, Failed, AgentState
<1> QED
  BY <1>1 DEF Settle, Raised

(* Outside planning_guard, the calls so far are those of the state.        *)
LEMMA SpentSoFar ==
  ASSUME IInv, Spent(node, state, attempts), node \in Nodes
  PROVE  /\ state \in AgentState /\ state.llm \in Nat /\ state.retries \in Nat
         /\ attempts \in Nat /\ state.retries <= MaxRetries
         /\ ~state.retrying => state.retries = 0
         /\ node # "planning_guard" \/ ~state.retrying =>
              attempts <= Cost(state.llm) + state.retries
         /\ node = "tool_execution" => attempts <= Cost(state.llm)
         /\ node # "planning_guard" => node = state.stage \/ node = "conclusion"
         /\ Cost(state.llm) \in Nat
<1>1. /\ state \in AgentState /\ Clean(state) /\ Underway(node, state) /\ attempts \in Nat
  BY DEF IInv, TypeOK, Sound, AtNode
<1>2. /\ state.llm \in Nat /\ state.retries \in Nat /\ state.retries <= MaxRetries
  BY <1>1 DEF AgentState, Clean
<1>3. Cost(state.llm) \in Nat
  BY <1>2, CostGrows
<1>4. node # "planning_guard" \/ ~state.retrying =>
        attempts <= Cost(state.llm) + Chain(node, state)
  BY DEF Spent
<1>5. /\ Chain(node, state) \in {0, state.retries}
      /\ node = "tool_execution" => Chain(node, state) = 0
  BY DEF Chain
<1> QED
  BY <1>1, <1>2, <1>3, <1>4, <1>5 DEF Spent, Underway

(* A node whose results are all priced keeps the account.                  *)
LEMMA NodeSpent ==
  ASSUME NEW name \in Nodes, NEW results, RunNode(name, results), CInv, IInv',
         \A q \in results : Priced(name, q)
  PROVE  Spent(node, state, attempts)'
<1>0. \A q \in results : q.calls \in {0, 1}
  BY DEF Priced
<1>1. PICK q \in results : \E r :
        /\ state' = Settle(name, r)
        /\ node' = Route(name, state')
        /\ attempts' = attempts + r.calls
        /\ r.calls \in {0, q.calls}
        /\ \/ r = q
           \/ \E c : r = Ran(Deadline(state), c)
           \/ q.raised = "no" /\ \E c : r = Ran(Deadline(q.state), c)
  BY <1>0, NodePays
<1>2. PICK r :
        /\ state' = Settle(name, r)
        /\ node' = Route(name, state')
        /\ attempts' = attempts + r.calls
        /\ r.calls \in {0, q.calls}
        /\ \/ r = q
           \/ \E c : r = Ran(Deadline(state), c)
           \/ q.raised = "no" /\ \E c : r = Ran(Deadline(q.state), c)
  BY <1>1
<1>3. /\ node = name /\ node \in Nodes /\ Priced(name, q)
      /\ IInv /\ Spent(node, state, attempts)
  BY <1>0, <1>1, NodePays DEF CInv
<1>4. /\ state \in AgentState /\ state.llm \in Nat /\ state.retries \in Nat
      /\ attempts \in Nat /\ state.retries <= MaxRetries
      /\ ~state.retrying => state.retries = 0
      /\ node # "planning_guard" \/ ~state.retrying =>
           attempts <= Cost(state.llm) + state.retries
      /\ node = "tool_execution" => attempts <= Cost(state.llm)
      /\ node # "planning_guard" => node = state.stage \/ node = "conclusion"
      /\ Cost(state.llm) \in Nat
  BY <1>3, SpentSoFar
<1>5. q.calls = 1 => /\ name \in LLMNodes /\ name # "planning_guard" /\ name # "tool_execution"
                     /\ state.llm < MaxLLMCalls
                     /\ attempts + 1 <= Cost(state.llm + 1)
                     /\ attempts + 1 <= Cost(MaxLLMCalls)
  <2> SUFFICES ASSUME q.calls = 1
               PROVE  /\ name \in LLMNodes /\ name # "planning_guard" /\ name # "tool_execution"
                      /\ state.llm < MaxLLMCalls
                      /\ attempts + 1 <= Cost(state.llm + 1)
                      /\ attempts + 1 <= Cost(MaxLLMCalls)
    OBVIOUS
  <2>1. /\ name \in LLMNodes /\ name # "planning_guard" /\ name # "tool_execution"
        /\ state.llm < MaxLLMCalls
    BY <1>3 DEF Priced, LLMNodes
  <2>2. attempts + 1 \in Nat /\ attempts + 1 <= attempts + 1
    BY <1>4
  <2>3. attempts <= Cost(state.llm) + state.retries
    BY <1>3, <1>4, <2>1
  <2> QED
    BY <1>4, <2>1, <2>2, <2>3, CallFits
<1>6. attempts' <= Cost(MaxLLMCalls)
  BY <1>2, <1>3, <1>4, <1>5 DEF Priced, Spent
<1>7. ASSUME node' \in Nodes
      PROVE  /\ ~state'.retrying => state'.retries = 0
             /\ node' = "investigation_planning" => ~state'.retrying
             /\ node' = "evidence_evaluation" /\ state'.retrying =>
                  state'.verdict \notin {"active", "confirmed"}
             /\ ~(node' = "planning_guard" /\ state'.retrying) =>
                  attempts' <= Cost(state'.llm) + Chain(node', state')
  <2>1. ~Stopped(state') /\ Underway(node', state') /\ state' \in AgentState
    BY <1>7 DEF IInv, TypeOK, Sound, AtNode, Underway, Stopped
  <2>2. r = q
    <3>1. \A c : r # Ran(Deadline(state), c)
      BY <1>2, <1>4, <2>1, DeadlineStops
    <3>2. q.raised = "no" => q.state \in AgentState
      BY <1>3 DEF Priced, Raised
    <3>3. q.raised = "no" => \A c : r # Ran(Deadline(q.state), c)
      BY <1>2, <2>1, <3>2, DeadlineStops
    <3> QED
      BY <1>2, <3>1, <3>3
  <2>3. node' = "investigation_planning" => ~state'.retrying
    BY <1>2, RouteRetrying
  <2>4. node' = "evidence_evaluation" /\ state'.retrying => name = "evidence_evaluation"
    BY <1>2, RouteRetrying
  <2>5. CASE \E kind : q = Raised(kind, q.calls) /\ kind # "no"
    <3>1. PICK kind : q = Raised(kind, q.calls) /\ kind # "no"
      BY <2>5
    <3>2. kind = "retryable" /\ state' =
            [state EXCEPT !.retries = state.retries + 1, !.retrying = TRUE]
      BY <1>2, <1>4, <2>1, <2>2, <3>1, RaisedGoesOn
    <3>3. q.calls = 1
      BY <1>3, <3>1, <3>2 DEF Priced, Raised, Ran
    <3>4. /\ state'.retries = state.retries + 1 /\ state'.retrying
          /\ state'.llm = state.llm /\ state'.verdict = state.verdict
          /\ state'.stage = state.stage
      BY <1>4, <3>2 DEF AgentState
    <3>5. name = "evidence_evaluation" => state.verdict \notin {"active", "confirmed"}
      BY <1>3, <3>1 DEF Priced, Raised, Ran
    <3>6. node' # "tool_execution"
      BY <1>3, <1>4, <1>5, <2>1, <3>3, <3>4 DEF Underway, LLMNodes
    <3>7. attempts' = attempts + 1 /\ attempts <= Cost(state.llm) + state.retries
      BY <1>2, <1>3, <1>4, <1>5, <2>2, <3>3
    <3>8. attempts' <= Cost(state'.llm) + Chain(node', state')
      BY <1>4, <3>4, <3>6, <3>7 DEF Chain
    <3> QED
      BY <2>3, <2>4, <3>4, <3>5, <3>8
  <2>6. CASE ~\E kind : q = Raised(kind, q.calls) /\ kind # "no"
    <3> DEFINE s == q.state
    <3>1. /\ q = Ran(s, q.calls) /\ s \in AgentState
          /\ Stopped(s) \/ GoesOn(name, q)
      BY <1>3, <2>6 DEF Priced
    <3>2. /\ state' = IF RetrySucceeded(name, s)
                        THEN [s EXCEPT !.retries = 0, !.retrying = FALSE] ELSE s
          /\ Stopped(s) => Stopped(state')
      <4>1. state' = Settle(name, Ran(s, q.calls))
        BY <1>2, <2>2, <3>1
      <4> HIDE DEF s
      <4> QED
        BY <3>1, <4>1, SettleReturned, StoppedStays
    <3>3. GoesOn(name, q)
      BY <2>1, <3>1, <3>2
    <3>4. /\ state'.llm = s.llm /\ (s.retries = 0 => state'.retries = 0)
          /\ state'.retrying => s.retrying
          /\ state'.retries = 0 \/ state' = s
      <4>1. s \in AgentState
        BY <3>1
      <4>2. state' = [s EXCEPT !.retries = 0, !.retrying = FALSE] \/ state' = s
        BY <3>2
      <4> HIDE DEF s
      <4> QED
        BY <4>1, <4>2 DEF AgentState
    <3>5. s.llm = state.llm + q.calls /\ state'.retries \in Nat /\ Chain(node', state') \in Nat
      BY <2>1, <3>3 DEF GoesOn, Chain, AgentState
    <3>6. ~s.retrying => s.retries = 0
      BY <1>4, <3>3 DEF GoesOn
    <3>7. ~state'.retrying => state'.retries = 0
      BY <3>4, <3>6
    <3>8. name \notin {"tool_execution", "planning_guard", "conclusion"} => ~state'.retrying
      <4>1. name \notin {"tool_execution", "planning_guard", "conclusion"} /\ s.retrying
              => RetrySucceeded(name, s)
        BY <1>3, <1>4, <3>3 DEF GoesOn, RetrySucceeded
      <4>2. RetrySucceeded(name, s) => ~state'.retrying
        BY <3>1, <3>2 DEF AgentState
      <4> QED
        BY <3>4, <4>1, <4>2
    <3>9. ASSUME ~(node' = "planning_guard" /\ state'.retrying)
          PROVE  attempts' <= Cost(state'.llm) + Chain(node', state')
      <4>1. attempts' <= Cost(state'.llm)
        <5>1. CASE q.calls = 1
          BY <1>2, <1>5, <2>2, <3>4, <3>5, <5>1
        <5>2. CASE q.calls = 0 /\ name = "tool_execution"
          BY <1>2, <1>3, <1>4, <2>2, <3>4, <3>5, <5>2
        <5>3. CASE q.calls = 0 /\ ~state.retrying
          BY <1>2, <1>3, <1>4, <2>2, <3>4, <3>5, <5>3
        <5>4. CASE q.calls = 0 /\ name = "planning_guard" /\ state.retrying
          <6>1. s.retrying /\ state.stage # name
            BY <1>3, <3>3, <5>4 DEF GoesOn, IInv, Sound, AtNode, Underway
          <6>2. state'.retrying
            BY <3>2, <6>1 DEF RetrySucceeded
          <6> QED
            BY <1>2, <1>7, <3>9, <5>4, <6>2, RouteRetrying
        <5> QED
          BY <1>3, <3>3, <5>1, <5>2, <5>3, <5>4 DEF GoesOn, Priced
      <4>2. Cost(state'.llm) \in Nat
        BY <2>1, CostGrows DEF AgentState
      <4>3. attempts' \in Nat
        BY DEF IInv, TypeOK
      <4> QED
        BY <3>5, <4>1, <4>2, <4>3
    <3> QED
      BY <2>3, <2>4, <3>7, <3>8, <3>9
  <2> QED
    BY <2>5, <2>6
<1> QED
  BY <1>6, <1>7 DEF Spent

-----------------------------------------------------------------------------
(* The results of the nodes, priced.                                       *)
LEMMA RanPriced ==
  ASSUME NEW name, NEW s \in AgentState, NEW c \in {0, 1},
         c = 1 => name \in LLMNodes /\ state.llm < MaxLLMCalls,
         \/ Stopped(s)
         \/ /\ s.llm = state.llm + c
            /\ name = "tool_execution" => (~s.retrying => s.retries = 0)
            /\ name # "tool_execution" =>
                 s.retries = state.retries /\ s.retrying = state.retrying
            /\ c = 0 => name \in {"tool_execution", "planning_guard"} \/ ~state.retrying
  PROVE  Priced(name, Ran(s, c))
<1>1. Ran(s, c).state = s /\ Ran(s, c).calls = c
  BY DEF Ran
<1> QED
  BY <1>1 DEF Priced, GoesOn

LEMMA ManualPriced ==
  ASSUME NEW name, NEW s \in AgentState, NEW reason \in StopReasons
  PROVE  Priced(name, Ran(Manual(s, reason), 0))
<1> DEFINE d == Manual(s, reason)
<1>1. d \in AgentState /\ Stopped(d)
  BY DEF Stopped, Manual, AgentState, Decisions, Reasons
<1> HIDE DEF d
<1>2. Priced(name, Ran(d, 0))
  BY <1>1, RanPriced
<1> QED
  BY <1>2 DEF d

LEMMA FaultsPriced ==
  ASSUME NEW name \in LLMNodes, state.llm < MaxLLMCalls,
         name = "evidence_evaluation" => state.verdict \notin {"active", "confirmed"}
  PROVE  \A q \in LLMFaults \union {Raised("retryable", 1)} : Priced(name, q)
<1>1. \A kind \in {"retryable", "unexpected"} : Priced(name, Raised(kind, 1))
  <2>1. ASSUME NEW kind \in {"retryable", "unexpected"} PROVE Priced(name, Raised(kind, 1))
    <3>1. Raised(kind, 1).calls = 1 /\ kind # "no"
      BY <2>1 DEF Raised
    <3> QED
      BY <3>1 DEF Priced
  <2> QED
    BY <2>1
<1> QED
  BY <1>1 DEF LLMFaults, When

LEMMA BudgetPriced ==
  ASSUME NEW name \in LLMNodes, NEW results, state \in AgentState,
         state.llm < MaxLLMCalls => \A q \in results : Priced(name, q)
  PROVE  \A q \in WithLLMBudget(results) : Priced(name, q)
<1>1. "llm_call_budget_exhausted" \in StopReasons
  BY DEF StopReasons
<1>2. Priced(name, Ran(Manual(state, "llm_call_budget_exhausted"), 0))
  BY <1>1, ManualPriced
<1>3. ~(state.llm >= MaxLLMCalls) => state.llm < MaxLLMCalls
  BY BudgetAssumption DEF AgentState
<1> QED
  BY <1>2, <1>3 DEF WithLLMBudget

(* What a node is given.                                                   *)
LEMMA Given ==
  ASSUME CInv, NEW name \in Nodes, node = name
  PROVE  /\ state \in AgentState /\ Underway(name, state) /\ Sound(name, state)
         /\ name \notin {"planning_guard", "conclusion"} => state.stage = name
         /\ name \in {"intake", "retrieval", "conclusion", "investigation_planning"} =>
              ~state.retrying
         /\ name = "evidence_evaluation" /\ state.retrying =>
              state.verdict \notin {"active", "confirmed"}
BY DEF CInv, IInv, Sound, AtNode, Underway, Spent, Clean

(* A call whose node returns a state of the same chain.                    *)
LEMMA CalledPriced ==
  ASSUME NEW name \in LLMNodes, NEW s \in AgentState, state \in AgentState,
         state.llm < MaxLLMCalls, s.llm = state.llm,
         s.retries = state.retries, s.retrying = state.retrying
  PROVE  Priced(name, Called(s))
<1> DEFINE t == [s EXCEPT !.llm = @ + 1]
<1>1. t \in AgentState
  BY CountedTyped
<1>2. t.llm = state.llm + 1 /\ t.retries = state.retries /\ t.retrying = state.retrying
  BY DEF AgentState
<1>3. Called(s) = Ran(t, 1)
  BY DEF Called
<1> HIDE DEF t
<1>4. name # "tool_execution"
  BY DEF LLMNodes
<1> QED
  BY <1>1, <1>2, <1>3, <1>4, RanPriced

LEMMA StoppedCallPriced ==
  ASSUME NEW name \in LLMNodes, state \in AgentState, state.llm < MaxLLMCalls,
         NEW reason \in StopReasons
  PROVE  Priced(name, Called(Manual(state, reason)))
<1> DEFINE d == Manual(state, reason)
<1>1. d \in AgentState /\ d.llm = state.llm /\ d.retries = state.retries
      /\ d.retrying = state.retrying
  BY DEF Manual, AgentState, Decisions, Reasons
<1> HIDE DEF d
<1>2. Priced(name, Called(d))
  BY <1>1, CalledPriced
<1> QED
  BY <1>2 DEF d

LEMMA IntakeSpent ==
  ASSUME Intake, CInv, IInv'
  PROVE  Spent(node, state, attempts)'
<1> DEFINE name == "intake"
           s == [state EXCEPT !.stage = "retrieval"]
<1>1. RunNode(name, {Ran(s, 0)}) /\ node = name /\ name \in Nodes
  BY DEF Intake, RunNode, Nodes, Stages
<1>2. state \in AgentState /\ ~state.retrying
  BY <1>1, Given
<1>3. s \in AgentState /\ s.llm = state.llm + 0 /\ s.retries = state.retries
      /\ s.retrying = state.retrying
  BY <1>2 DEF AgentState, Stages
<1> HIDE DEF s
<1>4. Priced(name, Ran(s, 0))
  BY <1>2, <1>3, RanPriced
<1> QED
  BY <1>1, <1>4, NodeSpent

LEMMA RetrievalSpent ==
  ASSUME Retrieval, CInv, IInv'
  PROVE  Spent(node, state, attempts)'
<1> DEFINE name == "retrieval"
           searched == [state EXCEPT !.tools = @ + 1]
           found == [searched EXCEPT !.stage = "hypothesis_generation"]
           results == {Ran(found, 0)} \union When("retrieval", {Ran(searched, 0)})
                        \union When("invalid", {Raised("unexpected", 0)})
<1>1. RunNode(name, AtStage(name, results)) /\ node = name /\ name \in Nodes
  BY DEF Retrieval, RunNode, Nodes, Stages
<1>2. state \in AgentState /\ ~state.retrying /\ state.stage = name
  BY <1>1, Given
<1>3. searched \in AgentState /\ searched.llm = state.llm + 0
      /\ searched.retries = state.retries /\ searched.retrying = state.retrying
  <2>1. searched \in AgentState
    BY <1>2, CountedTyped
  <2> QED
    BY <1>2, <2>1 DEF AgentState
<1> HIDE DEF searched
<1>4. found \in AgentState /\ found.llm = state.llm + 0
      /\ found.retries = state.retries /\ found.retrying = state.retrying
  BY <1>3 DEF AgentState, Stages
<1> HIDE DEF found
<1>5. Priced(name, Ran(found, 0)) /\ Priced(name, Ran(searched, 0))
  BY <1>2, <1>3, <1>4, RanPriced
<1>6. Priced(name, Raised("unexpected", 0))
  BY DEF Priced, Raised
<1>7. \A q \in AtStage(name, results) : Priced(name, q)
  BY <1>2, <1>5, <1>6 DEF AtStage, When
<1> HIDE DEF results
<1> QED
  BY <1>1, <1>7, NodeSpent

LEMMA HypothesisGenerationSpent ==
  ASSUME HypothesisGeneration, CInv, IInv'
  PROVE  Spent(node, state, attempts)'
<1> DEFINE name == "hypothesis_generation"
           s == [state EXCEPT !.verdict = "active", !.stage = "investigation_planning"]
           results == AtStage(name, {Called(s)} \union LLMFaults)
<1>1. RunNode(name, WithLLMBudget(results)) /\ node = name /\ name \in Nodes
      /\ name \in LLMNodes
  BY DEF HypothesisGeneration, RunNode, Nodes, Stages, LLMNodes
<1>2. state \in AgentState /\ state.stage = name
  BY <1>1, Given
<1>3. s \in AgentState /\ s.llm = state.llm /\ s.retries = state.retries
      /\ s.retrying = state.retrying
  BY <1>2 DEF AgentState, Stages, Verdicts
<1> HIDE DEF s
<1>4. state.llm < MaxLLMCalls => \A q \in results : Priced(name, q)
  BY <1>1, <1>2, <1>3, CalledPriced, FaultsPriced DEF AtStage
<1> HIDE DEF results
<1>5. \A q \in WithLLMBudget(results) : Priced(name, q)
  BY <1>1, <1>2, <1>4, BudgetPriced
<1> QED
  BY <1>1, <1>5, NodeSpent

LEMMA PlanningGuardSpent ==
  ASSUME PlanningGuard, CInv, IInv'
  PROVE  Spent(node, state, attempts)'
<1> DEFINE name == "planning_guard"
           s == IF state.failures >= MaxConsecutiveFailures
                  THEN Failed(state, "repeated_failures")
                ELSE IF state.rounds >= MaxIterations
                  THEN Manual(state, "iteration_budget_exhausted")
                ELSE IF state.tools >= MaxToolCalls
                  THEN Manual(state, "tool_budget_exhausted")
                ELSE state
<1>1. RunNode(name, AtStage("investigation_planning", {Ran(s, 0)})) /\ node = name
      /\ name \in Nodes
  BY DEF PlanningGuard, RunNode, Nodes
<1>2. state \in AgentState /\ state.stage = "investigation_planning"
  BY <1>1, Given DEF Underway
<1>3. /\ \A reason \in {"iteration_budget_exhausted", "tool_budget_exhausted"} :
           Manual(state, reason) \in AgentState /\ Stopped(Manual(state, reason))
      /\ Failed(state, "repeated_failures") \in AgentState
      /\ Stopped(Failed(state, "repeated_failures"))
  BY <1>2 DEF Manual, Failed, Stopped, AgentState, Decisions, Reasons, StopReasons,
              FailureReasons
<1>4. s \in AgentState /\ (Stopped(s) \/ s = state)
  BY <1>2, <1>3
<1> HIDE DEF s
<1>5. Priced(name, Ran(s, 0))
  <2>1. state.llm = state.llm + 0
    BY <1>2 DEF AgentState
  <2> QED
    BY <1>4, <2>1, RanPriced
<1>6. \A q \in AtStage("investigation_planning", {Ran(s, 0)}) : Priced(name, q)
  BY <1>2, <1>5 DEF AtStage
<1> QED
  BY <1>1, <1>6, NodeSpent

LEMMA InvestigationPlanningSpent ==
  ASSUME InvestigationPlanning, CInv, IInv'
  PROVE  Spent(node, state, attempts)'
<1> DEFINE name == "investigation_planning"
           none == {Ran(Manual(state, "no_further_investigation"), 0)}
           probe == {Ran(Planned(InitialProbe), 0)}
           results == AtStage(name,
                        IF RemainingTools = {} THEN none
                        ELSE IF InitialProbe # "none" THEN probe
                        ELSE WithLLMBudget(PlannerResults))
<1>1. RunNode(name, results) /\ node = name /\ name \in Nodes /\ name \in LLMNodes
  BY DEF InvestigationPlanning, RunNode, Nodes, Stages, LLMNodes
<1>2. state \in AgentState /\ ~state.retrying /\ state.stage = name
  BY <1>1, Given
<1>3. "no_further_investigation" \in StopReasons
  BY DEF StopReasons
<1>4. ASSUME NEW tool \in Tools
      PROVE  /\ Planned(tool) \in AgentState
             /\ Planned(tool).llm = state.llm /\ Planned(tool).retries = state.retries
             /\ Planned(tool).retrying = state.retrying
  BY <1>2 DEF Planned, AgentState, Stages
<1>5. \A q \in none : Priced(name, q)
  BY <1>2, <1>3, ManualPriced
<1>6. InitialProbe # "none" => \A q \in probe : Priced(name, q)
  <2> SUFFICES ASSUME InitialProbe # "none"
               PROVE  Priced(name, Ran(Planned(InitialProbe), 0))
    OBVIOUS
  <2>1. InitialProbe \in Tools
    BY <1>2, InitialProbeTyped
  <2> DEFINE s == Planned(InitialProbe)
  <2>2. s \in AgentState /\ s.llm = state.llm /\ s.retries = state.retries
        /\ s.retrying = state.retrying
    BY <1>4, <2>1
  <2>3. s.llm = state.llm + 0
    BY <1>2, <2>2 DEF AgentState
  <2> HIDE DEF s
  <2>4. Priced(name, Ran(s, 0))
    BY <1>2, <2>2, <2>3, RanPriced
  <2> QED
    BY <2>4 DEF s
<1>7. state.llm < MaxLLMCalls => \A q \in PlannerResults : Priced(name, q)
  <2> SUFFICES ASSUME state.llm < MaxLLMCalls, NEW q \in PlannerResults
               PROVE  Priced(name, q)
    OBVIOUS
  <2>1. CASE \E tool \in RemainingTools : q = Called(Planned(tool))
    <3>1. PICK tool \in RemainingTools : q = Called(Planned(tool))
      BY <2>1
    <3>2. tool \in Tools
      BY BudgetAssumption DEF RemainingTools
    <3> DEFINE s == Planned(tool)
    <3>3. s \in AgentState /\ s.llm = state.llm /\ s.retries = state.retries
          /\ s.retrying = state.retrying
      BY <1>4, <3>2
    <3> HIDE DEF s
    <3>4. Priced(name, Called(s))
      BY <1>1, <1>2, <3>3, CalledPriced
    <3> QED
      BY <3>1, <3>4 DEF s
  <2>2. CASE q = Called(Manual(state, "no_further_investigation"))
    BY <1>1, <1>2, <1>3, <2>2, StoppedCallPriced
  <2>3. CASE q = Raised("retryable", 1)
    BY <1>1, <2>3, FaultsPriced
  <2> QED
    BY <2>1, <2>2, <2>3 DEF PlannerResults, When
<1>8. \A q \in WithLLMBudget(PlannerResults) : Priced(name, q)
  BY <1>1, <1>2, <1>7, BudgetPriced
<1>9. \A q \in results : Priced(name, q)
  <2> HIDE DEF none, probe
  <2> QED
    BY <1>2, <1>5, <1>6, <1>8 DEF AtStage
<1> HIDE DEF results
<1> QED
  BY <1>1, <1>9, NodeSpent

(* What becomes of the chain of retries when a Tool call returns: it is    *)
(* kept, reset by a success, or lengthened by a retry.                     *)
LEMMA RecordedChain ==
  ASSUME NEW tool \in Tools, Sound("tool_execution", state)
  PROVE  /\ Recorded(tool) \in AgentState /\ Recorded(tool).llm = state.llm
         /\ Recorded(tool).retries = state.retries
         /\ Recorded(tool).retrying = state.retrying
         /\ ToolDropped(tool) \in AgentState /\ ToolDropped(tool).llm = state.llm
         /\ ToolDropped(tool).retries = state.retries
         /\ ToolDropped(tool).retrying = state.retrying
<1> DEFINE tools == state.tools + 1
           probed == Probed(tool)
           r == [state EXCEPT !.tools = tools, !.probed = probed]
           d == [r EXCEPT !.pending = "none", !.stage = "investigation_planning"]
<1>1. state \in AgentState /\ Recorded(tool) \in AgentState /\ ToolDropped(tool) \in AgentState
  BY RecordedClean, ToolDroppedClean DEF Sound, Clean
<1>2. Recorded(tool) = r /\ ToolDropped(tool) = d
  BY DEF Recorded, ToolDropped
<1> HIDE DEF tools, probed
<1>3. r.llm = state.llm /\ r.retries = state.retries /\ r.retrying = state.retrying
  BY <1>1 DEF AgentState
<1>4. r \in AgentState
  BY <1>1, <1>2
<1> HIDE DEF r
<1>5. d.llm = r.llm /\ d.retries = r.retries /\ d.retrying = r.retrying
  BY <1>4 DEF AgentState
<1> HIDE DEF d
<1> QED
  BY <1>1, <1>2, <1>3, <1>5

LEMMA ToolResultPriced ==
  ASSUME NEW s \in AgentState, state \in AgentState,
         Stopped(s) \/ (s.llm = state.llm /\ (~s.retrying => s.retries = 0))
  PROVE  Priced("tool_execution", Ran(s, 0))
<1>1. state.llm = state.llm + 0
  BY DEF AgentState
<1> QED
  BY <1>1, RanPriced

LEMMA ToolFailedPriced ==
  ASSUME NEW tool \in Tools, Sound("tool_execution", state),
         ~state.retrying => state.retries = 0
  PROVE  Priced("tool_execution", Ran(ToolFailed(tool), 0))
<1> DEFINE d == ToolDropped(tool)
           counted == [d EXCEPT !.failures = @ + 1]
           again == [counted EXCEPT !.retries = @ + 1]
           retried == [again EXCEPT !.retrying = TRUE, !.pending = tool,
                                    !.stage = "tool_execution"]
           ended == [counted EXCEPT !.retrying = FALSE]
           s == ToolFailed(tool)
<1>1. /\ state \in AgentState /\ d \in AgentState /\ d.llm = state.llm
      /\ d.retries = state.retries /\ d.retrying = state.retrying
  BY RecordedChain DEF Sound, Clean
<1>2. s = IF counted.failures >= MaxConsecutiveFailures
            THEN Failed(counted, "repeated_failures")
          ELSE IF RetryAllowed(state.tools + 1)
            THEN [counted EXCEPT !.retries = @ + 1, !.retrying = TRUE,
                                 !.pending = tool, !.stage = "tool_execution"]
          ELSE IF RetriesExhausted
            THEN Failed(ended, "retry_budget_exhausted")
          ELSE counted
  BY DEF ToolFailed
<1> HIDE DEF d, s
<1>3. counted \in AgentState /\ counted.llm = state.llm
      /\ counted.retries = state.retries /\ counted.retrying = state.retrying
  <2>1. counted \in AgentState
    BY <1>1, CountedTyped
  <2> QED
    BY <1>1, <2>1 DEF AgentState
<1> HIDE DEF counted
<1>4. retried \in AgentState /\ retried.llm = state.llm /\ retried.retrying
  <2>1. again \in AgentState
    BY <1>3, CountedTyped
  <2>2. again.llm = state.llm
    BY <1>3 DEF AgentState
  <2> HIDE DEF again
  <2> QED
    BY <2>1, <2>2 DEF AgentState, Stages
<1>5. [counted EXCEPT !.retries = @ + 1, !.retrying = TRUE,
                      !.pending = tool, !.stage = "tool_execution"] = retried
  BY <1>3 DEF AgentState
<1> HIDE DEF retried
<1>6. ended \in AgentState
  BY <1>3 DEF AgentState
<1> HIDE DEF ended
<1>7. /\ Failed(counted, "repeated_failures") \in AgentState
      /\ Stopped(Failed(counted, "repeated_failures"))
      /\ Failed(ended, "retry_budget_exhausted") \in AgentState
      /\ Stopped(Failed(ended, "retry_budget_exhausted"))
  BY <1>3, <1>6 DEF Failed, Stopped, AgentState, Reasons, FailureReasons
<1>8. s \in AgentState /\ (Stopped(s) \/ (s.llm = state.llm /\ (~s.retrying => s.retries = 0)))
  BY <1>2, <1>3, <1>4, <1>5, <1>7
<1>9. Priced("tool_execution", Ran(s, 0))
  BY <1>1, <1>8, ToolResultPriced
<1> QED
  BY <1>9 DEF s

LEMMA ToolSucceededPriced ==
  ASSUME NEW tool \in Tools, Sound("tool_execution", state)
  PROVE  Priced("tool_execution", Ran(ToolSucceeded(tool), 0))
<1> DEFINE r == Recorded(tool)
           next == IF Complementary(tool) THEN "investigation_planning"
                                          ELSE "hypothesis_update"
           left == r.exhausted \ {tool}
           grounds == r.grounded \/ tool \in RuntimeTools
           s == [r EXCEPT !.failures = 0, !.retries = 0, !.retrying = FALSE,
                          !.pending = "none", !.exhausted = left,
                          !.grounded = grounds, !.stage = next]
<1>1. state \in AgentState /\ r \in AgentState /\ r.llm = state.llm
  BY RecordedChain DEF Sound, Clean
<1>2. ToolSucceeded(tool) = s
  BY DEF ToolSucceeded
<1>3. next \in {"investigation_planning", "hypothesis_update"}
  OBVIOUS
<1> HIDE DEF r, next
<1>4. left \in SUBSET Tools /\ grounds \in BOOLEAN
  BY <1>1 DEF AgentState
<1> HIDE DEF left, grounds
<1>5. s \in AgentState
  BY <1>1, <1>3, <1>4 DEF AgentState, Stages
<1>6. s.llm = state.llm /\ s.retries = 0
  BY <1>1 DEF AgentState
<1> HIDE DEF s
<1>7. Priced("tool_execution", Ran(s, 0))
  BY <1>1, <1>5, <1>6, ToolResultPriced
<1> QED
  BY <1>2, <1>7

LEMMA ToolExecutionSpent ==
  ASSUME ToolExecution, CInv, IInv'
  PROVE  Spent(node, state, attempts)'
<1> DEFINE name == "tool_execution"
           tool == state.pending
           missing == [ToolDropped(tool) EXCEPT !.exhausted = @ \union {tool}]
           results == AtStage(name,
                        {Ran(ToolSucceeded(tool), 0)}
                          \union When("tool", {Ran(ToolFailed(tool), 0)})
                          \union When("refused", {Ran(ToolDropped(tool), 0)})
                          \union When("capability", {Ran(missing, 0)})
                          \union Oversized(tool))
<1>1. RunNode(name, results) /\ node = name /\ name \in Nodes
  BY DEF ToolExecution, RunNode, Nodes, Stages
<1>2. state \in AgentState /\ Sound(name, state) /\ state.stage = name /\ tool \in Tools
      /\ (~state.retrying => state.retries = 0)
  BY <1>1, Given DEF CInv, Spent, Underway
<1> HIDE DEF tool
<1>3. Priced(name, Ran(ToolSucceeded(tool), 0)) /\ Priced(name, Ran(ToolFailed(tool), 0))
  BY <1>2, ToolSucceededPriced, ToolFailedPriced
<1> DEFINE d == ToolDropped(tool)
<1>4. d \in AgentState /\ d.llm = state.llm /\ d.retries = state.retries
      /\ d.retrying = state.retrying
  BY <1>2, RecordedChain
<1>5. Priced(name, Ran(d, 0))
  <2> HIDE DEF d
  <2> QED
    BY <1>2, <1>4, ToolResultPriced
<1>6. Priced(name, Ran(missing, 0))
  <2> DEFINE more == d.exhausted \union {tool}
             s == [d EXCEPT !.exhausted = more]
  <2>1. s = missing
    OBVIOUS
  <2> HIDE DEF d, missing
  <2>2. more \in SUBSET Tools
    BY <1>2, <1>4 DEF AgentState
  <2> HIDE DEF more
  <2>3. s \in AgentState /\ s.llm = state.llm /\ s.retries = state.retries
        /\ s.retrying = state.retrying
    BY <1>4, <2>2 DEF AgentState
  <2> HIDE DEF s
  <2>4. Priced(name, Ran(s, 0))
    BY <1>2, <2>3, ToolResultPriced
  <2> QED
    BY <2>1, <2>4
<1>7. \A q \in Oversized(tool) : Priced(name, q)
  <2>1. \A q \in Oversized(tool) : q = Raised("unexpected", 0)
    BY DEF Oversized, When
  <2>2. Priced(name, Raised("unexpected", 0))
    BY DEF Priced, Raised
  <2> QED
    BY <2>1, <2>2
<1>8. \A q \in results : Priced(name, q)
  <2>1. Priced(name, Ran(ToolDropped(tool), 0))
    BY <1>5
  <2> HIDE DEF missing, d
  <2> QED
    BY <1>2, <1>3, <1>6, <1>7, <2>1 DEF AtStage, When
<1> HIDE DEF results
<1> QED
  BY <1>1, <1>8, NodeSpent

LEMMA HypothesisUpdateSpent ==
  ASSUME HypothesisUpdate, CInv, IInv'
  PROVE  Spent(node, state, attempts)'
<1> DEFINE name == "hypothesis_update"
           verdicts == {"active", "settled"}
                         \union (IF state.grounded THEN {"confirmed"} ELSE {})
           s(v) == [state EXCEPT !.verdict = v, !.rounds = @ + 1,
                                 !.stage = "evidence_evaluation"]
           results == AtStage(name, {Called(s(v)) : v \in verdicts} \union LLMFaults)
<1>1. RunNode(name, WithLLMBudget(results)) /\ node = name /\ name \in Nodes
      /\ name \in LLMNodes
  BY DEF HypothesisUpdate, RunNode, Nodes, Stages, LLMNodes
<1>2. state \in AgentState /\ state.stage = name
  BY <1>1, Given
<1>3. ASSUME NEW v \in verdicts
      PROVE  s(v) \in AgentState /\ s(v).llm = state.llm /\ s(v).retries = state.retries
             /\ s(v).retrying = state.retrying
  <2> DEFINE rounds == state.rounds + 1
  <2>1. rounds \in Nat /\ v \in Verdicts
    BY <1>2 DEF AgentState, Verdicts
  <2>2. s(v) = [state EXCEPT !.verdict = v, !.rounds = rounds,
                             !.stage = "evidence_evaluation"]
    OBVIOUS
  <2> HIDE DEF rounds, s
  <2> QED
    BY <1>2, <2>1, <2>2 DEF AgentState, Stages
<1>4. ASSUME state.llm < MaxLLMCalls, NEW v \in verdicts
      PROVE  Priced(name, Called(s(v)))
  <2> DEFINE u == s(v)
  <2>1. u \in AgentState /\ u.llm = state.llm /\ u.retries = state.retries
        /\ u.retrying = state.retrying
    BY <1>3
  <2> HIDE DEF u
  <2>2. Priced(name, Called(u))
    BY <1>1, <1>2, <1>4, <2>1, CalledPriced
  <2> QED
    BY <2>2 DEF u
<1>5. state.llm < MaxLLMCalls => \A q \in results : Priced(name, q)
  <2> HIDE DEF s, verdicts
  <2> QED
    BY <1>1, <1>2, <1>4, FaultsPriced DEF AtStage
<1> HIDE DEF results
<1>6. \A q \in WithLLMBudget(results) : Priced(name, q)
  BY <1>1, <1>2, <1>5, BudgetPriced
<1> QED
  BY <1>1, <1>6, NodeSpent

LEMMA EvidenceEvaluationSpent ==
  ASSUME EvidenceEvaluation, CInv, IInv'
  PROVE  Spent(node, state, attempts)'
<1> DEFINE name == "evidence_evaluation"
           concluding == [state EXCEPT !.decision = "CONCLUDE", !.reason = "none"]
           asked == {Called(Continued), Called(Manual(state, "investigation_inconclusive"))}
                      \union LLMFaults
           results == AtStage(name,
                        IF state.verdict = "confirmed" THEN {Ran(concluding, 0)}
                        ELSE IF state.verdict = "active" THEN {Ran(Continued, 0)}
                        ELSE WithLLMBudget(asked))
<1>1. RunNode(name, results) /\ node = name /\ name \in Nodes /\ name \in LLMNodes
  BY DEF EvidenceEvaluation, RunNode, Nodes, Stages, LLMNodes
<1>2. state \in AgentState /\ state.stage = name
      /\ (state.verdict \in {"active", "confirmed"} => ~state.retrying)
      /\ state.llm = state.llm + 0
  <2>1. state \in AgentState /\ state.stage = name
        /\ (state.retrying => state.verdict \notin {"active", "confirmed"})
    BY <1>1, Given
  <2> QED
    BY <2>1 DEF AgentState
<1>3. Continued \in AgentState /\ Continued.llm = state.llm
      /\ Continued.retries = state.retries /\ Continued.retrying = state.retrying
  BY <1>2 DEF Continued, AgentState, Stages, Decisions
<1>4. concluding \in AgentState /\ concluding.llm = state.llm
      /\ concluding.retries = state.retries /\ concluding.retrying = state.retrying
  BY <1>2 DEF AgentState, Decisions, Reasons
<1> HIDE DEF concluding
<1>5. state.verdict = "confirmed" => Priced(name, Ran(concluding, 0))
  BY <1>2, <1>4, RanPriced
<1>6. state.verdict = "active" => Priced(name, Ran(Continued, 0))
  BY <1>2, <1>3, RanPriced
<1>7. state.llm < MaxLLMCalls /\ state.verdict \notin {"active", "confirmed"} =>
        \A q \in asked : Priced(name, q)
  <2> SUFFICES ASSUME state.llm < MaxLLMCalls, state.verdict \notin {"active", "confirmed"}
               PROVE  \A q \in asked : Priced(name, q)
    OBVIOUS
  <2>1. Priced(name, Called(Continued))
    BY <1>1, <1>2, <1>3, CalledPriced
  <2>2. "investigation_inconclusive" \in StopReasons
    BY DEF StopReasons
  <2>3. Priced(name, Called(Manual(state, "investigation_inconclusive")))
    BY <1>1, <1>2, <2>2, StoppedCallPriced
  <2>4. \A q \in LLMFaults : Priced(name, q)
    BY <1>1, FaultsPriced
  <2> QED
    BY <2>1, <2>3, <2>4
<1> HIDE DEF asked
<1>8. state.verdict \notin {"active", "confirmed"} =>
        \A q \in WithLLMBudget(asked) : Priced(name, q)
  BY <1>1, <1>2, <1>7, BudgetPriced
<1>9. \A q \in results : Priced(name, q)
  BY <1>2, <1>5, <1>6, <1>8 DEF AtStage
<1> HIDE DEF results
<1> QED
  BY <1>1, <1>9, NodeSpent

LEMMA ConclusionSpent ==
  ASSUME Conclusion, CInv, IInv'
  PROVE  Spent(node, state, attempts)'
<1> DEFINE name == "conclusion"
           drawn == [state EXCEPT !.concluded = TRUE, !.stage = "conclusion",
                                  !.reason = "sufficient_evidence"]
           s == IF state.decision # "CONCLUDE" THEN state
                ELSE IF state.verdict # "confirmed"
                  THEN Manual(state, "investigation_inconclusive")
                ELSE drawn
<1>1. RunNode(name, {Ran(s, 0)}) /\ node = name /\ name \in Nodes
  BY DEF Conclusion, RunNode, Nodes, Stages
<1>2. state \in AgentState /\ ~state.retrying
      /\ state.decision = "CONCLUDE" /\ state.verdict = "confirmed"
  BY <1>1, Given DEF Underway
<1>3. drawn \in AgentState /\ drawn.llm = state.llm + 0 /\ drawn.retries = state.retries
      /\ drawn.retrying = state.retrying
  <2>1. state.llm = state.llm + 0
    BY <1>2 DEF AgentState
  <2> QED
    BY <1>2, <2>1 DEF AgentState, Stages, Reasons
<1>4. s = drawn
  BY <1>2
<1> HIDE DEF drawn, s
<1>5. Priced(name, Ran(s, 0))
  BY <1>2, <1>3, <1>4, RanPriced
<1> QED
  BY <1>1, <1>5, NodeSpent

(* The first state has made no call, and every step keeps the account.     *)
LEMMA NextCInv == CInv /\ [Next]_vars => CInv'
<1> SUFFICES ASSUME CInv, [Next]_vars PROVE CInv'
  OBVIOUS
<1>1. IInv'
  BY NextIInv DEF CInv
<1>2. CASE WrappedNode
  <2>1. Spent(node, state, attempts)'
    BY <1>1, <1>2, IntakeSpent, RetrievalSpent, HypothesisGenerationSpent,
       PlanningGuardSpent, InvestigationPlanningSpent, ToolExecutionSpent,
       HypothesisUpdateSpent, EvidenceEvaluationSpent, ConclusionSpent DEF WrappedNode
  <2> QED
    BY <1>1, <2>1 DEF CInv
<1>3. CASE Terminalize \/ ExceedRecursion
  BY <1>1, <1>3 DEF Terminalize, ExceedRecursion, CInv, Spent, Nodes, Stages
<1>4. CASE UNCHANGED vars
  BY <1>1, <1>4 DEF vars, CInv, Spent, Chain
<1> QED
  BY <1>2, <1>3, <1>4 DEF Next, NodeStep, WrappedNode, Finished

(* The calls of one run, those that fail included, never exceed the LLM    *)
(* budget times one chain of retries, although llm_call_count only counts  *)
(* the calls whose node returned.                                          *)
THEOREM AttemptsAlwaysBounded == Spec => []AttemptsBounded
<1>1. Init => CInv
  <2> SUFFICES ASSUME Init PROVE CInv
    OBVIOUS
  <2>1. Cost(MaxLLMCalls) \in Nat /\ Cost(0) \in Nat
    BY BudgetAssumption, CostGrows
  <2>2. attempts = 0 /\ state.retries = 0 /\ ~state.retrying /\ node = "intake"
        /\ state.llm = 0
    BY DEF Init, InitialState
  <2>3. Spent(node, state, attempts)
    BY <2>1, <2>2 DEF Spent, Chain
  <2> QED
    BY <2>3, InitIInv DEF CInv
<1>2. CInv => AttemptsBounded
  BY DEF CInv, Spent, Cost, AttemptsBounded
<1> QED
  BY <1>1, <1>2, NextCInv, PTL DEF Spec
=============================================================================
