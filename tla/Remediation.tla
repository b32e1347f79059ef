---------------------------- MODULE Remediation ----------------------------
(***************************************************************************)
(* The V1 path from a concluded investigation to a repaired service: the   *)
(* policy gate's pending Action, the human decision, the rollback, its     *)
(* verification and the final report.  The workflow runs once up to its    *)
(* approval interrupt; every decision request may then resume its thread.  *)
(*                                                                         *)
(* Rows live in PostgreSQL and are committed by each node.  The graph's    *)
(* state lives in a checkpoint, which LangGraph writes in the background   *)
(* after each node: unsaved[a] are the checkpoints run a has produced and  *)
(* the store does not have yet.  Sessions keep a loaded object only while  *)
(* the node that loaded it runs, and flush only the attributes it changed. *)
(* One incident with at most one Action is modelled; the checks that a     *)
(* record belongs to this incident cannot fail and are left out.           *)
(***************************************************************************)
EXTENDS Integers, Sequences, FaultLab

(* Requests, of FaultLab, are the POST /incidents/{id}/approval requests:  *)
(* each runs the graph at most once and asks for at most one rollback.     *)
CONSTANTS
  Faults,     \* the failures the environment may inject
  MaxUnsaved, \* bound: how far a run may be ahead of the checkpoint store
  MaxDisturbances \* bound: faults, interventions and orders in one behaviour

Workflow == "workflow"
Runs     == Requests \union {Workflow}

FaultKinds ==
  { "crash",        \* the backend process stops, background writes included
    "database",     \* a node's commit fails
    "outage",       \* a Fault Lab query fails
    "lost_answer" } \* the rollback request gets no answer in time

ASSUME RemediationAssumption ==
  /\ Workflow \notin Requests
  /\ Faults \subseteq FaultKinds
  /\ MaxUnsaved \in Nat \ {0}
  /\ MaxDisturbances \in Nat

VARIABLES
  incident,      \* Incident.status
  action,        \* the Action row
  approval,      \* the Approval row's status, unique per Action
  verification,  \* the Verification row's status, unique per Action
  report,        \* the facts the Report row records, unique per round
  thread,        \* the latest persisted checkpoint of the incident's thread
  unsaved,       \* what each run's background checkpoint writer still holds
  pc,            \* where each run stands: a node, or a step inside it
  view,          \* what each run holds in memory
  overlapped,    \* history: two requests have resumed the thread at once
  disturbed      \* how many faults, interventions and orders there were

rowVars == <<incident, action, approval, verification, report>>
vars == <<rowVars, thread, unsaved, pc, view, overlapped, disturbed, labVars>>

IncidentStatus == {"INVESTIGATING", "WAITING_APPROVAL", "REMEDIATING",
                   "VERIFYING", "RESOLVED", "NEEDS_MANUAL_ACTION"}
Closed         == {"RESOLVED", "NEEDS_MANUAL_ACTION"}
ActionStatus   == {"none", "PENDING_APPROVAL", "APPROVED", "REJECTED",
                   "EXECUTED", "FAILED"}
Decision       == {"APPROVED", "REJECTED"}
Performed      == {"executed", "found"}  \* by this run, or already there
Verdict        == {"PASS", "FAIL", "INCONCLUSIVE"}
Stages         == {"investigation", "policy_gate", "waiting_approval",
                   "action_execution", "recovery_verification",
                   "resolved", "needs_manual_action"}
Investigating  == {"intake", "retrieval", "hypothesis_generation",
                   "planning_guard", "investigation_planning",
                   "tool_execution", "hypothesis_update",
                   "evidence_evaluation", "resolution_proposal"}
Nodes          == Investigating \union
                  {"policy_gate", "approval_wait", "approval_interrupt",
                   "approval_decision", "controlled_action_execution",
                   "recovery_verification", "final_report",
                   "manual_terminalization"}
Steps          == {"insert", "resume", "decide", "query", "rollback", "mark",
                   "fail_closed", "deployment", "before", "probe", "answer",
                   "after", "logs", "persist", "settle"}
EndPhases      == {"done", "refused", "unavailable", "lost"}
ResumePhases   == (Nodes \union Steps) \ {"insert", "resume"}

(* The part of AgentState this path reads: the stage, the node to run      *)
(* next, and the approval, execution and verification outcomes.            *)
GraphState == [stage : Stages, next : Nodes \union {"end"},
               approval : Decision \union {"none"},
               execution : {"none", "failure"} \union Performed,
               verified : Verdict \union {"none", "unbound"}]

Action == [status : ActionStatus, current : Version, target : Version,
           executed : BOOLEAN, mark : Nat]

(* The report's facts; mark stands for executed_at.                        *)
Report == [final : Closed \union {"none"}, status : ActionStatus,
           executed : BOOLEAN, mark : Nat, approval : Decision \union {"none"},
           execution : {"none", "failure"} \union Performed,
           verified : Verdict \union {"none"}]

Unreported == [final |-> "none", status |-> "none", executed |-> FALSE, mark |-> 0,
               approval |-> "none", execution |-> "none", verified |-> "none"]

(* state: the graph state; wanted: the decision a request brings;          *)
(* incident, status: the loaded rows; before: the metrics read before the  *)
(* probe; probe: how its order went; verdict: what is about to be          *)
(* persisted.                                                              *)
View == [state : GraphState, wanted : Decision \union {"none"},
         incident : IncidentStatus, status : ActionStatus,
         before : [requests : Nat, errors : Nat],
         probe : {"none", "paying", "delayed", "passed", "failed"},
         verdict : Verdict \union {"none"}]

NewState == [stage |-> "investigation", next |-> "intake", approval |-> "none",
             execution |-> "none", verified |-> "none"]

Blank(state) == [state |-> state, wanted |-> "none", incident |-> "INVESTIGATING",
                 status |-> "none", before |-> [requests |-> 0, errors |-> 0],
                 probe |-> "none", verdict |-> "none"]

Goto(a, phase) == pc' = [pc EXCEPT ![a] = phase]

(* Only an attribute that differs from the loaded one is written back.     *)
Flushed(loaded, assigned, stored) ==
  IF assigned = loaded THEN stored ELSE assigned

(* A node returns: its state is the next checkpoint, written later.        *)
Return(a, state) ==
  /\ Len(unsaved[a]) < MaxUnsaved
  /\ view' = [view EXCEPT ![a] = Blank(state)]
  /\ unsaved' = [unsaved EXCEPT ![a] = Append(@, state)]
  /\ Goto(a, IF state.next = "end" THEN "settle" ELSE state.next)

(* A node raises: the invocation waits for its checkpoint writes and ends. *)
Raise(a, phase) ==
  /\ thread' = IF unsaved[a] = << >> THEN thread
                                     ELSE unsaved[a][Len(unsaved[a])]
  /\ unsaved' = [unsaved EXCEPT ![a] = << >>]
  /\ view' = [view EXCEPT ![a] = Blank(NewState)]
  /\ Goto(a, phase)

TypeOK ==
  /\ LabTypeOK
  /\ incident \in IncidentStatus
  /\ action \in Action
  /\ approval \in Decision \union {"none"}
  /\ verification \in Verdict \union {"none"}
  /\ report \in Report
  /\ thread \in GraphState
  /\ unsaved \in [Runs -> Seq(GraphState)]
  /\ pc \in [Runs -> Nodes \union Steps \union EndPhases \union {"idle"}]
  /\ view \in [Runs -> View]
  /\ overlapped \in BOOLEAN
  /\ disturbed \in 0..MaxDisturbances

Init ==
  /\ LabInit
  /\ incident = "INVESTIGATING"
  /\ action = [status |-> "none", current |-> Faulty, target |-> Healthy,
               executed |-> FALSE, mark |-> 0]
  /\ approval = "none"
  /\ verification = "none"
  /\ report = Unreported
  /\ thread = NewState
  /\ unsaved = [a \in Runs |-> << >>]
  /\ pc = [a \in Runs |-> IF a = Workflow THEN "intake" ELSE "idle"]
  /\ view = [a \in Runs |-> Blank(NewState)]
  /\ overlapped = FALSE
  /\ disturbed = 0

-----------------------------------------------------------------------------
(***************************************************************************)
(* The investigation: build_investigation_graph's edges.                   *)
(***************************************************************************)

(* The nodes an investigation node can lead to when its step succeeds.     *)
Successors(node) ==
  CASE node = "intake"                 -> {"retrieval"}
    [] node = "retrieval"              -> {"hypothesis_generation"}
    [] node = "hypothesis_generation"  -> {"planning_guard"}
    [] node = "planning_guard"         -> {"investigation_planning"}
    [] node = "investigation_planning" -> {"tool_execution"}
    [] node = "tool_execution"         -> {"hypothesis_update", "planning_guard"}
    [] node = "hypothesis_update"      -> {"evidence_evaluation"}
    [] node = "evidence_evaluation"    -> {"planning_guard", "resolution_proposal"}
    [] node = "resolution_proposal"    -> {"policy_gate"}

(* A failed knowledge search leaves the stage at retrieval, and the route  *)
(* after it ends the graph there.                                          *)
DeadEnds(node) == IF node = "retrieval" THEN {"end"} ELSE {}

(* An investigation node moves on, or gives up: every route sends          *)
(* NEEDS_MANUAL_ACTION to the manual terminalization.                      *)
Investigate(a) ==
  /\ pc[a] \in Investigating
  /\ \E node \in Successors(pc[a]) \union DeadEnds(pc[a])
                  \union {"manual_terminalization"} :
       Return(a, [view[a].state EXCEPT !.next = node])
  /\ UNCHANGED <<rowVars, thread, overlapped, labVars>>

(* PostgresManualTerminalizer.  The incident cannot be RESOLVED yet.       *)
ManualTerminalization(a) ==
  /\ pc[a] = "manual_terminalization"
  /\ incident' = "NEEDS_MANUAL_ACTION"
  /\ Return(a, [view[a].state EXCEPT !.stage = "needs_manual_action",
                                     !.next = "final_report"])
  /\ UNCHANGED <<action, approval, verification, report, thread, overlapped,
                 labVars>>

(* PolicyGateService: the proposal may be a rollback or not; a rollback    *)
(* needs a readable deployment with a predecessor.                         *)
Eligible(l) == l.previous # "none" /\ l.previous # l.version

PolicyGate(a) ==
  /\ pc[a] = "policy_gate"
  /\ \/ /\ Eligible(lab)
        /\ action' = [action EXCEPT !.status = "PENDING_APPROVAL",
                                    !.current = lab.version,
                                    !.target = lab.previous]
        /\ Return(a, [view[a].state EXCEPT !.stage = "policy_gate",
                                           !.next = "approval_wait"])
     \/ /\ Return(a, [view[a].state EXCEPT !.stage = "policy_gate",
                                           !.next = "manual_terminalization"])
        /\ UNCHANGED action
  /\ UNCHANGED <<incident, approval, verification, report, thread, overlapped,
                 labVars>>

(* approval_wait_node commits WAITING_APPROVAL before its checkpoint.      *)
ApprovalWait(a) ==
  /\ pc[a] = "approval_wait"
  /\ action.status = "PENDING_APPROVAL"
  /\ incident' = "WAITING_APPROVAL"
  /\ Return(a, [view[a].state EXCEPT !.stage = "waiting_approval",
                                     !.next = "approval_interrupt"])
  /\ UNCHANGED <<action, approval, verification, report, thread, overlapped,
                 labVars>>

(* The first visit of approval_interrupt pauses the workflow's own run.    *)
Interrupt ==
  /\ pc[Workflow] = "approval_interrupt"
  /\ Goto(Workflow, "settle")
  /\ UNCHANGED <<rowVars, thread, unsaved, view, overlapped, labVars>>

-----------------------------------------------------------------------------
(***************************************************************************)
(* The decision: POST /incidents/{id}/approval.                            *)
(***************************************************************************)

(* record_decision finds an Approval: the same decision wakes the thread   *)
(* only while its checkpoint still waits, and is otherwise acknowledged if *)
(* the checkpoint shows this decision being, or having been, carried out.  *)
Consistent ==
  \/ action.status \in {"PENDING_APPROVAL", approval}
  \/ approval = "APPROVED" /\ action.status = "FAILED"
  \/ approval = "APPROVED" /\ action.status = "EXECUTED" /\ action.executed

ResolvedChain ==
  /\ incident = "RESOLVED"
  /\ approval = "APPROVED" /\ thread.approval = "APPROVED"
  /\ action.status = "EXECUTED" /\ action.executed
  /\ thread.execution \in Performed /\ thread.verified = "PASS"

Acknowledged ==
  \/ thread.stage = "resolved" /\ ResolvedChain
  \/ /\ thread.stage \in {"action_execution", "recovery_verification",
                          "needs_manual_action"}
     /\ thread.approval = approval

WaitsForDecision ==
  /\ incident = "WAITING_APPROVAL"
  /\ thread.stage = "waiting_approval"
  /\ action.status = "PENDING_APPROVAL"
  /\ ~action.executed

(* record_decision up to its insert: what it reads decides how it goes on. *)
RecordDecision(r) ==
  /\ pc[r] = "idle"
  /\ \/ /\ approval = "none" /\ WaitsForDecision
        /\ \E wanted \in Decision : view' = [view EXCEPT ![r].wanted = wanted]
        /\ Goto(r, "insert")
     \/ /\ approval # "none" /\ Consistent  \* the same decision again
        /\ Goto(r, IF thread.stage = "waiting_approval" THEN "resume"
                   ELSE IF Acknowledged THEN "done" ELSE "refused")
        /\ UNCHANGED view
     \/ /\ approval = "none" => ~WaitsForDecision  \* too early, or another one
        /\ Goto(r, "refused")
        /\ UNCHANGED view
  /\ UNCHANGED <<rowVars, thread, unsaved, overlapped, labVars>>

InsertOverwrites(r) ==  \* mutant: no unique constraint on action_id
  /\ approval' = view[r].wanted
  /\ Goto(r, "resume")

(* The insert's commit.  A decision recorded meanwhile wins; the same one  *)
(* is taken for our own, whatever its thread has done since.               *)
Insert(r) ==
  \/ /\ approval = "none"
     /\ approval' = view[r].wanted
     /\ Goto(r, "resume")
  \/ /\ approval # "none"
     /\ Goto(r, IF approval = view[r].wanted THEN "resume" ELSE "refused")
     /\ UNCHANGED approval

InsertApproval(r) ==
  /\ pc[r] = "insert"
  /\ Insert(r)
  /\ view' = [view EXCEPT ![r] = Blank(NewState)]
  /\ UNCHANGED <<incident, action, verification, report, thread, unsaved,
                 overlapped, labVars>>

(* PostgresApprovalWorkflowCoordinator.resume: the graph goes on from the  *)
(* latest persisted checkpoint, wherever that is by now.                   *)
Resume(r) ==
  /\ pc[r] = "resume"
  /\ view' = [view EXCEPT ![r] = Blank(thread)]
  /\ Goto(r, IF thread.next = "end" THEN "settle" ELSE thread.next)
  /\ overlapped' = (overlapped \/ \E q \in Runs : pc[q] \in ResumePhases)
  /\ UNCHANGED <<rowVars, thread, unsaved, labVars>>

InterruptAdvances(state) ==  \* mutant: the node already leaves the waiting stage
  [state EXCEPT !.next = "approval_decision", !.stage = "action_execution"]

Interrupted(state) == [state EXCEPT !.next = "approval_decision"]

(* approval_interrupt, resumed: its payload is validated once more.        *)
ApprovalInterrupt(r) ==
  /\ r \in Requests
  /\ pc[r] = "approval_interrupt"
  /\ \/ /\ action.status = "PENDING_APPROVAL" /\ ~action.executed
        /\ Return(r, Interrupted(view[r].state))
        /\ UNCHANGED thread
     \/ /\ ~(action.status = "PENDING_APPROVAL" /\ ~action.executed)
        /\ Raise(r, "refused")
  /\ UNCHANGED <<rowVars, overlapped, labVars>>

Applicable ==
  /\ ~action.executed
  /\ action.status \in {"PENDING_APPROVAL", approval}

(* ApprovalDecisionService.resolve: the rows it reads ...                  *)
ReadDecision(r) ==
  /\ pc[r] = "approval_decision"
  /\ \/ /\ Applicable
        /\ view' = [view EXCEPT ![r].incident = incident,
                                ![r].status = action.status]
        /\ Goto(r, "decide")
        /\ UNCHANGED <<thread, unsaved>>
     \/ /\ ~Applicable
        /\ Raise(r, "refused")
  /\ UNCHANGED <<rowVars, overlapped, labVars>>

(* _route_after_approval_decision                                          *)
RouteAfterDecision(outcome) ==
  IF outcome = "APPROVED" THEN "controlled_action_execution" ELSE "final_report"

StageAfterDecision(outcome) ==
  IF outcome = "APPROVED" THEN "action_execution" ELSE "needs_manual_action"

(* ... and what it commits.                                                *)
CommitDecision(r) ==
  /\ pc[r] = "decide"
  /\ action' = [action EXCEPT !.status = Flushed(view[r].status, approval, @)]
  /\ incident' = Flushed(view[r].incident,
                         IF approval = "APPROVED" THEN "REMEDIATING"
                                                  ELSE "NEEDS_MANUAL_ACTION",
                         incident)
  /\ Return(r, [view[r].state EXCEPT !.approval = approval,
                                     !.stage = StageAfterDecision(approval),
                                     !.next = RouteAfterDecision(approval)])
  /\ UNCHANGED <<approval, verification, report, thread, overlapped, labVars>>

-----------------------------------------------------------------------------
(***************************************************************************)
(* ActionExecutionService.                                                 *)
(***************************************************************************)
Executable(r) ==
  /\ view[r].state.approval = "APPROVED" /\ approval = "APPROVED"
  /\ incident = "REMEDIATING"
  /\ action.status = "APPROVED" /\ ~action.executed

(* _fail_closed, given whether the Action it holds is an executed one.     *)
FailClosed(r, executed) ==
  /\ action' = [action EXCEPT !.status = IF executed THEN @ ELSE "FAILED"]
  /\ incident' = "NEEDS_MANUAL_ACTION"
  /\ Return(r, [view[r].state EXCEPT !.execution = "failure",
                                     !.stage = "needs_manual_action",
                                     !.next = "final_report"])

ValidateExecution(r) ==
  /\ pc[r] = "controlled_action_execution"
  /\ \/ /\ Executable(r)
        /\ Goto(r, "query")
        /\ UNCHANGED <<incident, action, unsaved, view>>
     \/ /\ ~Executable(r)
        /\ FailClosed(r, action.executed)
  /\ UNCHANGED <<approval, verification, report, thread, overlapped, labVars>>

(* The live deployment decides: done already, as approved, or neither.     *)
DoneAlready(l) == l.version = action.target /\ l.previous = action.current
AsApproved(l)  == l.version = action.current /\ l.previous = action.target

PerceiveStatus(r, performed) ==  \* mutant: the tool's status, not how it got there
  /\ view' = [view EXCEPT ![r].state.execution = "success"]
  /\ Goto(r, "mark")

(* The deployment is at the target: how it got there is the outcome.       *)
Perceive(r, performed) ==
  /\ view' = [view EXCEPT ![r].state.execution = performed]
  /\ Goto(r, "mark")

QueryTrusted(r) ==  \* mutant: the deployment awaiting the rollback passes for done
  /\ pc[r] = "query"
  /\ Perceive(r, "found")
  /\ UNCHANGED <<rowVars, thread, unsaved, overlapped, labVars>>

QueryDeployment(r) ==
  /\ pc[r] = "query"
  /\ \/ DoneAlready(lab) /\ Perceive(r, "found")
     \/ AsApproved(lab) /\ Goto(r, "rollback") /\ UNCHANGED view
     \/ /\ ~DoneAlready(lab) /\ ~AsApproved(lab)
        /\ Goto(r, "fail_closed")
        /\ UNCHANGED view
  /\ UNCHANGED <<rowVars, thread, unsaved, overlapped, labVars>>

(* FaultLabRollbackAdapter: POST /internal/deployment/rollback ...         *)
PostRollback(r) ==
  /\ r \in Requests
  /\ pc[r] = "rollback"
  /\ serving[r] = "none"
  /\ serving' = [serving EXCEPT ![r] = "deployment"]
  /\ UNCHANGED <<rowVars, thread, unsaved, pc, view, overlapped, lab, todo,
                 customers>>

(* ... and its answer.                                                     *)
RollbackAnswer(r) ==
  /\ r \in Requests
  /\ pc[r] = "rollback"
  /\ \/ serving[r] \in Performed /\ Perceive(r, serving[r])
     \/ serving[r] = "refused" /\ Goto(r, "fail_closed") /\ UNCHANGED view
  /\ UNCHANGED <<rowVars, thread, unsaved, overlapped, labVars>>

MarkStatus(loaded) ==  \* mutant: executed_at is not set
  [loaded EXCEPT !.status = "EXECUTED"]

Marked(loaded) ==
  [loaded EXCEPT !.status = "EXECUTED", !.executed = TRUE, !.mark = lab.logged]

(* _mark_executed, on the APPROVED Action and REMEDIATING incident loaded  *)
(* by ValidateExecution.                                                   *)
MarkExecuted(r) ==
  /\ pc[r] = "mark"
  /\ action' = Marked(action)
  /\ incident' = "VERIFYING"
  /\ Return(r, [view[r].state EXCEPT !.stage = "recovery_verification",
                                     !.next = "recovery_verification"])
  /\ UNCHANGED <<approval, verification, report, thread, overlapped, labVars>>

(* _fail_closed, on the rows ValidateExecution loaded: not executed then.  *)
CommitFailure(r) ==
  /\ pc[r] = "fail_closed"
  /\ FailClosed(r, FALSE)
  /\ UNCHANGED <<approval, verification, report, thread, overlapped, labVars>>

-----------------------------------------------------------------------------
(***************************************************************************)
(* RecoveryVerificationService.                                            *)
(***************************************************************************)
Executed == action.status = "EXECUTED" /\ action.executed

VerifiedAlready(r) ==
  /\ verification # "none"
  /\ Executed /\ approval = "APPROVED"
  /\ view[r].state.execution \in Performed

Verifiable(r) ==
  /\ incident = "VERIFYING"
  /\ Executed /\ approval = "APPROVED"
  /\ view[r].state.execution \in Performed

Verified(r, verdict) ==
  [view[r].state EXCEPT !.verified = verdict, !.next = "final_report",
                        !.stage = IF verdict = "PASS" THEN "resolved"
                                                      ELSE "needs_manual_action"]

BeginVerification(r) ==
  /\ pc[r] = "recovery_verification"
  /\ \/ /\ VerifiedAlready(r)
        /\ Return(r, Verified(r, verification))
        /\ UNCHANGED <<incident, verification>>
     \/ /\ ~VerifiedAlready(r) /\ Verifiable(r)
        /\ Goto(r, "deployment")
        /\ UNCHANGED <<incident, verification, unsaved, view>>
     \/ /\ ~VerifiedAlready(r) /\ ~Verifiable(r)  \* _binding_inconclusive
        /\ incident' = "NEEDS_MANUAL_ACTION"
        /\ verification' = IF Executed THEN "INCONCLUSIVE" ELSE verification
        /\ Return(r, Verified(r, IF Executed THEN "INCONCLUSIVE" ELSE "unbound"))
  /\ UNCHANGED <<action, approval, report, thread, overlapped, labVars>>

(* Each check goes on to the next, or to the verdict it settles.           *)
Conclude(r, verdict) ==
  /\ view' = [view EXCEPT ![r].verdict = verdict]
  /\ Goto(r, "persist")

CheckDeployment(r) ==
  /\ pc[r] = "deployment"
  /\ \/ DoneAlready(lab) /\ Goto(r, "before") /\ UNCHANGED view
     \/ ~DoneAlready(lab) /\ Conclude(r, "FAIL")
  /\ UNCHANGED <<rowVars, thread, unsaved, overlapped, labVars>>

MeasureBefore(r) ==
  /\ pc[r] = "before"
  /\ view' = [view EXCEPT ![r].before = MetricsSnapshot]
  /\ Goto(r, "probe")
  /\ UNCHANGED <<rowVars, thread, unsaved, overlapped, labVars>>

(* The probe is an order like any other.                                   *)
Probe(r) ==
  /\ pc[r] = "probe"
  /\ \/ /\ OrderAdmitted(lab)
        /\ view' = [view EXCEPT ![r].probe = Payment(lab)]
        /\ UNCHANGED lab
     \/ /\ ~OrderAdmitted(lab)
        /\ view' = [view EXCEPT ![r].probe = "failed"]
        /\ lab' = RecordOrder(lab, FALSE)
  /\ Goto(r, "answer")
  /\ UNCHANGED <<rowVars, thread, unsaved, overlapped, todo, customers, serving>>

ProbeAnswer(r) ==
  /\ pc[r] = "answer"
  /\ lab' = IF view[r].probe = "failed" THEN lab
                                        ELSE RecordOrder(lab, view[r].probe = "paying")
  /\ \/ view[r].probe = "paying" /\ Goto(r, "after") /\ UNCHANGED view
     \/ view[r].probe # "paying" /\ Conclude(r, "FAIL")
  /\ UNCHANGED <<rowVars, thread, unsaved, overlapped, todo, customers, serving>>

(* The metrics delta must be the probe's own order and nothing else.       *)
DeltaVerdict(r) ==
  LET requested == lab.requests - view[r].before.requests
      failed    == lab.errors - view[r].before.errors
  IN  CASE failed > 0 \/ (requested = 1 /\ requested = failed) -> "FAIL"
        [] requested = 1 /\ failed = 0                          -> "PASS"
        [] OTHER                                                -> "INCONCLUSIVE"

MeasureAfter(r) ==
  /\ pc[r] = "after"
  /\ \/ DeltaVerdict(r) = "PASS" /\ Goto(r, "logs") /\ UNCHANGED view
     \/ DeltaVerdict(r) # "PASS" /\ Conclude(r, DeltaVerdict(r))
  /\ UNCHANGED <<rowVars, thread, unsaved, overlapped, labVars>>

CheckLogs(r) ==
  /\ pc[r] = "logs"
  /\ Conclude(r, IF ErrorsLoggedSince(action.mark) > 0 THEN "FAIL" ELSE "PASS")
  /\ UNCHANGED <<rowVars, thread, unsaved, overlapped, labVars>>

(* _persist: action_id is unique, so a second verifier's commit fails.     *)
PersistVerification(r) ==
  /\ pc[r] = "persist"
  /\ \/ /\ verification = "none"
        /\ verification' = view[r].verdict
        /\ incident' = IF view[r].verdict = "PASS" THEN "RESOLVED"
                                                   ELSE "NEEDS_MANUAL_ACTION"
        /\ Return(r, Verified(r, view[r].verdict))
        /\ UNCHANGED thread
     \/ /\ verification # "none"
        /\ Raise(r, "unavailable")
        /\ UNCHANGED <<incident, verification>>
  /\ UNCHANGED <<action, approval, report, overlapped, labVars>>

-----------------------------------------------------------------------------
(***************************************************************************)
(* FinalReportService.                                                     *)
(***************************************************************************)
FactsAsDecided(a) ==  \* mutant: the Action's status is taken from the decision
  [final |-> incident, status |-> view[a].state.approval,
   executed |-> action.executed, mark |-> action.mark,
   approval |-> view[a].state.approval, execution |-> view[a].state.execution,
   verified |-> view[a].state.verified]

Facts(a) == [final |-> incident, status |-> action.status,
             executed |-> action.executed, mark |-> action.mark,
             approval |-> view[a].state.approval,
             execution |-> view[a].state.execution,
             verified |-> view[a].state.verified]

(* _validate_chain: the checkpoint's outcomes against the rows.            *)
ChainHolds(s) ==
  /\ incident \in Closed
  /\ s.approval # "none" => approval = s.approval
  /\ s.verified # "none" =>
       /\ verification = s.verified
       /\ (verification = "PASS") <=> (incident = "RESOLVED")
  /\ incident = "RESOLVED" =>
       /\ action.status = "EXECUTED" /\ approval = "APPROVED"
       /\ s.execution \in Performed /\ s.verified = "PASS"

Reportable(a) ==
  /\ ChainHolds(view[a].state)
  /\ report # Unreported => report = Facts(a)

FinalReport(a) ==
  /\ pc[a] = "final_report"
  /\ \/ /\ Reportable(a)
        /\ report' = Facts(a)
        /\ Return(a, [view[a].state EXCEPT !.next = "end"])
        /\ UNCHANGED thread
     \/ /\ ~Reportable(a)
        /\ Raise(a, "unavailable")
        /\ UNCHANGED report
  /\ UNCHANGED <<incident, action, approval, verification, overlapped, labVars>>

-----------------------------------------------------------------------------
(***************************************************************************)
(* Checkpoints, and the process.                                           *)
(***************************************************************************)

(* The background writer stores a run's checkpoints in order.              *)
SaveCheckpoint(a) ==
  /\ unsaved[a] # << >>
  /\ thread' = Head(unsaved[a])
  /\ unsaved' = [unsaved EXCEPT ![a] = Tail(@)]
  /\ UNCHANGED <<rowVars, pc, view, overlapped, labVars>>

(* An invocation returns only when its checkpoints are stored.             *)
Finish(a) ==
  /\ pc[a] = "settle"
  /\ unsaved[a] = << >>
  /\ Goto(a, "done")
  /\ view' = [view EXCEPT ![a] = Blank(NewState)]
  /\ UNCHANGED <<rowVars, thread, unsaved, overlapped, labVars>>

-----------------------------------------------------------------------------
(***************************************************************************)
(* What the environment may do, a bounded number of times.                 *)
(***************************************************************************)
Disturb ==
  /\ disturbed < MaxDisturbances
  /\ disturbed' = disturbed + 1

(* A commit fails and what makes it raises.  Some nodes commit on one of   *)
(* their branches only, and fail there.                                    *)
Commits(a) ==
  \/ pc[a] \in {"manual_terminalization", "approval_wait", "decide", "mark",
               "fail_closed", "persist", "final_report"}
  \/ pc[a] = "policy_gate" /\ Eligible(lab)
  \/ pc[a] = "controlled_action_execution" /\ ~Executable(a)
  \/ /\ pc[a] = "recovery_verification"
     /\ ~VerifiedAlready(a) /\ ~Verifiable(a)

CommitFails(a) ==
  /\ "database" \in Faults
  /\ \/ Commits(a) /\ Raise(a, "unavailable")
     \/ pc[a] = "insert" /\ Raise(a, "lost")  \* nothing is resumed
  /\ UNCHANGED <<rowVars, overlapped, labVars>>

(* A Fault Lab query fails: the execution fails closed, the verification   *)
(* is inconclusive.                                                        *)
Outage(a) ==
  /\ "outage" \in Faults
  /\ \/ pc[a] = "query" /\ Goto(a, "fail_closed") /\ UNCHANGED view
     \/ /\ pc[a] \in {"deployment", "before", "answer", "after", "logs"}
        /\ Conclude(a, "INCONCLUSIVE")
  /\ UNCHANGED <<rowVars, thread, unsaved, overlapped, labVars>>

(* The rollback request times out, before, while or after it is served.    *)
LostAnswer(a) ==
  /\ "lost_answer" \in Faults
  /\ pc[a] = "rollback"
  /\ Goto(a, "fail_closed")
  /\ UNCHANGED <<rowVars, thread, unsaved, view, overlapped, labVars>>

(* The process stops: every invocation and every background write is lost. *)
Crash ==
  /\ "crash" \in Faults
  /\ \E a \in Runs : pc[a] \notin EndPhases \union {"idle"}
  /\ pc' = [a \in Runs |-> IF pc[a] \in EndPhases \union {"idle"} THEN pc[a]
                                                               ELSE "lost"]
  /\ unsaved' = [a \in Runs |-> << >>]
  /\ view' = [a \in Runs |-> Blank(NewState)]
  /\ UNCHANGED <<rowVars, thread, overlapped, labVars>>

Step(a) ==
  \/ Investigate(a) \/ ManualTerminalization(a) \/ PolicyGate(a)
  \/ ApprovalWait(a)
  \/ RecordDecision(a) \/ InsertApproval(a) \/ Resume(a)
  \/ ApprovalInterrupt(a) \/ ReadDecision(a) \/ CommitDecision(a)
  \/ ValidateExecution(a) \/ QueryDeployment(a) \/ PostRollback(a)
  \/ RollbackAnswer(a)
  \/ MarkExecuted(a) \/ CommitFailure(a)
  \/ BeginVerification(a) \/ CheckDeployment(a) \/ MeasureBefore(a)
  \/ Probe(a) \/ ProbeAnswer(a) \/ MeasureAfter(a) \/ CheckLogs(a)
  \/ PersistVerification(a) \/ FinalReport(a)
  \/ SaveCheckpoint(a) \/ Finish(a)

Disturbance ==
  \/ \E a \in Runs : CommitFails(a) \/ Outage(a) \/ LostAnswer(a)
  \/ Crash
  \/ Outsider /\ UNCHANGED <<rowVars, thread, unsaved, pc, view, overlapped>>

(* What the Fault Lab finishes of what was begun.                          *)
ServeRollback ==
  \E r \in Requests : SwitchDeployment(r, action.target) \/ RestoreConfiguration(r)

Next ==
  \/ Interrupt /\ UNCHANGED disturbed
  \/ \E a \in Runs : Step(a) /\ UNCHANGED disturbed
  \/ /\ Aftermath \/ ServeRollback
     /\ UNCHANGED <<rowVars, thread, unsaved, pc, view, overlapped, disturbed>>
  \/ Disturbance /\ Disturb

Spec == Init /\ [][Next]_vars

-----------------------------------------------------------------------------
(***************************************************************************)
(* Properties.                                                             *)
(***************************************************************************)

(* Every node commits its rows before its checkpoint is written, so the    *)
(* thread never claims what the database does not hold, also when several  *)
(* requests resumed it and wrote their checkpoints over one another.  A    *)
(* thread that ended has its report, but for the investigation a failed    *)
(* knowledge search cut short.                                             *)
CheckpointNeverAhead ==
  /\ thread.approval # "none" => /\ approval = thread.approval
                                /\ action.status # "PENDING_APPROVAL"
  /\ thread.execution \in Performed => action.executed
  /\ thread.verified \in Verdict => verification = thread.verified
  /\ thread.next = "end" /\ thread.stage # "investigation" => report.final # "none"

(* As long as one request at a time resumes the thread and nobody operates *)
(* the Fault Lab meanwhile, an incident is RESOLVED only with an approved  *)
(* and executed Action, a passed verification and a lab really at the      *)
(* rollback's target and configured, or about to be: a run that crashed    *)
(* may have left a rollback request the service is still working on.       *)
ResolvedIsEarned ==
  ~overlapped /\ todo = Interventions /\ incident = "RESOLVED" =>
    /\ approval = "APPROVED" /\ Executed /\ verification = "PASS"
    /\ lab.version = action.target
    /\ lab.configured \/ \E r \in Requests : serving[r] = "configuration"

(* An Action recorded EXECUTED was: while nobody operates the lab, its     *)
(* deployment is the one the human approved, whatever crashed, was lost or *)
(* ran twice in between.                                                   *)
ExecutedIsReal ==
  todo = Interventions /\ action.status = "EXECUTED" =>
    DoneAlready(lab)

(* The report of a round no two requests worked on at once says what the   *)
(* rows say, also after later requests and restarts.                       *)
ReportAgrees ==
  ~overlapped /\ report.final # "none" =>
    /\ report.final = incident
    /\ report.status = action.status
    /\ report.final = "RESOLVED" => report.verified = "PASS"

(* After a crash or an error between the decision's commit and its being   *)
(* applied to the Action, the checkpoint still waits: the same decision    *)
(* sent again resumes the thread (record_decision and its needs_resume).   *)
Quiet == \A a \in Runs : pc[a] \in EndPhases \union {"idle"}

RetryableUntilApplied ==
  Quiet /\ approval # "none" /\ action.status = "PENDING_APPROVAL" =>
    thread.stage = "waiting_approval" /\ Consistent

(* What the workflow promises outside: see ApprovedRollback.               *)
Promise == INSTANCE ApprovedRollback
             WITH decision <- approval, deploys <- lab.deploys,
                  rollbacks <- lab.rollbacks

RollbackOnlyApproved == Promise!AbstractSpec

(* "Workflow resume did not complete; retry the same decision", says the   *)
(* answer to a resume that failed: so the thread must still wait for it,   *)
(* or be through.                                                          *)
ResumeErrorRetryable ==
  \A r \in Requests :
    pc[r] = "unavailable" /\ ~overlapped =>
      thread.stage = "waiting_approval" \/ thread.next = "end"
=============================================================================
