# DevSupport Agent: TLA+ verification development

DevSupport Agent is a backend (FastAPI, SQLAlchemy/PostgreSQL, LangGraph) that
investigates incidents: an operator files an incident, the backend runs a
bounded graph of LLM and read-only Tool nodes on it, and terminalizes the
investigation round with a report. A legacy (V1) path can propose, approve,
execute and verify a rollback of a demo target, the Fault Lab. A knowledge base
feeds both, and an offline evaluation gates releases. Paths below are relative to
`src/apps/backend/src/devsupport_backend/` unless they start with `src/`.

This directory holds the models of that program, the TLC runs that check them
on small instances, and TLAPS proofs of what matters most for every instance.

## 1. Inventory

| Component | State it keeps | Operations | What makes it correct |
|---|---|---|---|
| Round lifecycle (`investigation_lifecycle.py`, `investigation_continuation.py`, `models.py` hooks) | `Incident.investigation_status`, `Incident.status` (legacy), `InvestigationRound.status` by number | start, terminalize, create the next round, the terminal-immutability hooks | only the newest round is unfinished; the incident projects it; a terminal round never changes |
| Workflow console (`workflow_console.py`, `routers/incidents.py`) | the same rows, LangGraph threads, in-process background tasks | accept a start, execute it later, reconcile a failed start, restore OPEN, retry a failed run | a round is executed by one task at a time; an accepted round is executed or handed back |
| V2 investigation graph (`agent/workflow.py`, `agent/nodes/*`, `agent/retry_policy.py`, `agent/budget.py`) | `AgentState` in the checkpoint | nine nodes behind a bounded wrapper, three terminalization nodes | budgets hold on every path; the terminal status agrees with the facts; every run terminalizes |
| Hypothesis grounding (`agent/hypothesis_grounding.py`, `agent/nodes/hypothesis_update.py`) | hypotheses and evidence in `AgentState` | match evidence to a hypothesis, derive its status | a hypothesis is confirmed only on this round's runtime evidence |
| V2 terminalization and report (`agent/v2_terminalization.py`, `v2_report.py`) | Observation, Evidence, ToolCall, Report rows | persist the records, terminalize, report | one report per terminal round that states its status |
| Workflow runtime (`agent/runtime.py`, `agent/persistence.py`) | LangGraph checkpoints | start, resume, rewrite a failed checkpoint | only a recoverable failure may be retried; a failed run stays visible |
| V1 remediation (`approvals.py`, `action_execution.py`, `recovery_verification.py`, `final_report.py`, `agent/policy.py`, `agent/post_approval.py`) | Incident, Action, Approval, Verification and Report rows, the checkpoint of the incident's thread | policy gate, interrupt for approval, record a decision, resume, execute one rollback, probe recovery, report | one decision; a rollback only under it; a checkpoint never claims what the rows do not hold; a claimed recovery was measured |
| Fault Lab (`src/services/*`, the fault commands) | the deployment, its configuration, metrics and logs of two services | deploy, misconfigure, delay, reset, roll back, serve orders | outside the backend's control; shared with operators and customers |
| Knowledge base (`rag/*`, `routers/knowledge.py`) | `knowledge_documents`, `knowledge_chunks` | ingest a corpus, upload, enable and disable, scoped hybrid search | a committed document is whole; a run is all or nothing; a search stays in its scope |
| Evaluation (`evals/runner.py`, `evals/release_gate.py`) | a child process, its queue, the outputs, the verdict | run each case under a watchdog, recover partial facts, clean up, gate the release | an unapproved rollback on record is never hidden; a PASS is earned; no background graph survives a case |
| Timeline (`investigation_timeline.py`) | none (a projection) | list events | complete and ordered |
| Read-only Tools (`tools/*`) | none | validated calls of providers | failures are classified |
| Configuration, bootstrap, LLM client, schemas, observability, migrations, web console | process configuration or none | wiring, I/O, a client | outside the models |

How they interact. `POST /incidents/{id}/workflow` accepts the current round
(one locked transaction, then a second commit for the legacy status) and queues
an in-process background task, which re-reads the incident, probes the round's
thread and invokes the graph on it. `POST /incidents/{id}/continuations` reads
the incident, opens the next round in a locked transaction, refreshes the round
and accepts it in the same session. The graph's terminalization node writes the
round's final status in one commit and its report in another. The database rows
are the only shared state between requests and tasks; tasks themselves live in
memory. `POST /incidents/{id}/workflow/retry` would continue a failed thread in
the request itself, if the failure is one it accepts. In V1 the graph pauses at an interrupt; `POST
/incidents/{id}/approval` commits a decision and resumes the thread from its
latest checkpoint, and the nodes behind it call the Fault Lab. The V1 routers
are not mounted by `main.py`; the evaluation and the tests use that path. The
evaluation's parent process talks to a child through a queue and reads what the
child left in the database when it had to be killed.

What is hard. Sessions keep objects across commits (`expire_on_commit=False`,
no `populate_existing`), so a row re-read under a lock may still be judged by
old attributes. An operation is several commits. The process may stop between
any two of them. In the graph, budgets are checked at one node and spent at
others; a retry re-enters a node without passing that check; a deadline may be
discovered after a node has already returned its result. A checkpoint is
written after the node's own commit, in the background, and a thread has no
lock: two resumes write their checkpoints over one another. An ingestion keeps
its transaction open across provider calls. A killed child leaves half of what
it wanted to say, and what it started goes on without it. The hazards and the
lines where they bite are listed in `PROJECT.json`.

## 2. The modules

| Module | Models |
|---|---|
| `RoundHistory` | the abstract promise: an append-only history of rounds and reports |
| `RoundLifecycle` | rounds, requests, background tasks, session staleness, crashes |
| `MCRoundLifecycle` | model values and symmetry for its runs |
| `RoundLifecycleProofs` | its inductive invariant and theorems |
| `InvestigationGraph` | one run of the formal V2 graph |
| `MCInvestigationGraph` | Tool sets for its runs |
| `InvestigationGraphProofs` | its inductive invariant and theorems |
| `WorkflowRetry` | an accepted round as the console sees it: failed terminalizations, the checkpoint's two-step rewriting, the row locks of retry and terminalization, the progress and workflow reads |
| `WorkflowRetryProofs` | its inductive invariant and theorems |
| `FaultLab` | the two services the rollback changes, their operator and their customers |
| `Remediation`, `MCRemediation` | the V1 path on top of `FaultLab`: decision, rollback, verification, report, checkpoints |
| `ApprovedRollback` | the abstract promise of that path: a rollback takes effect only under the one decision |
| `RemediationProofs` | its inductive invariant, theorems and the refinement |
| `RemediationOutcomeProofs` | what an executed Action, a resolved incident and a report stand for |
| `KnowledgeBase`, `MCKnowledgeBase` | concurrent ingestions, uploads, status changes and scoped searches |
| `KnowledgeBaseProofs` | its inductive invariant and theorems |
| `EvalRunner`, `MCEvalRunner` | the evaluation's processes, queue, watchdog, partial collection and release gate |
| `EvalRunnerProofs` | its inductive invariant and theorems |

### RoundLifecycle

`rounds[n]` is the status of round *n*; `incident` is the projection kept on
the incident; `checkpoints` the rounds whose thread has a checkpoint;
`reports` the published reports. `pc[r]` is where request *r*, and then its
background task, stands; `view[r]` is what its session holds. A transaction
that locks the incident row is one step from the lock to the commit: every
writer of these rows locks the incident (`accept_start`, `create_next_round`,
`terminalize`, the restore), so locked transactions are serialised. What a
session loaded before its lock stays in `view[r]`, which is where the
interleavings come from. `SeenStatus` is the identity-map rule: a round the
session already holds is judged by its loaded status, any other by its row.
`FlushAllowed` is the `before_flush` hook, which reads the row.

| Action | Code |
|---|---|
| `AcceptStart`, `AcceptContinuation`, `MarkInvestigating` | `accept_start`: up to the commit in `InvestigationLifecycleService.start`, then its own commit |
| `ContinueRead`, `CreateNextRound`, `RefreshRound` | `continue_with_observation`, `create_next_round`, `session.refresh` |
| `CheckAccepted`, `ProbeCheckpoint`, `RuntimeStart`, `RunGraph` | `execute_accepted_start`, `PostgresWorkflowRuntime.start` |
| `TerminalizeRead`, `TerminalizeCommit`, `GenerateReport` | `V2Terminalizer.terminalize`, `InvestigationLifecycleService.terminalize`, `V2ReportService.generate` |
| `ReconcileProbe`, `RestoreOpen` | the `except` branch of `execute_accepted_start` |
| `Crash` | the process stops; every request and task in memory is lost |

`Faults` says which failures a run injects; a run without a fault still checks
every interleaving.

### InvestigationGraph

A node is one step. `state` is `AgentState` reduced to what routes and budgets
read; a node offers a set of results (return a state, or raise), `WithDeadline`
adds what the active-execution wrapper may do to each, `Settle` is
`_v2_investigation_node` with `retry_decision`, and `Route` the conditional
edges. `attempts` counts every LLM call including the failed ones, which
`llm_call_count` does not. `incident` holds the two facts the deterministic
first plan reads. Prompts, evidence texts and provider answers are abstracted:
the hypotheses become one `verdict`, the tool history the first `probed` Tool,
evidence the flag `grounded` (runtime evidence of this round exists).

An `IncidentCreate` request has already demanded everything `intake_node` asks
for, so its NEEDS_INFORMATION branch is unreachable through the API and is left
out. A budget of `None` (unlimited) is not modelled. Under the default budgets
`repeated_failures` and `iteration_budget_exhausted` cannot occur: the one
workflow retry is exhausted first, and eight LLM calls pay for at most four
rounds. The proofs cover the budgets under which they do.

A deadline found after the conclusion node has returned still ends CONCLUDED:
`_v2_route_after_conclusion` looks at `final_conclusion` only, and
`FinalStatusJustified` accepts it.

### WorkflowRetry

`thread` is the latest checkpoint of an accepted round's thread: the node it is
`at`, whether the failed task's ERROR write is there, and the persisted failure
`category` and `retryable`. `holder` says who has locked which row, `raised`
which node's exception ended the run, `history` which of the configured faults
has happened.

The wrapper of the investigation nodes turns every exception into a state of the
graph, so only the three terminalization nodes can leave a failed task; what the
investigation does is one step here and `InvestigationGraph` in detail.

| Action | Code |
|---|---|
| `Receive`, `LockIncident`, `LockRound`, `ReadState`, `ReadFailure`, `RequestFails` | `WorkflowConsoleService.retry` and `_is_retry_eligible`, over two reads of the thread |
| `StartRun`, `Investigate`, `CatchFailure`, `DeadEnd` | the run up to a terminalization node, or to one of its ends without one: a route to END, `GraphRecursionError` |
| `BeginTerminalize`, `TerminalLockRound`, `TerminalCommit`, `TerminalFails` | `V2Terminalizer.terminalize`: round, then incident |
| `GenerateReport`, `ReportFails`, `CheckpointFails` | the report's own transaction; the checkpoint behind a superstep |
| `PersistClassification`, `RestoreFailedTask`, `RewriteFails` | `_persist_failed_active_execution_usage`: `update_state` with the classification, then the ERROR write; a failure of either is swallowed |
| `AbortVictim` | PostgreSQL's deadlock detector |
| `ReadIncident`, `ReadCheckpoint`, `ReadProgressFailure`, `OfferRetry`, `ReadFails` | `read`, `read_progress`, `_retry_available` |
| `Crash` | the process stops |

`update_state` runs the routing of the node before the failed one, and with the
category set that routing answers "failed": `Rerouted` sends a failed conclusion
or inconclusive terminalization to `failure_terminalization`, so that no task of
the old name is left to put the error back on. `RestoredError` drops it then, as
the code does, and `FailureStaysVisible` names this loss: after it the round
stays INVESTIGATING without a failed task.

What a retry does after it has been accepted is not modelled, because none is:
`NoRetryAccepted` says so. Only a thread the V1 graph has written, which the
backfill of `alembic/versions/20260919_07` gave a round, could be continued.
Foreign-key share locks are not modelled.

### FaultLab, Remediation, ApprovedRollback

`FaultLab` is the world the backend repairs. What a handler of a service does
under one lock is one step. A rollback takes two locks, the deployment's and
then the configuration's (`SwitchDeployment`, `RestoreConfiguration`;
`serving[r]` is how far it is), and goes on when its caller no longer waits; a
reset clears the runtime state, the deployment and the log of order-service and
then payment-service in separate steps; an order is two steps, because it awaits
the payment. Its operator can deploy the faulty version, misconfigure, delay
payments and reset, at any moment, and customers place orders.

`Remediation` extends it. `incident`, `action`, `approval`, `verification` and
`report` are the rows; `thread` is the latest persisted checkpoint, `unsaved[a]`
the checkpoints a run has produced and LangGraph's background writer has not
stored. A node commits its rows and then `Return`s a state, or `Raise`s, which
waits for its writes.

| Action | Code |
|---|---|
| `Investigate`, `ManualTerminalization`, `PolicyGate`, `ApprovalWait`, `Interrupt` | the graph's edges (`DeadEnds`: from a failed knowledge search to the end without a report), `PostgresManualTerminalizer`, `PolicyGateService`, `approval_wait_node`, `approval_interrupt` |
| `RecordDecision`, `InsertApproval`, `Resume` | `record_decision` up to and including its insert, the resume |
| `ApprovalInterrupt`, `ReadDecision`, `CommitDecision` | the resumed interrupt, `ApprovalDecisionService.resolve` |
| `ValidateExecution`, `QueryDeployment`, `PostRollback`, `RollbackAnswer`, `MarkExecuted`, `CommitFailure` | `ActionExecutionService` and its adapter |
| `ServeRollback` | order-service working on a rollback request |
| `BeginVerification` ... `PersistVerification` | `RecoveryVerificationService`: deployment, metrics before, probe order, metrics after, logs, verdict |
| `FinalReport` | `FinalReportService` with `_validate_chain` |
| `SaveCheckpoint`, `Finish` | the background writer; the end of an invocation |
| `CommitFails`, `Outage`, `LostAnswer`, `Crash` | the failures; `Commits` lists the places of every node and request that commits |

`_prepare_pending_action`'s branches that reuse an existing Action cannot be
reached: the gate is passed once, before the thread first waits.

`ApprovedRollback` has three variables: the decision, how often the faulty
version was deployed and how often a rollback took effect.
`RollbackOnlyApproved` is the refinement.

### KnowledgeBase

`docs` and `chunks` are the committed tables. An ingestion has `parsed` files,
the row and chunks its session loaded of the `current` one, the writes it has
`staged` and those it has `flushed`; reads are READ COMMITTED; a flush takes its
locks at once. `Updated` writes back only the columns whose value differs from
the loaded one, as the ORM does. A search reads in three steps with a provider
call between them. `Rankings` is `ORDER BY ... LIMIT` and Python's `sorted`: what
ties is ordered by the chunk ids, which are random, so any order of it is a
ranking. The order of the chunk ids is not kept from one read to the next, which
allows more than the code does.

| Action | Code |
|---|---|
| `Collect`, `SelectDocument`, `EmbedDocument`, `StageDocument`, `FlushFails`, `CommitIngestion`, `StopIngestion` | `rag/ingest.py`: `collect_documents`, `ingest_documents` |
| `ReceiveUpload`, `EmbedUpload`, `InsertUpload`, `UpdateStatus` | `routers/knowledge.py` |
| `BeginSearch`, `ReadDimensions`, `ReadVectors`, `ReadKeywords` | `rag/retrieval.py`, `search_scoped` |

A commit whose acknowledgement is lost, and an upload whose `refresh` fails
after its commit, have saved everything and are answered with a failure: the
place `misreported`.

The unscoped V1 `search` is not used by the V2 Tools and is left out. The
compatibility target and the services the files name are assumed to exist.

### EvalRunner

Two processes and the pipe between them. `child` walks through
`_full_workflow_child` (inject, signal, start, investigate, approval, execute,
score); a feeder moves its messages from `outbox` to `pipe`; `parent` walks
through `_run_full_workflow` and its `finally`. `rows` is what the database
holds of the case. `control[c]` is the case's control subprocess and
`request[c]` its rollback request: the watchdog terminates the child only, so
both may take effect after the case, and after the reset before the next one. A
child that is terminated or dies by itself may leave a torn message, on which
the parent's drain waits.
`truth` is a history variable: what really happened, which no part of the
program can see and the properties compare with what it reports. The workflow
under evaluation is not trusted: with the fault `rogue` it executes what nobody
approved. The gate (`Classify`, `SafetyGatePassed`, `Assess`) is pure.

`PartialUnauthorized` compares the stage as the code does, with `is`: a stage
read back from a checkpoint is a plain string, so the branch that would leave a
rollback in flight unknown is never taken. What remains true is stated by
`RecordedRogueReported`: a rogue execution whose outcome the checkpoint holds is
never counted zero. That a case is injected on a clean Fault Lab is false, since
a control subprocess may outlive the reset, and is not claimed; `PassIsEarned`
shows that no such leftover is part of a PASS.

## 3. The runs

| Run | Shows |
|---|---|
| `round_lifecycle` | two starts and two continuations with every fault: types, only the newest round unfinished, projection, reports, one execution per round when only starts compete, an OPEN round is startable, terminal rounds immutable, and the refinement of `RoundHistory` |
| `round_settles` | one start, two continuations, liveness: accepted rounds settle and terminal rounds get their report |
| `double_accept` | *violated*: a continuation can accept, from its stale session, a round that a start has just accepted |
| `crash_strands_round` | *violated*: an accepted round is stranded when the process stops |
| `graph_safety` | default budgets (`agent/budget.py`), every Tool and fault: budgets, LLM attempts, justified final status, rounds paid for by Tool calls; and every run terminalizes or meets one of the two dead ends `DeadEnd` names |
| `planner_retry` | *violated*: a planner failure granted a retry spins at `planning_guard` |
| `workflow_retry` | the run, two retry requests and a reader, with database faults, dead ends and a crash: answers put together from several reads are true, a failed run stays visible but for named losses, no retry is ever accepted or offered, and every request is answered although the row locks form a cycle |
| `remediation` | two decision requests, a customer, every intervention and every failure, one of them per behaviour: checkpoints, resolved incidents, executed Actions and reports agree with the rows and the lab, a decision can be sent again until it is applied, and the refinement of `ApprovedRollback` |
| `decision_retry` | *violated*: after a resume that failed behind the decision, sending the same decision again does not resume it, although the answer says so |
| `evaluation` | two full-workflow cases and the policy case with ten faults: a rogue execution on record is reported, PASS, FAIL and BLOCKED follow from what happened, no background graph, and the suite ends |
| `hidden_rollback` | *violated*: an unapproved rollback that was in flight when the child was killed is scored as zero |
| `knowledge` | two ingestions, an upload, a search, a status change, with five faults: whole documents, atomic runs, searches in scope |

The violated properties quote what a comment, a message or a design document
says; `PROJECT.json` lists them as findings with both lines. Where a passing
property names an exception that the code really has, the exception is a
behaviour of the code too: the dead end of a failed knowledge search
(`RunTerminalizes`, `CheckpointNeverAhead`), the lost failure of a rerouted
terminalization (`FailureStaysVisible`), the upload that is saved and answered
with a failure (`AllOrNothing`).

### Bounds, and why they are enough

`RoundLifecycle` has no counter to cap: requests are finite and each moves
forward. Two starts and two continuations give two sessions of each kind that
can hold a stale object while a third party commits; a third actor of a kind
only repeats what one of the others does. Requests of one kind are
interchangeable, so the safety run uses symmetry; the liveness runs do not.

`InvestigationGraph` runs with the program's own default budgets (5 rounds, 6
Tool calls, 3 consecutive failures, 8 LLM calls, 1 retry, 40 supersteps) and
all five Tools, so its bounds are the code's. `attempts` is bounded by the
property that is checked.

`WorkflowRetry` has two requests and one reader; neither a third request nor a
second reader shares anything with the others but the two locks. Nothing in it
counts, so there is no bound.

`Remediation` lets a run be two checkpoints ahead of the store (`MaxUnsaved`), so
that a crash can lose the checkpoint of the execution and the one before or
after it, and allows one disturbance per behaviour (`MaxDisturbances`): a fault, an
intervention or a customer's order. The theorems about the module hold for any
number of them.

`KnowledgeBase` has two files, one of them indexed, three revisions that differ
in size, scope and rank, three corpora (one with a missing and one with a
malformed file), two ingestions of which the second uses another embedding
model, one upload, one search and one status change (`MaxUpdates`). The indexed
file sorts last, so its replacement flushes the insert of the other; the two
ingestions can race for both files with the same revision or with two.

`EvalRunner` runs two full-workflow cases, so that one can disturb the next, and
the policy case, with two assignments of fixtures (approve then reject, reject
then a payment fault that needs none); the pipe holds one message, so that the feeder blocks; the
child sends three.

### Fairness, and why the code justifies it

`RoundLifecycle`: a request that has been received and a task that has been
queued keep being scheduled by the event loop and its thread pool
(`WF` on the steps of each started request and of each task); nobody has to
send a request, so no fairness is assumed of `idle`. Crashes are never fair.
`InvestigationGraph`: LangGraph runs the next node as long as there is one
(`WF` on the node steps); provider and LLM calls return because each has a
timeout. `RunTerminalizes` exempts by name (`DeadEnd`) the runs that meet one of
two dead ends: the END after a failed knowledge search, and the loop that
`planner_retry` is about.

`WorkflowRetry`: a received request and a queued task are scheduled until they
end (`WF` on the work of each, of which no failure is a part); a lock that is free is granted, and PostgreSQL
aborts a victim of a cycle. `EvalRunner`: the parent keeps running; nothing at
all is assumed of the child, which may hang, or of the Fault Lab, so `SuiteEnds`
rests on the watchdog. `KnowledgeBase` and `Remediation` state no liveness.

Deadlock is checked in every run but those of `Remediation`, where requests and
interventions simply run out: elsewhere the `Quiescent`, `Finished` and `Ended`
steps are enabled only when all work has ended, so a stuck task is reported. An
evaluation whose final drain waits for the rest of a torn message (`hung`) is
such an end, and `SuiteEnds` names it.

## 4. The proofs

All theorems hold for every value of the constants under the named assumptions
of their modules: `RequestsAssumption` (disjoint request sets, finitely many
continuations), `BudgetAssumption` (positive budgets), `RemediationAssumption`
and `InterventionsAssumption` (the workflow's own run is no request, faults and
interventions are the known ones), `KnowledgeAssumption` (disjoint actors, a
non-empty chunking of every revision), `RetryAssumption` (run, requests and
readers are disjoint; no terminalization node is retryable),
`SuiteAssumption` (a suite names each case once) and `PipeAssumption`. Every
safety invariant and action property that a passing run checks is a theorem.

`RoundLifecycleProofs`: `TypeCorrect`, `OnlyNewestActive`,
`ProjectionAlwaysAgrees`, `ReportsAgree`, `TerminalRoundsSealed`,
`StartsAreExclusive`, `OpenRoundsStartable` and `ImplementsHistory`. The checked
invariants are not inductive because an action is judged on a session's stale objects. The strengthening is `ViewSound`: what
each session relies on at its phase is still true of the rows (in particular, a
loaded terminal status is the row's). It survives the other requests' steps
because every step, whatever its action, is a `RoundsStep`: the newest
non-terminal round moves, or a round is appended behind a terminal one.
`RoundsStep` and `ReportsStep` are also the refinement argument: they are the
steps of `RoundHistory`.

That one task at a time works on a thread needs a second invariant, `Exclusive`,
for as long as starts alone have accepted rounds (`StartsAccepted`): whoever may
still change the newest round owns it alone, the round is INVESTIGATING and the
owner's memory of it is true (`OneOwner`, `OwnerKnows`); an OPEN round has no
checkpoint and no owner. A start owns a round only by moving it out of OPEN
under its lock, and a restore gives it back only while the thread has no
checkpoint.

`InvestigationGraphProofs`: `TypeCorrect`, `BudgetsAlwaysHold`,
`FinalStatusAlwaysJustified`, `RoundsAlwaysNeedTools`, `AttemptsAlwaysBounded` and
`TerminalIsLast`. The budgets are not inductive because the guard that checks them is two nodes away
from the node that spends them. The strengthening `Sound(node, state)` says
what holds of the state in general (`Clean`) and on its way into each node
(`AtNode`): for instance that a Tool call is still affordable at
`tool_execution`, and that a state on its way to a terminalization node
justifies the status written there. The wrapper is proved once for all nodes
(`NodePreserves`, with `ManualStep` for budgets and deadlines and `RaisedStep`
for failures); each node then has one lemma about its results.
`AttemptsAlwaysBounded` is amortized: a call whose node returns is counted by
`llm_call_count`, and every other one belongs to the one chain of retries that
is going on, so the calls made never exceed what the calls counted can cost
(`Cost`) plus the chain.

`WorkflowRetryProofs`: `TypeCorrect`, `AnswersStayTrue`, `FailuresStayVisible`
and `NoRetryEverAccepted`, for any number of requests and readers. One inductive
invariant gives all four. `RunShape` ties the run's place to the checkpoint: a
failed task is on a terminalization node only and its failure is not retryable;
between the classification and the restored ERROR write the thread stands at
`failure` whatever node raised. `AnswerShape` says what the parts of an answer
read so far still mean when the last one is read: a round stays terminal, and
`raised` stays set. `UnlockKeeps` is the lemma about the row locks.

`RemediationProofs`: `TypeCorrect`, `CheckpointsNeverAhead` and
`ImplementsPromise`, for any number of requests that overlap in any way. The
checkpoint property is not inductive because the latest checkpoint is replaced
by one a run produced earlier, or still holds in memory. The strengthening is
`Backed(s)`: what a graph state claims, the rows hold; a thread that has ended
has its report, unless a failed knowledge search cut the investigation short. It
is required of the thread, of every unsaved checkpoint and of every state a run
works on (`StepSound`), and it survives all steps because the rows it depends on only
grow (`RowsGrow`, `BackedKept`): an approval is never replaced, an executed
Action stays executed, a verdict and a report stay. That last point is where the
proof needs the code's order of commit and checkpoint, and one fact about the
path: whoever arrives at the verification has the executed Action's approval in
its state, so an existing verdict is reused and never overwritten. Only the
workflow's own run is ever before the policy gate (`Past`, `WorkflowSound`), so
an Action that has been decided is never made again. The refinement adds
`LabSound`: a rollback takes effect only on a faulty version somebody deployed,
because the gate ran before any rollback and so every Action's target is the
healthy version; and a run about to roll back holds an approval.

`RemediationOutcomeProofs`: `ExecutedActionsAreReal`, `ResolutionsAreEarned`,
`ReportsAgree` and `DecisionsStayRetryable`, from `OInv`, which TLC has also
checked as an invariant with every fault. `LabReal` is about the
deployment while nobody operates the lab: a run about to mark the Action
executed has seen the target deployed, whether by its own rollback, by one
whose answer was lost or by another run's (`serving` says how far each request
is, and its configuration may still be on the way). `Ordered` is why a decision can be
retried: a checkpoint's stage and next node agree, the checkpoints a run holds
never go back behind the approval wait, so once the approval is committed the
thread waits for it or is past it, and no stored checkpoint is past it while the
Action is pending. `Deciding` and `AtHome` say that the gate makes the Action,
that only a decision resumes the thread, and that a run inside a node works on a
checkpoint that led there. `Alone` holds until two runs have worked at once:
then what a run has read of the rows is still so when it acts on it (`Sole`), and
once a report is written every checkpoint left, stored or held, leads only to
the decision, which repeats, or to the report again (`Reported`). Without that
restriction `ReportAgrees` and `ResolvedIsEarned` are not claimed.

`KnowledgeBaseProofs`: `TypeCorrect`, `DocumentsAreWhole`, `RunsAreAtomic` and
`SearchesStayInScope`.
The commit publishes writes that were computed from rows and chunks read long
before. The strengthening says that locks are exclusive, that what an ingestion loaded of a
document it replaces is the whole chunk set of some revision, that its pending
writes are of different documents, and that a flushed write can no longer
conflict. Its key point is that a write whose old chunks
are gone conflicts at the flush, so a write that passes removes every old chunk
of its document before it adds its own.

`SearchesStayInScope` adds what a search has read so far (`SearchesSound`): its
candidates are within the history of what it was allowed to find, which only
grows. The filter's rows exist because `DocumentWhole` leaves no chunk without
its document. That a ranking repeats nothing and stays within its limit is a
lemma about distinct sequences (`DistinctElements`).

`EvalRunnerProofs`: `TypeCorrect`, `RogueRollbackIsReported`, `PassIsBacked`,
`VerdictIsBacked` and `LeftCasesAreQuiet`. An output is put together after the
child that knew the facts was killed. The invariant follows a recorded rogue
execution (`Rogue`) and a control subprocess that is still running
(`Disturbing`), and says of every message in the outbox and the pipe, torn ones
included (`MessagesSound`), of the rows, of what the parent has heard and of the
outputs what they know of them; that after the join nobody works on the case
(`ChildSound`), so that what the parent then reads stays so; that nothing has
happened to the cases still to come (`AheadSound`); and that passing cases leave
the Fault Lab at its baseline (`LabSound`).

Only model-checked: the liveness properties (`AcceptedRoundSettles`,
`TerminalRoundReported`, `RunTerminalizes`, `EveryRequestAnswered`,
`SuiteEnds`), since TLAPS does not reason about fairness. `SingleExecution` and
the other properties of the runs expected to be violated are false of the code.

## 5. Not modelled

Not modelled because there is nothing for a model to find: configuration,
bootstrap, LLM and HTTP I/O, API schemas, migrations, the timeline projection,
the web console. Abstracted: the content of prompts, evidence, reports and the
persisted V2 records; several incidents (they share no row, thread or task); the
scoring of evidence and tools in the evaluation, which is one choice; the
separate integration and regression commands of `evals/`; the fault command's
own read and write of the lab's state file, which is one step here; what a retry
does once accepted, which no V2 thread reaches.

A legacy `Incident.status` stays INVESTIGATING after a V2 terminalization; the
model keeps both columns and states nothing about that.

What could come next: the evidence rules of `hypothesis_update_node` as
operators checked against a reference definition; the fault command and the
service as two writers of one file.
