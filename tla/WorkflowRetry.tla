---------------------------- MODULE WorkflowRetry -----------------------------
(***************************************************************************)
(* One accepted round of the formal V2 graph as the workflow console sees  *)
(* it (workflow_console.py): the background task that runs the thread to   *)
(* its terminalization, the requests POST .../workflow/retry, and the two  *)
(* read endpoints.                                                         *)
(*                                                                         *)
(* Every investigation node is wrapped so that its exceptions become a     *)
(* state of the graph; only the three terminalization nodes can leave a    *)
(* failed task on the checkpoint.  The runtime then rewrites that          *)
(* checkpoint in two separate writes, the first of which runs the routing  *)
(* of the node before it.  A retry request and the terminalizing run lock  *)
(* the incident's and the round's row in opposite orders; the readers put  *)
(* one answer together from the incident, the state and the failure.       *)
(***************************************************************************)
EXTENDS Integers, FiniteSets

CONSTANTS
  Requests,       \* retry requests
  Starter,        \* the background task that runs the accepted start
  Readers,        \* GET .../workflow and GET .../workflow/progress
  RetryableNodes, \* RETRYABLE_PRE_APPROVAL_NODES, as places of the thread
  Faults          \* what the environment does: "database", "dead_end", "crash"

Actors == Requests \cup {Starter}
Everyone == Actors \cup Readers

\* The nodes <x>_terminalization of the V2 graph.
Terminalizers == {"conclusion", "inconclusive", "failure"}

ASSUME RetryAssumption ==
  /\ Starter \notin Requests /\ Readers \cap Actors = {} /\ "none" \notin Actors
  /\ RetryableNodes \cap Terminalizers = {}

VARIABLES
  thread,   \* the latest checkpoint of the round's thread
  terminal, \* whether the round and its incident are terminal
  reported, \* whether the round has its report
  holder,   \* [row -> who holds its lock, or "none"]
  pc,       \* [actor or reader -> where it stands]
  raised,   \* the node whose exception ended the run, or "none"
  answer,   \* [reader -> what it has put together]
  history   \* which of Faults has happened

vars == <<thread, terminal, reported, holder, pc, raised, answer, history>>

Go(a, place) == pc' = [pc EXCEPT ![a] = place]

\* A fault of the environment, remembered.
Suffer(fault) == fault \in Faults /\ history' = history \cup {fault}

-----------------------------------------------------------------------------
(* The checkpoint: the node that runs next, the ERROR write of its failed    *)
(* task, and the persisted workflow_failure_category and _retryable.         *)

NoCheckpoint == [at |-> "none", error |-> FALSE, category |-> FALSE, retryable |-> FALSE]

\* WorkflowService.get_failure
HasFailure(c) == c.error

Recoverable(c) == c.at \in RetryableNodes

\* _is_retry_eligible; of a formal V2 round no Action and no Approval exists,
\* and the legacy status it compares stays INVESTIGATING when the round ends.
Eligible(failed) == HasFailure(failed) /\ Recoverable(failed) /\ failed.retryable

-----------------------------------------------------------------------------
(* Row locks. *)

Free(row) == holder[row] = "none"
Lock(a, row) == Free(row) /\ holder' = [holder EXCEPT ![row] = a]

\* Mutant: the commit releases nothing.
UnlockNothing(a) == UNCHANGED holder

Unlock(a) == holder' = [row \in DOMAIN holder |->
                          IF holder[row] = a THEN "none" ELSE holder[row]]

\* The row each place waits for: a request locks the incident and then the
\* round, InvestigationLifecycleService.terminalize the round and then the
\* incident.
Wanted(a) == CASE pc[a] = "lock_incident"     -> "incident"
               [] pc[a] = "lock_round"        -> "round"
               [] pc[a] = "terminal_round"    -> "round"
               [] pc[a] = "terminal_incident" -> "incident"
               [] OTHER                       -> "none"
Blocked(a) == Wanted(a) # "none" /\ ~Free(Wanted(a))
Deadlocked(a) ==
  \E b \in Actors : /\ Blocked(a) /\ Blocked(b) /\ a # b
                    /\ holder[Wanted(a)] = b /\ holder[Wanted(b)] = a

-----------------------------------------------------------------------------
(* A retry request. *)

Receive(r) ==
  /\ pc[r] = "idle" /\ Go(r, "lock_incident")
  /\ UNCHANGED <<thread, terminal, reported, holder, raised, answer, history>>

LockIncident(r) ==
  /\ pc[r] = "lock_incident" /\ Lock(r, "incident") /\ Go(r, "lock_round")
  /\ UNCHANGED <<thread, terminal, reported, raised, history>>

\* current_round(lock=True), then _release_before_checkpoint_io.
LockRound(r) ==
  /\ pc[r] = "lock_round" /\ Free("round")
  /\ Unlock(r) /\ Go(r, "read_state")
  /\ UNCHANGED <<thread, terminal, reported, raised, history>>

\* Without a checkpoint the request answers 409.
ReadState(r) ==
  /\ pc[r] = "read_state"
  /\ Go(r, IF thread.at = "none" THEN "done" ELSE "read_failure")
  /\ UNCHANGED <<thread, terminal, reported, holder, raised, history>>

\* An eligible failure is accepted and would be recorded and resumed; any
\* other one is answered with 409.
ReadFailure(r) ==
  /\ pc[r] = "read_failure"
  /\ Go(r, IF Eligible(thread) THEN "accepted" ELSE "done")
  /\ UNCHANGED <<thread, terminal, reported, holder, raised, history>>

\* A statement or a read of the checkpoint fails: 500 or 503.
RequestFails(r) ==
  /\ pc[r] \in {"lock_incident", "lock_round", "read_state", "read_failure"}
  /\ Suffer("database") /\ Unlock(r) /\ Go(r, "done")
  /\ UNCHANGED <<thread, terminal, reported, raised>>

-----------------------------------------------------------------------------
(* The run of the graph. *)

\* WorkflowService.start: the first checkpoint of the thread.
StartRun(a) ==
  /\ pc[a] = "idle" /\ Go(a, "run")
  /\ thread' = [thread EXCEPT !.at = "investigation"]
  /\ UNCHANGED <<terminal, reported, holder, raised, history>>

\* The investigation ends with a conclusion or without one.
Investigate(a) ==
  /\ pc[a] = "run" /\ thread.at = "investigation"
  /\ \E outcome \in Terminalizers \ {"failure"} : thread' = [thread EXCEPT !.at = outcome]
  /\ UNCHANGED <<terminal, reported, holder, pc, raised, history>>

\* Mutant: the wrapper lets the exception of an investigation node escape,
\* and its failed task is classified as retryable.
LetFail(a) ==
  /\ pc[a] = "run" /\ thread.at = "investigation"
  /\ thread' = [thread EXCEPT !.error = TRUE, !.category = TRUE, !.retryable = TRUE]
  /\ Go(a, "done")
  /\ UNCHANGED <<terminal, reported, holder, raised, history>>

\* _v2_investigation_node: an exception that is not retried within the graph,
\* or no longer, becomes a state that every route sends to failure.
CatchFailure(a) ==
  /\ pc[a] = "run" /\ thread.at = "investigation"
  /\ thread' = [thread EXCEPT !.at = "failure", !.category = TRUE]
  /\ UNCHANGED <<terminal, reported, holder, pc, raised, history>>

\* The two ways out that leave no failed task and no terminalization: a route
\* to END (_v2_route) and GraphRecursionError.
DeadEnd(a) ==
  /\ pc[a] = "run" /\ thread.at = "investigation" /\ Suffer("dead_end")
  /\ \E end \in {"investigation", "end"} : thread' = [thread EXCEPT !.at = end]
  /\ Go(a, "done")
  /\ UNCHANGED <<terminal, reported, holder, raised>>

\* A node raises: LangGraph writes its error on the checkpoint it ran from.
NodeRaises(a) ==
  /\ raised' = thread.at /\ thread' = [thread EXCEPT !.error = TRUE]
  /\ Go(a, "classify")

\* V2Terminalizer.terminalize through InvestigationLifecycleService: lock the
\* round, lock the incident, commit.  Nothing else ends the round, so
\* _require_current_pair does not refuse.
BeginTerminalize(a) ==
  /\ pc[a] = "run" /\ thread.at \in Terminalizers /\ Go(a, "terminal_round")
  /\ UNCHANGED <<thread, terminal, reported, holder, raised, history>>

TerminalLockRound(a) ==
  /\ pc[a] = "terminal_round" /\ Lock(a, "round") /\ Go(a, "terminal_incident")
  /\ UNCHANGED <<thread, terminal, reported, raised, history>>

TerminalCommit(a) ==
  /\ pc[a] = "terminal_incident" /\ Free("incident") /\ Unlock(a)
  /\ terminal' = TRUE /\ Go(a, "report")
  /\ UNCHANGED <<thread, reported, raised, history>>

\* A statement fails, or the commit, which may have taken effect then.
TerminalFails(a) ==
  /\ pc[a] \in {"terminal_round", "terminal_incident"} /\ Unlock(a)
  /\ terminal' \in {FALSE, pc[a] = "terminal_incident" /\ Free("incident")}
  /\ Suffer("database") /\ NodeRaises(a)
  /\ UNCHANGED reported

\* The report is a transaction of its own; then the last checkpoint is written.
GenerateReport(a) ==
  /\ pc[a] = "report"
  /\ reported' = TRUE /\ thread' = [thread EXCEPT !.at = "end"] /\ Go(a, "done")
  /\ UNCHANGED <<terminal, holder, raised, history>>

\* Its commit fails, after taking effect or before, with the round terminal.
ReportFails(a) ==
  /\ pc[a] = "report"
  /\ Suffer("database") /\ reported' \in BOOLEAN /\ NodeRaises(a)
  /\ UNCHANGED <<terminal, holder>>

\* A checkpoint cannot be written: the run raises without a failed task, and
\* its superstep is forgotten, what the node committed is not.
CheckpointFails(a) ==
  /\ pc[a] \in {"run", "report"} /\ Suffer("database")
  /\ reported' = (reported \/ pc[a] = "report")
  /\ Go(a, "done")
  /\ UNCHANGED <<thread, terminal, holder, raised>>

\* Where the routing of the node before sends the thread once the category is
\* set: every route of the V2 graph then answers "failed".
Rerouted(node) == IF node \in Terminalizers THEN "failure" ELSE node

\* _persist_failed_active_execution_usage: update_state writes the
\* classification in a new checkpoint, which has no failed task.  A
\* terminalization's errors are not retryable (classify_workflow_failure).
PersistClassification(a) ==
  /\ pc[a] = "classify"
  /\ thread' = [at |-> Rerouted(thread.at), error |-> FALSE, category |-> TRUE,
                retryable |-> FALSE]
  /\ Go(a, "restore")
  /\ UNCHANGED <<terminal, reported, holder, raised, history>>

\* Mutant: the failed task's error is not put back.
RestoredErrorDropped == thread

\* The error is put back on the task of the same name; without one the update
\* raises ValueError, which _persist_failed_active_execution_usage swallows.
RestoredError == [thread EXCEPT !.error = thread.at = raised]

RestoreFailedTask(a) ==
  /\ pc[a] = "restore" /\ thread' = RestoredError /\ Go(a, "done")
  /\ UNCHANGED <<terminal, reported, holder, raised, history>>

\* Either write fails; the failure is swallowed.
RewriteFails(a) ==
  /\ pc[a] \in {"classify", "restore"} /\ Suffer("database") /\ Go(a, "done")
  /\ UNCHANGED <<thread, terminal, reported, holder, raised>>

\* Mutant: the request gives up without a rollback, the run is never aborted.
AbortVictimKeepsLocks(a) ==
  /\ Deadlocked(a) /\ a \in Requests /\ Go(a, "done")
  /\ UNCHANGED <<thread, terminal, reported, holder, raised, history>>

\* PostgreSQL breaks a cycle by aborting one of the two transactions: the
\* request answers 500, the terminalizing node raises.
AbortVictim(a) ==
  /\ Deadlocked(a) /\ Unlock(a)
  /\ \/ a \in Requests /\ Go(a, "done") /\ UNCHANGED <<thread, raised>>
     \/ a = Starter /\ NodeRaises(a)
  /\ UNCHANGED <<terminal, reported, history>>

-----------------------------------------------------------------------------
(* The two read endpoints. *)

NoAnswer == [phase |-> "none", terminal |-> FALSE, retry |-> FALSE]

\* Mutant: the stage conclusion counts as a terminal one.
EndedByStage == terminal \/ thread.at \in Terminalizers

\* investigation_status of the incident; the legacy status and the stages that
\* are terminal ones belong to V1.
Ended == terminal

\* The incident and its current round, read and released.
ReadIncident(q) ==
  /\ pc[q] = "idle"
  /\ answer' = [answer EXCEPT ![q].terminal = Ended]
  /\ Go(q, "checkpoint")

\* A thread without a checkpoint is "accepted" to read_progress and 404 to
\* read, which does not tell the phase.
ReadCheckpoint(q) ==
  /\ pc[q] = "checkpoint"
  /\ IF thread.at = "none"
       THEN answer' = [answer EXCEPT ![q].phase = "accepted"] /\ Go(q, "done")
       ELSE UNCHANGED answer /\ \E next \in {"progress_failure", "answer"} : Go(q, next)

\* _progress_phase; a terminal round with a failed task is a conflict (409).
Phase(isTerminal, failed) ==
  CASE isTerminal /\ failed  -> "conflict"
    [] isTerminal /\ ~failed -> "completed"
    [] ~isTerminal /\ failed -> "failed"
    [] OTHER                 -> "running"

ReadProgressFailure(q) ==
  /\ pc[q] = "progress_failure"
  /\ LET phase == Phase(answer[q].terminal, HasFailure(thread)) IN
     /\ answer' = [answer EXCEPT ![q].phase = phase]
     /\ Go(q, IF phase = "conflict" THEN "done" ELSE "answer")

\* _retry_available reads the failure once more; an error there offers nothing.
OfferRetry(q) ==
  /\ pc[q] = "answer"
  /\ answer' = [answer EXCEPT ![q].retry = Eligible(thread)]
  /\ Go(q, "done")

\* A read fails: the request answers 500.
ReadFails(q) ==
  /\ pc[q] \in {"checkpoint", "progress_failure"}
  /\ Suffer("database") /\ Go(q, "dropped")
  /\ UNCHANGED <<thread, terminal, reported, holder, raised, answer>>

ReaderStep(q) ==
  \/ /\ ReadIncident(q) \/ ReadCheckpoint(q) \/ ReadProgressFailure(q) \/ OfferRetry(q)
     /\ UNCHANGED <<thread, terminal, reported, holder, raised, history>>
  \/ ReadFails(q)

-----------------------------------------------------------------------------

\* The process stops: no request, no run, no read and no lock survives; the
\* thread and the rows do.
Crash ==
  /\ Suffer("crash") /\ pc[Starter] \notin {"idle", "done"}
  /\ pc' = [a \in Everyone |->
       IF pc[a] = "idle" THEN "idle"
       ELSE IF a \in Readers /\ pc[a] # "done" THEN "dropped" ELSE "done"]
  /\ holder' = [row \in DOMAIN holder |-> "none"]
  /\ UNCHANGED <<thread, terminal, reported, raised, answer>>

RequestStep(r) ==
  LockIncident(r) \/ LockRound(r) \/ ReadState(r) \/ ReadFailure(r)

RunStep(a) ==
  \/ StartRun(a) \/ Investigate(a) \/ CatchFailure(a)
  \/ BeginTerminalize(a) \/ TerminalLockRound(a) \/ TerminalCommit(a)
  \/ GenerateReport(a) \/ PersistClassification(a) \/ RestoreFailedTask(a)

\* What goes wrong in between, which nothing has to.
Failure(a) ==
  \/ /\ a = Starter
     /\ \/ DeadEnd(a) \/ TerminalFails(a) \/ ReportFails(a) \/ CheckpointFails(a)
        \/ RewriteFails(a)
  \/ a \in Requests /\ RequestFails(a)

Quiescent ==
  /\ \A a \in Everyone : pc[a] \in {"idle", "done", "dropped", "accepted"}
  /\ pc[Starter] = "done"
  /\ UNCHANGED vars

Init ==
  /\ thread = NoCheckpoint /\ terminal = FALSE /\ reported = FALSE
  /\ holder = [row \in {"incident", "round"} |-> "none"]
  /\ pc = [a \in Everyone |-> "idle"]
  /\ raised = "none" /\ history = {}
  /\ answer = [q \in Readers |-> NoAnswer]

\* A step of a received request or of the accepted run.
Work(a) ==
  /\ \/ a = Starter /\ RunStep(a)
     \/ a \in Requests /\ RequestStep(a)
     \/ AbortVictim(a)
  /\ UNCHANGED answer

Next ==
  \/ \E r \in Requests : Receive(r)
  \/ \E a \in Actors : Work(a) \/ (Failure(a) /\ UNCHANGED answer)
  \/ \E q \in Readers : ReaderStep(q)
  \/ Crash
  \/ Quiescent

Spec == Init /\ [][Next]_vars

\* A received request and the accepted run are scheduled until they end; a failure
\* helps nobody out of a wait.
FairSpec == Spec /\ \A a \in Actors : WF_vars(Work(a))

-----------------------------------------------------------------------------
(* Properties. *)

Checkpoints ==
  [at : {"none", "investigation", "end"} \cup Terminalizers,
   error : BOOLEAN, category : BOOLEAN, retryable : BOOLEAN]

Places ==
  {"idle", "lock_incident", "lock_round", "read_state", "read_failure", "accepted",
   "run", "terminal_round", "terminal_incident", "report", "classify", "restore",
   "checkpoint", "progress_failure", "answer", "done", "dropped"}

\* Types of all variables; a row is held at the places between its lock and
\* its commit only (retry, InvestigationLifecycleService.terminalize).
TypeOK ==
  /\ thread \in Checkpoints /\ terminal \in BOOLEAN /\ reported \in BOOLEAN
  /\ holder \in [{"incident", "round"} -> Actors \cup {"none"}]
  /\ holder["incident"] \in Actors => pc[holder["incident"]] = "lock_round"
  /\ holder["round"] \in Actors => pc[holder["round"]] = "terminal_incident"
  /\ pc \in [Everyone -> Places]
  /\ raised \in Terminalizers \cup {"none"}
  /\ answer \in [Readers -> [phase : {"none", "accepted", "running", "failed",
                                      "completed", "conflict"},
                            terminal : BOOLEAN, retry : BOOLEAN]]
  /\ history \in SUBSET Faults

\* A progress answer is put together from reads at different moments, with the
\* terminalization and the rewriting of a failed checkpoint between them
\* (read_progress): still it says "completed" only of a terminal round,
\* reports a failure only if a terminalization raised, and its 409 means that
\* the round ended and its terminalizing node failed nevertheless.
AnswersAreTrue ==
  \A q \in Readers : pc[q] = "done" =>
    /\ answer[q].phase = "completed" => terminal
    /\ answer[q].phase = "failed" => raised # "none"
    /\ answer[q].phase = "conflict" => terminal /\ raised # "none"

\* A failed run is visible to the operator: when the run has ended, the round
\* is terminal or the thread shows the failed task, except after a fault that
\* history names and after a failed conclusion or inconclusive terminalization,
\* whose task the rewriting loses (_persist_failed_active_execution_usage).
FailureStaysVisible ==
  pc[Starter] = "done" =>
    \/ terminal \/ HasFailure(thread)
    \/ history # {}
    \/ raised \in {"conclusion", "inconclusive"}

\* The retry endpoint accepts nothing and the console offers nothing: whatever
\* a provider, a Tool or the database does, at every moment a request or a
\* reader may look, the only failed tasks are terminalizations, which
\* RETRYABLE_PRE_APPROVAL_NODES leaves out (_v2_investigation_node, retry).
NoRetryAccepted ==
  /\ \A r \in Requests : pc[r] # "accepted"
  /\ \A q \in Readers : ~answer[q].retry

\* Every received retry request is answered, although a retry and the
\* terminalizing run lock the incident and the round in opposite orders.
EveryRequestAnswered ==
  \A r \in Requests : pc[r] = "lock_incident" ~> pc[r] = "done"
=============================================================================
