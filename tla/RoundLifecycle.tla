--------------------------- MODULE RoundLifecycle ---------------------------
(***************************************************************************)
(* The lifecycle of one incident's investigation rounds, as the backend    *)
(* drives it: POST .../workflow and POST .../continuations requests, the   *)
(* in-process background task each accepted request leaves behind, and the *)
(* PostgreSQL rows and LangGraph threads they share.                       *)
(*                                                                         *)
(* A transaction that locks the incident row (SELECT ... FOR UPDATE) is    *)
(* one step from its lock to its commit.  What a session loaded BEFORE the *)
(* lock is kept in view[r]: SessionLocal is built with                     *)
(* expire_on_commit=False and no query uses populate_existing, so a locked *)
(* re-read returns the object already loaded, with its old attributes.     *)
(* Incidents share no row, thread or task: one incident is modelled.       *)
(***************************************************************************)
EXTENDS Naturals, Sequences, FiniteSets

CONSTANTS
  StartRequests,     \* POST /incidents/{id}/workflow requests
  ContinueRequests,  \* POST /incidents/{id}/continuations requests
  Faults             \* the failures the environment may inject

Requests == StartRequests \union ContinueRequests

FaultKinds ==
  { "crash",    \* the backend process stops: every request and task is lost
    "probe",    \* the checkpoint store cannot be read
    "launch",   \* the run fails before its first checkpoint is persisted
    "invoke",   \* the graph raises after its first checkpoint
    "leave",    \* the graph reaches END without a terminalization node
    "report" }  \* the report is refused after the round was terminalized

ASSUME RequestsAssumption ==
  /\ StartRequests \intersect ContinueRequests = {}
  /\ IsFiniteSet(ContinueRequests)
  /\ Faults \subseteq FaultKinds

VARIABLES
  incident,     \* Incident.investigation_status and the legacy Incident.status
  rounds,       \* InvestigationRound.status, by round_number
  checkpoints,  \* the rounds whose LangGraph thread has a persisted checkpoint
  reports,      \* V2 Report rows: the round and the final status they record
  pc,           \* where each request, and then its background task, stands
  view          \* what each request's or task's session holds in memory

vars == <<incident, rounds, checkpoints, reports, pc, view>>

Terminal == {"CONCLUDED", "INCONCLUSIVE", "FAILED"}
Status   == {"OPEN", "INVESTIGATING"} \union Terminal
Legacy   == {"OPEN", "INVESTIGATING"}

RequestPhases == {"idle", "create", "refresh", "accept", "mark"}
TaskPhases    == {"queued", "probe", "launch", "running", "terminalize",
                  "commit", "report", "reconcile", "restore"}
EndPhases     == {"done", "rejected", "lost"}
Phases        == RequestPhases \union TaskPhases \union EndPhases

(* round: the round loaded (0: none); investigation, legacy: the loaded    *)
(* incident; status: the loaded round's status; run: the round whose       *)
(* thread the task executes (0: none).                                     *)
View == [round : Nat, investigation : Status, legacy : Legacy,
         status : Status, run : Nat]

EmptyView == [round |-> 0, investigation |-> "OPEN", legacy |-> "OPEN",
              status |-> "OPEN", run |-> 0]

CurrentRound == Len(rounds)

(* The current round's status as r's session sees it after locking it: the *)
(* object it already holds, or a fresh row.                                *)
SeenStatus(r) ==
  IF view[r].round = CurrentRound THEN view[r].status ELSE rounds[CurrentRound]

(* The before_flush hook reads the round's row itself and refuses to touch *)
(* a terminal one.                                                         *)
FlushWithoutHook(n) == TRUE  \* mutant: no immutability hook

FlushAllowed(n) == rounds[n] \notin Terminal

SetCurrentRoundOnly(s) ==  \* mutant: the incident's projection is forgotten
  /\ rounds' = [rounds EXCEPT ![CurrentRound] = s]
  /\ UNCHANGED incident

SetCurrent(s) ==
  /\ rounds' = [rounds EXCEPT ![CurrentRound] = s]
  /\ incident' = [incident EXCEPT !.investigation = s]

Goto(r, phase) == pc' = [pc EXCEPT ![r] = phase]

End(r, phase) ==
  /\ Goto(r, phase)
  /\ view' = [view EXCEPT ![r] = EmptyView]

dbVars == <<incident, rounds, checkpoints, reports>>

TypeOK ==
  /\ incident \in [investigation : Status, legacy : Legacy]
  /\ rounds \in Seq(Status)
  /\ rounds # << >>
  /\ checkpoints \in SUBSET Nat
  /\ reports \in SUBSET [round : Nat, final : Terminal]
  /\ pc \in [Requests -> Phases]
  /\ view \in [Requests -> View]

-----------------------------------------------------------------------------
(* create_incident has committed an OPEN incident with its OPEN round 1.   *)
Init ==
  /\ incident = [investigation |-> "OPEN", legacy |-> "OPEN"]
  /\ rounds = <<"OPEN">>
  /\ checkpoints = {}
  /\ reports = {}
  /\ pc = [r \in Requests |-> "idle"]
  /\ view = [r \in Requests |-> EmptyView]

(***************************************************************************)
(* The HTTP requests.                                                      *)
(***************************************************************************)

(* accept_start up to the commit inside InvestigationLifecycleService's    *)
(* start; seen is the incident status the session holds after its lock.    *)
AcceptableAgain(r, seen) ==  \* mutant: a started round is accepted again
  seen \notin Terminal

Acceptable(r, seen) ==
  /\ seen = "OPEN"
  /\ SeenStatus(r) = "OPEN"
  /\ FlushAllowed(CurrentRound)

Accept(r, seen) ==
  \/ /\ Acceptable(r, seen)
     /\ SetCurrent("INVESTIGATING")
     /\ Goto(r, "mark")
     /\ UNCHANGED <<checkpoints, reports, view>>
  \/ /\ ~Acceptable(r, seen)
     /\ End(r, "rejected")
     /\ UNCHANGED dbVars

(* POST /workflow: a fresh session, so the locked rows are what it loads.  *)
AcceptStart(r) ==
  /\ r \in StartRequests
  /\ pc[r] = "idle"
  /\ Accept(r, incident.investigation)

(* accept_start's second commit: the legacy projection, then the response  *)
(* that queues the background task.                                        *)
MarkInvestigating(r) ==
  /\ pc[r] = "mark"
  /\ incident' = [incident EXCEPT !.legacy = "INVESTIGATING"]
  /\ End(r, "queued")
  /\ UNCHANGED <<rounds, checkpoints, reports>>

(* POST /continuations loads the incident and its current round unlocked.  *)
ContinueRead(r) ==
  /\ r \in ContinueRequests
  /\ pc[r] = "idle"
  /\ view' = [view EXCEPT ![r] =
                [@ EXCEPT !.round = CurrentRound,
                          !.investigation = incident.investigation,
                          !.legacy = incident.legacy,
                          !.status = rounds[CurrentRound]]]
  /\ Goto(r, "create")
  /\ UNCHANGED dbVars

(* create_next_round: one transaction that appends an OPEN round.          *)
ContinuableByIncident(r) ==  \* mutant: the previous round is not re-checked
  view[r].investigation \in Terminal

Continuable(r) ==
  /\ view[r].investigation \in Terminal
  /\ SeenStatus(r) \in Terminal

CreateNextRound(r) ==
  /\ pc[r] = "create"
  /\ \/ /\ Continuable(r)
        /\ rounds' = Append(rounds, "OPEN")
        /\ incident' = [investigation |-> "OPEN", legacy |-> "OPEN"]
        /\ view' = [view EXCEPT ![r] =
                      [EmptyView EXCEPT !.round = Len(rounds) + 1]]
        /\ Goto(r, "refresh")
        /\ UNCHANGED <<checkpoints, reports>>
     \/ /\ ~Continuable(r)
        /\ End(r, "rejected")
        /\ UNCHANGED dbVars

(* session.refresh(round_record): the round is re-read, the incident not.  *)
RefreshRound(r) ==
  /\ pc[r] = "refresh"
  /\ view' = [view EXCEPT ![r] = [@ EXCEPT !.status = rounds[view[r].round]]]
  /\ Goto(r, "accept")
  /\ UNCHANGED dbVars

(* accept_start again, now in a session that still holds both objects.     *)
AcceptContinuation(r) ==
  /\ pc[r] = "accept"
  /\ Accept(r, view[r].investigation)

(***************************************************************************)
(* The background task, which knows the incident's id and nothing else.    *)
(***************************************************************************)

(* execute_accepted_start: whichever round is current now is "the accepted *)
(* round", provided incident and round are INVESTIGATING.                  *)
CheckAccepted(r) ==
  /\ pc[r] = "queued"
  /\ \/ /\ incident.investigation = "INVESTIGATING"
        /\ rounds[CurrentRound] = "INVESTIGATING"
        /\ view' = [view EXCEPT ![r] =
                      [round |-> CurrentRound, investigation |-> "INVESTIGATING",
                       legacy |-> incident.legacy, status |-> "INVESTIGATING",
                       run |-> 0]]
        /\ Goto(r, "probe")
     \/ /\ \/ incident.investigation # "INVESTIGATING"
           \/ rounds[CurrentRound] # "INVESTIGATING"
        /\ End(r, "done")
  /\ UNCHANGED dbVars

(* A persisted checkpoint, or a checkpoint store that cannot be read, ends *)
(* the task with nothing restored.                                         *)
ProbeCheckpoint(r) ==
  /\ pc[r] = "probe"
  /\ \/ /\ view[r].round \notin checkpoints
        /\ Goto(r, "launch")
        /\ UNCHANGED view
     \/ /\ \/ view[r].round \in checkpoints
           \/ "probe" \in Faults
        /\ End(r, "done")
  /\ UNCHANGED dbVars

(* PostgresWorkflowRuntime.start re-reads the current round in a session   *)
(* of its own and invokes the graph on THAT round's thread.                *)
RuntimeStart(r) ==
  /\ pc[r] = "launch"
  /\ \/ /\ rounds[CurrentRound] = "INVESTIGATING"
        /\ checkpoints' = checkpoints \union {CurrentRound}
        /\ view' = [view EXCEPT ![r] = [@ EXCEPT !.run = CurrentRound]]
        /\ Goto(r, "running")
     \/ /\ \/ rounds[CurrentRound] # "INVESTIGATING"
           \/ "launch" \in Faults
        /\ Goto(r, "reconcile")
        /\ UNCHANGED <<checkpoints, view>>
  /\ UNCHANGED <<incident, rounds, reports>>

(* The graph invocation, seen from outside: it reaches a terminalization   *)
(* node, returns from END without one, or raises.                          *)
RunGraph(r) ==
  /\ pc[r] = "running"
  /\ \/ /\ Goto(r, "terminalize")
        /\ UNCHANGED view
     \/ /\ "leave" \in Faults
        /\ End(r, "done")
     \/ /\ "invoke" \in Faults
        /\ Goto(r, "reconcile")
        /\ UNCHANGED view
  /\ UNCHANGED dbVars

HandBackAlways(n) == TRUE  \* mutant: every failure is taken for an unstarted one

(* The except branch of execute_accepted_start looks the accepted thread   *)
(* up again; only a thread without a checkpoint is handed back.            *)
HandBack(n) == n \notin checkpoints

ReconcileProbe(r) ==
  /\ pc[r] = "reconcile"
  /\ \/ /\ HandBack(view[r].round)
        /\ Goto(r, "restore")
        /\ UNCHANGED view
     \/ /\ \/ ~HandBack(view[r].round)
           \/ "probe" \in Faults
        /\ End(r, "done")
  /\ UNCHANGED dbVars

RestorableIfUnmarked(r) ==  \* mutant: compares against the wrong legacy status
  view[r].legacy = "OPEN" /\ view[r].round = CurrentRound

(* _restore_open_after_unstarted_failure, judged on the objects the task's *)
(* session has held since CheckAccepted.                                   *)
Restorable(r) ==
  /\ view[r].legacy = "INVESTIGATING"
  /\ view[r].round = CurrentRound
  /\ FlushAllowed(CurrentRound)

RestoreOpen(r) ==
  /\ pc[r] = "restore"
  /\ \/ /\ Restorable(r)
        /\ rounds' = [rounds EXCEPT ![CurrentRound] = "OPEN"]
        /\ incident' = [investigation |-> "OPEN", legacy |-> "OPEN"]
     \/ /\ ~Restorable(r)
        /\ UNCHANGED <<incident, rounds>>
  /\ End(r, "done")
  /\ UNCHANGED <<checkpoints, reports>>

(* V2Terminalizer loads incident and round in the session it terminalizes  *)
(* with, and flushes the round's records.                                  *)
TerminalizeRead(r) ==
  /\ pc[r] = "terminalize"
  /\ view' = [view EXCEPT ![r] =
                [@ EXCEPT !.investigation = incident.investigation,
                          !.status = rounds[view[r].run]]]
  /\ Goto(r, "commit")
  /\ UNCHANGED dbVars

(* InvestigationLifecycleService.terminalize, to its commit.  A refusal    *)
(* fails the node, and with it the invocation.                             *)
Terminalizable(r) ==
  /\ view[r].run = CurrentRound
  /\ view[r].status = "INVESTIGATING"
  /\ view[r].investigation = "INVESTIGATING"
  /\ FlushAllowed(CurrentRound)

TerminalizeCommit(r) ==
  /\ pc[r] = "commit"
  /\ \/ /\ Terminalizable(r)
        /\ \E s \in Terminal :
             /\ SetCurrent(s)
             /\ view' = [view EXCEPT ![r] =
                           [@ EXCEPT !.investigation = s, !.status = s]]
        /\ Goto(r, "report")
        /\ UNCHANGED <<checkpoints, reports>>
     \/ /\ ~Terminalizable(r)
        /\ Goto(r, "reconcile")
        /\ UNCHANGED <<dbVars, view>>

ReportableFresh(r) ==  \* mutant: the incident is re-read before the report
  view[r].status \in Terminal /\ incident.investigation = view[r].status

(* V2ReportService.generate, a commit of its own, judged on the objects    *)
(* the terminalizing session still holds.                                  *)
Reportable(r) ==
  /\ view[r].status \in Terminal
  /\ view[r].investigation = view[r].status

WithReportOfIncident(n, s) ==  \* mutant: records the incident's live status
  IF \E p \in reports : p.round = n
    THEN reports
    ELSE reports \union {[round |-> n, final |-> incident.investigation]}

(* A round's existing report is returned, never replaced.                  *)
WithReport(n, s) ==
  IF \E p \in reports : p.round = n
    THEN reports
    ELSE reports \union {[round |-> n, final |-> s]}

GenerateReport(r) ==
  /\ pc[r] = "report"
  /\ \/ /\ Reportable(r)
        /\ reports' = WithReport(view[r].run, view[r].status)
        /\ End(r, "done")
     \/ /\ \/ ~Reportable(r)
           \/ "report" \in Faults
        /\ Goto(r, "reconcile")
        /\ UNCHANGED <<reports, view>>
  /\ UNCHANGED <<incident, rounds, checkpoints>>

(***************************************************************************)
(* The process stops.  Background tasks live in memory: none survives.     *)
(***************************************************************************)
Crash ==
  /\ "crash" \in Faults
  /\ \E r \in Requests : pc[r] \notin EndPhases \union {"idle"}
  /\ pc' = [r \in Requests |->
              IF pc[r] \in EndPhases \union {"idle"} THEN pc[r] ELSE "lost"]
  /\ view' = [r \in Requests |-> EmptyView]
  /\ UNCHANGED dbVars

(* Every request answered and every task ended.                            *)
Quiescent ==
  /\ \A r \in Requests : pc[r] \in EndPhases
  /\ UNCHANGED vars

RequestStep(r) ==
  \/ AcceptStart(r)
  \/ ContinueRead(r)
  \/ CreateNextRound(r)
  \/ RefreshRound(r)
  \/ AcceptContinuation(r)
  \/ MarkInvestigating(r)

TaskStep(r) ==
  \/ CheckAccepted(r)
  \/ ProbeCheckpoint(r)
  \/ RuntimeStart(r)
  \/ RunGraph(r)
  \/ TerminalizeRead(r)
  \/ TerminalizeCommit(r)
  \/ GenerateReport(r)
  \/ ReconcileProbe(r)
  \/ RestoreOpen(r)

Next ==
  \/ \E r \in Requests : RequestStep(r) \/ TaskStep(r)
  \/ Crash
  \/ Quiescent

(* A request that arrived and a task that was queued keep being scheduled  *)
(* as long as the process lives; nobody has to send a request.             *)
Fairness ==
  \A r \in Requests :
    /\ WF_vars(pc[r] # "idle" /\ RequestStep(r))
    /\ WF_vars(TaskStep(r))

Spec     == Init /\ [][Next]_vars
FairSpec == Spec /\ Fairness

-----------------------------------------------------------------------------
(***************************************************************************)
(* Properties.                                                             *)
(***************************************************************************)

(* Only the newest round can be unfinished: create_next_round (locked) is  *)
(* refused until its predecessor is terminal, whatever the request's       *)
(* session read before the lock.                                           *)
ActiveIsNewest ==
  \A n \in 1..(CurrentRound - 1) : rounds[n] \in Terminal

(* Incident.investigation_status always projects the newest round: accept, *)
(* restore, terminalize and create each write both rows in one commit.     *)
ProjectionAgrees == incident.investigation = rounds[CurrentRound]

(* A report exists only for a terminal round, records its final status and *)
(* is the only one, although it is written by a second commit after the    *)
(* round was terminalized and possibly after a new round was opened.       *)
ReportsMatchRounds ==
  \A p \in reports :
    /\ p.round \in DOMAIN rounds
    /\ rounds[p.round] = p.final
    /\ \A q \in reports : q.round = p.round => q = p

(* A terminal round never changes and is never dropped, although           *)
(* terminalize, accept and restore may act on stale session objects: the   *)
(* before_flush hook has the last word.                                    *)
TerminalRoundsImmutable ==
  [][\A n \in DOMAIN rounds :
       rounds[n] \in Terminal => n \in DOMAIN rounds' /\ rounds'[n] = rounds[n]]_vars

(* A round's thread is executed by one background task at a time, as       *)
(* accept_start's lock-and-check is meant to guarantee.                    *)
Executing(r) == pc[r] \in {"running", "terminalize", "commit", "report"}

SingleExecution ==
  \A r, q \in Requests :
    Executing(r) /\ Executing(q) /\ view[r].run = view[q].run => r = q

(* Without a continuation that has come as far as accepting its round --   *)
(* see the run double_accept for that -- starts, restores and restarts     *)
(* never have two tasks on one thread, and a round that is OPEN can be     *)
(* started: its thread holds no checkpoint, which execute_accepted_start   *)
(* would refuse for ever.                                                  *)
OnlyStarts ==
  \A r \in ContinueRequests : pc[r] \in {"idle", "create", "refresh", "rejected"}

StartsExecuteOnce == OnlyStarts => SingleExecution

OpenRoundStartable ==
  OnlyStarts /\ rounds[CurrentRound] = "OPEN" => CurrentRound \notin checkpoints

RoundIs(n, statuses) == n \in DOMAIN rounds /\ rounds[n] \in statuses

RoundNumbers == 1..(Cardinality(ContinueRequests) + 1)

(* An accepted round is executed to a terminal status or handed back OPEN: *)
(* no interleaving of requests and background tasks leaves it accepted     *)
(* with nobody to execute it.                                              *)
AcceptedRoundSettles ==
  \A n \in RoundNumbers :
    RoundIs(n, {"INVESTIGATING"}) ~> ~RoundIs(n, {"INVESTIGATING"})

(* Every terminal round gets its report, even when the next round has been *)
(* opened between the terminalizing commit and the report's.               *)
TerminalRoundReported ==
  \A n \in RoundNumbers :
    RoundIs(n, Terminal) ~> \E p \in reports : p.round = n

(* The rounds and reports implement the append-only history they promise.  *)
History == INSTANCE RoundHistory

HistorySpec == History!Spec
=============================================================================
