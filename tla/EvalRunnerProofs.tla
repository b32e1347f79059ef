--------------------------- MODULE EvalRunnerProofs ---------------------------
(***************************************************************************)
(* Proofs about EvalRunner, for every suite, every pipe capacity, every    *)
(* fixture and every choice of faults.                                     *)
(*                                                                         *)
(* The properties relate an output to what really happened to its case,    *)
(* but the output is put together from messages and rows, after the child  *)
(* that wrote them was killed.  The inductive invariant therefore follows  *)
(* a rogue execution from its checkpoint on (Rogue), and says of every     *)
(* message, of the rows, and of what the parent has heard, what they know  *)
(* of it; and it follows a control subprocess that may outlive its case,   *)
(* which only a case that does not pass can leave behind.                  *)
(***************************************************************************)
EXTENDS EvalRunner, SequenceTheorems, TLAPS

(* Where a full-workflow case is being worked on, and where its child's    *)
(* messages are collected, or one of them is waited for.                   *)
Working == {"spawn", "watch", "expired", "joined", "resolve", "cleanup", "hung"}
Collecting == {"watch", "expired", "joined", "hung"}

(* The checkpoint of case c holds an execution nobody approved, and the    *)
(* control subprocess of case c may still disturb the Fault Lab.           *)
Rogue(c) == truth[c].recorded
Disturbing(c) == control[c] = "running"

Signs(kinds) == [kind : kinds]
Scored == [kind : {"output"}, passed : BOOLEAN, unauthorized : {0, 1}]

(* A score the child has sent is true of its case.                         *)
ScoreTrue(o) ==
  /\ o.passed => o.unauthorized = 0 /\ truth[Case].completed /\ ~Disturbing(Case)
  /\ Rogue(Case) => o.unauthorized = 1

MessageSound(m) ==
  /\ m.kind = "completed" => truth[Case].completed
  /\ m.kind \in {"output", "error"} => child \in {"leaving", "exited"}
  /\ m.kind = "output" => ScoreTrue(m)
  /\ m.kind = "torn" => child = "exited"

MessagesSound ==
  /\ outbox \in Seq(Messages) /\ pipe \in Seq(Messages)
  /\ parent \notin Collecting => outbox = << >> /\ pipe = << >>
  /\ \A i \in DOMAIN outbox : MessageSound(outbox[i])
  /\ \A i \in DOMAIN pipe : MessageSound(pipe[i])

(* The child sends at most three messages, one at each of three stages.    *)
OutboxBounded ==
  /\ child \in {"none", "inject", "injecting", "signal", "exited"} => outbox = << >>
  /\ child \in {"start", "investigate", "approval", "resume", "execute", "answer",
                "checkpoint", "completed"} => Len(outbox) <= 1
  /\ child = "score" => Len(outbox) <= 2

(* Where parent and child stand together, and how far the rows are then.   *)
Injected == {"signal", "start", "investigate", "approval", "resume", "execute", "answer",
             "checkpoint", "completed", "score"}

ChildSound ==
  /\ ~ChildGone => parent \in {"watch", "expired"}
  /\ parent \in {"idle", "spawn"} => ChildGone
  /\ parent = "spawn" => child = "none" /\ rows = NoRows
  /\ parent \in Collecting => child # "none"
  /\ parent \in Working => Case \in FullCases
  /\ child \in {"inject", "injecting", "signal", "start"} => rows = NoRows
  /\ child = "investigate" => rows.stage = "investigating"
  /\ child = "approval" => rows.stage \in {"closed", "waiting"}
  /\ child = "resume" => rows.stage = "waiting"
  /\ child \in {"execute", "answer", "checkpoint"} => rows.stage = "executing"
  /\ child \in {"completed", "score"} => rows.stage = "closed"
  /\ child = "score" => truth[Case].completed
  /\ child \in Injected => ~Disturbing(Case)

(* The rows of a case whose checkpoint holds a rogue execution show it.    *)
RowsSound ==
  parent \in Working /\ Rogue(Case) =>
    /\ rows.stage = "closed" /\ rows.executed /\ rows.outcome = "executed"
    /\ rows.approval # "APPROVED"

(* What an output says of its case is true of it, now and ever after.      *)
Fact(o) ==
  o.case \in FullCases =>
    /\ Rogue(o.case) => o.unauthorized # 0 /\ ~o.passed
    /\ o.passed => truth[o.case].completed /\ o.timeout = "none" /\ ~Disturbing(o.case)
    /\ o.timeout = "post_processing" => truth[o.case].completed

Heard == [incident : BOOLEAN, completed : BOOLEAN, timedOut : BOOLEAN, raised : BOOLEAN,
          output : Signs({"none", "timeout"}) \cup Messages \cup Outputs]

HeardSound ==
  /\ heard \in Heard
  /\ parent \in {"idle", "spawn", "assess", "done"} => heard = NothingHeard
  /\ parent \in Collecting =>
       ~heard.raised /\ heard.output \in Signs({"none", "error"}) \cup Scored
  /\ parent = "resolve" =>
       /\ ~heard.raised /\ heard.output \in Signs({"none", "error", "timeout"}) \cup Scored
       /\ heard.timedOut => heard.output = [kind |-> "timeout"]
  /\ parent \in Collecting \cup {"resolve"} =>
       /\ heard.output \in Scored => ScoreTrue(heard.output) /\ child \in {"leaving", "exited"}
       /\ heard.completed => truth[Case].completed
  /\ parent = "cleanup" /\ ~heard.raised =>
       heard.output \in Outputs /\ heard.output.case = Case /\ Fact(heard.output)

(* Nothing has happened yet to the cases that are still to come.           *)
Ahead(j) == j > turn \/ (j = turn /\ parent = "idle")

AheadSound ==
  \A j \in DOMAIN Suite :
    Ahead(j) /\ Suite[j] \in FullCases => ~Rogue(Suite[j]) /\ ~Disturbing(Suite[j])

OutputsSound ==
  \A i \in DOMAIN outputs :
    /\ outputs[i].case = Suite[i]
    /\ outputs[i].case \in PolicyCases =>
         outputs[i].unauthorized = Unknown /\ outputs[i].timeout = "none"
    /\ Fact(outputs[i])

(* A case leaves the Fault Lab at its baseline, or fails.                  *)
LabSound ==
  /\ parent \in {"idle", "assess", "done"}
  /\ \E i \in DOMAIN outputs : outputs[i].case \in FullCases
  /\ \A i \in DOMAIN outputs : outputs[i].passed
  => lab = {}

VerdictSound == verdict = IF parent = "done" THEN Assess(outputs) ELSE "none"

(* The inductive invariant.                                                *)
IInv ==
  /\ TypeOK /\ ChildSound /\ MessagesSound /\ OutboxBounded /\ RowsSound
  /\ HeardSound /\ AheadSound /\ OutputsSound /\ LabSound /\ VerdictSound

-----------------------------------------------------------------------------
(* The case at hand is one of the suite, and has a fixture if it is full.  *)
LEMMA CaseKnown ==
  ASSUME TypeOK, parent \notin {"assess", "done"}
  PROVE  /\ turn \in DOMAIN Suite /\ turn \in 1..Len(Suite) /\ Case \in Cases
         /\ Len(Suite) \in Nat
BY SuiteAssumption DEF TypeOK, Case, Cases

LEMMA FixtureKnown ==
  ASSUME TypeOK, NEW c \in FullCases
  PROVE  fixture[c].service \in Services
         /\ fixture[c].behavior \in {"not_required", "approve", "reject"}
<1>1. fixture \in [FullCases -> [service : Services,
                                 behavior : {"not_required", "approve", "reject"}]]
  BY SuiteAssumption DEF TypeOK
<1> QED
  BY <1>1

(* A pipe with a torn message belongs to a child that is gone.             *)
LEMMA TornGone ==
  ASSUME MessagesSound, IsTorn
  PROVE  child = "exited"
BY DEF MessagesSound, MessageSound, IsTorn

LEMMA NothingHeardTyped == NothingHeard \in Heard
BY DEF NothingHeard, Heard, Signs

(* The first state satisfies the invariant.                                *)
LEMMA InitIInv == Init => IInv
<1> SUFFICES ASSUME Init PROVE IInv
  OBVIOUS
<1>0. Len(Suite) \in Nat \ {0} /\ DOMAIN Suite = 1..Len(Suite)
  BY SuiteAssumption, EmptySeq
<1>1. NothingHeard \in Heard
  BY NothingHeardTyped
<1>2. TypeOK
  BY <1>0, <1>1, PipeAssumption DEF Init, TypeOK, NoRows, Heard, Signs
<1>3. \A c \in FullCases : ~Rogue(c) /\ ~Disturbing(c)
  BY DEF Init, Rogue, Disturbing
<1>4. ChildSound /\ OutboxBounded /\ RowsSound
  BY DEF Init, ChildSound, OutboxBounded, RowsSound, ChildGone, Working, Collecting, NoRows,
         Injected
<1>5. MessagesSound
  BY DEF Init, MessagesSound
<1>6. HeardSound
  BY <1>1 DEF Init, HeardSound, NothingHeard, Collecting
<1>7. AheadSound /\ OutputsSound /\ LabSound /\ VerdictSound
  BY <1>3 DEF Init, AheadSound, OutputsSound, LabSound, VerdictSound
<1> QED
  BY <1>2, <1>4, <1>5, <1>6, <1>7 DEF IInv

-----------------------------------------------------------------------------
(***************************************************************************)
(* What really happened to the cases, over any step: a workflow that ended *)
(* stays ended, and only the case at hand can come to a rogue execution or *)
(* to a control subprocess.                                                *)
(***************************************************************************)
HistoryGrows ==
  \A c \in FullCases :
    /\ truth[c].completed => truth'[c].completed
    /\ Rogue(c)' => Rogue(c) \/ (c = Case /\ child = "checkpoint")
    /\ Disturbing(c)' => Disturbing(c) \/ (c = Case /\ child = "inject")

(* The types of what it is told in, as TypeOK has them.                    *)
HistoryTyped ==
  /\ truth \in [FullCases -> [executed : {"none", "authorized", "rogue"},
                              recorded : BOOLEAN, completed : BOOLEAN]]
  /\ request \in [FullCases -> {"none", "authorized", "rogue", "served"}]
  /\ control \in [FullCases -> {"none", "running", "done", "failed"}]

(* A child that is at work belongs to the full-workflow case at hand.      *)
LEMMA ChildPlaced ==
  ASSUME TypeOK, ChildSound, ~ChildGone
  PROVE  /\ parent \in {"watch", "expired"} /\ Case \in FullCases
         /\ Case \in Cases /\ turn \in DOMAIN Suite /\ turn <= Len(Suite)
<1>1. parent \in {"watch", "expired"}
  BY DEF ChildSound
<1> QED
  BY <1>1, CaseKnown DEF ChildSound, Working, Collecting

(* Every step tells the history on.                                        *)
LEMMA NextHistory ==
  ASSUME TypeOK, ChildSound, [Next]_vars
  PROVE  HistoryGrows /\ HistoryTyped'
<1>0. HistoryTyped /\ (~ChildGone => Case \in FullCases)
  BY ChildPlaced DEF TypeOK, HistoryTyped
<1>1. CASE UNCHANGED <<truth, request, control>>
  BY <1>0, <1>1 DEF HistoryGrows, HistoryTyped, Rogue, Disturbing
<1>2. CASE Inject
  <2>1. /\ Case \in FullCases /\ child = "inject" /\ truth' = truth /\ request' = request
        /\ control' = [control EXCEPT ![Case] = "running"]
    BY <1>0, <1>2 DEF Inject, ChildGone
  <2> QED
    BY <1>0, <2>1 DEF HistoryGrows, HistoryTyped, Rogue, Disturbing
<1>3. CASE AwaitInjection
  <2>1. /\ truth' = truth /\ request' = request /\ Case \in FullCases
        /\ control' \in {control, [control EXCEPT ![Case] = "failed"]}
    BY <1>0, <1>3 DEF AwaitInjection, ChildGone
  <2> QED
    BY <1>0, <2>1 DEF HistoryGrows, HistoryTyped, Rogue, Disturbing
<1>4. CASE Dispatch
  <2>1. /\ truth' = truth /\ control' = control /\ Case \in FullCases
        /\ \E k \in {"authorized", "rogue"} : request' = [request EXCEPT ![Case] = k]
    BY <1>0, <1>4 DEF Dispatch, ChildGone
  <2> QED
    BY <1>0, <2>1 DEF HistoryGrows, HistoryTyped, Rogue, Disturbing
<1>5. CASE CheckpointExecution
  <2>1. /\ request' = request /\ control' = control /\ Case \in FullCases /\ child = "checkpoint"
        /\ \E b \in BOOLEAN : truth' = [truth EXCEPT ![Case].recorded = b]
    BY <1>0, <1>5 DEF CheckpointExecution, ChildGone, TypeOK
  <2> QED
    BY <1>0, <2>1 DEF HistoryGrows, HistoryTyped, Rogue, Disturbing
<1>6. CASE CompleteWorkflow
  <2>1. /\ request' = request /\ control' = control
        /\ truth' = [truth EXCEPT ![Case].completed = TRUE]
    BY <1>6 DEF CompleteWorkflow
  <2> QED
    BY <1>0, <2>1 DEF HistoryGrows, HistoryTyped, Rogue, Disturbing
<1>7. ASSUME NEW c \in FullCases, RunControl(c) PROVE HistoryGrows /\ HistoryTyped'
  <2>1. /\ truth' = truth /\ request' = request
        /\ \E k \in {"done", "failed"} : control' = [control EXCEPT ![c] = k]
    BY <1>7 DEF RunControl
  <2> QED
    BY <1>0, <2>1 DEF HistoryGrows, HistoryTyped, Rogue, Disturbing
<1>8. ASSUME NEW c \in FullCases, Serve(c) PROVE HistoryGrows /\ HistoryTyped'
  <2>1. /\ control' = control /\ request' = [request EXCEPT ![c] = "served"]
        /\ request[c] \in {"authorized", "rogue"}
        /\ truth' \in {truth, [truth EXCEPT ![c].executed = request[c]]}
    BY <1>8 DEF Serve
  <2> QED
    BY <1>0, <2>1 DEF HistoryGrows, HistoryTyped, Rogue, Disturbing
<1>9. CASE ChildStep \/ KillChild \/ Feed
  BY <1>1, <1>2, <1>3, <1>4, <1>5, <1>6, <1>9 DEF ChildStep, ChildWork, SignalAndCreate,
        StartWorkflow, Investigate, HandleApproval, Resume, RecordExecution,
        ScoreResult, ExitChild, KillChild, Feed
<1>10. CASE ParentStep
  BY <1>1, <1>10 DEF ParentStep, RunPolicySafety, ResetBefore, StartChild, Drain,
        LeaveLoop, TerminateChild, BlockOnTorn, FinalDrain, Resolve, CleanUp, AssessRelease,
        childVars
<1>11. CASE Ended \/ UNCHANGED vars
  BY <1>1, <1>11 DEF Ended, vars
<1> QED
  BY <1>7, <1>8, <1>9, <1>10, <1>11 DEF Next, LabStep

(* A fact stays true, unless its own case comes to what would refute it.   *)
LEMMA FactKept ==
  ASSUME HistoryGrows, NEW o, Fact(o), o.case # Case \/ child \notin {"inject", "checkpoint"}
  PROVE  Fact(o)'
BY DEF Fact, HistoryGrows

(* The cases of two outputs, and the case at hand, are all different.      *)
LEMMA OutputsEarlier ==
  ASSUME TypeOK, OutputsSound, NEW i \in DOMAIN outputs
  PROVE  /\ i \in 1..(turn - 1) /\ i \in DOMAIN Suite
         /\ parent \notin {"assess", "done"} => outputs[i].case # Case
<1>1. i \in 1..(turn - 1) /\ turn \in 1..(Len(Suite) + 1) /\ Len(Suite) \in Nat
  BY SuiteAssumption DEF TypeOK
<1>2. i \in DOMAIN Suite
  BY <1>1, SuiteAssumption
<1>3. parent \notin {"assess", "done"} => turn \in DOMAIN Suite
  BY CaseKnown
<1> QED
  BY <1>1, <1>2, <1>3, SuiteAssumption DEF OutputsSound, IsInjective, Case

(* The outputs stay true while none is added.                              *)
LEMMA OutputsKept ==
  ASSUME TypeOK, ChildSound, OutputsSound, HistoryGrows, outputs' = outputs
  PROVE  OutputsSound'
<1> SUFFICES ASSUME NEW i \in DOMAIN outputs PROVE Fact(outputs[i])'
  BY DEF OutputsSound
<1>1. child \in {"inject", "checkpoint"} => parent \notin {"assess", "done"}
  BY DEF ChildSound, ChildGone
<1>2. child \in {"inject", "checkpoint"} => outputs[i].case # Case
  BY <1>1, OutputsEarlier
<1> QED
  BY <1>2, FactKept DEF OutputsSound

(* Nothing happens to the cases ahead while none is begun.                 *)
LEMMA AheadKept ==
  ASSUME TypeOK, ChildSound, AheadSound, [Next]_vars,
         turn' = turn, parent' = "idle" => parent = "idle"
  PROVE  AheadSound'
<1>0. HistoryGrows
  BY NextHistory
<1> SUFFICES ASSUME NEW j \in DOMAIN Suite, Ahead(j)', Suite[j] \in FullCases,
                    Rogue(Suite[j])' \/ Disturbing(Suite[j])'
             PROVE  FALSE
  BY DEF AheadSound
<1>1. Ahead(j)
  BY DEF Ahead
<1>2. Suite[j] = Case /\ child \in {"inject", "checkpoint"}
  BY <1>0, <1>1 DEF HistoryGrows, AheadSound
<1>3. parent \in {"watch", "expired"} /\ turn \in DOMAIN Suite
  BY <1>2, ChildPlaced DEF ChildGone
<1>4. j = turn
  BY <1>2, <1>3, SuiteAssumption DEF Case, IsInjective
<1> QED
  BY <1>1, <1>3, <1>4, SuiteAssumption DEF Ahead

-----------------------------------------------------------------------------
(***************************************************************************)
(* The steps of the child process.                                         *)
(***************************************************************************)

(* The rows of a case, as TypeOK has them.                                 *)
Rows == [stage : {"none", "investigating", "waiting", "executing", "closed"},
         failure : {"none", "provider", "other"},
         approval : {"none", "APPROVED", "REJECTED"},
         executed : BOOLEAN, outcome : {"none", "executed", "failed"}]

(* Where every child step starts from, and what it leaves alone.           *)
LEMMA ChildFrame ==
  ASSUME TypeOK, ChildSound, ChildStep
  PROVE  /\ ~ChildGone /\ parent \in {"watch", "expired"} /\ Case \in FullCases
         /\ turn \in DOMAIN Suite /\ turn <= Len(Suite)
         /\ UNCHANGED <<fixture, turn, parent, pipe, heard, outputs, verdict>>
         /\ Case' = Case /\ child' # "none"
<1>1. ~ChildGone /\ child' # "none"
  BY DEF ChildStep, ChildWork, ChildGone, Inject, AwaitInjection, SignalAndCreate, StartWorkflow,
         Investigate, HandleApproval, Resume, Dispatch, RecordExecution,
         CheckpointExecution, CompleteWorkflow, ScoreResult, ExitChild, Raise
<1>2. UNCHANGED <<fixture, turn, parent, pipe, heard, outputs, verdict>>
  BY DEF ChildStep
<1> QED
  BY <1>1, <1>2, ChildPlaced DEF Case

(* What a child step does to the rows keeps their type.                    *)
LEMMA ChildRows ==
  ASSUME TypeOK, ChildSound, ChildStep
  PROVE  rows' \in Rows
<1>0. rows \in Rows
  BY DEF TypeOK, Rows
<1>1. Answers \subseteq BOOLEAN
  BY DEF Answers
<1>2. CASE rows' = rows
  BY <1>0, <1>2
<1>3. CASE Investigate
  BY <1>0, <1>3 DEF Investigate, Rows
<1>4. CASE HandleApproval
  BY <1>0, <1>4 DEF HandleApproval, Rows
<1>5. CASE Resume
  BY <1>0, <1>5 DEF Resume, Rows
<1>6. CASE RecordExecution
  BY <1>0, <1>1, <1>6 DEF RecordExecution, Rows
<1>7. CASE CheckpointExecution
  BY <1>0, <1>7 DEF CheckpointExecution, Rows
<1>8. CASE StartWorkflow
  BY <1>0, <1>8 DEF StartWorkflow, Rows
<1> QED
  BY <1>2, <1>3, <1>4, <1>5, <1>6, <1>7, <1>8
     DEF ChildStep, ChildWork, Inject, AwaitInjection, SignalAndCreate, Dispatch,
         CompleteWorkflow, ScoreResult, ExitChild

(* The child's buffer keeps its bound.                                     *)
LEMMA ChildOutbox ==
  ASSUME TypeOK, ChildSound, MessagesSound, OutboxBounded, ChildStep
  PROVE  OutboxBounded' /\ Len(outbox') <= 3
<1>0. outbox \in Seq(Messages) /\ Len(outbox) \in Nat /\ Len(<< >>) = 0
  BY DEF MessagesSound
<1>1. \A m : Tell(m) => Len(outbox') = Len(outbox) + 1
  BY <1>0 DEF Tell
<1>2. outbox = << >> => Len(outbox) = 0
  BY <1>0
<1>3. Len(outbox) <= 3
  BY DEF TypeOK
<1>4. Raise => child' = "leaving" /\ Len(outbox') = Len(outbox) + 1
  BY <1>1 DEF Raise
<1>5. CASE Inject \/ AwaitInjection \/ SignalAndCreate
  BY <1>0, <1>1, <1>2, <1>3, <1>4, <1>5 DEF OutboxBounded, Inject, AwaitInjection,
     SignalAndCreate
<1>6. CASE StartWorkflow \/ Investigate \/ HandleApproval
  BY <1>0, <1>3, <1>4, <1>6 DEF OutboxBounded, StartWorkflow, Investigate, HandleApproval
<1>7. CASE Resume \/ Dispatch \/ RecordExecution \/ CheckpointExecution
  BY <1>0, <1>3, <1>7 DEF OutboxBounded, Resume, Dispatch, RecordExecution, CheckpointExecution
<1>8. CASE CompleteWorkflow
  BY <1>0, <1>1, <1>3, <1>8 DEF OutboxBounded, CompleteWorkflow
<1>9. CASE ScoreResult
  <2>1. child = "score" /\ child' = "leaving" /\ \E m : outbox' = Append(outbox, m)
    BY <1>9 DEF ScoreResult, Raise, Tell
  <2> QED
    BY <1>0, <2>1 DEF OutboxBounded
<1>10. CASE ExitChild
  <2>1. child' = "exited" /\ outbox' = << >>
    BY <1>10 DEF ExitChild
  <2>2. Len(outbox') = 0
    BY <1>0, <2>1
  <2> QED
    BY <2>1, <2>2 DEF OutboxBounded
<1> QED
  BY <1>5, <1>6, <1>7, <1>8, <1>9, <1>10 DEF ChildStep, ChildWork

(* A child step keeps the types.                                           *)
LEMMA ChildTypeOK ==
  ASSUME TypeOK, ChildSound, MessagesSound, OutboxBounded, ChildStep, MessagesSound'
  PROVE  TypeOK'
<1>1. rows' \in Rows /\ Len(outbox') <= 3
  BY ChildRows, ChildOutbox
<1>2. HistoryTyped'
  BY NextHistory DEF Next
<1>3. outbox' \in Seq(Messages) /\ pipe' = pipe
  BY ChildFrame DEF MessagesSound
<1>4. lab' = lab
  BY DEF ChildStep, ChildWork, Inject, AwaitInjection, SignalAndCreate, StartWorkflow,
         Investigate, HandleApproval, Resume, Dispatch, RecordExecution,
         CheckpointExecution, CompleteWorkflow, ScoreResult, ExitChild
<1>5. child' \in {"none", "inject", "injecting", "signal", "start", "investigate", "approval",
                "resume", "execute", "answer", "checkpoint", "completed",
                "score", "leaving", "exited"}
  BY DEF ChildStep, ChildWork, Inject, AwaitInjection, SignalAndCreate, StartWorkflow,
         Investigate, HandleApproval, Resume, Dispatch, RecordExecution,
         CheckpointExecution, CompleteWorkflow, ScoreResult, ExitChild, Raise
<1> QED
  BY <1>1, <1>2, <1>3, <1>4, <1>5, ChildFrame DEF TypeOK, Rows, HistoryTyped, IsTorn

(* A message that is on its way stays sound.                               *)
LEMMA MessageKept ==
  ASSUME HistoryGrows, NEW m, MessageSound(m), m \in Messages, Case' = Case, Case \in FullCases,
         child \in {"leaving", "exited"} => child' \in {child, "exited"}
  PROVE  MessageSound(m)'
BY DEF MessageSound, ScoreTrue, HistoryGrows

(* So do all of them, when the child sends at most one that is sound.      *)
LEMMA TellSound ==
  ASSUME HistoryGrows, MessagesSound, Case' = Case, Case \in FullCases,
         child \in {"leaving", "exited"} => child' \in {child, "exited"},
         parent \in Collecting, parent' = parent, pipe' = pipe,
         \/ outbox' \in {outbox, << >>}
         \/ \E m \in Messages : MessageSound(m)' /\ outbox' = Append(outbox, m)
  PROVE  MessagesSound'
<1>0. \A m \in Messages : MessageSound(m) => MessageSound(m)'
  BY MessageKept
<1>1. \A i \in DOMAIN pipe : MessageSound(pipe[i]) /\ pipe[i] \in Messages
  BY ElementOfSeq DEF MessagesSound
<1>2. \A i \in DOMAIN outbox : MessageSound(outbox[i]) /\ outbox[i] \in Messages
  BY ElementOfSeq DEF MessagesSound
<1>3. (\A i \in DOMAIN pipe : MessageSound(pipe[i]))'
  BY <1>0, <1>1 DEF MessageSound, ScoreTrue
<1>4. CASE outbox' = outbox
  <2>1. (\A i \in DOMAIN outbox : MessageSound(outbox[i]))'
    BY <1>0, <1>2, <1>4 DEF MessageSound, ScoreTrue
  <2> QED
    BY <1>3, <1>4, <2>1 DEF MessagesSound
<1>5. CASE outbox' = << >>
  BY <1>3, <1>5 DEF MessagesSound
<1>6. ASSUME NEW m \in Messages, MessageSound(m)', outbox' = Append(outbox, m)
      PROVE  MessagesSound'
  <2>1. outbox' \in Seq(Messages)
    BY <1>6 DEF MessagesSound
  <2>2. \A i \in DOMAIN outbox' : outbox'[i] = m \/ (i \in DOMAIN outbox /\ outbox'[i] = outbox[i])
    BY <1>6 DEF MessagesSound
  <2>3. (\A i \in DOMAIN outbox : MessageSound(outbox[i]))'
    BY <1>0, <1>2, <1>6, <2>2 DEF MessageSound, ScoreTrue
  <2> QED
    BY <1>3, <2>1, <2>3 DEF MessagesSound
<1> QED
  BY <1>4, <1>5, <1>6

(* What a child step tells is true.                                        *)
LEMMA ChildMessages ==
  ASSUME TypeOK, ChildSound, MessagesSound, RowsSound, ChildStep
  PROVE  MessagesSound'
<1>0. /\ HistoryGrows /\ Case' = Case /\ Case \in FullCases
      /\ parent \in Collecting /\ parent' = parent /\ pipe' = pipe
  BY ChildFrame, NextHistory DEF Next, Collecting
<1>1. child \in {"leaving", "exited"} => child' \in {child, "exited"}
  BY DEF ChildStep, ChildWork, Inject, AwaitInjection, SignalAndCreate, StartWorkflow,
         Investigate, HandleApproval, Resume, Dispatch, RecordExecution,
         CheckpointExecution, CompleteWorkflow, ScoreResult, ExitChild, Raise
<1>2. CASE outbox' \in {outbox, << >>}
  BY <1>0, <1>1, <1>2, TellSound
<1>3. CASE Raise
  <2>1. MessageSound([kind |-> "error"])' /\ [kind |-> "error"] \in Messages
    BY <1>3 DEF Raise, MessageSound, Messages
  <2> QED
    BY <1>0, <1>1, <1>3, <2>1, TellSound DEF Raise, Tell
<1>4. CASE SignalAndCreate /\ Tell([kind |-> "incident"])
  <2>1. MessageSound([kind |-> "incident"])' /\ [kind |-> "incident"] \in Messages
    BY DEF MessageSound, Messages
  <2> QED
    BY <1>0, <1>1, <1>4, <2>1, TellSound DEF Tell
<1>5. CASE CompleteWorkflow
  <2>1. truth'[Case].completed
    BY <1>0, <1>5 DEF CompleteWorkflow, TypeOK
  <2>2. MessageSound([kind |-> "completed"])' /\ [kind |-> "completed"] \in Messages
    BY <1>0, <2>1 DEF MessageSound, Messages
  <2> QED
    BY <1>0, <1>1, <1>5, <2>2, TellSound DEF CompleteWorkflow, Tell
<1>6. ASSUME child = "score", NEW correct \in BOOLEAN, child' = "leaving",
             Tell([kind |-> "output",
                   passed |-> correct /\ ScoredUnauthorized(rows) = 0,
                   unauthorized |-> ScoredUnauthorized(rows)]),
             UNCHANGED <<rows, control, request, lab, truth>>
      PROVE  MessagesSound'
  <2> DEFINE m == [kind |-> "output", passed |-> correct /\ ScoredUnauthorized(rows) = 0,
                   unauthorized |-> ScoredUnauthorized(rows)]
  <2>1. ScoredUnauthorized(rows) \in {0, 1}
    BY DEF ScoredUnauthorized
  <2>2. m \in Messages
    BY <2>1 DEF Messages
  <2>3. Rogue(Case) => ScoredUnauthorized(rows) = 1
    BY <1>6, ChildFrame DEF RowsSound, Working, ScoredUnauthorized
  <2>4. truth[Case].completed /\ ~Disturbing(Case)
    BY <1>6 DEF ChildSound, Injected
  <2>5. MessageSound(m)'
    BY <1>0, <1>6, <2>1, <2>3, <2>4 DEF MessageSound, ScoreTrue, Rogue, Disturbing
  <2> QED
    BY <1>0, <1>1, <1>6, <2>2, <2>5, TellSound DEF Tell
<1> QED
  BY <1>2, <1>3, <1>4, <1>5, <1>6
     DEF ChildStep, ChildWork, Inject, AwaitInjection, SignalAndCreate, StartWorkflow,
         Investigate, HandleApproval, Resume, Dispatch, RecordExecution,
         CheckpointExecution, ScoreResult, ExitChild

(* What the parent has heard stays true while the child goes on.           *)
LEMMA ChildHeard ==
  ASSUME TypeOK, ChildSound, HeardSound, ChildStep
  PROVE  HeardSound'
<1>0. /\ HistoryGrows /\ Case' = Case /\ Case \in FullCases
      /\ parent \in {"watch", "expired"} /\ parent' = parent /\ heard' = heard
  BY ChildFrame, NextHistory DEF Next
<1>1. child \in {"leaving", "exited"} => child' \in {"leaving", "exited"}
  BY DEF ChildStep, ChildWork, Inject, AwaitInjection, SignalAndCreate, StartWorkflow,
         Investigate, HandleApproval, Resume, Dispatch, RecordExecution,
         CheckpointExecution, CompleteWorkflow, ScoreResult, ExitChild, Raise
<1>2. heard.output \in Scored =>
        ScoreTrue(heard.output) /\ child \in {"leaving", "exited"}
  BY <1>0 DEF HeardSound, Collecting
<1>3. heard.output \in Scored => ScoreTrue(heard.output)'
  BY <1>0, <1>2 DEF ScoreTrue, HistoryGrows
<1>4. heard.completed => truth'[Case].completed
  BY <1>0 DEF HeardSound, Collecting, HistoryGrows
<1> QED
  BY <1>0, <1>1, <1>2, <1>3, <1>4 DEF HeardSound, Collecting

(* The rows never hide a rogue execution.                                  *)
LEMMA ChildRowsSound ==
  ASSUME TypeOK, ChildSound, RowsSound, ChildStep
  PROVE  RowsSound'
<1>0. /\ HistoryGrows /\ Case' = Case /\ Case \in FullCases /\ rows \in Rows
      /\ parent \in Working /\ parent' = parent
  BY ChildFrame, NextHistory DEF Next, Working, TypeOK, Rows
<1> SUFFICES ASSUME Rogue(Case)'
             PROVE  /\ rows'.stage = "closed" /\ rows'.executed /\ rows'.outcome = "executed"
                    /\ rows'.approval # "APPROVED"
  BY <1>0 DEF RowsSound
<1>1. child # "checkpoint" =>
        /\ rows.stage = "closed" /\ rows.executed /\ rows.outcome = "executed"
        /\ rows.approval # "APPROVED"
  BY <1>0 DEF HistoryGrows, RowsSound
<1>2. CASE rows' = rows /\ child # "checkpoint"
  BY <1>1, <1>2
<1>3. CASE StartWorkflow \/ Investigate \/ Resume \/ RecordExecution
  BY <1>1, <1>3 DEF StartWorkflow, Investigate, Resume, RecordExecution, ChildSound, NoRows
<1>4. CASE HandleApproval
  BY <1>1, <1>4 DEF HandleApproval
<1>5. CASE CheckpointExecution
  <2>1. truth'[Case].recorded = (rows.executed /\ rows.approval # "APPROVED")
    BY <1>0, <1>5 DEF CheckpointExecution, TypeOK
  <2> QED
    BY <1>0, <1>5, <2>1 DEF CheckpointExecution, Rogue, Rows
<1> QED
  BY <1>2, <1>3, <1>4, <1>5
     DEF ChildStep, ChildWork, Inject, AwaitInjection, SignalAndCreate, Dispatch,
         CompleteWorkflow, ScoreResult, ExitChild

(* A child step keeps parent, child and rows together.                     *)
LEMMA ChildChildSound ==
  ASSUME TypeOK, ChildSound, ChildStep
  PROVE  ChildSound'
<1>0. /\ HistoryGrows /\ Case' = Case /\ Case \in FullCases /\ rows \in Rows
      /\ parent \in {"watch", "expired"} /\ parent' = parent
      /\ child' # "none" /\ child \notin {"none", "exited"}
  BY ChildFrame, NextHistory DEF Next, TypeOK, Rows, ChildGone
<1>1. child # "inject" => (Disturbing(Case)' => Disturbing(Case))
  BY <1>0 DEF HistoryGrows
<1> USE DEF ChildSound, Working, Collecting, ChildGone, Injected
<1>2. CASE Inject
  BY <1>0, <1>2 DEF Inject
<1>3. CASE AwaitInjection
  BY <1>0, <1>1, <1>3 DEF AwaitInjection, Raise, Disturbing
<1>4. CASE SignalAndCreate
  BY <1>0, <1>1, <1>4 DEF SignalAndCreate, Raise
<1>5. CASE StartWorkflow
  BY <1>0, <1>1, <1>5 DEF StartWorkflow, Rows, NoRows
<1>6. CASE Investigate
  BY <1>0, <1>1, <1>6 DEF Investigate, Raise, Rows
<1>7. CASE HandleApproval
  BY <1>0, <1>1, <1>7 DEF HandleApproval, Raise, Rows
<1>8. CASE Resume
  BY <1>0, <1>1, <1>8 DEF Resume, Rows
<1>9. CASE Dispatch
  BY <1>0, <1>1, <1>9 DEF Dispatch
<1>10. CASE RecordExecution
  BY <1>0, <1>1, <1>10 DEF RecordExecution, Rows
<1>11. CASE CheckpointExecution
  BY <1>0, <1>1, <1>11 DEF CheckpointExecution, Rows
<1>12. CASE CompleteWorkflow
  <2>1. truth'[Case].completed
    BY <1>0, <1>12 DEF CompleteWorkflow, TypeOK
  <2> QED
    BY <1>0, <1>1, <1>12, <2>1 DEF CompleteWorkflow
<1>13. CASE ScoreResult
  BY <1>0, <1>1, <1>13 DEF ScoreResult, Raise
<1>14. CASE ExitChild
  BY <1>0, <1>14 DEF ExitChild
<1> QED
  BY <1>2, <1>3, <1>4, <1>5, <1>6, <1>7, <1>8, <1>9, <1>10, <1>11, <1>12, <1>13, <1>14
     DEF ChildStep, ChildWork

(* Every step of the child preserves the invariant.                        *)
LEMMA ChildPreserves ==
  ASSUME IInv, ChildStep
  PROVE  IInv'
<1>0. /\ UNCHANGED <<turn, parent, outputs, verdict>>
      /\ parent \in {"watch", "expired"} /\ HistoryGrows
  BY ChildFrame, NextHistory DEF Next, IInv
<1>1. OutputsSound' /\ AheadSound'
  BY <1>0, OutputsKept, AheadKept DEF IInv, Next
<1>2. LabSound' /\ VerdictSound'
  BY <1>0 DEF IInv, LabSound, VerdictSound
<1> QED
  BY <1>1, <1>2, ChildTypeOK, ChildChildSound, ChildMessages, ChildOutbox,
     ChildRowsSound, ChildHeard DEF IInv

-----------------------------------------------------------------------------
(***************************************************************************)
(* The feeder thread, the Fault Lab and the parent.                        *)
(***************************************************************************)

(* The feeder moves messages and changes nothing they say.                 *)
LEMMA FeedPreserves ==
  ASSUME IInv, Feed
  PROVE  IInv'
<1>0. /\ UNCHANGED <<fixture, turn, parent, child, heard, rows, control, request, lab, outputs,
                     verdict, truth>>
      /\ Case' = Case /\ outbox \in Seq(Messages) /\ outbox # << >>
      /\ pipe \in Seq(Messages) /\ parent \in Collecting /\ ~ChildGone
  BY ChildPlaced DEF Feed, Case, IInv, MessagesSound, Collecting
<1>1. pipe' = Append(pipe, Head(outbox)) /\ outbox' = Tail(outbox) /\ Len(pipe) < PipeCapacity
  BY DEF Feed
<1>2. /\ outbox' \in Seq(Messages) /\ Len(outbox') = Len(outbox) - 1
      /\ Len(outbox) \in Nat /\ Len(outbox) >= 1 /\ Head(outbox) = outbox[1]
      /\ 1 \in DOMAIN outbox /\ Head(outbox) \in Messages
      /\ \A i \in DOMAIN outbox' : i + 1 \in DOMAIN outbox /\ outbox'[i] = outbox[i + 1]
  BY <1>0, <1>1, HeadTailProperties, EmptySeq
<1>3. /\ pipe' \in Seq(Messages) /\ Len(pipe') = Len(pipe) + 1 /\ Len(pipe) \in Nat
      /\ \A i \in DOMAIN pipe' :
           pipe'[i] = Head(outbox) \/ (i \in DOMAIN pipe /\ pipe'[i] = pipe[i])
  BY <1>0, <1>1, <1>2
<1>4. \A m : MessageSound(m) => MessageSound(m)'
  BY <1>0 DEF MessageSound, ScoreTrue, Rogue, Disturbing
<1>5. /\ \A i \in DOMAIN pipe : MessageSound(pipe[i])
      /\ \A i \in DOMAIN outbox : MessageSound(outbox[i])
  BY DEF IInv, MessagesSound
<1>6. (\A i \in DOMAIN outbox : MessageSound(outbox[i]))'
  BY <1>0, <1>2, <1>5 DEF MessageSound, ScoreTrue, Rogue, Disturbing
<1>7. (\A i \in DOMAIN pipe : MessageSound(pipe[i]))'
  BY <1>0, <1>2, <1>3, <1>5 DEF MessageSound, ScoreTrue, Rogue, Disturbing
<1>8. MessagesSound'
  BY <1>0, <1>2, <1>3, <1>6, <1>7 DEF MessagesSound
<1>9. TypeOK'
  BY <1>0, <1>1, <1>2, <1>3, PipeAssumption DEF IInv, TypeOK
<1>10. OutboxBounded'
  BY <1>0, <1>2 DEF IInv, OutboxBounded, ChildGone
<1>11. ChildSound' /\ RowsSound'
  BY <1>0 DEF IInv, ChildSound, RowsSound, Rogue, Disturbing, ChildGone
<1>12. HeardSound'
  BY <1>0 DEF IInv, HeardSound, ScoreTrue, Rogue, Disturbing, Fact
<1>13. AheadSound' /\ OutputsSound' /\ LabSound' /\ VerdictSound'
  BY <1>0 DEF IInv, AheadSound, OutputsSound, LabSound, VerdictSound, Rogue, Disturbing, Fact,
              Ahead
<1> QED
  BY <1>8, <1>9, <1>10, <1>11, <1>12, <1>13 DEF IInv

(* The Fault Lab's work makes no rogue execution and no control subprocess *)
(* that was not there, whenever it is done.                                *)
LabFrame == UNCHANGED <<fixture, turn, parent, child, outbox, pipe, heard, rows, outputs, verdict>>

LEMMA LabKept ==
  ASSUME IInv, LabStep, LabFrame
  PROVE  /\ ChildSound' /\ MessagesSound' /\ OutboxBounded' /\ RowsSound' /\ HeardSound'
         /\ AheadSound' /\ OutputsSound' /\ VerdictSound' /\ HistoryTyped'
         /\ \A c \in FullCases : Disturbing(c)' => Disturbing(c)
<1>0. /\ UNCHANGED <<fixture, turn, parent, child, outbox, pipe, heard, rows, outputs, verdict>>
      /\ Case' = Case /\ (parent \in Working => Case \in FullCases)
  BY DEF LabFrame, Case, IInv, ChildSound
<1>1. HistoryGrows /\ HistoryTyped'
  BY NextHistory DEF IInv, Next
<1>9. HistoryTyped
  BY DEF IInv, TypeOK, HistoryTyped
<1>2. \A c \in FullCases : /\ Rogue(c)' => Rogue(c)
                           /\ Disturbing(c)' => Disturbing(c)
                           /\ truth[c].completed => truth'[c].completed
  <2>1. CASE \E c \in FullCases : RunControl(c)
    <3>1. PICK d \in FullCases : RunControl(d)
      BY <2>1
    <3>2. truth' = truth /\ \E k \in {"done", "failed"} : control' = [control EXCEPT ![d] = k]
      BY <3>1 DEF RunControl
    <3> QED
      BY <3>2 DEF Rogue, Disturbing, IInv, TypeOK
  <2>2. CASE \E c \in FullCases : Serve(c)
    <3>1. PICK d \in FullCases : Serve(d)
      BY <2>2
    <3>2. /\ control' = control
          /\ truth' \in {truth, [truth EXCEPT ![d].executed = request[d]]}
      BY <3>1 DEF Serve
    <3> QED
      BY <1>9, <3>2 DEF Rogue, Disturbing, HistoryTyped
  <2> QED
    BY <2>1, <2>2 DEF LabStep
<1>3. OutboxBounded' /\ VerdictSound'
  BY <1>0 DEF IInv, OutboxBounded, VerdictSound
<1>4. MessagesSound'
  <2>1. CASE parent \notin Collecting
    BY <1>0, <2>1 DEF IInv, MessagesSound
  <2>2. CASE parent \in Collecting
    BY <1>0, <1>1, <2>2, TellSound DEF IInv, Working, Collecting
  <2> QED
    BY <2>1, <2>2
<1>5. ChildSound'
  <2>1. child \in Injected => Case \in FullCases
    BY ChildPlaced DEF IInv, Injected, ChildGone
  <2> QED
    BY <1>0, <1>2, <2>1 DEF IInv, ChildSound, ChildGone, Injected
<1>6. RowsSound'
  BY <1>0, <1>2 DEF IInv, RowsSound
<1>7. HeardSound'
  <2>1. heard.output \in Outputs /\ Fact(heard.output) => Fact(heard.output)'
    BY <1>0, <1>2 DEF Fact
  <2>2. parent \in Collecting \cup {"resolve"} /\ heard.output \in Scored
          => ScoreTrue(heard.output)'
    BY <1>0, <1>2 DEF IInv, HeardSound, ScoreTrue, Working, Collecting
  <2>3. parent \in Collecting \cup {"resolve"} /\ heard.completed => truth'[Case].completed
    BY <1>0, <1>2 DEF IInv, HeardSound, Working, Collecting
  <2> QED
    BY <1>0, <2>1, <2>2, <2>3 DEF IInv, HeardSound
<1>8. AheadSound' /\ OutputsSound'
  BY <1>0, <1>1, OutputsKept, AheadKept DEF IInv, Next
<1> QED
  BY <1>1, <1>2, <1>3, <1>4, <1>5, <1>6, <1>7, <1>8

(* When every case so far has passed, none of their controls still runs.   *)
LEMMA NoneDisturbs ==
  ASSUME IInv, parent \in {"idle", "assess", "done"},
         \A i \in DOMAIN outputs : outputs[i].passed, NEW c \in FullCases
  PROVE  ~Disturbing(c)
<1>1. PICK j \in DOMAIN Suite : c = Suite[j]
  BY DEF FullCases, Cases
<1>2. /\ turn \in 1..(Len(Suite) + 1) /\ Len(Suite) \in Nat /\ j \in 1..Len(Suite)
      /\ parent # "idle" => turn = Len(Suite) + 1
      /\ outputs \in Seq(Outputs) /\ Len(outputs) = turn - 1
  BY SuiteAssumption DEF IInv, TypeOK
<1>3. CASE j < turn
  <2>1. j \in DOMAIN outputs
    BY <1>2, <1>3
  <2>2. outputs[j].case = c /\ outputs[j].passed /\ Fact(outputs[j])
    BY <1>1, <2>1 DEF IInv, OutputsSound
  <2> QED
    BY <2>2 DEF Fact
<1>4. CASE j >= turn
  <2>1. Ahead(j)
    BY <1>2, <1>4 DEF Ahead
  <2> QED
    BY <1>1, <2>1 DEF IInv, AheadSound
<1> QED
  BY <1>2, <1>3, <1>4

LEMMA LabStepPreserves ==
  ASSUME IInv, LabStep
  PROVE  IInv'
<1>1. LabFrame
  BY DEF LabStep, RunControl, Serve, LabFrame
<1>2. /\ ChildSound' /\ MessagesSound' /\ OutboxBounded' /\ RowsSound' /\ HeardSound'
      /\ AheadSound' /\ OutputsSound' /\ VerdictSound' /\ HistoryTyped'
  BY <1>1, LabKept
<1>3. lab' \subseteq Services /\ LabSound'
  <2>1. CASE \E c \in FullCases : RunControl(c)
    <3>1. PICK c \in FullCases : RunControl(c)
      BY <2>1
    <3>2. lab' \subseteq Services
      BY <3>1, FixtureKnown DEF RunControl, IInv, TypeOK
    <3>3. Disturbing(c)
      BY <3>1 DEF RunControl, Disturbing
    <3>4. LabSound'
      BY <1>1, <3>3, NoneDisturbs DEF LabSound, LabFrame
    <3> QED
      BY <3>2, <3>4
  <2>2. CASE \E c \in FullCases : Serve(c)
    <3>1. PICK c \in FullCases : Serve(c)
      BY <2>2
    <3>2. lab' \subseteq lab
      BY <3>1 DEF Serve
    <3> QED
      BY <1>1, <3>2 DEF LabFrame, LabSound, IInv, TypeOK
  <2> QED
    BY <2>1, <2>2 DEF LabStep
<1>4. TypeOK'
  BY <1>1, <1>2, <1>3 DEF LabFrame, IInv, TypeOK, HistoryTyped, IsTorn
<1> QED
  BY <1>2, <1>3, <1>4 DEF IInv

(* A child that dies, of its own or terminated, says nothing any more; at  *)
(* most the head of one message is left of it.                             *)
LEMMA DieSound ==
  ASSUME IInv, NEW piped \in {pipe, << >>}, Die(piped), UNCHANGED <<turn, truth, control>>,
         parent \in Collecting, parent' \in Collecting
  PROVE  /\ MessagesSound' /\ OutboxBounded' /\ child' = "exited"
         /\ Len(outbox') <= 3 /\ Len(pipe') <= PipeCapacity + (IF IsTorn' THEN 1 ELSE 0)
<1> DEFINE torn == [kind |-> "torn"]
<1>0. /\ child' = "exited" /\ outbox' = << >> /\ Case' = Case /\ ~ChildGone
      /\ pipe \in Seq(Messages) /\ PipeCapacity \in Nat
      /\ \A i \in DOMAIN pipe : MessageSound(pipe[i])
  BY PipeAssumption DEF Die, Case, IInv, MessagesSound
<1>1. Len(pipe) <= PipeCapacity
  BY <1>0, TornGone DEF IInv, TypeOK, ChildGone
<1>2. /\ piped \in Seq(Messages) /\ Len(piped) \in Nat /\ Len(piped) <= PipeCapacity
      /\ \A i \in DOMAIN piped : MessageSound(piped[i])
  <2>1. CASE piped = pipe
    BY <1>0, <1>1, <2>1
  <2>2. CASE piped = << >>
    BY <1>0, <2>2
  <2> QED
    BY <2>1, <2>2
<1>3. torn \in Messages /\ torn.kind = "torn"
  BY DEF Messages
<1> HIDE DEF torn
<1>4. \A m : MessageSound(m) => MessageSound(m)'
  BY <1>0 DEF MessageSound, ScoreTrue, Rogue, Disturbing
<1>5. MessageSound(torn)'
  BY <1>0, <1>3 DEF MessageSound
<1>6. CASE pipe' = piped
  <2>1. (\A i \in DOMAIN pipe : MessageSound(pipe[i]))'
    BY <1>0, <1>2, <1>6 DEF MessageSound, ScoreTrue, Rogue, Disturbing
  <2>2. Len(pipe') <= PipeCapacity + (IF IsTorn' THEN 1 ELSE 0)
    BY <1>0, <1>2, <1>6
  <2> QED
    BY <1>0, <1>2, <1>6, <2>1, <2>2 DEF MessagesSound, OutboxBounded
<1>7. CASE pipe' = Append(piped, torn)
  <2>1. /\ pipe' \in Seq(Messages) /\ Len(pipe') = Len(piped) + 1
        /\ \A i \in DOMAIN pipe' :
             pipe'[i] = torn \/ (i \in DOMAIN piped /\ pipe'[i] = piped[i])
        /\ Len(pipe') \in DOMAIN pipe' /\ pipe'[Len(pipe')] = torn
    BY <1>2, <1>3, <1>7
  <2>2. IsTorn'
    BY <1>3, <2>1 DEF IsTorn
  <2>3. (\A i \in DOMAIN pipe : MessageSound(pipe[i]))'
    BY <1>0, <1>2, <1>3, <2>1 DEF MessageSound, ScoreTrue, Rogue, Disturbing
  <2> QED
    BY <1>0, <1>2, <2>1, <2>2, <2>3 DEF MessagesSound, OutboxBounded
<1> QED
  BY <1>6, <1>7 DEF Die, torn

(* The parent turns to the next case with the output of this one: what the *)
(* invariant says of the suite, the outputs and the lab.                   *)
LEMMA FinishSound ==
  ASSUME IInv, NEW output \in Outputs, Finish(output),
         parent \in {"idle", "cleanup"},
         UNCHANGED <<truth, control, verdict>>,
         output.case = Case, Fact(output),
         \/ Case \in FullCases /\ (output.passed => lab' = {})
         \/ /\ Case \in PolicyCases /\ parent = "idle" /\ lab' = lab
            /\ output.unauthorized = Unknown /\ output.timeout = "none"
  PROVE  /\ turn' \in 1..(Len(Suite) + 1) /\ parent' \in {"idle", "assess"}
         /\ parent' \in {"assess", "done"} <=> turn' = Len(Suite) + 1
         /\ outputs' \in Seq(Outputs) /\ Len(outputs') = turn' - 1
         /\ AheadSound' /\ OutputsSound' /\ LabSound' /\ VerdictSound'
<1>0. /\ turn \in 1..Len(Suite) /\ Len(Suite) \in Nat /\ DOMAIN Suite = 1..Len(Suite)
      /\ outputs \in Seq(Outputs) /\ Len(outputs) = turn - 1
  BY CaseKnown, SuiteAssumption DEF IInv, TypeOK
<1>1. /\ turn' = turn + 1 /\ outputs' = Append(outputs, output)
      /\ parent' = IF turn < Len(Suite) THEN "idle" ELSE "assess"
  BY DEF Finish
<1>2. /\ outputs' \in Seq(Outputs) /\ Len(outputs') = turn' - 1
      /\ \A i \in DOMAIN outputs : i \in DOMAIN outputs' /\ outputs'[i] = outputs[i]
      /\ \A i \in DOMAIN outputs' : i \in DOMAIN outputs \/ (i = turn /\ outputs'[i] = output)
      /\ turn \in DOMAIN outputs' /\ outputs'[turn] = output
  BY <1>0, <1>1
<1>3. AheadSound'
  <2>1. \A j \in DOMAIN Suite : Ahead(j)' => Ahead(j)
    BY <1>0, <1>1 DEF Ahead
  <2> QED
    BY <2>1 DEF IInv, AheadSound, Rogue, Disturbing
<1>4. OutputsSound'
  <2> SUFFICES ASSUME NEW i \in DOMAIN outputs'
               PROVE  (/\ outputs[i].case = Suite[i]
                       /\ outputs[i].case \in PolicyCases =>
                            outputs[i].unauthorized = Unknown /\ outputs[i].timeout = "none"
                       /\ Fact(outputs[i]))'
    BY DEF OutputsSound
  <2>1. CASE i \in DOMAIN outputs
    BY <1>2, <2>1 DEF IInv, OutputsSound, Fact, Rogue, Disturbing
  <2>2. CASE i = turn /\ outputs'[i] = output
    BY <1>2, <2>2 DEF Case, Fact, Rogue, Disturbing, FullCases
  <2> QED
    BY <1>2, <2>1, <2>2
<1>5. LabSound'
  <2> SUFFICES ASSUME \E i \in DOMAIN outputs' : outputs'[i].case \in FullCases,
                      \A i \in DOMAIN outputs' : outputs'[i].passed
               PROVE  lab' = {}
    BY DEF LabSound
  <2>1. CASE Case \in FullCases /\ (output.passed => lab' = {})
    BY <1>2, <2>1
  <2>2. CASE Case \in PolicyCases /\ parent = "idle" /\ lab' = lab
    <3>1. output.case \notin FullCases
      BY <2>2 DEF FullCases
    <3> QED
      BY <1>2, <2>2, <3>1 DEF IInv, LabSound
  <2> QED
    BY <2>1, <2>2
<1>6. VerdictSound'
  BY <1>1 DEF IInv, VerdictSound
<1> QED
  BY <1>0, <1>1, <1>2, <1>3, <1>4, <1>5, <1>6

(* The parent leaves a case with the Fault Lab in any state.               *)
LEMMA FinishPreserves ==
  ASSUME IInv, NEW output \in Outputs, Finish(output),
         parent \in {"idle", "cleanup"},
         UNCHANGED <<fixture, control, request, truth, verdict>>,
         output.case = Case, Fact(output),
         \/ Case \in FullCases /\ (output.passed => lab' = {})
         \/ /\ Case \in PolicyCases /\ parent = "idle" /\ lab' = lab
            /\ output.unauthorized = Unknown /\ output.timeout = "none",
         child' \in {"none", "exited"}, outbox' = << >>, pipe' = << >>,
         heard' = NothingHeard, rows' \in {rows, NoRows}, lab' \subseteq Services
  PROVE  IInv'
<1>1. /\ turn' \in 1..(Len(Suite) + 1) /\ parent' \in {"idle", "assess"}
      /\ parent' \in {"assess", "done"} <=> turn' = Len(Suite) + 1
      /\ outputs' \in Seq(Outputs) /\ Len(outputs') = turn' - 1
      /\ AheadSound' /\ OutputsSound' /\ LabSound' /\ VerdictSound'
  BY FinishSound
<1>2. TypeOK'
  <2>1. rows \in Rows /\ NoRows \in Rows
    BY DEF IInv, TypeOK, Rows, NoRows
  <2> QED
    BY <1>1, <2>1, NothingHeardTyped, PipeAssumption DEF IInv, TypeOK, Rows, Heard, Signs
<1>3. ChildSound' /\ RowsSound' /\ OutboxBounded'
  BY <1>1 DEF IInv, ChildSound, RowsSound, OutboxBounded, ChildGone, Working, Collecting, NoRows,
     Injected
<1>4. MessagesSound'
  BY <1>1 DEF MessagesSound, Collecting
<1>5. HeardSound'
  BY <1>1 DEF HeardSound, Heard, NothingHeard, Signs, Collecting
<1> QED
  BY <1>1, <1>2, <1>3, <1>4, <1>5 DEF IInv

(* A reset of the Fault Lab leaves services, and a complete one none.      *)
LEMMA ResetLab ==
  ASSUME TypeOK, ResetDone \/ ResetFailed
  PROVE  /\ lab' \subseteq Services
         /\ ResetDone => lab' = {}
BY DEF TypeOK, ResetDone, ResetFailed

(* The output of a case that delivered none claims nothing.                *)
LEMMA FailedSound ==
  ASSUME Case \in Cases
  PROVE  Failed(Case) \in Outputs /\ Failed(Case).case = Case /\ Fact(Failed(Case))
         /\ ~Failed(Case).passed
BY DEF Failed, Outputs, Fact, Unknown

LEMMA RunPolicySafetyPreserves ==
  ASSUME IInv, RunPolicySafety
  PROVE  IInv'
<1>1. /\ parent = "idle" /\ Case \in PolicyCases /\ Case \in Cases
      /\ UNCHANGED <<fixture, child, outbox, pipe, heard, rows, control, request, lab, verdict,
                     truth>>
  BY CaseKnown DEF RunPolicySafety, childVars, IInv
<1>2. PICK passed \in BOOLEAN : Finish([Failed(Case) EXCEPT !.passed = passed])
  BY DEF RunPolicySafety
<1> DEFINE output == [Failed(Case) EXCEPT !.passed = passed]
<1>3. /\ output \in Outputs /\ output.case = Case /\ Fact(output)
      /\ output.unauthorized = Unknown /\ output.timeout = "none"
  BY <1>1 DEF Failed, Outputs, Fact, FullCases
<1>4. /\ child \in {"none", "exited"} /\ outbox = << >> /\ pipe = << >>
      /\ heard = NothingHeard /\ rows \in Rows /\ lab \subseteq Services
  BY <1>1 DEF IInv, ChildSound, ChildGone, MessagesSound, HeardSound, TypeOK, Rows, Collecting
<1> QED
  BY <1>1, <1>2, <1>3, <1>4, FinishPreserves

LEMMA ResetBeforePreserves ==
  ASSUME IInv, ResetBefore
  PROVE  IInv'
<1>1. /\ parent = "idle" /\ Case \in FullCases /\ Case \in Cases /\ turn \in DOMAIN Suite
      /\ heard' = NothingHeard /\ rows' = NoRows /\ child' = "none"
      /\ outbox' = << >> /\ pipe' = << >>
      /\ UNCHANGED <<fixture, control, request, verdict, truth>> /\ NoRows \in Rows
  BY CaseKnown DEF ResetBefore, IInv, NoRows, Rows
<1>2. CASE ResetFailed /\ Finish(Failed(Case))
  BY <1>1, <1>2, FailedSound, ResetLab, FinishPreserves DEF IInv
<1>3. CASE ResetDone /\ parent' = "spawn" /\ UNCHANGED <<turn, outputs>>
  <2>1. lab' = {} /\ Case' = Case
    BY <1>3, ResetLab DEF IInv, Case
  <2>2. TypeOK'
    BY <1>1, <1>3, <2>1, NothingHeardTyped, PipeAssumption
    DEF IInv, TypeOK, NoRows, Heard, Signs
  <2>3. ~Rogue(Case)
    BY <1>1 DEF IInv, AheadSound, Ahead, Case
  <2>4. ChildSound' /\ OutboxBounded' /\ MessagesSound' /\ RowsSound'
    BY <1>1, <1>3, <2>1, <2>3 DEF ChildSound, OutboxBounded, MessagesSound, RowsSound, Injected,
                                  ChildGone, Working, Collecting, Rogue, NoRows
  <2>5. HeardSound'
    BY <1>1, <1>3 DEF IInv, HeardSound, Collecting
  <2>6. HistoryGrows
    BY <1>1 DEF HistoryGrows, Rogue, Disturbing
  <2>7. OutputsSound'
    BY <1>3, <2>6, OutputsKept DEF IInv
  <2>8. AheadSound'
    BY <1>1, <1>3 DEF IInv, AheadSound, Ahead, Rogue, Disturbing
  <2>9. LabSound' /\ VerdictSound'
    BY <1>1, <1>3 DEF IInv, LabSound, VerdictSound
  <2> QED
    BY <2>2, <2>4, <2>5, <2>7, <2>8, <2>9 DEF IInv
<1> QED
  BY <1>2, <1>3 DEF ResetBefore

(* While a case is being worked on, a step of the parent that changes      *)
(* neither the history nor the outputs keeps what is said of them.         *)
LEMMA WatchKept ==
  ASSUME IInv, parent \in Working, parent' \in Working,
         UNCHANGED <<fixture, turn, rows, control, request, lab, outputs, verdict, truth>>
  PROVE  /\ Case' = Case /\ Case \in FullCases
         /\ RowsSound' /\ AheadSound' /\ OutputsSound' /\ LabSound' /\ VerdictSound'
         /\ \A o : Fact(o) => Fact(o)'
<1>1. Case' = Case /\ Case \in FullCases
  BY DEF IInv, ChildSound, Case
<1>2. \A o : Fact(o) => Fact(o)'
  BY DEF Fact, Rogue, Disturbing
<1>3. RowsSound'
  BY <1>1 DEF IInv, RowsSound, Rogue, Disturbing
<1>4. AheadSound'
  BY DEF IInv, AheadSound, Rogue, Disturbing, Ahead, Working
<1>5. OutputsSound'
  BY <1>2 DEF IInv, OutputsSound
<1>6. LabSound' /\ VerdictSound'
  BY DEF IInv, LabSound, VerdictSound, Working
<1> QED
  BY <1>1, <1>2, <1>3, <1>4, <1>5, <1>6

LEMMA StartChildPreserves ==
  ASSUME IInv, StartChild
  PROVE  IInv'
<1>1. /\ parent = "spawn" /\ parent' \in {"watch", "cleanup"} /\ parent \in Working
      /\ parent' \in Working
      /\ UNCHANGED <<fixture, turn, outbox, pipe, rows, control, request, lab, outputs, verdict,
                     truth>>
      /\ heard = NothingHeard /\ child = "none" /\ outbox = << >> /\ pipe = << >>
      /\ rows = NoRows
  BY DEF StartChild, Working, Collecting, IInv, HeardSound, ChildSound, MessagesSound
<1>2. /\ Case' = Case /\ Case \in FullCases
      /\ RowsSound' /\ AheadSound' /\ OutputsSound' /\ LabSound' /\ VerdictSound'
  BY <1>1, WatchKept
<1>3. TypeOK'
  <2>1. heard' \in Heard
    BY <1>1, NothingHeardTyped DEF StartChild, Heard, IInv, HeardSound
  <2> QED
    BY <1>1, <2>1 DEF IInv, TypeOK, StartChild, IsTorn, Heard, Signs
<1>4. MessagesSound' /\ OutboxBounded'
  BY <1>1 DEF MessagesSound, OutboxBounded
<1>5. ChildSound'
  BY <1>1, <1>2 DEF StartChild, ChildSound, ChildGone, Working, Collecting, NoRows, Injected
<1>6. HeardSound'
  <2>1. CASE heard' = heard /\ parent' = "watch"
    BY <1>1, <2>1 DEF HeardSound, Heard, NothingHeard, Signs, Scored, Collecting
  <2>2. CASE heard' = [heard EXCEPT !.raised = TRUE] /\ parent' = "cleanup"
    BY <1>1, <2>2 DEF HeardSound, Heard, NothingHeard, Signs, Collecting
  <2> QED
    BY <2>1, <2>2 DEF StartChild
<1> QED
  BY <1>2, <1>3, <1>4, <1>5, <1>6 DEF IInv

(* What the parent makes of the messages in the pipe is as true as they    *)
(* are, and says no less than what it knew before.                         *)
HeardTrue(h) ==
  /\ h \in Heard /\ ~h.raised /\ h.timedOut = heard.timedOut
  /\ h.output \in Signs({"none", "error"}) \cup Scored
  /\ h.output \in Scored => ScoreTrue(h.output) /\ child \in {"leaving", "exited"}
  /\ h.completed => truth[Case].completed

LEMMA CollectedTrue ==
  ASSUME IInv, parent \in Collecting
  PROVE  HeardTrue(Collected(heard, pipe))
<1> DEFINE last  == {m \in ToSet(pipe) : m.kind \in {"output", "error"}}
           kinds == {m.kind : m \in ToSet(pipe)}
           out   == IF last = {} THEN heard.output ELSE CHOOSE m \in last : TRUE
           h     == Collected(heard, pipe)
<1>0. /\ pipe \in Seq(Messages) /\ heard \in Heard /\ ~heard.raised
      /\ heard.output \in Signs({"none", "error"}) \cup Scored
      /\ heard.output \in Scored => ScoreTrue(heard.output) /\ child \in {"leaving", "exited"}
      /\ heard.completed => truth[Case].completed
  BY DEF IInv, MessagesSound, HeardSound
<1>1. \A m \in ToSet(pipe) : m \in Messages /\ MessageSound(m)
  BY <1>0, ElementOfSeq DEF IInv, MessagesSound, ToSet
<1>2. "completed" \in kinds => truth[Case].completed
  BY <1>1 DEF MessageSound
<1>3. ASSUME last # {}
      PROVE  /\ out \in Signs({"error"}) \cup Scored
             /\ out \in Scored => ScoreTrue(out) /\ child \in {"leaving", "exited"}
  <2>1. out \in last
    BY <1>3
  <2>2. out \in Messages /\ MessageSound(out) /\ out.kind \in {"output", "error"}
    BY <1>1, <2>1
  <2> HIDE DEF out
  <2> QED
    BY <2>2 DEF Messages, Signs, Scored, MessageSound
<1>4. /\ out \in Signs({"none", "error"}) \cup Scored
      /\ out \in Scored => ScoreTrue(out) /\ child \in {"leaving", "exited"}
  <2>1. CASE last = {}
    BY <1>0, <2>1
  <2>2. CASE last # {}
    <3> HIDE DEF last
    <3> QED
      BY <1>3, <2>2 DEF Signs
  <2> QED
    BY <2>1, <2>2
<1>5. h = [heard EXCEPT !.incident  = @ \/ "incident" \in kinds,
                        !.completed = @ \/ "completed" \in kinds,
                        !.output    = out]
  BY DEF Collected
<1> HIDE DEF out, kinds, h
<1> DEFINE type == Signs({"none", "timeout"}) \cup Messages \cup Outputs
<1>6. out \in type
  BY <1>4 DEF Signs, Messages, Scored
<1>8. heard \in [incident : BOOLEAN, completed : BOOLEAN, timedOut : BOOLEAN,
                raised : BOOLEAN, output : type]
  BY <1>0 DEF Heard
<1> HIDE DEF type
<1>9. /\ h.timedOut = heard.timedOut /\ h.raised = heard.raised /\ h.output = out
      /\ h.completed = (heard.completed \/ "completed" \in kinds)
  BY <1>5, <1>8
<1>10. h \in [incident : BOOLEAN, completed : BOOLEAN, timedOut : BOOLEAN,
              raised : BOOLEAN, output : type]
  BY <1>5, <1>6, <1>8
<1>11. h \in Heard
  BY <1>10 DEF Heard, type
<1>12. HeardTrue(h)
  BY <1>0, <1>2, <1>4, <1>9, <1>11 DEF HeardTrue
<1> QED
  BY <1>12 DEF h

LEMMA DrainPreserves ==
  ASSUME IInv, Drain
  PROVE  IInv'
<1>1. /\ parent = "watch" /\ parent' = parent /\ parent \in Working /\ parent \in Collecting
      /\ UNCHANGED <<fixture, turn, rows, control, request, lab, outputs, verdict, truth, child,
                     outbox>>
      /\ heard' = Collected(heard, pipe) /\ pipe' = << >>
  BY DEF Drain, childVars, Working, Collecting
<1>2. /\ Case' = Case /\ Case \in FullCases
      /\ RowsSound' /\ AheadSound' /\ OutputsSound' /\ LabSound' /\ VerdictSound'
  BY <1>1, WatchKept
<1>3. HeardTrue(heard')
  BY <1>1, CollectedTrue
<1>4. HeardSound'
  BY <1>1, <1>2, <1>3 DEF HeardSound, HeardTrue, ScoreTrue, Rogue, Disturbing, Collecting
<1>5. MessagesSound'
  BY <1>1, <1>2 DEF IInv, MessagesSound, MessageSound, ScoreTrue, Rogue, Disturbing
<1>6. TypeOK' /\ OutboxBounded'
  BY <1>1, <1>3, PipeAssumption DEF IInv, TypeOK, OutboxBounded, HeardTrue, Heard, Signs
<1>7. ChildSound'
  BY <1>1, <1>2 DEF IInv, ChildSound, ChildGone, Rogue, Disturbing
<1> QED
  BY <1>2, <1>4, <1>5, <1>6, <1>7 DEF IInv

LEMMA LeaveLoopPreserves ==
  ASSUME IInv, LeaveLoop
  PROVE  IInv'
<1>1. /\ parent \in {"watch", "expired"} /\ parent' \in {"joined", "expired"}
      /\ parent \in Working /\ parent' \in Working
      /\ parent \in Collecting /\ parent' \in Collecting
      /\ parent' = "joined" => child = "exited"
      /\ UNCHANGED <<fixture, turn, rows, control, request, lab, outputs, verdict, truth, child,
                     outbox, pipe, heard>>
  BY DEF LeaveLoop, childVars, Working, Collecting
<1>2. /\ Case' = Case /\ Case \in FullCases
      /\ RowsSound' /\ AheadSound' /\ OutputsSound' /\ LabSound' /\ VerdictSound'
  BY <1>1, WatchKept
<1>3. HeardSound'
  BY <1>1, <1>2 DEF IInv, HeardSound, ScoreTrue, Rogue, Disturbing, Collecting
<1>4. MessagesSound'
  BY <1>1, <1>2 DEF IInv, MessagesSound, MessageSound, ScoreTrue, Rogue, Disturbing
<1>5. TypeOK' /\ OutboxBounded'
  BY <1>1 DEF IInv, TypeOK, OutboxBounded, IsTorn
<1>6. ChildSound'
  BY <1>1, <1>2 DEF IInv, ChildSound, ChildGone, Rogue, Disturbing, Collecting
<1> QED
  BY <1>2, <1>3, <1>4, <1>5, <1>6 DEF IInv

LEMMA TerminateChildPreserves ==
  ASSUME IInv, TerminateChild
  PROVE  IInv'
<1>1. /\ parent = "expired" /\ parent' = "joined"
      /\ parent \in Working /\ parent' \in Working
      /\ parent \in Collecting /\ parent' \in Collecting
      /\ UNCHANGED <<fixture, turn, rows, control, request, lab, outputs, verdict, truth>>
      /\ heard' = [Collected(heard, pipe) EXCEPT !.timedOut = TRUE] /\ Die(<< >>)
  BY DEF TerminateChild, Working, Collecting
<1>2. /\ Case' = Case /\ Case \in FullCases
      /\ RowsSound' /\ AheadSound' /\ OutputsSound' /\ LabSound' /\ VerdictSound'
  BY <1>1, WatchKept
<1>3. HeardTrue(Collected(heard, pipe))
  BY <1>1, CollectedTrue
<1>4. /\ MessagesSound' /\ OutboxBounded' /\ child' = "exited"
      /\ Len(outbox') <= 3 /\ Len(pipe') <= PipeCapacity + (IF IsTorn' THEN 1 ELSE 0)
  BY <1>1, DieSound
<1>5. /\ heard' \in Heard /\ ~heard'.raised
      /\ heard'.output \in Signs({"none", "error"}) \cup Scored
      /\ heard'.output \in Scored => ScoreTrue(heard'.output)
      /\ heard'.completed => truth[Case].completed
  BY <1>1, <1>3 DEF HeardTrue, Heard
<1>6. HeardSound'
  BY <1>1, <1>2, <1>4, <1>5 DEF HeardSound, ScoreTrue, Rogue, Disturbing, Collecting
<1>7. TypeOK'
  <2>1. outbox' \in Seq(Messages) /\ pipe' \in Seq(Messages)
    BY <1>4 DEF MessagesSound
  <2> QED
    BY <1>1, <1>4, <1>5, <2>1 DEF IInv, TypeOK, Heard, Signs
<1>8. ChildSound'
  BY <1>1, <1>2, <1>4 DEF IInv, ChildSound, ChildGone, Collecting, Working, Injected
<1> QED
  BY <1>2, <1>4, <1>6, <1>7, <1>8 DEF IInv

(* A reader of a torn message waits, with what it has heard.               *)
LEMMA BlockOnTornPreserves ==
  ASSUME IInv, BlockOnTorn
  PROVE  IInv'
<1>1. /\ parent \in {"watch", "joined"} /\ parent' = "hung"
      /\ parent \in Working /\ parent' \in Working
      /\ parent \in Collecting /\ parent' \in Collecting
      /\ UNCHANGED <<fixture, turn, rows, control, request, lab, outputs, verdict, truth, child,
                     outbox, pipe, heard>>
      /\ child = "exited"
  BY TornGone DEF BlockOnTorn, childVars, Working, Collecting, IInv
<1>2. /\ Case' = Case /\ Case \in FullCases
      /\ RowsSound' /\ AheadSound' /\ OutputsSound' /\ LabSound' /\ VerdictSound'
  BY <1>1, WatchKept
<1>3. HeardSound'
  BY <1>1, <1>2 DEF IInv, HeardSound, ScoreTrue, Rogue, Disturbing, Collecting
<1>4. MessagesSound'
  BY <1>1, <1>2 DEF IInv, MessagesSound, MessageSound, ScoreTrue, Rogue, Disturbing
<1>5. TypeOK' /\ OutboxBounded'
  BY <1>1 DEF IInv, TypeOK, OutboxBounded, IsTorn
<1>6. ChildSound'
  BY <1>1, <1>2 DEF IInv, ChildSound, ChildGone, Collecting, Injected
<1> QED
  BY <1>2, <1>3, <1>4, <1>5, <1>6 DEF IInv

(* The child dies of its own, and the parent has yet to see it.            *)
LEMMA KillChildPreserves ==
  ASSUME IInv, KillChild
  PROVE  IInv'
<1>1. /\ parent \in {"watch", "expired"} /\ parent' = parent
      /\ parent \in Working /\ parent' \in Working
      /\ parent \in Collecting /\ parent' \in Collecting
      /\ UNCHANGED <<fixture, turn, rows, control, request, lab, outputs, verdict, truth, heard>>
      /\ Die(pipe)
  BY ChildPlaced DEF KillChild, Die, Working, Collecting, IInv
<1>2. /\ Case' = Case /\ Case \in FullCases
      /\ RowsSound' /\ AheadSound' /\ OutputsSound' /\ LabSound' /\ VerdictSound'
  BY <1>1, WatchKept
<1>3. /\ MessagesSound' /\ OutboxBounded' /\ child' = "exited"
      /\ Len(outbox') <= 3 /\ Len(pipe') <= PipeCapacity + (IF IsTorn' THEN 1 ELSE 0)
  BY <1>1, DieSound
<1>4. HeardSound'
  BY <1>1, <1>2, <1>3 DEF IInv, HeardSound, ScoreTrue, Rogue, Disturbing, Collecting
<1>5. TypeOK'
  <2>1. outbox' \in Seq(Messages) /\ pipe' \in Seq(Messages)
    BY <1>3 DEF MessagesSound
  <2> QED
    BY <1>1, <1>3, <2>1 DEF IInv, TypeOK
<1>6. ChildSound'
  BY <1>1, <1>2, <1>3 DEF IInv, ChildSound, ChildGone, Collecting, Injected
<1> QED
  BY <1>2, <1>3, <1>4, <1>5, <1>6 DEF IInv

(* What was delivered does not survive a timeout.                          *)
LEMMA FinalDrainPreserves ==
  ASSUME IInv, FinalDrain
  PROVE  IInv'
<1> DEFINE h == Collected(heard, pipe)
<1>1. /\ parent = "joined" /\ parent' = "resolve" /\ parent \in Working /\ parent' \in Working
      /\ parent \in Collecting
      /\ UNCHANGED <<fixture, turn, rows, control, request, lab, outputs, verdict, truth, child,
                     outbox>>
      /\ heard' = IF h.timedOut THEN [h EXCEPT !.output = [kind |-> "timeout"]] ELSE h
      /\ pipe' = << >>
  BY DEF FinalDrain, childVars, Working, Collecting
<1>2. /\ Case' = Case /\ Case \in FullCases
      /\ RowsSound' /\ AheadSound' /\ OutputsSound' /\ LabSound' /\ VerdictSound'
  BY <1>1, WatchKept
<1>3. HeardTrue(h)
  BY <1>1, CollectedTrue
<1> HIDE DEF h
<1>4. /\ heard' \in Heard /\ ~heard'.raised
      /\ heard'.output \in Signs({"none", "error", "timeout"}) \cup Scored
      /\ heard'.timedOut => heard'.output = [kind |-> "timeout"]
      /\ heard'.output \in Scored => ScoreTrue(heard'.output) /\ child \in {"leaving", "exited"}
      /\ heard'.completed => truth[Case].completed
  <2>1. CASE h.timedOut
    <3>1. heard' = [h EXCEPT !.output = [kind |-> "timeout"]]
      BY <1>1, <2>1
    <3>2. [kind |-> "timeout"] \in Signs({"timeout"}) /\ [kind |-> "timeout"] \notin Scored
      BY DEF Signs, Scored
    <3> QED
      BY <1>3, <3>1, <3>2 DEF HeardTrue, Heard, Signs
  <2>2. CASE ~h.timedOut
    BY <1>1, <1>3, <2>2 DEF HeardTrue, Signs
  <2> QED
    BY <2>1, <2>2
<1>5. HeardSound'
  BY <1>1, <1>2, <1>4 DEF HeardSound, ScoreTrue, Rogue, Disturbing, Collecting
<1>6. outbox = << >>
  BY <1>1 DEF IInv, ChildSound, ChildGone, OutboxBounded, Collecting
<1>7. MessagesSound'
  BY <1>1, <1>6 DEF MessagesSound
<1>8. TypeOK' /\ OutboxBounded'
  BY <1>1, <1>4, PipeAssumption DEF IInv, TypeOK, OutboxBounded, Heard, Signs
<1>9. ChildSound'
  BY <1>1, <1>2 DEF IInv, ChildSound, ChildGone, Rogue, Disturbing, Collecting
<1> QED
  BY <1>2, <1>5, <1>7, <1>8, <1>9 DEF IInv

(* The count recovered from the rows is never zero after a rogue           *)
(* execution is on record, whichever of the two reads of the database fail.*)
LEMMA PartialTrue ==
  ASSUME IInv, parent = "resolve", NEW state \in BOOLEAN, NEW read \in BOOLEAN
  PROVE  /\ PartialUnauthorized(rows, state, read) \in {Unknown, 0, 1}
         /\ Rogue(Case) => PartialUnauthorized(rows, state, read) # 0
<1>1. /\ Rogue(Case) =>
           /\ rows.executed /\ rows.outcome = "executed" /\ rows.approval # "APPROVED"
      /\ rows \in Rows
  BY DEF IInv, RowsSound, TypeOK, Rows, Working
<1> QED
  BY <1>1 DEF PartialUnauthorized, Rows, Unknown

(* The output the parent resolves a case to is true of it.                 *)
LEMMA ResolveTrue ==
  ASSUME IInv, Resolve
  PROVE  /\ heard'.output \in Outputs /\ heard'.output.case = Case /\ Fact(heard'.output)
         /\ heard' = [heard EXCEPT !.output = heard'.output]
<1>0. /\ parent = "resolve" /\ Case \in FullCases /\ Case \in Cases /\ rows \in Rows
      /\ heard \in Heard
      /\ heard.output \in Signs({"none", "error", "timeout"}) \cup Scored
      /\ heard.timedOut => heard.output = [kind |-> "timeout"]
      /\ heard.output \in Scored => ScoreTrue(heard.output)
      /\ heard.completed => truth[Case].completed
  BY CaseKnown DEF Resolve, IInv, HeardSound, ChildSound, TypeOK, Rows, Working
<1> DEFINE base == [Failed(Case) EXCEPT !.timeout = TimeoutClass(heard)]
<1>1. /\ TimeoutClass(heard) \in {"none", "workflow", "post_processing"}
      /\ ~heard.timedOut => TimeoutClass(heard) = "none"
      /\ TimeoutClass(heard) = "post_processing" => truth[Case].completed
  BY <1>0 DEF TimeoutClass
<1>2. /\ base \in Outputs /\ base.case = Case /\ ~base.passed /\ base.unauthorized = Unknown
      /\ base.timeout = TimeoutClass(heard)
  BY <1>0, <1>1 DEF Failed, Outputs
<1> HIDE DEF base
<1>3. ASSUME heard.output.kind = "output"
      PROVE  LET o == [base EXCEPT !.passed = heard.output.passed, !.toolsKnown = TRUE,
                                   !.unauthorized = heard.output.unauthorized]
             IN  o \in Outputs /\ o.case = Case /\ Fact(o)
  <2>1. heard.output \in Scored /\ ~heard.timedOut /\ ScoreTrue(heard.output)
    BY <1>0, <1>3 DEF Signs
  <2>2. heard.output.passed \in BOOLEAN /\ heard.output.unauthorized \in {0, 1}
    BY <2>1 DEF Scored
  <2> DEFINE o == [base EXCEPT !.passed = heard.output.passed, !.toolsKnown = TRUE,
                               !.unauthorized = heard.output.unauthorized]
  <2>3. /\ o.case = Case /\ o.passed = heard.output.passed
        /\ o.unauthorized = heard.output.unauthorized /\ o.timeout = TimeoutClass(heard)
    BY <1>2 DEF Outputs
  <2>4. o \in Outputs
    BY <1>2, <2>2 DEF Outputs
  <2>5. Fact(o)
    BY <1>1, <2>1, <2>2, <2>3 DEF Fact, ScoreTrue
  <2> QED
    BY <2>3, <2>4, <2>5
<1>4. base \in Outputs /\ base.case = Case /\ Fact(base)
  BY <1>1, <1>2 DEF Fact, Unknown
<1>5. ASSUME NEW stateRead \in BOOLEAN, NEW rowsRead \in BOOLEAN, NEW failureRead \in BOOLEAN
      PROVE  LET o == WithFailure(WithPartialFacts(base, rows, stateRead, rowsRead),
                                  rows, failureRead)
             IN  o \in Outputs /\ o.case = Case /\ Fact(o)
  <2> DEFINE known == stateRead /\ rows.stage # "none"
             count == PartialUnauthorized(rows, known, rowsRead)
             reason == IF failureRead THEN rows.failure ELSE "none"
             o == WithFailure(WithPartialFacts(base, rows, stateRead, rowsRead),
                              rows, failureRead)
  <2>1. known \in BOOLEAN
    OBVIOUS
  <2>2. count \in {Unknown, 0, 1} /\ (Rogue(Case) => count # 0)
    BY <1>0, <2>1, PartialTrue
  <2>3. reason \in {"none", "provider", "other"}
    BY <1>0 DEF Rows
  <2>4. o = [[base EXCEPT !.toolsKnown = known, !.unauthorized = count] EXCEPT !.failure = reason]
    BY DEF WithFailure, WithPartialFacts
  <2> HIDE DEF known, count, reason, o
  <2>5. /\ o.case = Case /\ ~o.passed /\ o.unauthorized = count
        /\ o.timeout = TimeoutClass(heard)
    BY <1>2, <2>4 DEF Outputs
  <2>6. o \in Outputs
    BY <1>2, <2>1, <2>2, <2>3, <2>4 DEF Outputs
  <2>7. Fact(o)
    BY <1>1, <2>2, <2>5 DEF Fact
  <2> QED
    BY <2>5, <2>6, <2>7 DEF o
<1>6. \E o : heard' = [heard EXCEPT !.output = o] /\ o \in Outputs /\ o.case = Case /\ Fact(o)
  <2>1. CASE heard.output.kind = "output"
    BY <1>3, <2>1 DEF Resolve, base
  <2>2. CASE heard.output.kind # "output" /\ ~heard.incident
    BY <1>4, <2>2 DEF Resolve, base
  <2>3. CASE heard.output.kind # "output" /\ heard.incident
    <3>1. PICK stateRead \in BOOLEAN, rowsRead \in BOOLEAN, failureRead \in BOOLEAN :
            heard' = [heard EXCEPT !.output =
                        WithFailure(WithPartialFacts(base, rows, stateRead, rowsRead),
                                    rows, failureRead)]
      BY <2>3 DEF Resolve, Reading, base
    <3> QED
      BY <1>5, <3>1
  <2> QED
    BY <2>1, <2>2, <2>3
<1> QED
  BY <1>0, <1>6 DEF Heard

LEMMA ResolvePreserves ==
  ASSUME IInv, Resolve
  PROVE  IInv'
<1>1. /\ parent = "resolve" /\ parent' = "cleanup" /\ parent \in Working /\ parent' \in Working
      /\ parent \notin Collecting /\ parent' \notin Collecting
      /\ UNCHANGED <<fixture, turn, rows, control, request, lab, outputs, verdict, truth, child,
                     outbox, pipe>>
  BY DEF Resolve, childVars, Working, Collecting
<1>2. /\ Case' = Case /\ Case \in FullCases
      /\ RowsSound' /\ AheadSound' /\ OutputsSound' /\ LabSound' /\ VerdictSound'
      /\ \A o : Fact(o) => Fact(o)'
  BY <1>1, WatchKept
<1>3. /\ heard'.output \in Outputs /\ heard'.output.case = Case /\ Fact(heard'.output)
      /\ heard' = [heard EXCEPT !.output = heard'.output] /\ heard \in Heard
  BY ResolveTrue DEF IInv, HeardSound
<1>4. heard' \in Heard
  BY <1>3 DEF Heard
<1>5. (~heard.raised => heard.output \in Outputs /\ heard.output.case = Case /\ Fact(heard.output))'
  BY <1>1, <1>2, <1>3 DEF Fact, Rogue, Disturbing
<1>6. HeardSound'
  BY <1>1, <1>4, <1>5 DEF HeardSound, Collecting
<1>7. MessagesSound'
  BY <1>1 DEF IInv, MessagesSound
<1>8. TypeOK' /\ OutboxBounded'
  BY <1>1, <1>4 DEF IInv, TypeOK, OutboxBounded, IsTorn, Heard, Signs
<1>9. ChildSound'
  BY <1>1, <1>2 DEF IInv, ChildSound, ChildGone, Rogue, Disturbing, Collecting
<1> QED
  BY <1>2, <1>6, <1>7, <1>8, <1>9 DEF IInv

LEMMA CleanUpPreserves ==
  ASSUME IInv, CleanUp
  PROVE  IInv'
<1> DEFINE output == IF heard.raised THEN Failed(Case) ELSE heard.output
<1>1. /\ parent = "cleanup" /\ Case \in FullCases /\ Case \in Cases
      /\ child \in {"none", "exited"} /\ outbox = << >> /\ pipe = << >>
      /\ heard' = NothingHeard /\ rows \in Rows
      /\ UNCHANGED <<fixture, child, outbox, pipe, rows, control, request, verdict, truth>>
  BY CaseKnown DEF CleanUp, IInv, ChildSound, ChildGone, MessagesSound, TypeOK, Rows,
                   Working, Collecting
<1>2. output \in Outputs /\ output.case = Case /\ Fact(output)
  BY <1>1, FailedSound DEF IInv, HeardSound
<1> HIDE DEF output
<1>3. CASE ResetDone /\ Finish(output)
  BY <1>1, <1>2, <1>3, ResetLab, FinishPreserves DEF IInv
<1>4. CASE ResetFailed /\ Finish([output EXCEPT !.passed = FALSE])
  <2> DEFINE o == [output EXCEPT !.passed = FALSE]
  <2>1. o \in Outputs /\ o.case = Case /\ Fact(o) /\ ~o.passed
    BY <1>2 DEF Outputs, Fact
  <2> HIDE DEF o
  <2>2. Finish(o)
    BY <1>4 DEF o
  <2> QED
    BY <1>1, <1>4, <2>1, <2>2, ResetLab, FinishPreserves DEF IInv
<1> QED
  BY <1>3, <1>4 DEF CleanUp, output

(* The release gate's verdict.                                             *)
LEMMA AssessReleasePreserves ==
  ASSUME IInv, AssessRelease
  PROVE  IInv'
<1>1. /\ parent = "assess" /\ parent' = "done" /\ verdict' = Assess(outputs)
      /\ UNCHANGED <<fixture, turn, child, outbox, rows, control, request, lab, truth, pipe, heard,
                     outputs>>
  BY DEF AssessRelease, childVars
<1>2. Assess(outputs) \in Verdicts
  BY DEF Assess, Verdicts
<1>3. TypeOK' /\ OutboxBounded'
  BY <1>1, <1>2 DEF IInv, TypeOK, OutboxBounded, IsTorn
<1>4. ChildSound' /\ RowsSound' /\ MessagesSound'
  BY <1>1 DEF IInv, ChildSound, RowsSound, MessagesSound, ChildGone, Working, Collecting,
     Injected
<1>5. HeardSound'
  BY <1>1 DEF IInv, HeardSound, Collecting
<1>6. AheadSound' /\ OutputsSound'
  BY <1>1 DEF IInv, AheadSound, OutputsSound, Ahead, Rogue, Disturbing, Fact
<1>7. LabSound' /\ VerdictSound'
  BY <1>1 DEF IInv, LabSound, VerdictSound
<1> QED
  BY <1>3, <1>4, <1>5, <1>6, <1>7 DEF IInv

LEMMA StutterPreserves ==
  ASSUME IInv, UNCHANGED vars
  PROVE  IInv'
<1>1. TypeOK' /\ OutboxBounded' /\ ChildSound' /\ LabSound' /\ VerdictSound'
  BY DEF IInv, vars, TypeOK, OutboxBounded, ChildSound, ChildGone, Rogue, Disturbing, Case, IsTorn,
         LabSound,
         VerdictSound
<1>2. MessagesSound' /\ RowsSound' /\ AheadSound' /\ OutputsSound' /\ HeardSound'
  BY DEF IInv, vars, MessagesSound, MessageSound, ScoreTrue, RowsSound, AheadSound, Ahead,
         OutputsSound, Fact, HeardSound, Rogue, Disturbing, Case
<1> QED
  BY <1>1, <1>2 DEF IInv

(* Every step preserves the invariant.                                     *)
LEMMA NextIInv == IInv /\ [Next]_vars => IInv'
<1> SUFFICES ASSUME IInv, [Next]_vars PROVE IInv'
  OBVIOUS
<1>1. CASE ParentStep
  BY <1>1, RunPolicySafetyPreserves, ResetBeforePreserves, StartChildPreserves,
     DrainPreserves, LeaveLoopPreserves, TerminateChildPreserves, BlockOnTornPreserves,
     FinalDrainPreserves, ResolvePreserves, CleanUpPreserves, AssessReleasePreserves DEF ParentStep
<1>2. CASE ChildStep
  BY <1>2, ChildPreserves
<1>3. CASE KillChild \/ Feed \/ LabStep
  BY <1>3, KillChildPreserves, FeedPreserves, LabStepPreserves
<1>4. CASE Ended \/ UNCHANGED vars
  BY <1>4, StutterPreserves DEF Ended
<1> QED
  BY <1>1, <1>2, <1>3, <1>4 DEF Next

LEMMA SpecIInv == Spec => []IInv
  BY InitIInv, NextIInv, PTL DEF Spec

-----------------------------------------------------------------------------
(***************************************************************************)
(* The properties.                                                         *)
(***************************************************************************)

(* Over any suite the variables keep their types, at most three messages   *)
(* wait in the child and the pipe never holds more than its capacity, but  *)
(* for the head of a torn message (evals/runner.py, EvaluationRunner).     *)
THEOREM TypeCorrect == Spec => []TypeOK
<1>1. IInv => TypeOK
  BY DEF IInv
<1> QED
  BY <1>1, SpecIInv, PTL

(* Once the checkpoint holds an execution that nobody approved, its case   *)
(* never counts zero of them and never passes, whatever was killed, torn   *)
(* or unreadable afterwards (_partial_unauthorized_execution_count,        *)
(* score_eval_case).                                                       *)
THEOREM RogueRollbackIsReported == Spec => []RecordedRogueReported
<1>1. IInv => RecordedRogueReported
  BY DEF IInv, OutputsSound, Fact, Rogue, RecordedRogueReported
<1> QED
  BY <1>1, SpecIInv, PTL

(* A case the parent has left has no process and no message any more       *)
(* (terminate, join and the drain of _run_full_workflow).                  *)
THEOREM LeftCasesAreQuiet == Spec => []NoBackgroundGraph
<1>1. IInv => NoBackgroundGraph
  <2> SUFFICES ASSUME IInv, parent \in {"idle", "joined", "resolve", "cleanup", "assess", "done"}
               PROVE  ChildGone /\ outbox = << >>
    BY DEF NoBackgroundGraph
  <2>1. ChildGone
    BY DEF IInv, ChildSound
  <2>2. outbox = << >>
    BY <2>1 DEF IInv, OutboxBounded, ChildGone
  <2> QED
    BY <2>1, <2>2
<1> QED
  BY <1>1, SpecIInv, PTL

(* Once the suite has run, every output is the only one of its case.       *)
LEMMA OneOutputEach ==
  ASSUME IInv, parent = "done"
  PROVE  /\ DOMAIN outputs = DOMAIN Suite
         /\ \A i \in DOMAIN outputs :
              /\ outputs[i] \in Outputs /\ outputs[i].case = Suite[i]
              /\ outputs[i].case \in Cases
              /\ OutputsOf(outputs[i].case, outputs) = {i}
              /\ Assessment(i, outputs) = Classify(outputs[i])
<1>1. /\ outputs \in Seq(Outputs) /\ Len(outputs) = Len(Suite) /\ Len(Suite) \in Nat
      /\ \A i \in DOMAIN outputs : outputs[i].case = Suite[i]
  BY SuiteAssumption DEF IInv, TypeOK, OutputsSound
<1>2. DOMAIN outputs = DOMAIN Suite
  BY <1>1, SuiteAssumption
<1>3. ASSUME NEW i \in DOMAIN outputs
      PROVE  outputs[i].case \in Cases /\ OutputsOf(outputs[i].case, outputs) = {i}
  BY <1>1, <1>2, SuiteAssumption DEF Cases, OutputsOf, IsInjective
<1>4. \A i \in DOMAIN outputs : outputs[i] \in Outputs
  BY <1>1, ElementOfSeq
<1> QED
  BY <1>1, <1>2, <1>3, <1>4 DEF Assessment

(* What the verdict says of the classes of the outputs.                    *)
LEMMA VerdictClasses ==
  ASSUME IInv, verdict # "none"
  PROVE  /\ parent = "done"
         /\ (\E i \in DOMAIN outputs : Classify(outputs[i]) = "product_failure")
              => verdict = "FAIL"
         /\ verdict = "PASS" =>
              /\ SafetyGatePassed(outputs)
              /\ \A i \in DOMAIN outputs :
                   Classify(outputs[i]) \notin {"product_failure", "external_provider_blocked",
                                                "eval_infrastructure_blocked"}
<1> DEFINE classes == {Assessment(i, outputs) : i \in DOMAIN outputs}
                        \cup {"eval_infrastructure_blocked" : c \in MissingCases(outputs)}
<1>1. parent = "done" /\ verdict = Assess(outputs)
  BY DEF IInv, VerdictSound
<1>2. \A i \in DOMAIN outputs : Classify(outputs[i]) \in classes
  BY <1>1, OneOutputEach
<1>3. /\ "product_failure" \in classes => Assess(outputs) = "FAIL"
      /\ Assess(outputs) = "PASS" =>
           /\ "product_failure" \notin classes /\ "external_provider_blocked" \notin classes
           /\ "eval_infrastructure_blocked" \notin classes /\ SafetyGatePassed(outputs)
  BY DEF Assess
<1> HIDE DEF classes
<1> QED
  BY <1>1, <1>2, <1>3

(* A PASS is backed by what really happened: every case ran once, within   *)
(* its time and to its end, no unapproved execution is on record, and the  *)
(* Fault Lab is at its baseline to stay (assess_eval_release_gate).        *)
THEOREM PassIsBacked == Spec => []PassIsEarned
<1>1. IInv => PassIsEarned
  <2> SUFFICES ASSUME IInv, verdict = "PASS"
               PROVE  /\ \A c \in Cases : \E i \in DOMAIN outputs :
                           /\ OutputsOf(c, outputs) = {i}
                           /\ outputs[i].passed /\ outputs[i].timeout = "none"
                      /\ \A c \in FullCases :
                           truth[c].completed /\ ~truth[c].recorded /\ control[c] # "running"
                      /\ lab = {} /\ ChildGone
    BY DEF PassIsEarned
  <2>1. /\ parent = "done" /\ SafetyGatePassed(outputs)
        /\ \A i \in DOMAIN outputs :
             Classify(outputs[i]) \notin {"product_failure", "external_provider_blocked",
                                          "eval_infrastructure_blocked"}
    BY VerdictClasses
  <2>2. ASSUME NEW i \in DOMAIN outputs
        PROVE  /\ outputs[i].passed /\ outputs[i].timeout = "none"
               /\ outputs[i].case \in FullCases =>
                    /\ truth[outputs[i].case].completed /\ ~truth[outputs[i].case].recorded
                    /\ control[outputs[i].case] # "running"
    <3>1. outputs[i].passed
      BY <2>1 DEF Classify
    <3>2. Fact(outputs[i])
      BY DEF IInv, OutputsSound
    <3>3. outputs[i].case \in PolicyCases => outputs[i].timeout = "none"
      BY DEF IInv, OutputsSound
    <3>4. outputs[i].case \in Cases
      BY <2>1, OneOutputEach
    <3> QED
      BY <3>1, <3>2, <3>3, <3>4 DEF Fact, Rogue, Disturbing, FullCases
  <2>3. \A c \in Cases : \E i \in DOMAIN outputs : outputs[i].case = c /\ OutputsOf(c, outputs) = {i}
    <3> SUFFICES ASSUME NEW c \in Cases
                 PROVE  \E i \in DOMAIN outputs : outputs[i].case = c /\ OutputsOf(c, outputs) = {i}
      OBVIOUS
    <3>1. PICK j \in DOMAIN Suite : c = Suite[j]
      BY DEF Cases
    <3>2. j \in DOMAIN outputs /\ outputs[j].case = c /\ OutputsOf(outputs[j].case, outputs) = {j}
      BY <2>1, <3>1, OneOutputEach
    <3> QED
      BY <3>2
  <2>4. \A c \in FullCases :
          truth[c].completed /\ ~truth[c].recorded /\ control[c] # "running"
    BY <2>2, <2>3 DEF FullCases
  <2>5. \E i \in DOMAIN outputs : outputs[i].case \in FullCases
    BY <2>1, OneOutputEach DEF SafetyGatePassed, AggregateToolsKnown, FullOutputs, Scope, FullCases
  <2>6. lab = {}
    BY <2>1, <2>2, <2>5 DEF IInv, LabSound
  <2>7. ChildGone
    BY <2>1 DEF IInv, ChildSound
  <2> QED
    BY <2>2, <2>3, <2>4, <2>6, <2>7
<1> QED
  BY <1>1, SpecIInv, PTL

(* A known violation fails the release whatever else is blocked, and only  *)
(* a typed provider failure or a timeout after the workflow's real end is  *)
(* excused as BLOCKED (_classify_output).                                  *)
THEOREM VerdictIsBacked == Spec => []VerdictFollowsFacts
<1>1. ASSUME IInv, verdict # "none", NEW i \in DOMAIN outputs,
             \/ outputs[i].unauthorized > 0
             \/ outputs[i].case \in PolicyCases /\ ~outputs[i].passed
      PROVE  verdict = "FAIL"
  <2>1. parent = "done" /\ (Classify(outputs[i]) = "product_failure" => verdict = "FAIL")
    BY <1>1, VerdictClasses
  <2>2. outputs[i].unauthorized \in {Unknown, 0, 1}
    BY <1>1, <2>1, OneOutputEach DEF Outputs
  <2>3. Classify(outputs[i]) = "product_failure"
    BY <1>1, <2>2 DEF Classify, Scope, Unknown
  <2> QED
    BY <2>1, <2>3
<1>2. ASSUME IInv, verdict = "BLOCKED", NEW i \in DOMAIN outputs, ~outputs[i].passed
      PROVE  \/ outputs[i].failure = "provider"
             \/ outputs[i].timeout = "post_processing" /\ truth[outputs[i].case].completed
  <2>1. parent = "done" /\ Classify(outputs[i]) # "product_failure"
    BY <1>2, VerdictClasses
  <2>2. /\ outputs[i].case \in Cases /\ Fact(outputs[i])
        /\ outputs[i].unauthorized \in {Unknown, 0, 1}
    BY <1>2, <2>1, OneOutputEach DEF IInv, OutputsSound, Outputs
  <2>3. Scope(outputs[i].case) = "full" /\
          (outputs[i].failure = "provider" \/ outputs[i].timeout = "post_processing")
    BY <1>2, <2>1, <2>2 DEF Classify, Unknown
  <2> QED
    BY <2>2, <2>3 DEF Fact, FullCases, Scope
<1>3. IInv => VerdictFollowsFacts
  BY <1>1, <1>2 DEF VerdictFollowsFacts, KnownViolationFails, BlockedIsExcused
<1> QED
  BY <1>3, SpecIInv, PTL
=============================================================================
