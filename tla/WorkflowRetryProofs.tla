-------------------------- MODULE WorkflowRetryProofs -------------------------
(***************************************************************************)
(* Proofs about WorkflowRetry: the types, the truth of the composed        *)
(* answers, the visibility of a failed run and the retry endpoint that     *)
(* accepts nothing, for every set of requests and readers.                 *)
(*                                                                         *)
(* The four follow from one inductive invariant.  RunShape ties the place  *)
(* of the run to the checkpoint and to the node that raised; AnswerShape   *)
(* says what the parts of an answer read so far still mean.                *)
(***************************************************************************)
EXTENDS WorkflowRetry, TLAPS

RequestPlaces ==
  {"idle", "lock_incident", "lock_round", "read_state", "read_failure", "done"}
RunPlaces ==
  {"idle", "run", "terminal_round", "terminal_incident", "report", "classify",
   "restore", "done"}
ReaderPlaces == {"idle", "checkpoint", "progress_failure", "answer", "done", "dropped"}

\* Who may stand where; "accepted" is nobody's place.
PlaceShape ==
  /\ \A r \in Requests : pc[r] \in RequestPlaces
  /\ pc[Starter] \in RunPlaces
  /\ \A q \in Readers : pc[q] \in ReaderPlaces

RunShape ==
  /\ ~thread.retryable
  /\ thread.error => raised # "none"
  /\ raised # "none" => thread.at \in Terminalizers
  /\ thread.error => thread.at \in Terminalizers
  /\ pc[Starter] \in {"idle", "run", "terminal_round", "terminal_incident", "report"}
       => raised = "none"
  /\ pc[Starter] \in {"idle", "run", "terminal_round", "terminal_incident"} => ~terminal
  /\ pc[Starter] \in {"terminal_round", "terminal_incident", "report"}
       => thread.at \in Terminalizers
  /\ pc[Starter] = "report" => terminal
  /\ pc[Starter] = "classify" => raised # "none" /\ thread.error
  /\ pc[Starter] = "restore" => raised # "none" /\ thread.at = "failure"
  /\ FailureStaysVisible

AnswerShape ==
  \A q \in Readers :
    /\ answer[q].terminal => terminal
    /\ answer[q].phase = "completed" => terminal
    /\ answer[q].phase = "failed" => raised # "none"
    /\ answer[q].phase = "conflict" => terminal /\ raised # "none"
    /\ ~answer[q].retry

IInv == TypeOK /\ PlaceShape /\ RunShape /\ AnswerShape

LEMMA InitInv == Init => IInv
<1> SUFFICES ASSUME Init PROVE IInv
  OBVIOUS
<1> USE RetryAssumption DEF Init, Actors, Everyone, Terminalizers
<1>1. holder["incident"] = "none" /\ holder["round"] = "none"
  OBVIOUS
<1>2. TypeOK
  BY <1>1 DEF TypeOK, NoCheckpoint, NoAnswer, Checkpoints, Places
<1>3. PlaceShape
  BY DEF PlaceShape, RequestPlaces, RunPlaces, ReaderPlaces
<1>4. RunShape
  BY DEF RunShape, NoCheckpoint, FailureStaysVisible
<1>5. AnswerShape
  BY DEF AnswerShape, NoAnswer
<1> QED
  BY <1>2, <1>3, <1>4, <1>5 DEF IInv

\* The rows, and the places at which they are held.
Locked ==
  /\ holder \in [{"incident", "round"} -> Actors \cup {"none"}]
  /\ holder["incident"] \in Actors => pc[holder["incident"]] = "lock_round"
  /\ holder["round"] \in Actors => pc[holder["round"]] = "terminal_incident"

\* An actor that releases its rows may go anywhere.
LEMMA UnlockKeeps ==
  ASSUME Locked, NEW a \in Actors, NEW place, pc \in [Everyone -> Places],
         Unlock(a), pc' = [pc EXCEPT ![a] = place]
  PROVE  Locked'
<1>1. \A row \in {"incident", "round"} :
        holder'[row] \in {"none", holder[row]} /\ holder'[row] # a
  BY RetryAssumption DEF Unlock, Locked
<1>2. holder' \in [{"incident", "round"} -> Actors \cup {"none"}]
  BY DEF Unlock, Locked
<1>3. \A b \in Actors \ {a} : pc'[b] = pc[b]
  BY DEF Everyone
<1> QED
  BY <1>1, <1>2, <1>3, RetryAssumption DEF Locked

-----------------------------------------------------------------------------

\* A step of the run touches nothing but the run's own place and locks.
LEMMA RunSteps ==
  ASSUME IInv, RunStep(Starter) \/ Failure(Starter), UNCHANGED answer
  PROVE  IInv'
<1> USE RetryAssumption DEF IInv, TypeOK, PlaceShape, RunShape, AnswerShape, Go,
        Checkpoints, Places, Terminalizers, Actors, Everyone, RequestPlaces,
        RunPlaces, ReaderPlaces, FailureStaysVisible, HasFailure
<1>1. CASE StartRun(Starter)
  BY <1>1 DEF StartRun
<1>2. CASE Investigate(Starter)
  BY <1>2 DEF Investigate
<1>3. CASE CatchFailure(Starter)
  BY <1>3 DEF CatchFailure
<1>4. CASE DeadEnd(Starter)
  BY <1>4 DEF DeadEnd, Suffer
<1>5. CASE BeginTerminalize(Starter)
  BY <1>5 DEF BeginTerminalize
<1>6. CASE TerminalLockRound(Starter)
  BY <1>6 DEF TerminalLockRound, Lock, Free
<1>7. CASE TerminalCommit(Starter)
  <2>1. Locked'
    BY <1>7, UnlockKeeps DEF TerminalCommit, Locked
  <2>2. TypeOK'
    BY <1>7, <2>1 DEF TerminalCommit, Locked
  <2>3. PlaceShape' /\ RunShape' /\ AnswerShape'
    BY <1>7 DEF TerminalCommit
  <2> QED
    BY <2>1, <2>2, <2>3
<1>8. CASE TerminalFails(Starter)
  <2>1. Locked'
    BY <1>8, UnlockKeeps DEF TerminalFails, NodeRaises, Locked
  <2>2. TypeOK'
    BY <1>8, <2>1 DEF TerminalFails, Suffer, NodeRaises, Locked
  <2>3. PlaceShape' /\ RunShape' /\ AnswerShape'
    BY <1>8 DEF TerminalFails, Suffer, NodeRaises
  <2> QED
    BY <2>1, <2>2, <2>3
<1>9. CASE GenerateReport(Starter)
  BY <1>9 DEF GenerateReport
<1>10. CASE ReportFails(Starter)
  BY <1>10 DEF ReportFails, Suffer, NodeRaises
<1>11. CASE CheckpointFails(Starter)
  BY <1>11 DEF CheckpointFails, Suffer
<1>12. CASE PersistClassification(Starter)
  BY <1>12 DEF PersistClassification, Rerouted
<1>13. CASE RestoreFailedTask(Starter)
  BY <1>13 DEF RestoreFailedTask, RestoredError
<1>14. CASE RewriteFails(Starter)
  BY <1>14 DEF RewriteFails, Suffer
<1> QED
  BY <1>1, <1>2, <1>3, <1>4, <1>5, <1>6, <1>7, <1>8, <1>9, <1>10, <1>11, <1>12,
     <1>13, <1>14 DEF RunStep, Failure

LEMMA RequestSteps ==
  ASSUME IInv, NEW r \in Requests, RequestStep(r) \/ Failure(r) \/ Receive(r),
         UNCHANGED answer
  PROVE  IInv'
<1> USE RetryAssumption DEF IInv, TypeOK, PlaceShape, RunShape, AnswerShape, Go,
        Checkpoints, Places, Terminalizers, Actors, Everyone, RequestPlaces,
        RunPlaces, ReaderPlaces, FailureStaysVisible, HasFailure
<1>1. CASE LockIncident(r)
  BY <1>1 DEF LockIncident, Lock, Free
<1>2. CASE LockRound(r)
  <2>1. Locked'
    BY <1>2, UnlockKeeps DEF LockRound, Locked
  <2>2. TypeOK'
    BY <1>2, <2>1 DEF LockRound, Locked
  <2>3. PlaceShape' /\ RunShape' /\ AnswerShape'
    BY <1>2 DEF LockRound
  <2> QED
    BY <2>1, <2>2, <2>3
<1>3. CASE ReadState(r)
  BY <1>3 DEF ReadState
<1>4. CASE ReadFailure(r)
  BY <1>4 DEF ReadFailure, Eligible
<1>5. CASE RequestFails(r)
  <2>1. Locked'
    BY <1>5, UnlockKeeps DEF RequestFails, Locked
  <2>2. TypeOK'
    BY <1>5, <2>1 DEF RequestFails, Suffer, Locked
  <2>3. PlaceShape' /\ RunShape' /\ AnswerShape'
    BY <1>5 DEF RequestFails, Suffer
  <2> QED
    BY <2>1, <2>2, <2>3
<1>6. CASE Receive(r)
  BY <1>6 DEF Receive
<1> QED
  BY <1>1, <1>2, <1>3, <1>4, <1>5, <1>6 DEF RequestStep, Failure

\* The victim is a request, or the run at the incident's lock.
LEMMA AbortSteps ==
  ASSUME IInv, NEW a \in Actors, AbortVictim(a), UNCHANGED answer
  PROVE  IInv'
<1> USE RetryAssumption DEF IInv, TypeOK, PlaceShape, RunShape, AnswerShape, Go,
        Checkpoints, Places, Terminalizers, Actors, Everyone, RequestPlaces,
        RunPlaces, ReaderPlaces, FailureStaysVisible, HasFailure
<1>1. CASE a \in Requests /\ Go(a, "done") /\ UNCHANGED <<thread, raised>>
  <2>1. Locked'
    BY <1>1, UnlockKeeps DEF AbortVictim, Locked
  <2>2. TypeOK'
    BY <1>1, <2>1 DEF AbortVictim, Locked
  <2>3. PlaceShape' /\ RunShape' /\ AnswerShape'
    BY <1>1 DEF AbortVictim
  <2> QED
    BY <2>1, <2>2, <2>3
<1>2. CASE a = Starter /\ NodeRaises(a)
  <2>1. pc[Starter] \in {"terminal_round", "terminal_incident"}
    BY <1>2 DEF AbortVictim, Deadlocked, Blocked, Wanted
  <2> QED
    <3>1. Locked'
      BY <1>2, <2>1, UnlockKeeps DEF AbortVictim, NodeRaises, Locked
    <3>2. TypeOK'
      BY <1>2, <2>1, <3>1 DEF AbortVictim, NodeRaises, Locked
    <3>3. PlaceShape' /\ RunShape' /\ AnswerShape'
      BY <1>2, <2>1 DEF AbortVictim, NodeRaises
    <3> QED
      BY <3>1, <3>2, <3>3
<1> QED
  BY <1>1, <1>2 DEF AbortVictim

LEMMA ReaderSteps ==
  ASSUME IInv, NEW q \in Readers, ReaderStep(q)
  PROVE  IInv'
<1> USE RetryAssumption DEF IInv, TypeOK, PlaceShape, RunShape, AnswerShape, Go,
        Checkpoints, Places, Terminalizers, Actors, Everyone, RequestPlaces,
        RunPlaces, ReaderPlaces, FailureStaysVisible, HasFailure
<1>1. CASE ReadIncident(q) /\ UNCHANGED <<thread, terminal, reported, holder, raised, history>>
  BY <1>1 DEF ReadIncident, Ended
<1>2. CASE ReadCheckpoint(q) /\ UNCHANGED <<thread, terminal, reported, holder, raised, history>>
  BY <1>2 DEF ReadCheckpoint
<1>3. CASE ReadProgressFailure(q) /\ UNCHANGED <<thread, terminal, reported, holder, raised, history>>
  BY <1>3 DEF ReadProgressFailure, Phase
<1>4. CASE OfferRetry(q) /\ UNCHANGED <<thread, terminal, reported, holder, raised, history>>
  BY <1>4 DEF OfferRetry, Eligible
<1>5. CASE ReadFails(q)
  BY <1>5 DEF ReadFails, Suffer
<1> QED
  BY <1>1, <1>2, <1>3, <1>4, <1>5 DEF ReaderStep

LEMMA Inductive == IInv /\ [Next]_vars => IInv'
<1> SUFFICES ASSUME IInv, [Next]_vars PROVE IInv'
  OBVIOUS
<1>1. CASE \E r \in Requests : Receive(r)
  BY <1>1, RequestSteps DEF Receive
<1>2. CASE \E a \in Actors : Work(a)
  BY <1>2, RunSteps, RequestSteps, AbortSteps DEF Work
<1>3. CASE \E a \in Actors : Failure(a) /\ UNCHANGED answer
  BY <1>3, RunSteps, RequestSteps, RetryAssumption DEF Failure
<1>4. CASE \E q \in Readers : ReaderStep(q)
  BY <1>4, ReaderSteps
<1>5. CASE Crash
  BY <1>5, RetryAssumption DEF Crash, Suffer, IInv, TypeOK, PlaceShape, RunShape,
     AnswerShape, Checkpoints, Places, Terminalizers, Actors, Everyone,
     RequestPlaces, RunPlaces, ReaderPlaces, FailureStaysVisible, HasFailure
<1>6. CASE UNCHANGED vars
  BY <1>6 DEF vars, IInv, TypeOK, PlaceShape, RunShape, AnswerShape,
     FailureStaysVisible, HasFailure
<1> QED
  BY <1>1, <1>2, <1>3, <1>4, <1>5, <1>6 DEF Next, Quiescent

LEMMA Invariance == Spec => []IInv
  BY InitInv, Inductive, PTL DEF Spec

-----------------------------------------------------------------------------

\* Types, and who holds a row lock, in every reachable state.
THEOREM TypeCorrect == Spec => []TypeOK
<1>1. IInv => TypeOK
  BY DEF IInv
<1> QED
  BY <1>1, Invariance, PTL

\* What a progress answer says of the round is true of it, whatever happened
\* between its reads (read_progress).
THEOREM AnswersStayTrue == Spec => []AnswersAreTrue
<1>1. IInv => AnswersAreTrue
  BY DEF IInv, AnswerShape, AnswersAreTrue
<1> QED
  BY <1>1, Invariance, PTL

\* A run that ended leaves a terminal round, a visible failed task, or one of
\* the named ways to lose it (_persist_failed_active_execution_usage).
THEOREM FailuresStayVisible == Spec => []FailureStaysVisible
<1>1. IInv => FailureStaysVisible
  BY DEF IInv, RunShape
<1> QED
  BY <1>1, Invariance, PTL

\* No retry is accepted or offered on a thread of the V2 graph (retry,
\* _retry_available).
THEOREM NoRetryEverAccepted == Spec => []NoRetryAccepted
<1>1. IInv => NoRetryAccepted
  BY DEF IInv, PlaceShape, RequestPlaces, AnswerShape, NoRetryAccepted
<1> QED
  BY <1>1, Invariance, PTL
=============================================================================
