------------------------ MODULE RoundLifecycleProofs ------------------------
(***************************************************************************)
(* Proofs about RoundLifecycle, for any number of requests and any choice  *)
(* of faults.                                                              *)
(***************************************************************************)
EXTENDS RoundLifecycle, TLAPS

(* What a session's memory may be relied on for, although other            *)
(* transactions commit behind it: a round it loaded exists, a round it saw *)
(* terminal is terminal, and what it terminalized itself is as it left it. *)
Sound(r) ==
  /\ pc[r] \in {"create", "refresh", "accept"} => view[r].round \in DOMAIN rounds
  /\ pc[r] = "create" /\ view[r].status \in Terminal
       => rounds[view[r].round] \in Terminal
  /\ pc[r] \in {"running", "terminalize", "commit", "report"}
       => view[r].run \in DOMAIN rounds
  /\ pc[r] = "report" =>
       /\ view[r].status \in Terminal
       /\ rounds[view[r].run] = view[r].status

ViewSound == \A r \in Requests : Sound(r)

(* The inductive invariant.                                                *)
IInv ==
  /\ TypeOK
  /\ ActiveIsNewest
  /\ ProjectionAgrees
  /\ ReportsMatchRounds
  /\ ViewSound

(* What every step does to the rounds, whatever its action: the newest     *)
(* non-terminal round moves, or a round is appended after a terminal one.  *)
RoundsStep ==
  \/ UNCHANGED rounds
  \/ /\ rounds[CurrentRound] \notin Terminal
     /\ \E s \in Status : rounds' = [rounds EXCEPT ![CurrentRound] = s]
  \/ /\ rounds[CurrentRound] \in Terminal
     /\ rounds' = Append(rounds, "OPEN")

-----------------------------------------------------------------------------
(* There is always a newest round, and it has a status.                    *)
LEMMA RoundsNonEmpty ==
  ASSUME TypeOK
  PROVE  /\ CurrentRound \in Nat
         /\ CurrentRound >= 1
         /\ DOMAIN rounds = 1..CurrentRound
         /\ rounds[CurrentRound] \in Status
  BY DEF TypeOK, CurrentRound

(* The first state satisfies the invariant.                                *)
LEMMA InitIInv == Init => IInv
<1> SUFFICES ASSUME Init PROVE IInv
  OBVIOUS
<1>1. TypeOK
  BY DEF Init, TypeOK, Status, Legacy, EmptyView, View, Phases, RequestPhases
<1>2. ActiveIsNewest /\ ProjectionAgrees /\ ReportsMatchRounds /\ ViewSound
  BY <1>1, RoundsNonEmpty
     DEF Init, ActiveIsNewest, ProjectionAgrees, ReportsMatchRounds, ViewSound,
         Sound, CurrentRound
<1> QED
  BY <1>1, <1>2 DEF IInv

(* Moving a request to its next phase, with or without dropping its session, *)
(* keeps pc and view well typed; so does replacing one view by another.    *)
LEMMA GotoTyped ==
  ASSUME TypeOK, NEW r \in Requests, NEW phase \in Phases, Goto(r, phase)
  PROVE  pc' \in [Requests -> Phases]
BY DEF TypeOK, Goto

(* What a request without a session sees is well typed.                    *)
LEMMA EmptyViewTyped == EmptyView \in View
BY DEF EmptyView, View, Status, Legacy

(* Ending a request drops its session and keeps the types.                 *)
LEMMA EndTyped ==
  ASSUME TypeOK, NEW r \in Requests, NEW phase \in Phases, End(r, phase)
  PROVE  /\ pc' \in [Requests -> Phases]
         /\ view' \in [Requests -> View]
BY GotoTyped, EmptyViewTyped DEF TypeOK, End

(* The names the actions use are phases.                                   *)
LEMMA PhaseNames ==
  /\ {"create", "refresh", "accept", "mark"} \subseteq Phases
  /\ {"queued", "probe", "launch", "running", "terminalize", "commit",
      "report", "reconcile", "restore"} \subseteq Phases
  /\ {"done", "rejected", "lost"} \subseteq Phases
BY DEF Phases, RequestPhases, TaskPhases, EndPhases

(* The names the actions use are statuses.                                 *)
LEMMA StatusNames ==
  /\ {"OPEN", "INVESTIGATING"} \subseteq Status
  /\ {"OPEN", "INVESTIGATING"} \subseteq Legacy
  /\ Terminal \subseteq Status
BY DEF Status, Legacy

(* Writing the newest round and its projection keeps their types.          *)
LEMMA SetCurrentTyped ==
  ASSUME TypeOK, NEW s \in Status, SetCurrent(s)
  PROVE  /\ rounds' \in Seq(Status) /\ rounds' # << >>
         /\ incident' \in [investigation : Status, legacy : Legacy]
<1>1. incident.legacy \in Legacy
  BY DEF TypeOK
<1>2. rounds' \in Seq(Status) /\ rounds' # << >>
  BY RoundsNonEmpty DEF TypeOK, SetCurrent
<1>3. incident' \in [investigation : Status, legacy : Legacy]
  BY <1>1 DEF TypeOK, SetCurrent
<1> QED
  BY <1>2, <1>3

(* Accepting a round, or refusing to, keeps the types.                     *)
LEMMA AcceptTyped ==
  ASSUME TypeOK, NEW r \in Requests, NEW seen, Accept(r, seen)
  PROVE  TypeOK'
<1>1. CASE Acceptable(r, seen) /\ SetCurrent("INVESTIGATING") /\ Goto(r, "mark")
           /\ UNCHANGED <<checkpoints, reports, view>>
  BY <1>1, SetCurrentTyped, GotoTyped, PhaseNames, StatusNames DEF TypeOK
<1>2. CASE End(r, "rejected") /\ UNCHANGED dbVars
  BY <1>2, EndTyped, PhaseNames DEF TypeOK, dbVars
<1> QED
  BY <1>1, <1>2 DEF Accept

(* Type correctness is preserved by every step, given that the views point *)
(* at existing rounds.                                                     *)
LEMMA RequestTypeOK ==
  ASSUME TypeOK, ViewSound, NEW r \in Requests, RequestStep(r)
  PROVE  TypeOK'
<1>0. view[r] \in View /\ CurrentRound \in Nat /\ rounds[CurrentRound] \in Status
  BY RoundsNonEmpty DEF TypeOK
<1>1. CASE AcceptStart(r)
  BY <1>1, AcceptTyped DEF AcceptStart
<1>2. CASE AcceptContinuation(r)
  BY <1>2, AcceptTyped DEF AcceptContinuation
<1>3. CASE ContinueRead(r)
  <2>1. [view[r] EXCEPT !.round = CurrentRound,
                        !.investigation = incident.investigation,
                        !.legacy = incident.legacy,
                        !.status = rounds[CurrentRound]] \in View
    BY <1>0 DEF TypeOK, View
  <2>2. view' \in [Requests -> View]
    BY <1>3, <2>1 DEF ContinueRead, TypeOK
  <2> QED
    BY <1>3, <2>2, GotoTyped, PhaseNames DEF ContinueRead, TypeOK, dbVars
<1>4. CASE CreateNextRound(r)
  <2>1. CASE End(r, "rejected") /\ UNCHANGED dbVars
    BY <2>1, EndTyped, PhaseNames DEF TypeOK, dbVars
  <2>2. CASE /\ rounds' = Append(rounds, "OPEN")
             /\ incident' = [investigation |-> "OPEN", legacy |-> "OPEN"]
             /\ view' = [view EXCEPT ![r] = [EmptyView EXCEPT !.round = Len(rounds) + 1]]
             /\ Goto(r, "refresh")
             /\ UNCHANGED <<checkpoints, reports>>
    <3>1. [EmptyView EXCEPT !.round = Len(rounds) + 1] \in View
      BY <1>0, EmptyViewTyped DEF View, CurrentRound
    <3>2. view' \in [Requests -> View]
      BY <2>2, <3>1 DEF TypeOK
    <3>3. rounds' \in Seq(Status) /\ rounds' # << >>
      BY <2>2, StatusNames DEF TypeOK
    <3> QED
      BY <2>2, <3>2, <3>3, GotoTyped, PhaseNames, StatusNames DEF TypeOK
  <2> QED
    BY <1>4, <2>1, <2>2 DEF CreateNextRound
<1>5. CASE RefreshRound(r)
  <2>1. rounds[view[r].round] \in Status
    BY <1>5 DEF RefreshRound, ViewSound, Sound, TypeOK
  <2>2. [view[r] EXCEPT !.status = rounds[view[r].round]] \in View
    BY <1>0, <2>1 DEF View
  <2>3. view' \in [Requests -> View]
    BY <1>5, <2>2 DEF RefreshRound, TypeOK
  <2> QED
    BY <1>5, <2>3, GotoTyped, PhaseNames DEF RefreshRound, TypeOK, dbVars
<1>6. CASE MarkInvestigating(r)
  <2>1. incident' \in [investigation : Status, legacy : Legacy]
    BY <1>6, StatusNames DEF MarkInvestigating, TypeOK
  <2> QED
    BY <1>6, <2>1, EndTyped, PhaseNames DEF MarkInvestigating, TypeOK
<1> QED
  BY <1>1, <1>2, <1>3, <1>4, <1>5, <1>6 DEF RequestStep

(* So do the steps of a background task.                                   *)
LEMMA TaskTypeOK ==
  ASSUME TypeOK, ViewSound, NEW r \in Requests, TaskStep(r)
  PROVE  TypeOK'
<1>0. view[r] \in View /\ CurrentRound \in Nat /\ rounds[CurrentRound] \in Status
  BY RoundsNonEmpty DEF TypeOK
<1> USE PhaseNames, StatusNames DEF dbVars
<1>1. CASE CheckAccepted(r)
  <2>1. [round |-> CurrentRound, investigation |-> "INVESTIGATING",
         legacy |-> incident.legacy, status |-> "INVESTIGATING", run |-> 0] \in View
    BY <1>0 DEF View, TypeOK
  <2>2. pc' \in [Requests -> Phases] /\ view' \in [Requests -> View]
    BY <1>1, <2>1, GotoTyped, EndTyped DEF CheckAccepted, TypeOK
  <2> QED
    BY <1>1, <2>2 DEF CheckAccepted, TypeOK
<1>2. CASE ProbeCheckpoint(r)
  BY <1>2, GotoTyped, EndTyped DEF ProbeCheckpoint, TypeOK
<1>3. CASE RuntimeStart(r)
  <2>1. [view[r] EXCEPT !.run = CurrentRound] \in View
    BY <1>0 DEF View
  <2>2. pc' \in [Requests -> Phases] /\ view' \in [Requests -> View]
    BY <1>3, <2>1, GotoTyped DEF RuntimeStart, TypeOK
  <2>3. checkpoints' \in SUBSET Nat
    BY <1>3, <1>0 DEF RuntimeStart, TypeOK
  <2> QED
    BY <1>3, <2>2, <2>3 DEF RuntimeStart, TypeOK
<1>4. CASE RunGraph(r)
  BY <1>4, GotoTyped, EndTyped DEF RunGraph, TypeOK
<1>5. CASE TerminalizeRead(r)
  <2>1. rounds[view[r].run] \in Status
    BY <1>5 DEF TerminalizeRead, ViewSound, Sound, TypeOK
  <2>2. [view[r] EXCEPT !.investigation = incident.investigation,
                        !.status = rounds[view[r].run]] \in View
    BY <1>0, <2>1 DEF View, TypeOK
  <2>3. view' \in [Requests -> View]
    BY <1>5, <2>2 DEF TerminalizeRead, TypeOK
  <2> QED
    BY <1>5, <2>3, GotoTyped DEF TerminalizeRead, TypeOK
<1>6. CASE TerminalizeCommit(r)
  <2>1. ASSUME NEW s \in Terminal, SetCurrent(s), Goto(r, "report"),
               view' = [view EXCEPT ![r] = [@ EXCEPT !.investigation = s, !.status = s]],
               UNCHANGED <<checkpoints, reports>>
        PROVE  TypeOK'
    <3>1. [view[r] EXCEPT !.investigation = s, !.status = s] \in View
      BY <1>0 DEF View
    <3>2. view' \in [Requests -> View]
      BY <2>1, <3>1 DEF TypeOK
    <3> QED
      BY <2>1, <3>2, GotoTyped, SetCurrentTyped DEF TypeOK
  <2>2. CASE Goto(r, "reconcile") /\ UNCHANGED <<dbVars, view>>
    BY <2>2, GotoTyped DEF TypeOK
  <2> QED
    BY <1>6, <2>1, <2>2 DEF TerminalizeCommit
<1>7. CASE GenerateReport(r)
  <2>1. view[r].status \in Terminal /\ view[r].run \in Nat
    BY <1>7, <1>0 DEF GenerateReport, ViewSound, Sound, View
  <2>2. reports' \in SUBSET [round : Nat, final : Terminal]
    BY <1>7, <2>1 DEF GenerateReport, WithReport, TypeOK
  <2>3. pc' \in [Requests -> Phases] /\ view' \in [Requests -> View]
    BY <1>7, GotoTyped, EndTyped DEF GenerateReport, TypeOK
  <2> QED
    BY <1>7, <2>2, <2>3 DEF GenerateReport, TypeOK
<1>8. CASE ReconcileProbe(r)
  BY <1>8, GotoTyped, EndTyped DEF ReconcileProbe, TypeOK
<1>9. CASE RestoreOpen(r)
  <2>1. rounds' \in Seq(Status) /\ rounds' # << >>
    BY <1>9, RoundsNonEmpty DEF RestoreOpen, TypeOK
  <2> QED
    BY <1>9, <2>1, EndTyped DEF RestoreOpen, TypeOK
<1> QED
  BY <1>1, <1>2, <1>3, <1>4, <1>5, <1>6, <1>7, <1>8, <1>9 DEF TaskStep

(* Every step keeps the types, given what the sessions rely on.            *)
LEMMA NextTypeOK == TypeOK /\ ViewSound /\ [Next]_vars => TypeOK'
<1> SUFFICES ASSUME TypeOK, ViewSound, [Next]_vars PROVE TypeOK'
  OBVIOUS
<1>1. ASSUME NEW r \in Requests, RequestStep(r) \/ TaskStep(r) PROVE TypeOK'
  BY <1>1, RequestTypeOK, TaskTypeOK
<1>2. CASE Crash
  BY <1>2 DEF Crash, TypeOK, dbVars, EmptyView, View, Status, Legacy, Phases, EndPhases
<1>3. CASE Quiescent \/ UNCHANGED vars
  BY <1>3 DEF Quiescent, vars, TypeOK
<1> QED
  BY <1>1, <1>2, <1>3 DEF Next

-----------------------------------------------------------------------------
(* Every step moves the newest unfinished round or appends one after a     *)
(* finished one: the hook stops every stale write, and create_next_round's *)
(* stale view can only err towards "terminal", where it is right.          *)
LEMMA AcceptRounds ==
  ASSUME TypeOK, NEW r \in Requests, NEW seen, Accept(r, seen)
  PROVE  RoundsStep
BY StatusNames
   DEF Accept, Acceptable, FlushAllowed, SetCurrent, RoundsStep, dbVars

(* create_next_round appends a round only behind a terminal one.           *)
LEMMA CreateRounds ==
  ASSUME TypeOK, ViewSound, NEW r \in Requests, CreateNextRound(r)
  PROVE  RoundsStep
<1>1. CASE Continuable(r) /\ rounds' = Append(rounds, "OPEN")
  <2>1. CASE view[r].round = CurrentRound
    BY <1>1, <2>1 DEF CreateNextRound, Continuable, SeenStatus, ViewSound, Sound,
             RoundsStep
  <2>2. CASE view[r].round # CurrentRound
    BY <1>1, <2>2 DEF Continuable, SeenStatus, RoundsStep
  <2> QED
    BY <2>1, <2>2
<1>2. CASE UNCHANGED dbVars
  BY <1>2 DEF dbVars, RoundsStep
<1> QED
  BY <1>1, <1>2 DEF CreateNextRound

(* Every step does to the rounds what RoundsStep allows.                   *)
LEMMA NextRoundsStep == TypeOK /\ ViewSound /\ [Next]_vars => RoundsStep
<1> SUFFICES ASSUME TypeOK, ViewSound, [Next]_vars PROVE RoundsStep
  OBVIOUS
<1>1. ASSUME NEW r \in Requests, RequestStep(r) PROVE RoundsStep
  <2>1. CASE AcceptStart(r) \/ AcceptContinuation(r)
    BY <2>1, AcceptRounds DEF AcceptStart, AcceptContinuation
  <2>2. CASE CreateNextRound(r)
    BY <2>2, CreateRounds
  <2>3. CASE ContinueRead(r) \/ RefreshRound(r) \/ MarkInvestigating(r)
    BY <2>3 DEF ContinueRead, RefreshRound, MarkInvestigating, dbVars, RoundsStep
  <2> QED
    BY <1>1, <2>1, <2>2, <2>3 DEF RequestStep
<1>2. ASSUME NEW r \in Requests, TaskStep(r) PROVE RoundsStep
  <2>1. CASE RestoreOpen(r)
    BY <2>1, StatusNames DEF RestoreOpen, Restorable, FlushAllowed, RoundsStep
  <2>2. CASE TerminalizeCommit(r)
    BY <2>2, StatusNames
       DEF TerminalizeCommit, Terminalizable, FlushAllowed, SetCurrent, RoundsStep, dbVars
  <2>3. CASE \/ CheckAccepted(r) \/ ProbeCheckpoint(r) \/ RuntimeStart(r)
             \/ RunGraph(r) \/ TerminalizeRead(r) \/ GenerateReport(r)
             \/ ReconcileProbe(r)
    BY <2>3 DEF CheckAccepted, ProbeCheckpoint, RuntimeStart, RunGraph,
                TerminalizeRead, GenerateReport, ReconcileProbe, dbVars, RoundsStep
  <2> QED
    BY <1>2, <2>1, <2>2, <2>3 DEF TaskStep
<1>3. CASE Crash \/ Quiescent \/ UNCHANGED vars
  BY <1>3 DEF Crash, Quiescent, vars, dbVars, RoundsStep
<1> QED
  BY <1>1, <1>2, <1>3 DEF Next

(* Such a step keeps every round, seals the terminal ones and leaves       *)
(* nothing unfinished behind the newest.                                   *)
LEMMA RoundsStepSeals ==
  ASSUME TypeOK, RoundsStep
  PROVE  \A n \in DOMAIN rounds :
           /\ n \in DOMAIN rounds'
           /\ rounds[n] \in Terminal => rounds'[n] = rounds[n]
<1>1. CASE UNCHANGED rounds
  BY <1>1
<1>2. ASSUME rounds[CurrentRound] \notin Terminal,
             NEW s \in Status, rounds' = [rounds EXCEPT ![CurrentRound] = s]
      PROVE  \A n \in DOMAIN rounds :
               /\ n \in DOMAIN rounds'
               /\ rounds[n] \in Terminal => rounds'[n] = rounds[n]
  BY <1>2, RoundsNonEmpty
<1>3. CASE rounds' = Append(rounds, "OPEN")
  BY <1>3, RoundsNonEmpty DEF TypeOK, CurrentRound
<1> QED
  BY <1>1, <1>2, <1>3 DEF RoundsStep

(* After such a step only the newest round can be unfinished.              *)
LEMMA RoundsStepActive ==
  ASSUME TypeOK, ActiveIsNewest, RoundsStep
  PROVE  ActiveIsNewest'
<1>1. CASE UNCHANGED rounds
  BY <1>1 DEF ActiveIsNewest, CurrentRound
<1>2. ASSUME NEW s \in Status, rounds' = [rounds EXCEPT ![CurrentRound] = s]
      PROVE  ActiveIsNewest'
  <2>1. Len(rounds') = Len(rounds)
    BY <1>2 DEF TypeOK
  <2>2. \A n \in 1..(Len(rounds) - 1) : rounds'[n] = rounds[n]
    BY <1>2 DEF TypeOK, CurrentRound
  <2> QED
    BY <2>1, <2>2 DEF ActiveIsNewest, CurrentRound
<1>3. CASE rounds[CurrentRound] \in Terminal /\ rounds' = Append(rounds, "OPEN")
  <2>1. Len(rounds') = Len(rounds) + 1
    BY <1>3 DEF TypeOK
  <2>2. \A n \in 1..Len(rounds) : rounds'[n] = rounds[n]
    BY <1>3 DEF TypeOK
  <2> QED
    BY <1>3, <2>1, <2>2, RoundsNonEmpty DEF ActiveIsNewest, CurrentRound
<1> QED
  BY <1>1, <1>2, <1>3 DEF RoundsStep

-----------------------------------------------------------------------------
(* What a session relies on survives the others' steps, because no step    *)
(* unseals or drops a round.                                               *)
LEMMA SoundKept ==
  ASSUME TypeOK, RoundsStep, NEW q \in Requests, Sound(q),
         pc'[q] = pc[q], view'[q] = view[q]
  PROVE  Sound(q)'
BY RoundsStepSeals DEF Sound

(* A request's own steps leave it with a view it can rely on.              *)
LEMMA RequestSound ==
  ASSUME TypeOK, ViewSound, RoundsStep, NEW r \in Requests, RequestStep(r)
  PROVE  Sound(r)'
<1>0. /\ view[r] \in View /\ pc \in [Requests -> Phases] /\ view \in [Requests -> View]
      /\ CurrentRound \in DOMAIN rounds
      /\ Sound(r)
  BY RoundsNonEmpty DEF TypeOK, ViewSound
<1>1. CASE End(r, "rejected") \/ End(r, "queued") \/ Goto(r, "mark")
  BY <1>0, <1>1 DEF End, Goto, Sound
<1>2. CASE ContinueRead(r)
  BY <1>0, <1>2 DEF ContinueRead, Goto, Sound, View, dbVars
<1>3. CASE CreateNextRound(r)
  <2>1. CASE Goto(r, "refresh") /\ rounds' = Append(rounds, "OPEN")
             /\ view' = [view EXCEPT ![r] = [EmptyView EXCEPT !.round = Len(rounds) + 1]]
    <3>1. view'[r].round \in DOMAIN rounds'
      BY <2>1, <1>0 DEF TypeOK, EmptyView
    <3> QED
      BY <1>0, <2>1, <3>1 DEF Goto, Sound
  <2> QED
    BY <1>1, <1>3, <2>1 DEF CreateNextRound
<1>4. CASE RefreshRound(r)
  BY <1>0, <1>4 DEF RefreshRound, Goto, Sound, View, dbVars
<1>5. CASE AcceptStart(r) \/ AcceptContinuation(r)
  BY <1>1, <1>5 DEF AcceptStart, AcceptContinuation, Accept
<1>6. CASE MarkInvestigating(r)
  BY <1>1, <1>6 DEF MarkInvestigating
<1> QED
  BY <1>2, <1>3, <1>4, <1>5, <1>6 DEF RequestStep

(* So do the steps of its background task.                                 *)
LEMMA TaskSound ==
  ASSUME TypeOK, ViewSound, RoundsStep, NEW r \in Requests, TaskStep(r)
  PROVE  Sound(r)'
<1>0. /\ view[r] \in View /\ pc \in [Requests -> Phases] /\ view \in [Requests -> View]
      /\ CurrentRound \in DOMAIN rounds
      /\ Sound(r)
  BY RoundsNonEmpty DEF TypeOK, ViewSound
<1>1. CASE End(r, "done") \/ Goto(r, "probe") \/ Goto(r, "launch")
           \/ Goto(r, "reconcile") \/ Goto(r, "restore")
  BY <1>0, <1>1 DEF End, Goto, Sound
<1>2. CASE CheckAccepted(r) \/ ProbeCheckpoint(r) \/ ReconcileProbe(r) \/ RestoreOpen(r)
  BY <1>1, <1>2 DEF CheckAccepted, ProbeCheckpoint, ReconcileProbe, RestoreOpen
<1>3. CASE RuntimeStart(r)
  <2>1. CASE Goto(r, "running")
             /\ view' = [view EXCEPT ![r] = [@ EXCEPT !.run = CurrentRound]]
             /\ UNCHANGED rounds
    BY <1>0, <2>1 DEF Goto, Sound, View
  <2> QED
    BY <1>1, <1>3, <2>1 DEF RuntimeStart
<1>4. CASE RunGraph(r)
  BY <1>0, <1>1, <1>4 DEF RunGraph, Goto, Sound, dbVars
<1>5. CASE TerminalizeRead(r)
  BY <1>0, <1>5 DEF TerminalizeRead, Goto, Sound, View, dbVars
<1>6. CASE TerminalizeCommit(r)
  <2>1. ASSUME NEW s \in Terminal, Terminalizable(r), SetCurrent(s), Goto(r, "report"),
               view' = [view EXCEPT ![r] = [@ EXCEPT !.investigation = s, !.status = s]]
        PROVE  Sound(r)'
    <3>1. view'[r].run = CurrentRound /\ view'[r].status = s
      BY <1>0, <2>1 DEF Terminalizable, View
    <3>2. DOMAIN rounds' = DOMAIN rounds /\ rounds'[CurrentRound] = s
      BY <1>0, <2>1 DEF SetCurrent, TypeOK
    <3> QED
      BY <1>0, <2>1, <3>1, <3>2 DEF Goto, Sound
  <2> QED
    BY <1>1, <1>6, <2>1 DEF TerminalizeCommit
<1>7. CASE GenerateReport(r)
  BY <1>1, <1>7 DEF GenerateReport
<1> QED
  BY <1>2, <1>3, <1>4, <1>5, <1>6, <1>7 DEF TaskStep

(* A step of one request leaves the views of the others alone.             *)
LEMMA OthersKept ==
  ASSUME TypeOK, NEW r \in Requests, RequestStep(r) \/ TaskStep(r),
         NEW q \in Requests, q # r
  PROVE  pc'[q] = pc[q] /\ view'[q] = view[q]
<1> USE DEF TypeOK, End, Goto
<1>1. CASE RequestStep(r)
  BY <1>1 DEF RequestStep, AcceptStart, AcceptContinuation, Accept, ContinueRead,
              CreateNextRound, RefreshRound, MarkInvestigating
<1>2. CASE TaskStep(r)
  BY <1>2 DEF TaskStep, CheckAccepted, ProbeCheckpoint, RuntimeStart, RunGraph,
              TerminalizeRead, TerminalizeCommit, GenerateReport, ReconcileProbe,
              RestoreOpen
<1> QED
  BY <1>1, <1>2

(* Every step leaves every session with a view it can rely on.             *)
LEMMA NextViewSound ==
  TypeOK /\ ViewSound /\ [Next]_vars => ViewSound'
<1> SUFFICES ASSUME TypeOK, ViewSound, [Next]_vars, NEW q \in Requests
             PROVE  Sound(q)'
  BY DEF ViewSound
<1>0. RoundsStep /\ Sound(q)
  BY NextRoundsStep DEF ViewSound
<1>1. ASSUME NEW r \in Requests, RequestStep(r) \/ TaskStep(r) PROVE Sound(q)'
  BY <1>0, <1>1, RequestSound, TaskSound, OthersKept, SoundKept
<1>2. CASE Crash
  <2>1. pc'[q] \in EndPhases \union {"idle"}
    BY <1>2 DEF Crash, EndPhases
  <2> QED
    BY <2>1 DEF Sound, EndPhases
<1>3. CASE Quiescent \/ UNCHANGED vars
  BY <1>0, <1>3, SoundKept DEF Quiescent, vars
<1> QED
  BY <1>1, <1>2, <1>3 DEF Next

-----------------------------------------------------------------------------
(* Each commit that touches the newest round's status touches the          *)
(* incident's projection with it.                                          *)
LEMMA SetCurrentProjects ==
  ASSUME TypeOK, NEW s \in Status, SetCurrent(s)
  PROVE  ProjectionAgrees'
<1>1. Len(rounds') = Len(rounds) /\ rounds'[CurrentRound] = s
  BY RoundsNonEmpty DEF TypeOK, SetCurrent, CurrentRound
<1>2. incident'.investigation = s
  BY DEF TypeOK, SetCurrent
<1> QED
  BY <1>1, <1>2 DEF ProjectionAgrees, CurrentRound

(* Every step keeps the projection on the incident up to date.             *)
LEMMA NextProjection == TypeOK /\ ProjectionAgrees /\ [Next]_vars => ProjectionAgrees'
<1> SUFFICES ASSUME TypeOK, ProjectionAgrees, [Next]_vars PROVE ProjectionAgrees'
  OBVIOUS
<1>0. CASE UNCHANGED <<rounds, incident>>
  BY <1>0 DEF ProjectionAgrees, CurrentRound
<1>1. ASSUME NEW r \in Requests, RequestStep(r) PROVE ProjectionAgrees'
  <2>1. CASE AcceptStart(r) \/ AcceptContinuation(r)
    BY <1>0, <2>1, SetCurrentProjects, StatusNames
       DEF AcceptStart, AcceptContinuation, Accept, dbVars
  <2>2. CASE CreateNextRound(r)
    <3>1. CASE rounds' = Append(rounds, "OPEN")
               /\ incident' = [investigation |-> "OPEN", legacy |-> "OPEN"]
      BY <3>1 DEF TypeOK, ProjectionAgrees, CurrentRound
    <3> QED
      BY <1>0, <2>2, <3>1 DEF CreateNextRound, dbVars
  <2>3. CASE MarkInvestigating(r)
    BY <2>3 DEF MarkInvestigating, ProjectionAgrees, CurrentRound, TypeOK
  <2>4. CASE ContinueRead(r) \/ RefreshRound(r)
    BY <1>0, <2>4 DEF ContinueRead, RefreshRound, dbVars
  <2> QED
    BY <1>1, <2>1, <2>2, <2>3, <2>4 DEF RequestStep
<1>2. ASSUME NEW r \in Requests, TaskStep(r) PROVE ProjectionAgrees'
  <2>1. CASE TerminalizeCommit(r)
    BY <1>0, <2>1, SetCurrentProjects, StatusNames DEF TerminalizeCommit, dbVars
  <2>2. CASE RestoreOpen(r)
    <3>1. CASE rounds' = [rounds EXCEPT ![CurrentRound] = "OPEN"]
               /\ incident' = [investigation |-> "OPEN", legacy |-> "OPEN"]
      BY <3>1, RoundsNonEmpty DEF TypeOK, ProjectionAgrees, CurrentRound
    <3> QED
      BY <1>0, <2>2, <3>1 DEF RestoreOpen
  <2>3. CASE \/ CheckAccepted(r) \/ ProbeCheckpoint(r) \/ RuntimeStart(r)
             \/ RunGraph(r) \/ TerminalizeRead(r) \/ GenerateReport(r)
             \/ ReconcileProbe(r)
    BY <1>0, <2>3 DEF CheckAccepted, ProbeCheckpoint, RuntimeStart, RunGraph,
                      TerminalizeRead, GenerateReport, ReconcileProbe, dbVars
  <2> QED
    BY <1>2, <2>1, <2>2, <2>3 DEF TaskStep
<1>3. CASE Crash \/ Quiescent \/ UNCHANGED vars
  BY <1>0, <1>3 DEF Crash, Quiescent, vars, dbVars
<1> QED
  BY <1>1, <1>2, <1>3 DEF Next

(* Only GenerateReport writes a report, and its round is sealed with the   *)
(* status it records: that is what its session last did to the round.      *)
ReportsStep ==
  \/ UNCHANGED reports
  \/ /\ UNCHANGED rounds
     /\ \E n \in DOMAIN rounds :
          /\ rounds[n] \in Terminal
          /\ \A p \in reports : p.round # n
          /\ reports' = reports \union {[round |-> n, final |-> rounds[n]]}

(* A report is only added for a round that is terminal.                    *)
LEMMA NextReportsStep == TypeOK /\ ViewSound /\ [Next]_vars => ReportsStep
<1> SUFFICES ASSUME TypeOK, ViewSound, [Next]_vars PROVE ReportsStep
  OBVIOUS
<1>1. ASSUME NEW r \in Requests, RequestStep(r) PROVE ReportsStep
  BY <1>1 DEF RequestStep, AcceptStart, AcceptContinuation, Accept, ContinueRead,
              CreateNextRound, RefreshRound, MarkInvestigating, dbVars, ReportsStep
<1>2. ASSUME NEW r \in Requests, TaskStep(r) PROVE ReportsStep
  <2>1. CASE GenerateReport(r)
    <3>1. Sound(r) /\ pc[r] = "report" /\ UNCHANGED rounds
      BY <2>1 DEF GenerateReport, ViewSound
    <3>2. /\ view[r].run \in DOMAIN rounds
          /\ rounds[view[r].run] = view[r].status
          /\ view[r].status \in Terminal
      BY <3>1 DEF Sound
    <3> QED
      BY <2>1, <3>1, <3>2 DEF GenerateReport, WithReport, ReportsStep
  <2>2. CASE \/ CheckAccepted(r) \/ ProbeCheckpoint(r) \/ RuntimeStart(r)
             \/ RunGraph(r) \/ TerminalizeRead(r) \/ TerminalizeCommit(r)
             \/ ReconcileProbe(r) \/ RestoreOpen(r)
    BY <2>2 DEF CheckAccepted, ProbeCheckpoint, RuntimeStart, RunGraph,
                TerminalizeRead, TerminalizeCommit, ReconcileProbe, RestoreOpen,
                dbVars, ReportsStep
  <2> QED
    BY <1>2, <2>1, <2>2 DEF TaskStep
<1>3. CASE Crash \/ Quiescent \/ UNCHANGED vars
  BY <1>3 DEF Crash, Quiescent, vars, dbVars, ReportsStep
<1> QED
  BY <1>1, <1>2, <1>3 DEF Next

(* So the reports keep agreeing with the rounds.                           *)
LEMMA StepsKeepReports ==
  ASSUME TypeOK, ReportsMatchRounds, RoundsStep, ReportsStep
  PROVE  ReportsMatchRounds'
<1>1. CASE UNCHANGED reports
  BY <1>1, RoundsStepSeals DEF ReportsMatchRounds, TypeOK
<1>2. ASSUME NEW n \in DOMAIN rounds, UNCHANGED rounds,
             \A p \in reports : p.round # n,
             reports' = reports \union {[round |-> n, final |-> rounds[n]]}
      PROVE  ReportsMatchRounds'
  <2>1. \A p \in reports' :
          p \in reports \/ p = [round |-> n, final |-> rounds[n]]
    BY <1>2
  <2> QED
    BY <1>2, <2>1 DEF ReportsMatchRounds
<1> QED
  BY <1>1, <1>2 DEF ReportsStep

-----------------------------------------------------------------------------
(* Every step preserves the invariant.                                     *)
LEMMA NextIInv == IInv /\ [Next]_vars => IInv'
BY NextTypeOK, NextViewSound, NextRoundsStep, RoundsStepActive, NextProjection,
   NextReportsStep, StepsKeepReports
   DEF IInv

(* The invariant holds in every reachable state.                           *)
LEMMA Inductive == Spec => []IInv
BY InitIInv, NextIInv, PTL DEF Spec

(* Every state the backend reaches is well typed: in particular the        *)
(* status columns only ever hold the five InvestigationStatus values.      *)
THEOREM TypeCorrect == Spec => []TypeOK
BY Inductive, PTL DEF IInv

(* create_next_round never leaves an unfinished round behind, however many *)
(* requests race and whatever their sessions read before the lock.         *)
THEOREM OnlyNewestActive == Spec => []ActiveIsNewest
BY Inductive, PTL DEF IInv

(* The incident's status is the newest round's after every commit.         *)
THEOREM ProjectionAlwaysAgrees == Spec => []ProjectionAgrees
BY Inductive, PTL DEF IInv

(* Reports agree with the sealed rounds they belong to, one per round.     *)
THEOREM ReportsAgree == Spec => []ReportsMatchRounds
BY Inductive, PTL DEF IInv

(* No step changes or drops a terminal round, stale sessions included.     *)
THEOREM TerminalRoundsSealed == Spec => TerminalRoundsImmutable
<1>1. IInv /\ [Next]_vars =>
        [\A n \in DOMAIN rounds :
           rounds[n] \in Terminal => n \in DOMAIN rounds' /\ rounds'[n] = rounds[n]]_vars
  BY NextRoundsStep, RoundsStepSeals DEF IInv
<1> QED
  BY <1>1, Inductive, PTL DEF Spec, TerminalRoundsImmutable

(* The lifecycle implements the append-only history of RoundHistory.       *)
THEOREM ImplementsHistory == Spec => HistorySpec
<1>1. Init => History!Init
  BY DEF Init, History!Init
<1>2. IInv /\ [Next]_vars => [History!Next]_History!histVars
  <2> SUFFICES ASSUME IInv, [Next]_vars
               PROVE  History!Next \/ UNCHANGED <<rounds, reports>>
    BY DEF History!histVars
  <2>1. RoundsStep /\ ReportsStep /\ TypeOK
    BY NextRoundsStep, NextReportsStep DEF IInv
  <2>2. CASE UNCHANGED reports
    BY <2>1, <2>2
       DEF RoundsStep, CurrentRound, Status, Terminal,
           History!Next, History!Move, History!Open, History!Newest,
           History!Status, History!Terminal
  <2>3. CASE ~UNCHANGED reports
    BY <2>1, <2>3
       DEF ReportsStep, Terminal, History!Next, History!Publish, History!Terminal
  <2> QED
    BY <2>2, <2>3
<1> QED
  BY <1>1, <1>2, Inductive, PTL DEF Spec, HistorySpec, History!Spec

-----------------------------------------------------------------------------
(***************************************************************************)
(* One task per thread, as long as no continuation has had its round       *)
(* accepted.  OnlyStarts itself comes and goes (a continuation may be      *)
(* refused when it accepts), so the argument runs under a condition that,  *)
(* once lost, stays lost.                                                  *)
(***************************************************************************)
StartsAccepted ==
  \A r \in ContinueRequests :
    pc[r] \in {"idle", "create", "refresh", "accept", "rejected"}

(* The request or task that may still change the newest round: a task that *)
(* has failed is one only while its thread has no checkpoint.              *)
Owns(r) ==
  \/ pc[r] \in {"mark", "queued", "probe", "launch", "running", "terminalize",
                "commit", "restore"}
  \/ pc[r] = "reconcile" /\ view[r].round \notin checkpoints

(* What the owner knows of the newest round and its thread.                *)
OwnerKnows(r) ==
  /\ pc[r] \in {"probe", "launch", "restore"} => view[r].round = CurrentRound
  /\ pc[r] \in {"mark", "queued", "launch", "restore"} => CurrentRound \notin checkpoints
  /\ pc[r] = "reconcile" /\ view[r].round \notin checkpoints
       => view[r].round = CurrentRound
  /\ pc[r] \in {"running", "terminalize", "commit"} => view[r].run = CurrentRound
  /\ pc[r] \in {"running", "terminalize", "commit", "report"}
       => view[r].run \in checkpoints /\ view[r].round = view[r].run

OneOwner ==
  \A r \in Requests : Owns(r) =>
    /\ rounds[CurrentRound] = "INVESTIGATING"
    /\ \A q \in Requests : Owns(q) => q = r

OneReporter ==
  \A r, q \in Requests :
    pc[r] = "report" /\ pc[q] = "report" /\ view[r].run = view[q].run => r = q

OpenUntouched == rounds[CurrentRound] = "OPEN" => CurrentRound \notin checkpoints

CheckpointsOfRounds == checkpoints \subseteq DOMAIN rounds

(* Only continuations hold a round before they accept one.                 *)
OnlyContinuationsCreate ==
  \A r \in Requests :
    pc[r] \in {"create", "refresh", "accept"} => r \in ContinueRequests

(* The invariant of the rounds that are started and not continued.         *)
Exclusive ==
  /\ OneOwner /\ OneReporter /\ OpenUntouched
  /\ \A r \in Requests : OwnerKnows(r)

SInv ==
  /\ CheckpointsOfRounds /\ OnlyContinuationsCreate
  /\ StartsAccepted => Exclusive

(* Only the newest round gets a checkpoint, so every checkpoint is of a    *)
(* round that exists.                                                      *)
LEMMA NextCheckpoints ==
  IInv /\ CheckpointsOfRounds /\ [Next]_vars => CheckpointsOfRounds'
<1> SUFFICES ASSUME IInv, CheckpointsOfRounds, [Next]_vars
             PROVE  checkpoints' \subseteq DOMAIN rounds'
  BY DEF CheckpointsOfRounds
<1>1. DOMAIN rounds \subseteq DOMAIN rounds'
  BY NextRoundsStep DEF IInv, RoundsStep, TypeOK
<1>2. checkpoints' \subseteq checkpoints \union {CurrentRound}
  BY DEF Next, RequestStep, TaskStep, Crash, Quiescent, vars, dbVars, AcceptStart,
         AcceptContinuation, Accept, ContinueRead, CreateNextRound, RefreshRound,
         MarkInvestigating, CheckAccepted, ProbeCheckpoint, RuntimeStart, RunGraph,
         TerminalizeRead, TerminalizeCommit, GenerateReport, ReconcileProbe, RestoreOpen
<1> QED
  BY <1>1, <1>2, RoundsNonEmpty DEF IInv, CheckpointsOfRounds

(* The phases of a continuation are entered by continuations.              *)
LEMMA NextContinuationPhases ==
  IInv /\ OnlyContinuationsCreate /\ [Next]_vars => OnlyContinuationsCreate'
<1> SUFFICES ASSUME IInv, OnlyContinuationsCreate, [Next]_vars, NEW r \in Requests,
                    pc'[r] \in {"create", "refresh", "accept"}
             PROVE  r \in ContinueRequests
  BY DEF OnlyContinuationsCreate
<1>0. pc \in [Requests -> Phases] /\ (pc[r] \in {"create", "refresh", "accept"}
                                        => r \in ContinueRequests)
  BY DEF OnlyContinuationsCreate, IInv, TypeOK
<1>1. CASE RequestStep(r)
  BY <1>0, <1>1 DEF RequestStep, AcceptStart, AcceptContinuation, Accept, ContinueRead,
              CreateNextRound, RefreshRound, MarkInvestigating, End, Goto
<1>2. CASE TaskStep(r)
  BY <1>0, <1>2 DEF TaskStep, CheckAccepted, ProbeCheckpoint, RuntimeStart, RunGraph,
              TerminalizeRead, TerminalizeCommit, GenerateReport, ReconcileProbe,
              RestoreOpen, End, Goto
<1>3. ASSUME NEW q \in Requests, q # r, RequestStep(q) \/ TaskStep(q)
      PROVE  pc'[r] = pc[r]
  BY <1>0, <1>3, OthersKept DEF IInv
<1>4. CASE Crash
  BY <1>0, <1>4 DEF Crash, EndPhases
<1>5. CASE Quiescent \/ UNCHANGED vars
  BY <1>0, <1>5 DEF Quiescent, vars
<1> QED
  BY <1>0, <1>1, <1>2, <1>3, <1>4, <1>5 DEF Next

(* A continuation whose round was accepted never gets back to where it     *)
(* could be taken for one that was not.                                    *)
LEMMA AcceptedForGood ==
  IInv /\ [Next]_vars /\ StartsAccepted' => StartsAccepted
<1> SUFFICES ASSUME IInv, [Next]_vars, NEW r \in ContinueRequests,
                    pc'[r] \in {"idle", "create", "refresh", "accept", "rejected"}
             PROVE  pc[r] \in {"idle", "create", "refresh", "accept", "rejected"}
  BY DEF StartsAccepted
<1>0. r \in Requests /\ pc \in [Requests -> Phases] /\ r \notin StartRequests
  BY RequestsAssumption DEF Requests, IInv, TypeOK
<1>1. CASE RequestStep(r)
  BY <1>0, <1>1 DEF RequestStep, AcceptStart, AcceptContinuation, Accept, ContinueRead,
              CreateNextRound, RefreshRound, MarkInvestigating, End, Goto
<1>2. CASE TaskStep(r)
  BY <1>0, <1>2 DEF TaskStep, CheckAccepted, ProbeCheckpoint, RuntimeStart, RunGraph,
              TerminalizeRead, TerminalizeCommit, GenerateReport, ReconcileProbe,
              RestoreOpen, End, Goto
<1>3. ASSUME NEW q \in Requests, q # r, RequestStep(q) \/ TaskStep(q)
      PROVE  pc'[r] = pc[r]
  BY <1>0, <1>3, OthersKept DEF IInv
<1>4. CASE Crash
  BY <1>0, <1>4 DEF Crash, EndPhases
<1>5. CASE Quiescent \/ UNCHANGED vars
  BY <1>5 DEF Quiescent, vars
<1> QED
  BY <1>1, <1>2, <1>3, <1>4, <1>5 DEF Next

(* What a step of r has to establish when no other request changes.        *)
LEMMA ExclusiveByOne ==
  ASSUME NEW r \in Requests, Exclusive,
         \A q \in Requests : q # r => pc'[q] = pc[q] /\ view'[q] = view[q],
         OwnerKnows(r)', OpenUntouched',
         \A q \in Requests : q # r => (Owns(q)' => Owns(q)) /\ OwnerKnows(q)',
         Owns(r)' => Owns(r) \/ rounds[CurrentRound] = "OPEN",
         \A q \in Requests : Owns(q)' => rounds'[CurrentRound'] = "INVESTIGATING",
         pc'[r] = "report" => \/ pc[r] = "report" /\ view'[r].run = view[r].run
                              \/ \A q \in Requests \ {r} :
                                   pc[q] = "report" => view[q].run # view'[r].run
  PROVE  Exclusive'
<1>1. OneOwner'
  BY DEF Exclusive, OneOwner
<1>2. OneReporter'
  BY DEF Exclusive, OneReporter
<1> QED
  BY <1>1, <1>2 DEF Exclusive

(* Requests that leave rounds, checkpoints and each other alone keep what  *)
(* they know and stay the owner, or not.                                   *)
LEMMA OwnershipKept ==
  ASSUME NEW q \in Requests, pc'[q] = pc[q], view'[q] = view[q],
         CurrentRound' = CurrentRound, checkpoints' = checkpoints, OwnerKnows(q)
  PROVE  OwnerKnows(q)' /\ (Owns(q)' => Owns(q))
BY DEF OwnerKnows, Owns

(* A request's step keeps the owner exclusive: it accepts an OPEN round,   *)
(* which nobody owns, or appends one, when the last one has no owner left. *)
LEMMA RequestExclusive ==
  ASSUME IInv, CheckpointsOfRounds, OnlyContinuationsCreate, Exclusive,
         StartsAccepted', NEW r \in Requests, RequestStep(r)
  PROVE  Exclusive'
<1>0. /\ view[r] \in View /\ pc \in [Requests -> Phases] /\ view \in [Requests -> View]
      /\ CurrentRound \in DOMAIN rounds /\ Sound(r) /\ OwnerKnows(r)
      /\ \A q \in Requests : OwnerKnows(q)
      /\ rounds \in Seq(Status)
  BY RoundsNonEmpty DEF IInv, TypeOK, ViewSound, Exclusive
<1>o. \A q \in Requests : q # r => pc'[q] = pc[q] /\ view'[q] = view[q]
  BY OthersKept DEF IInv
<1>1. ASSUME UNCHANGED dbVars, ~Owns(r)', pc'[r] # "report" PROVE Exclusive'
  <2>1. CurrentRound' = CurrentRound /\ checkpoints' = checkpoints /\ rounds' = rounds
    BY <1>1 DEF dbVars, CurrentRound
  <2>2. OwnerKnows(r)'
    BY <1>1 DEF Owns, OwnerKnows
  <2> QED
    BY <1>0, <1>o, <1>1, <2>1, <2>2, OwnershipKept, ExclusiveByOne
       DEF Exclusive, OneOwner, OpenUntouched
<1>2. CASE ContinueRead(r) \/ RefreshRound(r)
  BY <1>0, <1>1, <1>2 DEF ContinueRead, RefreshRound, Goto, Owns
<1>3. CASE End(r, "rejected") /\ UNCHANGED dbVars
  BY <1>0, <1>1, <1>3 DEF End, Goto, Owns
<1>4. ASSUME NEW seen, Acceptable(r, seen), SetCurrent("INVESTIGATING"), Goto(r, "mark"),
             UNCHANGED <<checkpoints, reports, view>>,
             rounds[CurrentRound] = "OPEN"
      PROVE  Exclusive'
  <2>1. /\ CurrentRound' = CurrentRound /\ rounds'[CurrentRound] = "INVESTIGATING"
        /\ pc'[r] = "mark"
    BY <1>0, <1>4 DEF SetCurrent, CurrentRound, Goto
  <2>2. CurrentRound \notin checkpoints
    BY <1>4 DEF Exclusive, OpenUntouched
  <2>3. OwnerKnows(r)'
    BY <1>0, <1>4, <2>1, <2>2 DEF OwnerKnows
  <2> QED
    BY <1>0, <1>o, <1>4, <2>1, <2>3, OwnershipKept, ExclusiveByOne
       DEF Exclusive, OpenUntouched
<1>5. CASE CreateNextRound(r) /\ Continuable(r)
  <2>1. rounds[CurrentRound] \in Terminal
    BY <1>0, <1>5 DEF CreateNextRound, Continuable, SeenStatus, Sound
  <2>2. /\ pc'[r] = "refresh" /\ checkpoints' = checkpoints
        /\ CurrentRound' = CurrentRound + 1 /\ rounds'[CurrentRound'] = "OPEN"
        /\ CurrentRound' \notin checkpoints
    <3>1. rounds' = Append(rounds, "OPEN") /\ Goto(r, "refresh") /\ checkpoints' = checkpoints
      BY <1>0, <1>5 DEF CreateNextRound, End, Goto, dbVars
    <3>2. Len(rounds') = Len(rounds) + 1 /\ rounds'[Len(rounds) + 1] = "OPEN"
          /\ DOMAIN rounds = 1..Len(rounds) /\ Len(rounds) \in Nat
      BY <1>0, <3>1
    <3> QED
      BY <1>0, <3>1, <3>2 DEF CurrentRound, Goto, CheckpointsOfRounds
  <2>3. \A q \in Requests : ~Owns(q)
    BY <2>1 DEF Exclusive, OneOwner, Terminal
  <2>4. \A q \in Requests : q # r => ~Owns(q)' /\ OwnerKnows(q)'
    <3> SUFFICES ASSUME NEW q \in Requests, q # r PROVE ~Owns(q)' /\ OwnerKnows(q)'
      OBVIOUS
    <3>1. OwnerKnows(q) /\ ~Owns(q) /\ pc'[q] = pc[q] /\ view'[q] = view[q]
      BY <1>0, <1>o, <2>3
    <3> QED
      BY <2>2, <3>1 DEF OwnerKnows, Owns
  <2>5. OwnerKnows(r)' /\ ~Owns(r)' /\ OpenUntouched'
    BY <2>2 DEF OwnerKnows, Owns, OpenUntouched
  <2> QED
    BY <1>o, <2>2, <2>4, <2>5, ExclusiveByOne
<1>6. CASE MarkInvestigating(r)
  <2>1. CurrentRound' = CurrentRound /\ checkpoints' = checkpoints /\ rounds' = rounds
        /\ pc[r] = "mark" /\ pc'[r] = "queued"
    BY <1>0, <1>6 DEF MarkInvestigating, End, Goto, CurrentRound
  <2>2. OwnerKnows(r)' /\ Owns(r)
    BY <1>0, <2>1 DEF OwnerKnows, Owns
  <2> QED
    BY <1>0, <1>o, <2>1, <2>2, OwnershipKept, ExclusiveByOne
       DEF Exclusive, OneOwner, OpenUntouched
<1>7. CASE AcceptStart(r)
  <2>1. rounds[CurrentRound] = "OPEN" \/ ~Acceptable(r, incident.investigation)
    BY <1>7 DEF AcceptStart, Acceptable, IInv, ProjectionAgrees
  <2> QED
    BY <1>3, <1>4, <1>7, <2>1 DEF AcceptStart, Accept
<1>8. CASE AcceptContinuation(r)
  <2>1. pc'[r] # "mark"
    BY <1>8 DEF AcceptContinuation, OnlyContinuationsCreate, StartsAccepted
  <2> QED
    BY <1>0, <1>3, <1>8, <2>1 DEF AcceptContinuation, Accept, Goto
<1> QED
  BY <1>2, <1>3, <1>5, <1>6, <1>7, <1>8 DEF RequestStep, CreateNextRound

(* A task's step keeps the owner exclusive: the owner alone starts the      *)
(* thread, hands the round back or terminalizes it.                        *)
LEMMA TaskExclusive ==
  ASSUME IInv, CheckpointsOfRounds, Exclusive, NEW r \in Requests, TaskStep(r)
  PROVE  Exclusive'
<1>0. /\ view[r] \in View /\ pc \in [Requests -> Phases] /\ view \in [Requests -> View]
      /\ CurrentRound \in DOMAIN rounds /\ Sound(r) /\ OwnerKnows(r)
      /\ \A q \in Requests : OwnerKnows(q) /\ Sound(q)
      /\ rounds \in Seq(Status)
      /\ Owns(r) => rounds[CurrentRound] = "INVESTIGATING"
                    /\ \A q \in Requests : Owns(q) => q = r
      /\ OneReporter /\ OpenUntouched
  BY RoundsNonEmpty DEF IInv, TypeOK, ViewSound, Exclusive, OneOwner
<1>o. \A q \in Requests : q # r => pc'[q] = pc[q] /\ view'[q] = view[q]
  BY OthersKept DEF IInv
<1>1. ASSUME UNCHANGED <<incident, rounds, checkpoints>>, OwnerKnows(r)',
             Owns(r)' => Owns(r), pc'[r] # "report"
      PROVE  Exclusive'
  <2>1. CurrentRound' = CurrentRound /\ checkpoints' = checkpoints /\ rounds' = rounds
    BY <1>1 DEF CurrentRound
  <2> QED
    BY <1>0, <1>o, <1>1, <2>1, OwnershipKept, ExclusiveByOne
       DEF Exclusive, OneOwner, OpenUntouched
<1>e. ASSUME End(r, "done") PROVE OwnerKnows(r)' /\ ~Owns(r)' /\ pc'[r] # "report"
  BY <1>0, <1>e DEF End, Goto, OwnerKnows, Owns
<1>2. CASE CheckAccepted(r)
  <2>1. CASE End(r, "done")
    BY <1>1, <1>2, <1>e, <2>1 DEF CheckAccepted, dbVars
  <2>2. CASE Goto(r, "probe") /\ view' = [view EXCEPT ![r] =
                      [round |-> CurrentRound, investigation |-> "INVESTIGATING",
                       legacy |-> incident.legacy, status |-> "INVESTIGATING",
                       run |-> 0]]
    <3>1. UNCHANGED dbVars /\ CurrentRound' = CurrentRound /\ pc[r] = "queued"
          /\ pc'[r] = "probe" /\ view'[r].round = CurrentRound
      BY <1>0, <1>2, <2>2 DEF CheckAccepted, Goto, dbVars, CurrentRound
    <3> QED
      BY <1>1, <3>1 DEF dbVars, OwnerKnows, Owns
  <2> QED
    BY <1>2, <2>1, <2>2 DEF CheckAccepted
<1>3. CASE ProbeCheckpoint(r)
  <2>1. CASE End(r, "done")
    BY <1>1, <1>3, <1>e, <2>1 DEF ProbeCheckpoint, dbVars
  <2>2. CASE view[r].round \notin checkpoints /\ Goto(r, "launch") /\ UNCHANGED view
    <3>1. UNCHANGED dbVars /\ CurrentRound' = CurrentRound /\ pc[r] = "probe"
          /\ pc'[r] = "launch" /\ view[r].round = CurrentRound
      BY <1>0, <1>3, <2>2 DEF ProbeCheckpoint, Goto, dbVars, CurrentRound, OwnerKnows
    <3> QED
      BY <1>1, <2>2, <3>1 DEF dbVars, OwnerKnows, Owns
  <2> QED
    BY <1>3, <2>1, <2>2 DEF ProbeCheckpoint
<1>4. CASE RuntimeStart(r)
  <2>0. /\ pc[r] = "launch" /\ view[r].round = CurrentRound /\ Owns(r)
        /\ CurrentRound \notin checkpoints
        /\ UNCHANGED <<incident, rounds, reports>> /\ CurrentRound' = CurrentRound
    BY <1>0, <1>4 DEF RuntimeStart, OwnerKnows, Owns, CurrentRound
  <2>1. CASE Goto(r, "reconcile") /\ UNCHANGED <<checkpoints, view>>
    <3>1. pc'[r] = "reconcile"
      BY <1>0, <2>1 DEF Goto
    <3> QED
      BY <1>1, <2>0, <2>1, <3>1 DEF OwnerKnows, Owns
  <2>2. CASE checkpoints' = checkpoints \union {CurrentRound} /\ Goto(r, "running")
             /\ view' = [view EXCEPT ![r] = [@ EXCEPT !.run = CurrentRound]]
    <3>1. pc'[r] = "running" /\ view'[r].run = CurrentRound
          /\ view'[r].round = CurrentRound
      BY <1>0, <2>0, <2>2 DEF Goto, View
    <3>2. OwnerKnows(r)' /\ OpenUntouched'
      BY <1>0, <2>0, <2>2, <3>1 DEF OwnerKnows, OpenUntouched
    <3>3. \A q \in Requests : q # r => ~Owns(q)' /\ OwnerKnows(q)'
      <4> SUFFICES ASSUME NEW q \in Requests, q # r PROVE ~Owns(q)' /\ OwnerKnows(q)'
        OBVIOUS
      <4>1. OwnerKnows(q) /\ ~Owns(q) /\ pc'[q] = pc[q] /\ view'[q] = view[q]
        BY <1>0, <1>o, <2>0
      <4> QED
        BY <2>0, <2>2, <4>1 DEF OwnerKnows, Owns
    <3> QED
      BY <1>0, <1>o, <2>0, <3>1, <3>2, <3>3, ExclusiveByOne
  <2> QED
    BY <1>4, <2>1, <2>2 DEF RuntimeStart
<1>5. CASE RunGraph(r)
  <2>0. pc[r] = "running" /\ UNCHANGED dbVars /\ CurrentRound' = CurrentRound
    BY <1>5 DEF RunGraph, dbVars, CurrentRound
  <2>1. CASE End(r, "done")
    BY <1>1, <1>e, <2>0, <2>1 DEF dbVars
  <2>2. ASSUME NEW phase \in {"terminalize", "reconcile"}, Goto(r, phase), UNCHANGED view
        PROVE  Exclusive'
    <3>1. pc'[r] = phase
      BY <1>0, <2>2 DEF Goto
    <3> QED
      BY <1>0, <1>1, <2>0, <2>2, <3>1 DEF dbVars, OwnerKnows, Owns
  <2> QED
    BY <1>5, <2>1, <2>2 DEF RunGraph
<1>6. CASE TerminalizeRead(r)
  <2>1. pc[r] = "terminalize" /\ pc'[r] = "commit" /\ UNCHANGED dbVars
        /\ CurrentRound' = CurrentRound
        /\ view'[r].run = view[r].run /\ view'[r].round = view[r].round
    BY <1>0, <1>6 DEF TerminalizeRead, Goto, View, dbVars, CurrentRound
  <2> QED
    BY <1>0, <1>1, <2>1 DEF dbVars, OwnerKnows, Owns
<1>7. CASE TerminalizeCommit(r)
  <2>0. pc[r] = "commit" /\ Owns(r)
    BY <1>7 DEF TerminalizeCommit, Owns
  <2>1. CASE Goto(r, "reconcile") /\ UNCHANGED <<dbVars, view>>
    <3>1. pc'[r] = "reconcile" /\ CurrentRound' = CurrentRound
      BY <1>0, <2>1 DEF Goto, dbVars, CurrentRound
    <3> QED
      BY <1>0, <1>1, <2>0, <2>1, <3>1 DEF dbVars, OwnerKnows, Owns
  <2>2. ASSUME NEW s \in Terminal, SetCurrent(s), Goto(r, "report"),
               view' = [view EXCEPT ![r] = [@ EXCEPT !.investigation = s, !.status = s]],
               checkpoints' = checkpoints
        PROVE  Exclusive'
    <3>1. /\ CurrentRound' = CurrentRound /\ rounds'[CurrentRound] = s
          /\ pc'[r] = "report" /\ view'[r].run = view[r].run
          /\ view'[r].round = view[r].round /\ view[r].run = CurrentRound
      BY <1>0, <2>0, <2>2 DEF SetCurrent, CurrentRound, Goto, View, OwnerKnows
    <3>2. OwnerKnows(r)' /\ ~Owns(r)' /\ OpenUntouched'
      BY <1>0, <2>0, <2>2, <3>1 DEF OwnerKnows, Owns, OpenUntouched, Terminal
    <3>3. \A q \in Requests \ {r} : pc[q] = "report" => view[q].run # view'[r].run
      <4>1. rounds[CurrentRound] \notin Terminal
        BY <1>0, <2>0 DEF Terminal
      <4> QED
        BY <1>0, <3>1, <4>1 DEF Sound
    <3> QED
      BY <1>0, <1>o, <2>0, <2>2, <3>1, <3>2, <3>3, OwnershipKept, ExclusiveByOne
  <2> QED
    BY <1>7, <2>1, <2>2 DEF TerminalizeCommit
<1>8. CASE GenerateReport(r)
  <2>0. pc[r] = "report" /\ UNCHANGED <<incident, rounds, checkpoints>>
        /\ CurrentRound' = CurrentRound
    BY <1>8 DEF GenerateReport, CurrentRound
  <2>1. CASE End(r, "done")
    BY <1>1, <1>e, <2>0, <2>1
  <2>2. CASE Goto(r, "reconcile") /\ UNCHANGED view
    <3>1. pc'[r] = "reconcile"
      BY <1>0, <2>2 DEF Goto
    <3> QED
      BY <1>0, <1>1, <2>0, <2>2, <3>1 DEF OwnerKnows, Owns
  <2> QED
    BY <1>8, <2>1, <2>2 DEF GenerateReport
<1>9. CASE ReconcileProbe(r)
  <2>0. pc[r] = "reconcile" /\ UNCHANGED dbVars /\ CurrentRound' = CurrentRound
    BY <1>9 DEF ReconcileProbe, dbVars, CurrentRound
  <2>1. CASE End(r, "done")
    BY <1>1, <1>e, <2>0, <2>1 DEF dbVars
  <2>2. CASE HandBack(view[r].round) /\ Goto(r, "restore") /\ UNCHANGED view
    <3>1. pc'[r] = "restore"
      BY <1>0, <2>2 DEF Goto
    <3> QED
      BY <1>0, <1>1, <2>0, <2>2, <3>1 DEF dbVars, HandBack, OwnerKnows, Owns
  <2> QED
    BY <1>9, <2>1, <2>2 DEF ReconcileProbe
<1>10. CASE RestoreOpen(r)
  <2>0. /\ pc[r] = "restore" /\ Owns(r) /\ checkpoints' = checkpoints /\ End(r, "done")
        /\ CurrentRound \notin checkpoints
    BY <1>0, <1>10 DEF RestoreOpen, Owns, OwnerKnows
  <2>1. CASE UNCHANGED <<incident, rounds>>
    BY <1>1, <1>e, <2>0, <2>1
  <2>2. CASE rounds' = [rounds EXCEPT ![CurrentRound] = "OPEN"]
    <3>1. CurrentRound' = CurrentRound
      BY <1>0, <2>2 DEF CurrentRound
    <3> QED
      BY <1>0, <1>o, <1>e, <2>0, <3>1, OwnershipKept, ExclusiveByOne DEF OpenUntouched
  <2> QED
    BY <1>10, <2>1, <2>2 DEF RestoreOpen
<1> QED
  BY <1>2, <1>3, <1>4, <1>5, <1>6, <1>7, <1>8, <1>9, <1>10 DEF TaskStep

(* A crash ends every request and task, the owner among them.              *)
LEMMA CrashExclusive ==
  ASSUME IInv, Exclusive, Crash
  PROVE  Exclusive'
<1>1. \A r \in Requests : pc'[r] \in EndPhases \union {"idle"}
  BY DEF Crash, EndPhases
<1>2. CurrentRound' = CurrentRound /\ rounds' = rounds /\ checkpoints' = checkpoints
  BY DEF Crash, dbVars, CurrentRound
<1>3. \A r \in Requests : ~Owns(r)' /\ OwnerKnows(r)' /\ pc'[r] # "report"
  BY <1>1 DEF Owns, OwnerKnows, EndPhases
<1> QED
  BY <1>2, <1>3 DEF Exclusive, OneOwner, OneReporter, OpenUntouched

(* Every step preserves the invariant.                                     *)
LEMMA NextSInv == IInv /\ SInv /\ [Next]_vars => SInv'
<1> SUFFICES ASSUME IInv, SInv, [Next]_vars, StartsAccepted' PROVE Exclusive'
  BY NextCheckpoints, NextContinuationPhases DEF SInv
<1>0. Exclusive /\ CheckpointsOfRounds /\ OnlyContinuationsCreate
  BY AcceptedForGood DEF SInv
<1>1. ASSUME NEW r \in Requests, RequestStep(r) \/ TaskStep(r) PROVE Exclusive'
  BY <1>0, <1>1, RequestExclusive, TaskExclusive
<1>2. CASE Crash
  BY <1>0, <1>2, CrashExclusive
<1>3. CASE Quiescent \/ UNCHANGED vars
  <2>1. UNCHANGED vars /\ CurrentRound' = CurrentRound
    BY <1>3 DEF Quiescent, vars, CurrentRound
  <2> QED
    BY <1>0, <2>1 DEF Exclusive, OneOwner, OneReporter, OpenUntouched, OwnerKnows,
                      Owns, vars
<1> QED
  BY <1>1, <1>2, <1>3 DEF Next

(* The invariant holds in every reachable state.                           *)
LEMMA ExclusiveInductive == Spec => []SInv
<1>1. Init => SInv
  BY DEF Init, SInv, CheckpointsOfRounds, OnlyContinuationsCreate, Exclusive, OneOwner,
         OneReporter, OpenUntouched, OwnerKnows, Owns
<1> QED
  BY <1>1, NextSInv, Inductive, PTL DEF Spec

(* Starts, restores and restarts never have two tasks on one thread, until *)
(* a continuation accepts its round (for which see the run double_accept). *)
THEOREM StartsAreExclusive == Spec => []StartsExecuteOnce
<1>1. IInv /\ SInv => StartsExecuteOnce
  <2> SUFFICES ASSUME IInv, SInv, OnlyStarts, NEW r \in Requests, NEW q \in Requests,
                      Executing(r), Executing(q), view[r].run = view[q].run
               PROVE  r = q
    BY DEF StartsExecuteOnce, SingleExecution
  <2>0. Exclusive
    BY DEF SInv, StartsAccepted, OnlyStarts
  <2>1. CASE Owns(r) /\ Owns(q)
    BY <2>0, <2>1 DEF Exclusive, OneOwner
  <2>2. CASE pc[r] = "report" /\ pc[q] = "report"
    BY <2>0, <2>2 DEF Exclusive, OneReporter
  <2>3. ASSUME NEW p \in Requests, Owns(p), pc[p] \in {"running", "terminalize", "commit"},
               NEW n \in Requests, pc[n] = "report"
        PROVE  view[p].run # view[n].run
    <3>1. rounds[view[p].run] = "INVESTIGATING"
      BY <2>0, <2>3 DEF Exclusive, OneOwner, OwnerKnows
    <3>2. rounds[view[n].run] \in Terminal
      BY <2>3 DEF IInv, ViewSound, Sound
    <3> QED
      BY <3>1, <3>2 DEF Terminal
  <2> QED
    BY <2>1, <2>2, <2>3 DEF Executing, Owns
<1> QED
  BY <1>1, Inductive, ExclusiveInductive, PTL

(* A round that is OPEN can be started, under the same condition: no        *)
(* restore leaves it OPEN with a checkpoint execute_accepted_start refuses. *)
THEOREM OpenRoundsStartable == Spec => []OpenRoundStartable
<1>1. SInv => OpenRoundStartable
  BY DEF SInv, Exclusive, OpenUntouched, OpenRoundStartable, OnlyStarts, StartsAccepted
<1> QED
  BY <1>1, ExclusiveInductive, PTL
=============================================================================
