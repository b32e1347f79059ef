--------------------------- MODULE RemediationProofs ---------------------------
(***************************************************************************)
(* Proofs about Remediation, for any number of approval requests and of    *)
(* customers, any interventions and any faults.                            *)
(***************************************************************************)
EXTENDS Remediation, TLAPS

Phases == Nodes \union Steps \union EndPhases \union {"idle"}

(* The nodes up to the one that makes the Action; a checkpoint is past     *)
(* them when it does not lead to one.                                      *)
Early   == Investigating \union {"policy_gate"}
Past(s) == s.next \notin Early

(* Where the workflow's own run never is.                                  *)
OnlyRequests == {"idle", "insert", "resume", "approval_decision", "decide"}

(* The places a run goes to knowing nothing special.                       *)
PlainPhases == (Steps \union EndPhases) \ {"mark", "query", "rollback", "decide"}

(* A request at work: it has found a decision, or a thread that waits.     *)
Working(r) == pc[r] \in (Nodes \union Steps)

-----------------------------------------------------------------------------
(* What the memory of the runs amounts to, without the rows.               *)
MemoryTyped ==
  /\ thread \in GraphState
  /\ unsaved \in [Runs -> Seq(GraphState)]
  /\ pc \in [Runs -> Phases]
  /\ view \in [Runs -> View]

RowsTyped ==
  /\ incident \in IncidentStatus
  /\ action \in Action
  /\ approval \in Decision \union {"none"}
  /\ verification \in Verdict \union {"none"}
  /\ report \in Report

(* They are all of TypeOK but its counters.                                *)
LEMMA TypeParts ==
  TypeOK <=> /\ LabTypeOK /\ RowsTyped /\ MemoryTyped
             /\ overlapped \in BOOLEAN /\ disturbed \in 0..MaxDisturbances
BY DEF TypeOK, RowsTyped, MemoryTyped, Phases

(* The same of the next state.                                             *)
LEMMA TypePartsNext ==
  TypeOK' <=> /\ LabTypeOK' /\ RowsTyped' /\ MemoryTyped'
              /\ overlapped' \in BOOLEAN /\ disturbed' \in 0..MaxDisturbances
BY DEF TypeOK, RowsTyped, MemoryTyped, Phases

(* A fresh view of a graph state is a view.                                *)
LEMMA BlankTyped ==
  /\ NewState \in GraphState
  /\ \A s \in GraphState : Blank(s) \in View /\ Blank(s).state = s
BY DEF Blank, View, NewState, GraphState, Stages, Nodes, Investigating, IncidentStatus,
       ActionStatus

(* What a returning node leaves in memory.                                 *)
LEMMA ReturnEffect ==
  ASSUME MemoryTyped, NEW a \in Runs, NEW s \in GraphState, Return(a, s),
         UNCHANGED thread
  PROVE  /\ MemoryTyped'
         /\ view'[a].state = s
         /\ pc'[a] = IF s.next = "end" THEN "settle" ELSE s.next
         /\ unsaved'[a] = Append(unsaved[a], s)
         /\ \A b \in Runs \ {a} :
              view'[b] = view[b] /\ pc'[b] = pc[b] /\ unsaved'[b] = unsaved[b]
<1>1. Blank(s) \in View /\ Blank(s).state = s
  BY BlankTyped
<1>2. (IF s.next = "end" THEN "settle" ELSE s.next) \in Phases
  BY DEF GraphState, Phases, Steps
<1> QED
  BY <1>1, <1>2 DEF Return, Goto, MemoryTyped

(* What a raising node leaves in memory.                                   *)
LEMMA RaiseEffect ==
  ASSUME MemoryTyped, NEW a \in Runs, NEW p \in EndPhases, Raise(a, p)
  PROVE  /\ MemoryTyped'
         /\ view'[a].state = NewState /\ pc'[a] = p /\ unsaved'[a] = << >>
         /\ \/ unsaved[a] = << >> /\ thread' = thread
            \/ \E k \in 1..Len(unsaved[a]) :
                 thread' = unsaved[a][k] /\ k = Len(unsaved[a])
         /\ \A b \in Runs \ {a} :
              view'[b] = view[b] /\ pc'[b] = pc[b] /\ unsaved'[b] = unsaved[b]
<1>1. Blank(NewState) \in View /\ Blank(NewState).state = NewState
  BY BlankTyped
<1>2. CASE unsaved[a] = << >>
  BY <1>1, <1>2 DEF Raise, Goto, MemoryTyped, Phases
<1>3. CASE unsaved[a] # << >>
  <2>1. unsaved[a] \in Seq(GraphState)
    BY DEF MemoryTyped
  <2>2. Len(unsaved[a]) \in 1..Len(unsaved[a])
    BY <1>3, <2>1
  <2>3. thread' = unsaved[a][Len(unsaved[a])] /\ thread' \in GraphState
    BY <1>3, <2>1, <2>2 DEF Raise
  <2> QED
    BY <1>1, <2>2, <2>3 DEF Raise, Goto, MemoryTyped, Phases
<1> QED
  BY <1>2, <1>3

(* What a step inside a node leaves in memory.                             *)
LEMMA MoveEffect ==
  ASSUME MemoryTyped, NEW a \in Runs, NEW p \in Phases, Goto(a, p),
         UNCHANGED <<thread, unsaved>>,
         NEW v, view' = view \/ (v \in View /\ view' = [view EXCEPT ![a] = v])
  PROVE  /\ MemoryTyped' /\ pc'[a] = p
         /\ \A b \in Runs \ {a} :
              view'[b] = view[b] /\ pc'[b] = pc[b] /\ unsaved'[b] = unsaved[b]
BY DEF Goto, MemoryTyped

-----------------------------------------------------------------------------
(* What a graph state claims, the rows hold: its node committed them first. *)
Backed(s) ==
  /\ s.approval # "none" => approval = s.approval /\ action.status # "PENDING_APPROVAL"
  /\ s.execution \in Performed => action.executed
  /\ s.verified \in Verdict => verification = s.verified
  /\ s.next = "end" /\ s.stage # "investigation" => report.final # "none"
  /\ s.next = "recovery_verification" => s.execution \in Performed /\ approval = "APPROVED"
  /\ s.stage = "waiting_approval" => Past(s)

(* The state a run works on; only the outcome of an execution is known to   *)
(* it before the rows say so.                                              *)
StepSound(a) ==
  /\ pc[a] # "mark" => Backed(view[a].state)
  /\ pc[a] = "mark" => /\ view[a].state.execution \in Performed
                      /\ Backed([view[a].state EXCEPT !.execution = "none"])
  /\ pc[a] \in Nodes => view[a].state.next = pc[a]
  /\ pc[a] \in {"query", "rollback", "mark"} =>
       approval = "APPROVED" /\ view[a].state.next = "controlled_action_execution"
  /\ pc[a] = "decide" /\ view[a].status # "PENDING_APPROVAL" =>
       action.status # "PENDING_APPROVAL"

Held(a) == \A k \in 1..Len(unsaved[a]) : Backed(unsaved[a][k])

(* The workflow's own run passes the gate once: what it still has to save  *)
(* is in order, and as long as it is early, nobody else can be at work.    *)
WorkflowSound ==
  LET held == unsaved[Workflow] IN
  /\ Past(thread) => \A k \in 1..Len(held) : Past(held[k])
  /\ \A j, k \in 1..Len(held) : j < k /\ Past(held[j]) => Past(held[k])
  /\ pc[Workflow] \in Early =>
       /\ ~Past(thread) /\ \A k \in 1..Len(held) : ~Past(held[k])
       /\ view[Workflow].state.stage = "investigation"
  /\ pc[Workflow] \notin OnlyRequests

RequestSound(r) ==
  /\ pc[r] \notin Early
  /\ \A k \in 1..Len(unsaved[r]) : Past(unsaved[r][k])
  /\ Working(r) \/ unsaved[r] # << >> => Past(thread)

MemorySound ==
  /\ \A a \in Runs : StepSound(a) /\ Held(a)
  /\ Backed(thread)
  /\ WorkflowSound
  /\ \A r \in Requests : RequestSound(r)
  /\ approval # "none" => Past(thread)

(* A rollback undoes a deployment: only Healthy is ever its target, and    *)
(* only an approval sends one to the service.                              *)
LabSound ==
  /\ lab.rollbacks <= lab.deploys
  /\ lab.version = Faulty => lab.rollbacks < lab.deploys
  /\ lab.rollbacks = 0 /\ lab.version = Healthy => lab.previous = "none"
  /\ lab.rollbacks # 0 => approval = "APPROVED"
  /\ action.target = Healthy
  /\ \A r \in Requests : serving[r] = "deployment" => approval = "APPROVED"

(* The inductive invariant.                                                *)
IInv == TypeOK /\ MemorySound /\ LabSound

(* The rows only grow, for who is past the gate.                           *)
RowsGrow ==
  /\ approval # "none" => approval' = approval
  /\ Past(thread) /\ action.status # "PENDING_APPROVAL" => action'.status # "PENDING_APPROVAL"
  /\ action.executed => action'.executed
  /\ verification # "none" => verification' = verification
  /\ report.final # "none" => report'.final # "none"

-----------------------------------------------------------------------------
(* What a state claims stays true.                                         *)
LEMMA BackedKept ==
  ASSUME IInv, RowsGrow, NEW s, Backed(s)
  PROVE  Backed(s)'
<1>1. s.approval # "none" => Past(thread)
  BY DEF Backed, IInv, MemorySound
<1> QED
  BY <1>1 DEF Backed, RowsGrow, Past, Verdict

(* A run that does nothing is not disturbed.                               *)
LEMMA RunKept ==
  ASSUME IInv, RowsGrow, NEW a \in Runs,
         view'[a] = view[a], pc'[a] = pc[a], unsaved'[a] = unsaved[a]
  PROVE  StepSound(a)' /\ Held(a)'
<1>1. StepSound(a) /\ Held(a)
  BY DEF IInv, MemorySound
<1>2. pc[a] = "decide" => Past(thread)
  BY DEF IInv, MemorySound, WorkflowSound, RequestSound, Working, Steps, Runs, OnlyRequests
<1>3. Held(a)'
  BY <1>1, BackedKept DEF Held
<1>4. pc[a] # "mark" => Backed(view[a].state)'
  <2> SUFFICES ASSUME pc[a] # "mark" PROVE Backed(view[a].state)'
    OBVIOUS
  <2> PICK s : s = view[a].state
    OBVIOUS
  <2>1. Backed(s)'
    BY <1>1, BackedKept DEF StepSound
  <2> QED
    BY <2>1 DEF Backed, Past
<1>5. pc[a] = "mark" => Backed([view[a].state EXCEPT !.execution = "none"])'
  <2> SUFFICES ASSUME pc[a] = "mark"
               PROVE  Backed([view[a].state EXCEPT !.execution = "none"])'
    OBVIOUS
  <2> PICK s : s = [view[a].state EXCEPT !.execution = "none"]
    OBVIOUS
  <2>1. Backed(s)'
    BY <1>1, BackedKept DEF StepSound
  <2> QED
    BY <2>1 DEF Backed, Past
<1>6. StepSound(a)'
  BY <1>1, <1>2, <1>4, <1>5 DEF StepSound, RowsGrow
<1> QED
  BY <1>3, <1>6

(* A returning node preserves what is known of the memory.                 *)
LEMMA ReturnSound ==
  ASSUME IInv, RowsGrow, UNCHANGED <<thread, approval>>,
         NEW a \in Runs, NEW s \in GraphState, Return(a, s), Backed(s)', Working(a),
         a = Workflow => s.next # "approval_decision",
         Past(s) \/ (a = Workflow /\ pc[a] \in Early /\ s.stage = "investigation")
  PROVE  MemorySound'
<1>1. /\ MemoryTyped /\ MemoryTyped'
      /\ view'[a].state = s
      /\ pc'[a] = IF s.next = "end" THEN "settle" ELSE s.next
      /\ unsaved'[a] = Append(unsaved[a], s)
      /\ \A b \in Runs \ {a} :
           view'[b] = view[b] /\ pc'[b] = pc[b] /\ unsaved'[b] = unsaved[b]
  BY ReturnEffect, TypeParts DEF IInv
<1>2. unsaved[a] \in Seq(GraphState)
  BY <1>1 DEF MemoryTyped
<1>3. /\ Len(unsaved'[a]) = Len(unsaved[a]) + 1 /\ Len(unsaved[a]) \in Nat
      /\ unsaved'[a][Len(unsaved[a]) + 1] = s
      /\ \A k \in 1..Len(unsaved[a]) : unsaved'[a][k] = unsaved[a][k]
  BY <1>1, <1>2
<1>4. pc'[a] \in Nodes \union {"settle"} /\ s.next \in Nodes \union {"end"} /\ "end" \notin Nodes
  BY <1>1 DEF GraphState, Nodes, Investigating
<1>5. StepSound(a)'
  <2>1. pc'[a] \notin {"mark", "query", "rollback", "decide"} /\ "settle" \notin Nodes
    BY <1>4 DEF Nodes, Investigating
  <2>2. Backed(view[a].state)'
    BY <1>1 DEF Backed, Past
  <2> QED
    BY <1>1, <1>4, <2>1, <2>2 DEF StepSound
<1>6. Held(a)'
  <2> SUFFICES ASSUME NEW k \in 1..Len(unsaved'[a]) PROVE Backed(unsaved[a][k])'
    BY DEF Held
  <2> PICK t : t = unsaved'[a][k]
    OBVIOUS
  <2>1. CASE k = Len(unsaved[a]) + 1
    BY <1>3, <2>1 DEF Backed, Past
  <2>2. CASE k # Len(unsaved[a]) + 1
    <3>1. k \in 1..Len(unsaved[a]) /\ t = unsaved[a][k]
      BY <1>3, <2>2
    <3>2. Backed(t)'
      BY <3>1, BackedKept DEF IInv, MemorySound, Held
    <3> QED
      BY <3>2 DEF Backed, Past
  <2> QED
    BY <2>1, <2>2
<1>7. \A b \in Runs : StepSound(b)' /\ Held(b)'
  BY <1>1, <1>5, <1>6, RunKept
<1>8. Backed(thread)'
  <2> PICK t : t = thread
    OBVIOUS
  <2>1. Backed(t)'
    BY BackedKept DEF IInv, MemorySound
  <2> QED
    BY <2>1 DEF Backed, Past
<1>9. WorkflowSound'
  <2>1. CASE a # Workflow
    BY <1>1, <2>1 DEF IInv, MemorySound, WorkflowSound, Past, Runs
  <2>2. CASE a = Workflow
    <3>1. pc'[a] \in Early <=> ~Past(s)
      BY <1>1, <1>4 DEF Past, Early, Investigating
    <3>2. pc'[a] \notin OnlyRequests
      BY <1>1, <1>4, <2>2 DEF Nodes, Investigating, OnlyRequests
    <3>3. WorkflowSound
      BY DEF IInv, MemorySound
    <3> DEFINE old == unsaved[a]
               new == unsaved'[a]
    <3>4. /\ Past(thread) => \A k \in 1..Len(old) : Past(old[k])
          /\ \A j, k \in 1..Len(old) : j < k /\ Past(old[j]) => Past(old[k])
          /\ ~Past(s) => ~Past(thread) /\ \A k \in 1..Len(old) : ~Past(old[k])
      BY <2>2, <3>3 DEF WorkflowSound
    <3>5. \A k \in 1..Len(new) : IF k \in 1..Len(old) THEN new[k] = old[k] ELSE new[k] = s
      BY <1>3
    <3>6. Past(thread) => \A k \in 1..Len(new) : Past(new[k])
      BY <3>4, <3>5
    <3>7. \A j, k \in 1..Len(new) : j < k /\ Past(new[j]) => Past(new[k])
      BY <1>3, <3>4, <3>5
    <3>8. ~Past(s) => /\ ~Past(thread) /\ \A k \in 1..Len(new) : ~Past(new[k])
                     /\ s.stage = "investigation"
      BY <3>4, <3>5
    <3> HIDE DEF old, new
    <3> QED
      BY <1>1, <2>2, <3>1, <3>2, <3>6, <3>7, <3>8 DEF WorkflowSound, Past, new
  <2> QED
    BY <2>1, <2>2
<1>10. ASSUME NEW r \in Requests
       PROVE  RequestSound(r)'
  <2>1. CASE r # a
    BY <1>1, <2>1 DEF IInv, MemorySound, RequestSound, Working, Past, Runs
  <2>2. CASE r = a
    <3>1. Past(s) /\ Past(thread)
      BY <2>2, RemediationAssumption DEF IInv, MemorySound, RequestSound
    <3>2. pc'[r] \notin Early
      BY <1>1, <2>2, <3>1 DEF Past, Early, Investigating
    <3>3. \A k \in 1..Len(unsaved'[r]) : Past(unsaved'[r][k])
      BY <1>3, <2>2, <3>1 DEF IInv, MemorySound, RequestSound
    <3> QED
      BY <3>1, <3>2, <3>3 DEF RequestSound, Past
  <2> QED
    BY <2>1, <2>2
<1> QED
  BY <1>7, <1>8, <1>9, <1>10 DEF IInv, MemorySound, Past

(* So does a raising node, whose checkpoints are stored at once.           *)
LEMMA RaiseSound ==
  ASSUME IInv, RowsGrow, approval' = approval,
         NEW a \in Runs, NEW p \in {"refused", "unavailable", "lost"}, Raise(a, p)
  PROVE  MemorySound'
<1>1. /\ MemoryTyped /\ MemoryTyped'
      /\ view'[a].state = NewState /\ pc'[a] = p /\ unsaved'[a] = << >>
      /\ \/ unsaved[a] = << >> /\ thread' = thread
         \/ \E k \in 1..Len(unsaved[a]) :
              thread' = unsaved[a][k] /\ k = Len(unsaved[a])
      /\ \A b \in Runs \ {a} :
           view'[b] = view[b] /\ pc'[b] = pc[b] /\ unsaved'[b] = unsaved[b]
  BY RaiseEffect, TypeParts DEF IInv, EndPhases
<1>2. p \notin Nodes \union Steps /\ p \notin Early
      /\ p \notin {"mark", "query", "rollback", "decide", "approval_decision"}
  BY DEF Nodes, Steps, Early, Investigating
<1>3. Backed(NewState)'
  BY DEF NewState, Backed, Performed, Verdict
<1>4. StepSound(a)' /\ Held(a)'
  <2>1. Backed(view[a].state)'
    BY <1>1, <1>3 DEF Backed, Past
  <2> QED
    BY <1>1, <1>2, <2>1 DEF StepSound, Held
<1>5. \A b \in Runs : StepSound(b)' /\ Held(b)'
  BY <1>1, <1>4, RunKept
<1>6. PICK t : t = thread'
  OBVIOUS
<1>7. Backed(t)
  BY <1>1, <1>6 DEF IInv, MemorySound, Held
<1>8. Backed(thread)'
  <2>1. Backed(t)'
    BY <1>7, BackedKept
  <2> QED
    BY <1>6, <2>1 DEF Backed, Past
<1>9. Past(thread) => Past(t)
  BY <1>1, <1>6, RemediationAssumption DEF IInv, MemorySound, WorkflowSound, RequestSound, Runs
<1>10. a # Workflow /\ Past(t) => Past(thread)
  BY <1>1, <1>6 DEF IInv, MemorySound, RequestSound, Runs
<1>11. WorkflowSound'
  <2>1. CASE a # Workflow
    BY <1>1, <1>6, <1>9, <1>10, <2>1 DEF IInv, MemorySound, WorkflowSound, Past, Runs
  <2>2. CASE a = Workflow
    BY <1>1, <1>2, <2>2 DEF WorkflowSound, OnlyRequests
  <2> QED
    BY <2>1, <2>2
<1>12. ASSUME NEW r \in Requests
       PROVE  RequestSound(r)'
  <2>1. CASE r # a
    BY <1>1, <1>6, <1>9, <2>1 DEF IInv, MemorySound, RequestSound, Working, Past, Runs
  <2>2. CASE r = a
    BY <1>1, <1>2, <2>2 DEF RequestSound, Working
  <2> QED
    BY <2>1, <2>2
<1>13. approval' # "none" => Past(thread)'
  BY <1>6, <1>9 DEF IInv, MemorySound, Past
<1> QED
  BY <1>5, <1>8, <1>11, <1>12, <1>13 DEF MemorySound

(* So does a step inside a node.                                           *)
LEMMA MoveSound ==
  ASSUME IInv, RowsGrow, UNCHANGED <<thread, unsaved>>,
         NEW a \in Runs, NEW p \in Phases \ Early, Goto(a, p), 
         NEW v, view' = view \/ (v \in View /\ view' = [view EXCEPT ![a] = v]),
         StepSound(a)',
         a = Workflow => p \notin OnlyRequests,
         a \in Requests /\ p \in Nodes \union Steps => Past(thread),
         approval' # "none" => Past(thread)
  PROVE  MemorySound'
<1>1. /\ MemoryTyped' /\ pc'[a] = p
      /\ \A b \in Runs \ {a} :
           view'[b] = view[b] /\ pc'[b] = pc[b] /\ unsaved'[b] = unsaved[b]
  BY MoveEffect, TypeParts DEF IInv
<1>2. Held(a)'
  <2> SUFFICES ASSUME NEW k \in 1..Len(unsaved[a]) PROVE Backed(unsaved[a][k])'
    BY DEF Held
  <2> PICK t : t = unsaved[a][k]
    OBVIOUS
  <2>1. Backed(t)'
    BY BackedKept DEF IInv, MemorySound, Held
  <2> QED
    BY <2>1 DEF Backed, Past
<1>3. \A b \in Runs : StepSound(b)' /\ Held(b)'
  BY <1>1, <1>2, RunKept
<1>4. Backed(thread)'
  <2> PICK t : t = thread
    OBVIOUS
  <2>1. Backed(t)'
    BY BackedKept DEF IInv, MemorySound
  <2> QED
    BY <2>1 DEF Backed, Past
<1>5. WorkflowSound'
  BY <1>1 DEF IInv, MemorySound, WorkflowSound, Past, Runs
<1>6. \A r \in Requests : RequestSound(r)'
  BY <1>1 DEF IInv, MemorySound, RequestSound, Working, Past, Runs
<1> QED
  BY <1>3, <1>4, <1>5, <1>6 DEF MemorySound, Past

(* So does a step that changes no run.                                     *)
LEMMA IdleSound ==
  ASSUME IInv, RowsGrow, UNCHANGED <<thread, unsaved, pc, view, approval>>
  PROVE  MemorySound'
<1>1. \A b \in Runs : StepSound(b)' /\ Held(b)'
  BY RunKept
<1>2. Backed(thread)'
  <2> PICK t : t = thread
    OBVIOUS
  <2>1. Backed(t)'
    BY BackedKept DEF IInv, MemorySound
  <2> QED
    BY <2>1 DEF Backed, Past
<1> QED
  BY <1>1, <1>2 DEF IInv, MemorySound, WorkflowSound, RequestSound, Working, Past

(* Storing a run's next checkpoint keeps the order of the workflow's own.  *)
LEMMA SaveSound ==
  ASSUME IInv, NEW a \in Runs, SaveCheckpoint(a)
  PROVE  MemorySound' /\ MemoryTyped'
<1>1. /\ unsaved[a] # << >> /\ thread' = Head(unsaved[a])
      /\ unsaved' = [unsaved EXCEPT ![a] = Tail(@)]
      /\ UNCHANGED <<rowVars, pc, view>>
  BY DEF SaveCheckpoint
<1>2. MemoryTyped /\ unsaved[a] \in Seq(GraphState)
  BY TypeParts DEF IInv, MemoryTyped
<1>3. /\ Len(unsaved[a]) \in Nat /\ Len(unsaved[a]) >= 1
      /\ thread' = unsaved[a][1] /\ thread' \in GraphState
      /\ Tail(unsaved[a]) \in Seq(GraphState)
      /\ Len(Tail(unsaved[a])) = Len(unsaved[a]) - 1
      /\ \A k \in 1..Len(Tail(unsaved[a])) : Tail(unsaved[a])[k] = unsaved[a][k + 1]
  BY <1>1, <1>2
<1>4. unsaved'[a] = Tail(unsaved[a]) /\ \A b \in Runs \ {a} : unsaved'[b] = unsaved[b]
  BY <1>1, <1>2 DEF MemoryTyped
<1>5. \A k \in 1..Len(unsaved'[a]) :
        k + 1 \in 1..Len(unsaved[a]) /\ unsaved'[a][k] = unsaved[a][k + 1]
  BY <1>3, <1>4
<1>6. MemoryTyped'
  BY <1>1, <1>2, <1>3 DEF MemoryTyped
<1>7. RowsGrow
  BY <1>1 DEF rowVars, RowsGrow
<1> PICK t : t = thread'
  OBVIOUS
<1>8. Backed(t)
  BY <1>3 DEF IInv, MemorySound, Held
<1>9. Backed(thread)'
  <2>1. Backed(t)'
    BY <1>7, <1>8, BackedKept
  <2> QED
    BY <2>1 DEF Backed, Past
<1>10. \A b \in Runs : StepSound(b)'
  BY <1>1 DEF IInv, MemorySound, StepSound, Backed, Past, rowVars
<1>11. ASSUME NEW b \in Runs
       PROVE  Held(b)'
  <2> SUFFICES ASSUME NEW k \in 1..Len(unsaved'[b]) PROVE Backed(unsaved[b][k])'
    BY DEF Held
  <2> PICK u : u = unsaved'[b][k]
    OBVIOUS
  <2>1. Backed(u)
    <3>1. CASE b = a
      <4>1. k + 1 \in 1..Len(unsaved[a]) /\ u = unsaved[a][k + 1]
        BY <1>5, <3>1
      <4> QED
        BY <4>1 DEF IInv, MemorySound, Held
    <3>2. CASE b # a
      BY <1>4, <3>2 DEF IInv, MemorySound, Held
    <3> QED
      BY <3>1, <3>2
  <2>2. Backed(u)'
    BY <1>7, <2>1, BackedKept
  <2> QED
    BY <2>2 DEF Backed, Past
<1>12. Past(thread) => Past(t)
  BY <1>3 DEF IInv, MemorySound, WorkflowSound, RequestSound, Runs
<1>13. a # Workflow => Past(thread) /\ Past(t)
  BY <1>1, <1>3 DEF IInv, MemorySound, RequestSound, Runs
<1>14. WorkflowSound'
  <2>1. CASE a # Workflow
    BY <1>1, <1>4, <1>12, <1>13, <2>1 DEF IInv, MemorySound, WorkflowSound, Past, Runs
  <2>2. CASE a = Workflow
    <3> DEFINE old == unsaved[a]
               new == unsaved'[a]
    <3>1. /\ \A j, k \in 1..Len(old) : j < k /\ Past(old[j]) => Past(old[k])
          /\ pc[a] \in Early =>
               /\ \A k \in 1..Len(old) : ~Past(old[k])
               /\ view[a].state.stage = "investigation"
      BY <2>2 DEF IInv, MemorySound, WorkflowSound
    <3>2. \A k \in 1..Len(new) : k + 1 \in 1..Len(old) /\ new[k] = old[k + 1]
      BY <1>5
    <3>3. t = old[1] /\ 1 \in 1..Len(old) /\ Len(new) \in Nat
      BY <1>3, <1>4
    <3>4. Past(t) => \A k \in 1..Len(new) : Past(new[k])
      <4> SUFFICES ASSUME Past(t), NEW k \in 1..Len(new) PROVE Past(new[k])
        OBVIOUS
      <4>1. 1 < k + 1
        BY <3>3
      <4> QED
        BY <3>1, <3>2, <3>3, <4>1
    <3>5. \A j, k \in 1..Len(new) : j < k /\ Past(new[j]) => Past(new[k])
      BY <3>1, <3>2, <3>3
    <3>6. pc[a] \in Early => ~Past(t) /\ \A k \in 1..Len(new) : ~Past(new[k])
      BY <3>1, <3>2, <3>3
    <3>7. pc[a] \notin OnlyRequests
      BY <2>2 DEF IInv, MemorySound, WorkflowSound
    <3> HIDE DEF old, new
    <3> QED
      BY <1>1, <2>2, <3>1, <3>4, <3>5, <3>6, <3>7 DEF WorkflowSound, Past, new
  <2> QED
    BY <2>1, <2>2
<1>15. ASSUME NEW r \in Requests
       PROVE  RequestSound(r)'
  <2>1. RequestSound(r)
    BY DEF IInv, MemorySound
  <2>2. Working(r)' \/ unsaved'[r] # << >> => Past(t)
    <3>1. CASE r = a
      BY <1>13, <3>1, RemediationAssumption
    <3>2. CASE r # a
      BY <1>1, <1>4, <1>12, <2>1, <3>2 DEF RequestSound, Working, Runs
    <3> QED
      BY <3>1, <3>2
  <2>3. \A k \in 1..Len(unsaved'[r]) : Past(unsaved'[r][k])
    <3>1. CASE r = a
      BY <1>5, <2>1, <3>1 DEF RequestSound
    <3>2. CASE r # a
      BY <1>4, <2>1, <3>2 DEF RequestSound, Runs
    <3> QED
      BY <3>1, <3>2
  <2> QED
    BY <1>1, <2>1, <2>2, <2>3 DEF RequestSound, Past
<1>16. approval' # "none" => Past(thread)'
  BY <1>1, <1>12 DEF IInv, MemorySound, Past, rowVars
<1> QED
  BY <1>6, <1>9, <1>10, <1>11, <1>14, <1>15, <1>16 DEF MemorySound

(* A crash forgets the runs and what they had not saved.                   *)
LEMMA CrashSound ==
  ASSUME IInv, Crash
  PROVE  MemorySound' /\ MemoryTyped'
<1>1. /\ \A a \in Runs : /\ pc'[a] \in EndPhases \union {"idle"}
                         /\ pc'[a] = pc[a] \/ pc'[a] = "lost"
                         /\ unsaved'[a] = << >> /\ view'[a].state = NewState
      /\ UNCHANGED <<rowVars, thread>>
  BY BlankTyped DEF Crash, EndPhases
<1>2. MemoryTyped'
  <2>1. /\ pc' = [a \in Runs |-> IF pc[a] \in EndPhases \union {"idle"} THEN pc[a] ELSE "lost"]
        /\ unsaved' = [a \in Runs |-> << >>] /\ view' = [a \in Runs |-> Blank(NewState)]
    BY DEF Crash
  <2>2. thread \in GraphState /\ pc \in [Runs -> Phases]
    BY TypeParts DEF IInv, MemoryTyped
  <2> QED
    BY <1>1, <2>1, <2>2, BlankTyped DEF MemoryTyped, Phases, EndPhases
<1>3. \A a \in Runs : pc'[a] \notin Nodes \union Steps \union Early
  BY <1>1 DEF EndPhases, Nodes, Steps, Early, Investigating
<1>4. Backed(NewState)'
  BY DEF NewState, Backed, Performed, Verdict
<1>5. ASSUME NEW a \in Runs
      PROVE  StepSound(a)' /\ Held(a)'
  <2>1. Backed(view[a].state)'
    BY <1>1, <1>4 DEF Backed, Past
  <2>2. pc'[a] \notin {"mark", "query", "rollback", "decide"}
    BY <1>3 DEF Steps
  <2> QED
    BY <1>1, <1>3, <2>1, <2>2 DEF StepSound, Held
<1>6. WorkflowSound' /\ \A r \in Requests : RequestSound(r)'
  <2>1. pc[Workflow] \notin OnlyRequests /\ Workflow \in Runs
    BY DEF IInv, MemorySound, WorkflowSound, Runs
  <2>2. pc'[Workflow] \notin OnlyRequests
    BY <1>1, <2>1 DEF OnlyRequests
  <2> QED
    BY <1>1, <1>3, <2>2 DEF WorkflowSound, RequestSound, Working, Runs
<1>7. Backed(thread)' /\ (approval' # "none" => Past(thread)')
  BY <1>1 DEF IInv, MemorySound, Backed, Past, rowVars
<1> QED
  BY <1>2, <1>5, <1>6, <1>7 DEF MemorySound, Past

-----------------------------------------------------------------------------
(* The invariant without the counters.                                     *)
CoreInv == LabTypeOK /\ RowsTyped /\ MemoryTyped /\ MemorySound /\ LabSound

(* What the invariant says of one run.                                     *)
LEMMA Own ==
  ASSUME IInv, NEW a \in Runs
  PROVE  /\ view[a] \in View /\ view[a].state \in GraphState
         /\ a \in DOMAIN view /\ a \in DOMAIN pc
         /\ StepSound(a)
         /\ a \in Requests => RequestSound(a)
         /\ a = Workflow => WorkflowSound
         /\ a # Workflow => a \in Requests
BY TypeParts DEF IInv, MemoryTyped, MemorySound, View, Runs

(* A step that changes no row.                                             *)
LEMMA RowsSame ==
  ASSUME IInv, UNCHANGED rowVars
  PROVE  RowsGrow /\ RowsTyped'
BY TypeParts DEF IInv, RowsGrow, RowsTyped, rowVars

(* A step that leaves the lab alone.                                       *)
LEMMA LabKept ==
  ASSUME IInv, UNCHANGED labVars, approval # "none" => approval' = approval,
         action'.target = action.target
  PROVE  LabSound' /\ LabTypeOK'
<1>1. LabTypeOK'
  BY DEF IInv, TypeOK, LabTypeOK, labVars
<1> QED
  BY <1>1 DEF IInv, LabSound, labVars

(* A node that returns.                                                    *)
LEMMA ReturnStep ==
  ASSUME IInv, RowsGrow, RowsTyped', UNCHANGED <<thread, approval, labVars>>,
         action'.target = action.target,
         NEW a \in Runs, NEW s \in GraphState, Return(a, s), Backed(s)', Working(a),
         a = Workflow => s.next # "approval_decision",
         Past(s) \/ (a = Workflow /\ pc[a] \in Early /\ s.stage = "investigation")
  PROVE  CoreInv'
<1>1. MemoryTyped'
  BY ReturnEffect, TypeParts DEF IInv
<1>2. MemorySound'
  BY ReturnSound
<1>3. LabSound' /\ LabTypeOK'
  BY LabKept
<1> QED
  BY <1>1, <1>2, <1>3 DEF CoreInv

(* A node that raises.                                                     *)
LEMMA RaiseStep ==
  ASSUME IInv, UNCHANGED <<rowVars, labVars>>,
         NEW a \in Runs, NEW p \in {"refused", "unavailable", "lost"}, Raise(a, p)
  PROVE  CoreInv'
<1>1. MemoryTyped'
  BY RaiseEffect, TypeParts DEF IInv, EndPhases
<1>2. RowsGrow /\ RowsTyped'
  BY RowsSame
<1>3. MemorySound'
  BY <1>2, RaiseSound DEF rowVars
<1>4. LabSound' /\ LabTypeOK'
  BY LabKept DEF rowVars
<1> QED
  BY <1>1, <1>2, <1>3, <1>4 DEF CoreInv

(* A step inside a node that leaves the lab alone.                         *)
LEMMA MoveStep ==
  ASSUME IInv, UNCHANGED <<thread, unsaved, rowVars, labVars>>,
         NEW a \in Runs, NEW p \in Phases \ Early, Goto(a, p),
         NEW v, view' = view \/ (v \in View /\ view' = [view EXCEPT ![a] = v]),
         StepSound(a)',
         a = Workflow => p \notin OnlyRequests,
         a \in Requests /\ p \in Nodes \union Steps => Past(thread)
  PROVE  CoreInv'
<1>1. MemoryTyped'
  BY MoveEffect, TypeParts DEF IInv
<1>2. RowsGrow /\ RowsTyped'
  BY RowsSame
<1>3. approval' # "none" => Past(thread)
  BY DEF IInv, MemorySound, rowVars
<1>4. MemorySound'
  BY <1>2, <1>3, MoveSound
<1>5. LabSound' /\ LabTypeOK'
  BY LabKept DEF rowVars
<1> QED
  BY <1>1, <1>2, <1>4, <1>5 DEF CoreInv

-----------------------------------------------------------------------------
(* The investigation: only the workflow's own run is early.                *)
LEMMA InvestigateStep ==
  ASSUME IInv, NEW a \in Runs, Investigate(a)
  PROVE  CoreInv'
<1>1. PICK node \in Successors(pc[a]) \union DeadEnds(pc[a])
                        \union {"manual_terminalization"} :
        Return(a, [view[a].state EXCEPT !.next = node])
  BY DEF Investigate
<1>2. pc[a] \in Investigating /\ UNCHANGED <<rowVars, thread, labVars>>
  BY DEF Investigate
<1>3. node \in (Nodes \union {"end"}) \ {"approval_decision", "recovery_verification"}
  BY <1>1, <1>2 DEF Successors, DeadEnds, Investigating, Nodes
<1> PICK s : s = [view[a].state EXCEPT !.next = node]
  OBVIOUS
<1>4. s \in GraphState /\ s.next = node
  BY <1>3, Own DEF GraphState
<1>5. a = Workflow /\ view[a].state.stage = "investigation" /\ pc[a] # "mark"
  BY <1>2, Own DEF RequestSound, WorkflowSound, Early, Investigating
<1>6. Backed(view[a].state)
  BY <1>5, Own DEF StepSound
<1>7. Backed(s)'
  BY <1>2, <1>3, <1>4, <1>5, <1>6, Own DEF Backed, GraphState, Nodes, Investigating, rowVars
<1>8. s.stage = "investigation"
  BY <1>5, Own DEF GraphState
<1>9. RowsGrow /\ RowsTyped'
  BY <1>2, RowsSame
<1> QED
  BY <1>1, <1>2, <1>3, <1>4, <1>5, <1>7, <1>8, <1>9, ReturnStep
     DEF Working, Early, Nodes, rowVars

(* The manual terminalization.                                             *)
LEMMA ManualTerminalizationStep ==
  ASSUME IInv, NEW a \in Runs, ManualTerminalization(a)
  PROVE  CoreInv'
<1> PICK s : s = [view[a].state EXCEPT !.stage = "needs_manual_action",
                                       !.next = "final_report"]
  OBVIOUS
<1>1. /\ pc[a] = "manual_terminalization" /\ Return(a, s)
      /\ incident' = "NEEDS_MANUAL_ACTION"
      /\ UNCHANGED <<action, approval, verification, report, thread, labVars>>
  BY DEF ManualTerminalization
<1>2. /\ s \in GraphState /\ s.next = "final_report" /\ s.stage = "needs_manual_action"
      /\ s.approval = view[a].state.approval /\ s.execution = view[a].state.execution
      /\ s.verified = view[a].state.verified
  BY Own DEF GraphState, Nodes, Stages
<1>3. Backed(s)'
  BY <1>1, <1>2, Own DEF StepSound, Backed, Past
<1>4. RowsGrow /\ RowsTyped'
  BY <1>1, TypeParts DEF IInv, RowsGrow, RowsTyped, IncidentStatus
<1>5. Past(s) /\ Working(a)
  BY <1>1, <1>2 DEF Past, Early, Investigating, Working, Nodes
<1> QED
  BY <1>1, <1>2, <1>3, <1>4, <1>5, ReturnStep

(* The gate: no decision and no rollback yet, so a healthy deployment has  *)
(* no predecessor and the Action's target is Healthy.                      *)
LEMMA PolicyGateStep ==
  ASSUME IInv, NEW a \in Runs, PolicyGate(a)
  PROVE  CoreInv'
<1>1. /\ pc[a] = "policy_gate" /\ a = Workflow /\ ~Past(thread) /\ approval = "none"
      /\ UNCHANGED <<incident, approval, verification, report, thread, labVars>>
  BY Own DEF PolicyGate, RequestSound, WorkflowSound, Early, IInv, MemorySound
<1>2. PICK n \in {"approval_wait", "manual_terminalization"} :
        /\ Return(a, [view[a].state EXCEPT !.stage = "policy_gate", !.next = n])
        /\ \/ UNCHANGED action
           \/ /\ Eligible(lab)
              /\ action' = [action EXCEPT !.status = "PENDING_APPROVAL",
                                          !.current = lab.version, !.target = lab.previous]
  BY DEF PolicyGate
<1> PICK s : s = [view[a].state EXCEPT !.stage = "policy_gate", !.next = n]
  OBVIOUS
<1>3. /\ s \in GraphState /\ s.next = n /\ s.stage = "policy_gate"
      /\ s.approval = view[a].state.approval /\ s.execution = view[a].state.execution
      /\ s.verified = view[a].state.verified
  BY Own DEF GraphState, Nodes, Stages
<1>4. lab \in Lab /\ action \in Action
  BY TypeParts DEF IInv, LabTypeOK, RowsTyped
<1>5. CASE UNCHANGED action
  <2>1. Backed(s)'
    BY <1>1, <1>3, <1>5, Own DEF StepSound, Backed, Past
  <2>2. RowsGrow /\ RowsTyped'
    BY <1>1, <1>5, RowsSame DEF rowVars
  <2> QED
    BY <1>1, <1>2, <1>3, <1>5, <2>1, <2>2, ReturnStep
       DEF Past, Early, Investigating, Working, Nodes
<1>6. CASE /\ Eligible(lab)
           /\ action' = [action EXCEPT !.status = "PENDING_APPROVAL",
                                       !.current = lab.version, !.target = lab.previous]
  <2>1. lab.rollbacks = 0
    BY <1>1 DEF IInv, LabSound
  <2>2. lab.previous = Healthy
    BY <1>4, <1>6, <2>1 DEF IInv, LabSound, Eligible, Lab, Version, Healthy, Faulty
  <2>3. /\ action' \in Action /\ action'.target = Healthy
        /\ action'.executed = action.executed
    BY <1>4, <1>6, <2>2 DEF Action, ActionStatus, Lab, Version
  <2>4. action'.target = action.target
    BY <2>3 DEF IInv, LabSound
  <2>5. view[a].state.approval = "none"
    BY <1>1, Own DEF StepSound, Backed
  <2>6. Backed(s)'
    BY <1>1, <1>3, <2>3, <2>5, Own DEF StepSound, Backed, Past
  <2>7. RowsGrow /\ RowsTyped'
    BY <1>1, <2>3, TypeParts DEF IInv, RowsGrow, RowsTyped
  <2> QED
    BY <1>1, <1>2, <1>3, <2>4, <2>6, <2>7, ReturnStep
       DEF Past, Early, Investigating, Working, Nodes
<1> QED
  BY <1>2, <1>5, <1>6

(* The request for approval.                                               *)
LEMMA ApprovalWaitStep ==
  ASSUME IInv, NEW a \in Runs, ApprovalWait(a)
  PROVE  CoreInv'
<1> PICK s : s = [view[a].state EXCEPT !.stage = "waiting_approval",
                                       !.next = "approval_interrupt"]
  OBVIOUS
<1>1. /\ pc[a] = "approval_wait" /\ Return(a, s)
      /\ incident' = "WAITING_APPROVAL"
      /\ UNCHANGED <<action, approval, verification, report, thread, labVars>>
  BY DEF ApprovalWait
<1>2. /\ s \in GraphState /\ s.next = "approval_interrupt" /\ s.stage = "waiting_approval"
      /\ s.approval = view[a].state.approval /\ s.execution = view[a].state.execution
      /\ s.verified = view[a].state.verified
  BY Own DEF GraphState, Nodes, Stages
<1>3. Past(s) /\ Working(a)
  BY <1>1, <1>2 DEF Past, Early, Investigating, Working, Nodes
<1>4. Backed(s)'
  BY <1>1, <1>2, <1>3, Own DEF StepSound, Backed, Past
<1>5. RowsGrow /\ RowsTyped'
  BY <1>1, TypeParts DEF IInv, RowsGrow, RowsTyped, IncidentStatus
<1> QED
  BY <1>1, <1>2, <1>3, <1>4, <1>5, ReturnStep

(* The interrupt pauses the workflow's own run.                            *)
LEMMA InterruptStep ==
  ASSUME IInv, Interrupt
  PROVE  CoreInv'
<1>1. Workflow \in Runs /\ Workflow \notin Requests
  BY RemediationAssumption DEF Runs
<1>2. /\ pc[Workflow] = "approval_interrupt" /\ Goto(Workflow, "settle")
      /\ UNCHANGED <<rowVars, thread, unsaved, view, labVars>>
  BY DEF Interrupt
<1>3. pc'[Workflow] = "settle"
  BY <1>1, <1>2, Own DEF Goto
<1>4. "settle" \in Phases \ Early /\ "settle" \notin Nodes
  BY DEF Phases, Steps, Early, Investigating, Nodes
<1>5. StepSound(Workflow)'
  BY <1>1, <1>2, <1>3, <1>4, Own DEF StepSound, Backed, Past, rowVars
<1> QED
  BY <1>1, <1>2, <1>4, <1>5, MoveStep DEF OnlyRequests

-----------------------------------------------------------------------------
(* A request at work has found the thread past the gate.                   *)
LEMMA WorkingIsPast ==
  ASSUME IInv, NEW r \in Requests, Working(r)
  PROVE  Past(thread)
BY DEF IInv, MemorySound, RequestSound

(* A step to a place where nothing special is known, in a state that is    *)
(* the same or new.                                                        *)
LEMMA PlainMove ==
  ASSUME IInv, UNCHANGED <<thread, unsaved, rowVars>>,
         NEW a \in Runs, pc[a] # "mark",
         NEW p \in PlainPhases,
         a = Workflow => p \notin OnlyRequests,
         Goto(a, p),
         NEW v \in View, v.state = view[a].state \/ v.state = NewState,
         view' = view \/ view' = [view EXCEPT ![a] = v],
         a \in Requests /\ p \in Steps => Past(thread)
  PROVE  RowsTyped' /\ MemoryTyped' /\ MemorySound'
<1>1. p \in Phases \ Early /\ p \notin Nodes
  BY DEF PlainPhases, Phases, Early, Investigating, Nodes, Steps, EndPhases
<1>2. MemoryTyped' /\ pc'[a] = p
  BY <1>1, MoveEffect, TypeParts DEF IInv
<1>3. RowsGrow /\ RowsTyped'
  BY RowsSame
<1>4. Backed(NewState) /\ Backed(view[a].state)
  BY Own DEF StepSound, NewState, Backed, Performed, Verdict
<1>5. view'[a].state \in {view[a].state, NewState}
  BY Own
<1>6. Backed(view[a].state)'
  <2> PICK s : s = view'[a].state
    OBVIOUS
  <2>1. Backed(s)
    BY <1>4, <1>5
  <2> QED
    BY <2>1 DEF Backed, Past, rowVars
<1>7. StepSound(a)'
  BY <1>1, <1>2, <1>6 DEF StepSound, PlainPhases
<1>8. approval' # "none" => Past(thread)
  BY DEF IInv, MemorySound, rowVars
<1>9. MemorySound'
  BY <1>1, <1>3, <1>7, <1>8, MoveSound
<1> QED
  BY <1>2, <1>3, <1>9

(* The same when the lab does not change either.                           *)
LEMMA PlainStep ==
  ASSUME IInv, UNCHANGED <<thread, unsaved, rowVars, labVars>>,
         NEW a \in Runs, pc[a] # "mark",
         NEW p \in PlainPhases,
         a = Workflow => p \notin OnlyRequests,
         Goto(a, p),
         NEW v \in View, v.state = view[a].state \/ v.state = NewState,
         view' = view \/ view' = [view EXCEPT ![a] = v],
         a \in Requests /\ p \in Steps => Past(thread)
  PROVE  CoreInv'
<1>1. RowsTyped' /\ MemoryTyped' /\ MemorySound'
  BY PlainMove
<1>2. LabSound' /\ LabTypeOK'
  BY LabKept DEF rowVars
<1> QED
  BY <1>1, <1>2 DEF CoreInv

(* A request finds a thread that waits, or a decision: both are past the   *)
(* gate.                                                                   *)
LEMMA RecordDecisionStep ==
  ASSUME IInv, NEW a \in Requests, RecordDecision(a)
  PROVE  CoreInv'
<1>1. a \in Runs /\ pc[a] = "idle" /\ UNCHANGED <<rowVars, thread, unsaved, labVars>>
  BY DEF RecordDecision, Runs
<1>2. CASE \E wanted \in Decision :
             /\ WaitsForDecision /\ Goto(a, "insert")
             /\ view' = [view EXCEPT ![a].wanted = wanted]
  <2> PICK wanted \in Decision :
             /\ WaitsForDecision /\ Goto(a, "insert")
             /\ view' = [view EXCEPT ![a].wanted = wanted]
    BY <1>2
  <2>1. PICK v \in View : v.state = view[a].state /\ view' = [view EXCEPT ![a] = v]
    <3>1. [view[a] EXCEPT !.wanted = wanted] \in View
      BY <1>1, Own DEF View
    <3>2. [view[a] EXCEPT !.wanted = wanted].state = view[a].state
      BY <1>1, Own DEF View
    <3> QED
      BY <3>1, <3>2
  <2>2. Past(thread)
    BY DEF WaitsForDecision, IInv, MemorySound, Backed
  <2>3. PICK p \in PlainPhases : Goto(a, p)
    BY DEF PlainPhases, Steps
  <2>4. pc[a] # "mark" /\ a # Workflow /\ UNCHANGED <<thread, unsaved, rowVars>>
    BY <1>1, RemediationAssumption
  <2>5. RowsTyped' /\ MemoryTyped' /\ MemorySound'
    BY <1>1, <2>1, <2>2, <2>3, <2>4, PlainMove
  <2>6. LabSound' /\ LabTypeOK'
    BY <1>1, LabKept DEF rowVars
  <2> QED
    BY <2>5, <2>6 DEF CoreInv
<1>3. CASE \E p \in {"resume", "done", "refused"} :
             /\ p = "resume" => approval # "none"
             /\ Goto(a, p) /\ UNCHANGED view
  <2> PICK p \in {"resume", "done", "refused"} :
             /\ p = "resume" => approval # "none"
             /\ Goto(a, p) /\ UNCHANGED view
    BY <1>3
  <2>1. p \in Steps => Past(thread)
    BY DEF IInv, MemorySound, Steps
  <2>2. view[a] \in View /\ view[a].state = view[a].state /\ a # Workflow
    BY <1>1, Own, RemediationAssumption
  <2>3. p \in PlainPhases
    BY DEF PlainPhases, Steps, EndPhases
  <2>4. RowsTyped' /\ MemoryTyped' /\ MemorySound'
    BY <1>1, <2>1, <2>2, <2>3, PlainMove
  <2>5. LabSound' /\ LabTypeOK'
    BY <1>1, LabKept DEF rowVars
  <2> QED
    BY <2>4, <2>5 DEF CoreInv
<1> QED
  BY <1>2, <1>3 DEF RecordDecision

(* The decision is inserted once.                                          *)
LEMMA InsertStep ==
  ASSUME IInv, NEW a \in Requests, InsertApproval(a)
  PROVE  CoreInv' /\ (approval' = approval \/ (approval = "none" /\ approval' \in Decision \union {"none"}))
<1>1. /\ a \in Runs /\ pc[a] = "insert" /\ Insert(a)
      /\ view' = [view EXCEPT ![a] = Blank(NewState)]
      /\ UNCHANGED <<incident, action, verification, report, thread, unsaved, labVars>>
  BY DEF InsertApproval, Runs
<1>2. PICK p \in {"resume", "refused"} : Goto(a, p)
  BY <1>1 DEF Insert
<1>3. /\ approval # "none" => approval' = approval
      /\ approval' \in Decision \union {"none"}
  BY <1>1, Own, TypeParts DEF Insert, IInv, RowsTyped, View
<1>4. RowsGrow /\ RowsTyped'
  BY <1>1, <1>3, TypeParts DEF IInv, RowsGrow, RowsTyped
<1>5. Past(thread)
  BY <1>1, WorkingIsPast DEF Working, Steps
<1>6. Blank(NewState) \in View /\ Blank(NewState).state = NewState
  BY BlankTyped
<1>7. MemoryTyped' /\ pc'[a] = p /\ view'[a].state = NewState
  BY <1>1, <1>2, <1>6, Own, MoveEffect, TypeParts DEF IInv, Phases, Steps, EndPhases
<1>8. Backed(view[a].state)'
  BY <1>7 DEF NewState, Backed, Performed, Verdict
<1>9. StepSound(a)'
  BY <1>7, <1>8 DEF StepSound, Nodes, Investigating
<1>10. MemorySound'
  BY <1>1, <1>2, <1>4, <1>5, <1>6, <1>9, MoveSound, RemediationAssumption
     DEF Phases, Steps, EndPhases, Early, Investigating
<1>11. LabSound' /\ LabTypeOK'
  BY <1>1, <1>3, LabKept
<1> QED
  BY <1>3, <1>4, <1>7, <1>10, <1>11 DEF CoreInv

(* The thread goes on from its checkpoint, which is past the gate.         *)
LEMMA ResumeStep ==
  ASSUME IInv, NEW a \in Requests, Resume(a)
  PROVE  CoreInv'
<1> DEFINE p == IF thread.next = "end" THEN "settle" ELSE thread.next
<1>1. /\ a \in Runs /\ pc[a] = "resume" /\ Goto(a, p)
      /\ view' = [view EXCEPT ![a] = Blank(thread)]
      /\ UNCHANGED <<rowVars, thread, unsaved, labVars>>
  BY DEF Resume, Runs
<1>2. Past(thread) /\ thread \in GraphState /\ Backed(thread)
  BY <1>1, WorkingIsPast, TypeParts DEF Working, Steps, IInv, MemoryTyped, MemorySound
<1>3. Blank(thread) \in View /\ Blank(thread).state = thread
  BY <1>2, BlankTyped
<1>4. /\ p \in Phases \ Early /\ p \notin {"mark", "query", "rollback", "decide"}
      /\ p \in Nodes => p = thread.next
  BY <1>2 DEF Past, GraphState, Phases, Steps, Nodes, Early, Investigating
<1> HIDE DEF p
<1>5. pc'[a] = p /\ view'[a].state = thread
  BY <1>1, <1>3, Own DEF Goto
<1>6. Backed(view[a].state)'
  BY <1>1, <1>2, <1>5 DEF Backed, Past, rowVars
<1>7. StepSound(a)'
  BY <1>4, <1>5, <1>6 DEF StepSound
<1> QED
  BY <1>1, <1>2, <1>3, <1>4, <1>7, MoveStep, RemediationAssumption

(* The interrupt, resumed.                                                 *)
LEMMA ApprovalInterruptStep ==
  ASSUME IInv, NEW a \in Runs, ApprovalInterrupt(a)
  PROVE  CoreInv'
<1>1. /\ a \in Requests /\ a # Workflow /\ pc[a] = "approval_interrupt"
      /\ UNCHANGED <<rowVars, labVars>>
  BY RemediationAssumption DEF ApprovalInterrupt
<1>2. CASE Return(a, Interrupted(view[a].state)) /\ UNCHANGED thread
  <2> PICK s : s = Interrupted(view[a].state)
    OBVIOUS
  <2>1. /\ s \in GraphState /\ s.next = "approval_decision" /\ s.stage = view[a].state.stage
        /\ s.approval = view[a].state.approval /\ s.execution = view[a].state.execution
        /\ s.verified = view[a].state.verified
    BY Own DEF GraphState, Nodes, Interrupted
  <2>2. Past(s) /\ Working(a)
    BY <1>1, <2>1 DEF Past, Early, Investigating, Working, Nodes
  <2>3. Backed(s)'
    BY <1>1, <2>1, <2>2, Own DEF StepSound, Backed, Past, rowVars
  <2>4. RowsGrow /\ RowsTyped'
    BY <1>1, RowsSame
  <2> QED
    BY <1>1, <1>2, <2>1, <2>2, <2>3, <2>4, ReturnStep DEF rowVars
<1>3. CASE Raise(a, "refused")
  BY <1>1, <1>3, RaiseStep
<1> QED
  BY <1>2, <1>3 DEF ApprovalInterrupt

(* What a resumed decision reads of the Action.                            *)
LEMMA ReadDecisionStep ==
  ASSUME IInv, NEW a \in Runs, ReadDecision(a)
  PROVE  CoreInv'
<1>1. /\ pc[a] = "approval_decision" /\ a \in Requests /\ a # Workflow
      /\ UNCHANGED <<rowVars, labVars>>
  BY Own, RemediationAssumption DEF ReadDecision, WorkflowSound, OnlyRequests
<1>2. CASE /\ view' = [view EXCEPT ![a].incident = incident, ![a].status = action.status]
           /\ Goto(a, "decide") /\ UNCHANGED <<thread, unsaved>>
  <2> DEFINE v == [view[a] EXCEPT !.incident = incident, !.status = action.status]
  <2>1. incident \in IncidentStatus /\ action.status \in ActionStatus
    BY TypeParts DEF IInv, RowsTyped, Action
  <2>2. v \in View /\ v.state = view[a].state /\ v.status = action.status
    BY <2>1, Own DEF View
  <2>3. view' = [view EXCEPT ![a] = v]
    BY <1>2
  <2> HIDE DEF v
  <2>4. pc'[a] = "decide" /\ view'[a] = v
    BY <1>2, <2>3, Own DEF Goto
  <2>5. Backed(view[a].state)'
    BY <1>1, <2>2, <2>4, Own DEF StepSound, Backed, Past, rowVars
  <2>6. StepSound(a)'
    BY <1>1, <2>2, <2>4, <2>5 DEF StepSound, Nodes, Investigating, rowVars
  <2>7. Past(thread)
    BY <1>1, WorkingIsPast DEF Working, Nodes
  <2> QED
    BY <1>1, <1>2, <2>2, <2>3, <2>6, <2>7, MoveStep
       DEF Phases, Steps, Early, Investigating
<1>3. CASE Raise(a, "refused")
  BY <1>1, <1>3, RaiseStep
<1> QED
  BY <1>2, <1>3 DEF ReadDecision

(* Deciding commits the Action's status before its checkpoint.             *)
LEMMA CommitDecisionStep ==
  ASSUME IInv, NEW a \in Runs, CommitDecision(a)
  PROVE  CoreInv'
<1> PICK s : s = [view[a].state EXCEPT !.approval = approval,
                    !.stage = StageAfterDecision(approval),
                    !.next = RouteAfterDecision(approval)]
  OBVIOUS
<1>1. /\ pc[a] = "decide" /\ Return(a, s)
      /\ action' = [action EXCEPT !.status = Flushed(view[a].status, approval, @)]
      /\ incident' = Flushed(view[a].incident,
                             IF approval = "APPROVED" THEN "REMEDIATING"
                                                      ELSE "NEEDS_MANUAL_ACTION",
                             incident)
      /\ UNCHANGED <<approval, verification, report, thread, labVars>>
  BY DEF CommitDecision
<1>2. /\ action \in Action /\ approval \in Decision \union {"none"}
      /\ incident \in IncidentStatus
  BY TypeParts DEF IInv, RowsTyped
<1>3. /\ s \in GraphState /\ s.next \in {"controlled_action_execution", "final_report"}
      /\ s.stage \in {"action_execution", "needs_manual_action"}
      /\ s.approval = approval /\ s.execution = view[a].state.execution
      /\ s.verified = view[a].state.verified
  BY <1>2, Own DEF GraphState, Nodes, Stages, StageAfterDecision, RouteAfterDecision
<1>4. /\ action' \in Action /\ action'.executed = action.executed
      /\ action'.target = action.target
      /\ action'.status = Flushed(view[a].status, approval, action.status)
  BY <1>1, <1>2 DEF Action, ActionStatus, Flushed, Decision
<1>5. approval # "none" => action'.status # "PENDING_APPROVAL"
  BY <1>1, <1>2, <1>4, Own DEF StepSound, Flushed, Decision
<1>6. action.status # "PENDING_APPROVAL" => action'.status # "PENDING_APPROVAL"
  BY <1>2, <1>4 DEF Flushed, Decision
<1>7. incident' \in IncidentStatus
  BY <1>1, <1>2 DEF Flushed, IncidentStatus
<1>8. Backed(s)'
  BY <1>1, <1>3, <1>4, <1>5, Own DEF StepSound, Backed
<1>9. RowsGrow /\ RowsTyped'
  BY <1>1, <1>4, <1>6, <1>7, TypeParts DEF IInv, RowsGrow, RowsTyped
<1> QED
  BY <1>1, <1>3, <1>4, <1>8, <1>9, ReturnStep
     DEF Past, Early, Investigating, Working, Steps

-----------------------------------------------------------------------------
(* An execution that fails closed.                                         *)
LEMMA FailClosedStep ==
  ASSUME IInv, NEW a \in Runs, Working(a), pc[a] # "mark", NEW executed \in BOOLEAN,
         FailClosed(a, executed),
         UNCHANGED <<approval, verification, report, thread, labVars>>
  PROVE  CoreInv'
<1> PICK s : s = [view[a].state EXCEPT !.execution = "failure",
                    !.stage = "needs_manual_action", !.next = "final_report"]
  OBVIOUS
<1>1. /\ action' = [action EXCEPT !.status = IF executed THEN @ ELSE "FAILED"]
      /\ incident' = "NEEDS_MANUAL_ACTION" /\ Return(a, s)
  BY DEF FailClosed
<1>2. action \in Action
  BY TypeParts DEF IInv, RowsTyped
<1>3. /\ action' \in Action /\ action'.target = action.target
      /\ action'.executed = action.executed
      /\ action'.status = action.status \/ action'.status = "FAILED"
  BY <1>1, <1>2 DEF Action, ActionStatus
<1>4. /\ s \in GraphState /\ s.next = "final_report" /\ s.stage = "needs_manual_action"
      /\ s.approval = view[a].state.approval /\ s.execution = "failure"
      /\ s.verified = view[a].state.verified
  BY Own DEF GraphState, Nodes, Stages
<1>5. Backed(s)'
  BY <1>3, <1>4, Own DEF StepSound, Backed, Performed
<1>6. RowsGrow /\ RowsTyped'
  BY <1>1, <1>3, TypeParts DEF IInv, RowsGrow, RowsTyped, IncidentStatus
<1> QED
  BY <1>3, <1>1, <1>4, <1>5, <1>6, ReturnStep DEF Past, Early, Investigating

(* A rollback is only ordered under an approval.                           *)
LEMMA ValidateExecutionStep ==
  ASSUME IInv, NEW a \in Runs, ValidateExecution(a)
  PROVE  CoreInv'
<1>1. /\ pc[a] = "controlled_action_execution" /\ Working(a)
      /\ UNCHANGED <<approval, verification, report, thread, labVars>>
  BY DEF ValidateExecution, Working, Nodes
<1>2. CASE /\ Executable(a) /\ Goto(a, "query")
           /\ UNCHANGED <<incident, action, unsaved, view>>
  <2>1. pc'[a] = "query" /\ view'[a] = view[a]
    BY <1>2, Own DEF Goto
  <2>2. view[a].state.next = "controlled_action_execution" /\ Backed(view[a].state)
    BY <1>1, Own DEF StepSound, Nodes
  <2>3. StepSound(a)'
    BY <1>1, <1>2, <2>1, <2>2 DEF StepSound, Backed, Past, Executable, Nodes, Investigating
  <2>4. a \in Requests => Past(thread)
    BY <1>1, WorkingIsPast
  <2>5. /\ "query" \in Phases \ Early
    BY DEF Phases, Steps, Early, Investigating
  <2> QED
    BY <1>1, <1>2, <2>3, <2>4, <2>5, MoveStep DEF rowVars, OnlyRequests
<1>3. CASE FailClosed(a, action.executed)
  <2>1. action.executed \in BOOLEAN
    BY TypeParts DEF IInv, RowsTyped, Action
  <2> QED
    BY <1>1, <1>3, <2>1, FailClosedStep
<1> QED
  BY <1>1, <1>2, <1>3 DEF ValidateExecution

(* What is perceived of the deployment is known to its run only.           *)
LEMMA PerceiveMove ==
  ASSUME IInv, NEW a \in Runs, pc[a] \in {"query", "rollback"},
         NEW performed \in Performed, Perceive(a, performed),
         UNCHANGED <<rowVars, thread, unsaved>>
  PROVE  RowsTyped' /\ MemoryTyped' /\ MemorySound'
<1>1. PICK v \in View : /\ view' = [view EXCEPT ![a] = v]
                       /\ v.state = [view[a].state EXCEPT !.execution = performed]
  <2> DEFINE t == [view[a].state EXCEPT !.execution = performed]
             w == [view[a] EXCEPT !.state = t]
  <2>1. t \in GraphState
    BY Own DEF GraphState
  <2>2. w \in View /\ w.state = t
    BY <2>1, Own DEF View
  <2>3. view' = [view EXCEPT ![a] = w]
    BY DEF Perceive
  <2> QED
    BY <2>2, <2>3
<1>2. pc'[a] = "mark" /\ view'[a] = v /\ Goto(a, "mark")
  BY <1>1, Own DEF Perceive, Goto
<1>3. /\ approval = "APPROVED" /\ Backed(view[a].state)
      /\ view[a].state.next = "controlled_action_execution"
  BY Own DEF StepSound
<1>4. /\ v.state.execution = performed /\ v.state.next = view[a].state.next
      /\ v.state.stage = view[a].state.stage /\ v.state.approval = view[a].state.approval
      /\ v.state.verified = view[a].state.verified /\ v.state \in GraphState
  BY <1>1, Own DEF GraphState, View
<1>5. Backed([view[a].state EXCEPT !.execution = "none"])'
  <2> PICK s : s = [v.state EXCEPT !.execution = "none"]
    OBVIOUS
  <2>1. /\ s.execution = "none" /\ s.next = v.state.next /\ s.stage = v.state.stage
        /\ s.approval = v.state.approval /\ s.verified = v.state.verified
    BY <1>4 DEF GraphState
  <2>2. Backed(s)'
    BY <1>3, <1>4, <2>1 DEF Backed, Past, rowVars, Performed
  <2> QED
    BY <1>2, <2>2 DEF Backed, Past
<1>6. StepSound(a)'
  BY <1>2, <1>3, <1>4, <1>5 DEF StepSound, Nodes, Investigating, rowVars
<1>7. RowsGrow /\ RowsTyped'
  BY RowsSame
<1>8. "mark" \in Phases \ Early
  BY DEF Phases, Steps, Early, Investigating
<1>9. MemoryTyped'
  BY <1>1, <1>2, <1>8, MoveEffect, TypeParts DEF IInv
<1>10. Past(thread)
  BY <1>3 DEF IInv, MemorySound
<1>11. MemorySound'
  BY <1>1, <1>2, <1>6, <1>7, <1>8, <1>10, MoveSound DEF OnlyRequests
<1> QED
  BY <1>7, <1>9, <1>11

(* The query decides what to do.                                           *)
LEMMA QueryDeploymentStep ==
  ASSUME IInv, NEW a \in Runs, QueryDeployment(a)
  PROVE  CoreInv'
<1>1. /\ pc[a] = "query" /\ Working(a)
      /\ UNCHANGED <<rowVars, thread, unsaved, labVars>>
  BY DEF QueryDeployment, Working, Steps
<1>2. LabSound' /\ LabTypeOK'
  BY <1>1, LabKept DEF rowVars
<1>3. a \in Requests => Past(thread)
  BY <1>1, WorkingIsPast
<1>4. CASE Perceive(a, "found")
  <2>1. "found" \in Performed
    BY DEF Performed
  <2>2. RowsTyped' /\ MemoryTyped' /\ MemorySound'
    BY <1>1, <1>4, <2>1, PerceiveMove
  <2> QED
    BY <1>2, <2>2 DEF CoreInv
<1>5. CASE Goto(a, "rollback") /\ UNCHANGED view
  <2>1. pc'[a] = "rollback" /\ view'[a] = view[a]
    BY <1>5, Own DEF Goto
  <2>2. StepSound(a)'
    BY <1>1, <2>1, Own DEF StepSound, Backed, Past, rowVars, Nodes, Investigating
  <2>3. "rollback" \in Phases \ Early
    BY DEF Phases, Steps, Early, Investigating
  <2> QED
    BY <1>1, <1>3, <1>5, <2>2, <2>3, MoveStep DEF OnlyRequests
<1>6. CASE Goto(a, "fail_closed") /\ UNCHANGED view
  <2>1. PICK p \in PlainPhases : Goto(a, p) /\ p \notin OnlyRequests
    BY <1>6 DEF PlainPhases, OnlyRequests, Steps
  <2> QED
    BY <1>1, <1>3, <1>6, <2>1, Own, PlainStep
<1> QED
  BY <1>4, <1>5, <1>6 DEF QueryDeployment

(* The POST sends an approved rollback to the service ...                  *)
LEMMA PostRollbackStep ==
  ASSUME IInv, NEW a \in Runs, PostRollback(a)
  PROVE  CoreInv'
<1>1. /\ pc[a] = "rollback"
      /\ serving' = [serving EXCEPT ![a] = "deployment"]
      /\ UNCHANGED <<rowVars, thread, unsaved, pc, view, lab, todo, customers>>
  BY DEF PostRollback
<1>2. approval = "APPROVED"
  BY <1>1, Own DEF StepSound
<1>3. RowsGrow /\ RowsTyped' /\ MemorySound'
  BY <1>1, RowsSame, IdleSound DEF rowVars
<1>4. MemoryTyped'
  BY <1>1, TypeParts DEF IInv, MemoryTyped
<1>5. LabTypeOK'
  <2>1. LabTypeOK /\ "deployment" \in Service
    BY TypeParts DEF IInv, Service
  <2> QED
    BY <1>1, <2>1 DEF LabTypeOK
<1>6. LabSound'
  BY <1>1, <1>2 DEF IInv, LabSound, rowVars
<1> QED
  BY <1>3, <1>4, <1>5, <1>6 DEF CoreInv

(* ... and its answer, or none.                                            *)
LEMMA RollbackAnswerStep ==
  ASSUME IInv, NEW a \in Runs, RollbackAnswer(a) \/ LostAnswer(a)
  PROVE  CoreInv'
<1>1. /\ pc[a] = "rollback" /\ Working(a)
      /\ UNCHANGED <<rowVars, thread, unsaved, labVars>>
  BY DEF RollbackAnswer, LostAnswer, Working, Steps
<1>2. LabSound' /\ LabTypeOK'
  BY <1>1, LabKept DEF rowVars
<1>3. a \in Requests => Past(thread)
  BY <1>1, WorkingIsPast
<1>4. CASE \E performed \in Performed : Perceive(a, performed)
  BY <1>1, <1>2, <1>4, PerceiveMove DEF CoreInv
<1>5. CASE Goto(a, "fail_closed") /\ UNCHANGED view
  <2>1. PICK p \in PlainPhases : Goto(a, p) /\ p \notin OnlyRequests
    BY <1>5 DEF PlainPhases, OnlyRequests, Steps
  <2> QED
    BY <1>1, <1>3, <1>5, <2>1, Own, PlainStep
<1> QED
  BY <1>4, <1>5 DEF RollbackAnswer, LostAnswer

(* What the service does for a request: a rollback that takes effect       *)
(* undoes one of the deployments, under the approval it was sent with.     *)
LEMMA ServeLab ==
  ASSUME IInv, ServeRollback, UNCHANGED rowVars
  PROVE  /\ LabSound' /\ LabTypeOK'
         /\ lab'.deploys = lab.deploys
         /\ \/ lab'.rollbacks = lab.rollbacks
            \/ /\ approval = "APPROVED"
               /\ lab'.rollbacks = lab.rollbacks + 1 /\ lab.rollbacks < lab.deploys
<1>1. /\ lab \in Lab /\ LabSound /\ LabTypeOK /\ action.target = Healthy
      /\ lab.rollbacks \in Nat /\ lab.deploys \in Nat
  BY TypeParts DEF IInv, LabTypeOK, LabSound, Lab
<1>2. PICK r \in Requests : SwitchDeployment(r, Healthy) \/ RestoreConfiguration(r)
  BY <1>1 DEF ServeRollback
<1>3. /\ UNCHANGED <<todo, customers>>
      /\ \E answer \in Service \ {"deployment"} :
           serving' = [serving EXCEPT ![r] = answer]
  BY <1>2 DEF SwitchDeployment, RestoreConfiguration, Service, Answers
<1>4. /\ serving' \in [Requests -> Service]
      /\ \A q \in Requests : serving'[q] = "deployment" => approval' = "APPROVED"
  BY <1>1, <1>3 DEF LabTypeOK, LabSound, rowVars
<1>5. CASE UNCHANGED lab \/ lab' = Restored(lab)
  <2>1. /\ lab' \in Lab /\ lab'.version = lab.version /\ lab'.previous = lab.previous
        /\ lab'.deploys = lab.deploys /\ lab'.rollbacks = lab.rollbacks
    BY <1>1, <1>5 DEF Restored, Lab
  <2> QED
    BY <1>1, <1>3, <1>4, <2>1 DEF LabSound, LabTypeOK, rowVars
<1>6. CASE /\ serving[r] = "deployment" /\ RollbackTakesEffect(lab, Healthy)
           /\ lab' = RolledBack(lab, Healthy)
  <2>1. approval = "APPROVED" /\ lab.version = Faulty
    BY <1>1, <1>6 DEF LabSound, RollbackTakesEffect, Lab, Version
  <2>2. /\ lab'.deploys = lab.deploys
        /\ lab'.rollbacks = lab.rollbacks + 1
        /\ lab'.version = Healthy
        /\ lab' \in Lab
    <3>1. /\ lab.rollbacks + 1 \in Nat /\ Healthy \in Version
          /\ lab.version \in Version \union {"none"}
      BY <1>1 DEF Lab, Version
    <3> QED
      BY <1>1, <1>6, <3>1 DEF RolledBack, Lab
  <2>3. lab.rollbacks < lab.deploys
    BY <1>1, <2>1 DEF LabSound
  <2>4. LabTypeOK'
    BY <1>1, <1>3, <1>4, <2>2 DEF LabTypeOK
  <2>5. LabSound'
    BY <1>1, <1>4, <2>1, <2>2, <2>3 DEF LabSound, Healthy, Faulty, rowVars
  <2> QED
    BY <2>1, <2>2, <2>3, <2>4, <2>5
<1> QED
  BY <1>2, <1>5, <1>6 DEF SwitchDeployment, RestoreConfiguration

(* No run sees it until it is answered.                                    *)
LEMMA ServeStep ==
  ASSUME IInv, ServeRollback, UNCHANGED <<rowVars, thread, unsaved, pc, view>>
  PROVE  CoreInv'
<1>1. RowsGrow /\ RowsTyped' /\ MemorySound'
  BY RowsSame, IdleSound DEF rowVars
<1>2. MemoryTyped'
  BY TypeParts DEF IInv, MemoryTyped
<1> QED
  BY <1>1, <1>2, ServeLab DEF CoreInv

(* The Action is marked executed before its checkpoint says so.            *)
LEMMA MarkExecutedStep ==
  ASSUME IInv, NEW a \in Runs, MarkExecuted(a)
  PROVE  CoreInv'
<1> PICK s : s = [view[a].state EXCEPT !.stage = "recovery_verification",
                                       !.next = "recovery_verification"]
  OBVIOUS
<1>1. /\ pc[a] = "mark" /\ Return(a, s) /\ action' = Marked(action)
      /\ incident' = "VERIFYING"
      /\ UNCHANGED <<approval, verification, report, thread, labVars>>
  BY DEF MarkExecuted
<1>2. action \in Action /\ lab \in Lab
  BY TypeParts DEF IInv, RowsTyped, LabTypeOK
<1>3. /\ action' \in Action /\ action'.target = action.target
      /\ action'.executed = TRUE /\ action'.status = "EXECUTED"
  BY <1>1, <1>2 DEF Action, ActionStatus, Marked, Lab
<1>4. /\ s \in GraphState /\ s.next = "recovery_verification"
      /\ s.stage = "recovery_verification"
      /\ s.approval = view[a].state.approval /\ s.execution = view[a].state.execution
      /\ s.verified = view[a].state.verified
  BY Own DEF GraphState, Nodes, Stages
<1>5. /\ view[a].state.execution \in Performed /\ approval = "APPROVED"
      /\ Backed([view[a].state EXCEPT !.execution = "none"])
  BY <1>1, Own DEF StepSound
<1>6. /\ s.approval # "none" => approval = s.approval
      /\ s.verified \in Verdict => verification = s.verified
  BY <1>4, <1>5, Own DEF Backed, GraphState
<1>7. Backed(s)'
  BY <1>1, <1>3, <1>4, <1>5, <1>6 DEF Backed
<1>8. RowsGrow /\ RowsTyped'
  BY <1>1, <1>3, TypeParts DEF IInv, RowsGrow, RowsTyped, IncidentStatus
<1> QED
  BY <1>1, <1>3, <1>4, <1>7, <1>8, ReturnStep
     DEF Past, Early, Investigating, Working, Steps

(* A failed execution is recorded.                                         *)
LEMMA CommitFailureStep ==
  ASSUME IInv, NEW a \in Runs, CommitFailure(a)
  PROVE  CoreInv'
BY FailClosedStep DEF CommitFailure, Working, Steps

-----------------------------------------------------------------------------
(* A step from one place inside a node to another.                         *)
LEMMA InnerMove ==
  ASSUME IInv, UNCHANGED <<thread, unsaved, rowVars>>,
         NEW a \in Runs, Working(a), pc[a] # "mark",
         NEW p \in PlainPhases \ OnlyRequests, Goto(a, p),
         NEW v \in View, v.state = view[a].state,
         view' = view \/ view' = [view EXCEPT ![a] = v]
  PROVE  RowsTyped' /\ MemoryTyped' /\ MemorySound'
<1>1. a \in Requests => Past(thread)
  BY WorkingIsPast
<1> QED
  BY <1>1, PlainMove

(* The verdict a check settles.                                            *)
LEMMA ConcludeMove ==
  ASSUME IInv, UNCHANGED <<thread, unsaved, rowVars>>,
         NEW a \in Runs, Working(a), pc[a] # "mark",
         NEW verdict \in Verdict, Conclude(a, verdict)
  PROVE  RowsTyped' /\ MemoryTyped' /\ MemorySound'
<1>1. PICK v \in View : v.state = view[a].state /\ view' = [view EXCEPT ![a] = v]
  <2> DEFINE w == [view[a] EXCEPT !.verdict = verdict]
  <2>1. w \in View /\ w.state = view[a].state
    BY Own DEF View
  <2>2. view' = [view EXCEPT ![a] = w]
    BY DEF Conclude
  <2> QED
    BY <2>1, <2>2
<1>2. PICK p \in PlainPhases \ OnlyRequests : Goto(a, p)
  BY DEF Conclude, PlainPhases, OnlyRequests, Steps
<1> QED
  BY <1>1, <1>2, InnerMove

(* The lab's books may grow; the deployment's are what counts.             *)
LEMMA LabBooks ==
  ASSUME IInv, lab' \in Lab, UNCHANGED <<approval, action, serving>>,
         lab'.version = lab.version, lab'.previous = lab.previous,
         lab'.deploys = lab.deploys, lab'.rollbacks = lab.rollbacks
  PROVE  LabSound'
BY DEF IInv, LabSound

(* An order leaves the deployment alone.                                   *)
LEMMA RecordOrderEffect ==
  ASSUME NEW l \in Lab, NEW succeeded
  PROVE  /\ RecordOrder(l, succeeded) \in Lab
         /\ RecordOrder(l, succeeded).version = l.version
         /\ RecordOrder(l, succeeded).previous = l.previous
         /\ RecordOrder(l, succeeded).deploys = l.deploys
         /\ RecordOrder(l, succeeded).rollbacks = l.rollbacks
<1>1. l.requests + 1 \in Nat /\ l.errors + 1 \in Nat /\ l.logged + 1 \in Nat
  BY DEF Lab
<1>2. CASE succeeded
  BY <1>1, <1>2 DEF RecordOrder, Lab
<1>3. CASE ~succeeded
  BY <1>1, <1>3 DEF RecordOrder, Lab
<1> QED
  BY <1>2, <1>3

(* A probe's order is an order.                                            *)
LEMMA OrderLab ==
  ASSUME IInv, NEW succeeded, lab' = lab \/ lab' = RecordOrder(lab, succeeded),
         UNCHANGED <<rowVars, todo, customers, serving>>
  PROVE  LabSound' /\ LabTypeOK'
<1>1. lab \in Lab
  BY TypeParts DEF IInv, LabTypeOK
<1>2. /\ lab' \in Lab /\ lab'.version = lab.version /\ lab'.previous = lab.previous
      /\ lab'.deploys = lab.deploys /\ lab'.rollbacks = lab.rollbacks
  BY <1>1, RecordOrderEffect
<1>3. LabSound'
  BY <1>2, LabBooks DEF rowVars
<1>4. LabTypeOK'
  BY <1>2, TypeParts DEF IInv, LabTypeOK
<1> QED
  BY <1>3, <1>4

(* The state a verification leads to.                                      *)
LEMMA VerifiedShape ==
  ASSUME IInv, NEW a \in Runs, NEW verdict \in Verdict \union {"none", "unbound"}
  PROVE  /\ Verified(a, verdict) \in GraphState
         /\ Verified(a, verdict).next = "final_report"
         /\ Verified(a, verdict).stage \in {"resolved", "needs_manual_action"}
         /\ Verified(a, verdict).approval = view[a].state.approval
         /\ Verified(a, verdict).execution = view[a].state.execution
         /\ Verified(a, verdict).verified = verdict
BY Own DEF Verified, GraphState, Nodes, Stages

(* A verification is never overwritten: who arrives here has an executed   *)
(* Action's approval in its state, so an existing verdict is reused.       *)
LEMMA BeginVerificationStep ==
  ASSUME IInv, NEW a \in Runs, BeginVerification(a)
  PROVE  CoreInv'
<1>1. /\ pc[a] = "recovery_verification" /\ Working(a) /\ pc[a] # "mark"
      /\ UNCHANGED <<action, approval, report, thread, labVars>>
  BY DEF BeginVerification, Working, Nodes
<1>2. /\ Backed(view[a].state) /\ view[a].state.execution \in Performed
      /\ approval = "APPROVED"
  BY <1>1, Own DEF StepSound, Nodes, Backed
<1>3. verification \in Verdict \union {"none"}
  BY TypeParts DEF IInv, RowsTyped
<1>4. ASSUME NEW verdict \in Verdict \union {"unbound"}, Return(a, Verified(a, verdict)),
             verdict \in Verdict => verification' = verdict,
             verification # "none" => verification' = verification,
             incident' \in IncidentStatus, verification' \in Verdict \union {"none"}
      PROVE  CoreInv'
  <2> PICK s : s = Verified(a, verdict)
    OBVIOUS
  <2>1. /\ s \in GraphState /\ s.next = "final_report"
        /\ s.stage \in {"resolved", "needs_manual_action"}
        /\ s.approval = view[a].state.approval
        /\ s.execution = view[a].state.execution /\ s.verified = verdict
    BY VerifiedShape
  <2>2. Backed(s)'
    BY <1>1, <1>2, <1>4, <2>1 DEF Backed
  <2>3. RowsGrow /\ RowsTyped'
    BY <1>1, <1>4, TypeParts DEF IInv, RowsGrow, RowsTyped
  <2> QED
    BY <1>1, <1>4, <2>1, <2>2, <2>3, ReturnStep DEF Past, Early, Investigating
<1>5. CASE VerifiedAlready(a) /\ Return(a, Verified(a, verification))
           /\ UNCHANGED <<incident, verification>>
  BY <1>3, <1>4, <1>5, TypeParts DEF VerifiedAlready, IInv, RowsTyped
<1>6. CASE Goto(a, "deployment") /\ UNCHANGED <<incident, verification, unsaved, view>>
  <2>1. PICK p \in PlainPhases \ OnlyRequests : Goto(a, p)
    BY <1>6 DEF PlainPhases, OnlyRequests, Steps
  <2>2. UNCHANGED rowVars /\ view[a] \in View
    BY <1>1, <1>6, Own DEF rowVars
  <2>3. RowsTyped' /\ MemoryTyped' /\ MemorySound'
    BY <1>1, <1>6, <2>1, <2>2, InnerMove
  <2>4. LabSound' /\ LabTypeOK'
    BY <1>1, LabKept
  <2> QED
    BY <2>3, <2>4 DEF CoreInv
<1>7. CASE /\ ~VerifiedAlready(a) /\ incident' = "NEEDS_MANUAL_ACTION"
           /\ verification' = IF Executed THEN "INCONCLUSIVE" ELSE verification
           /\ Return(a, Verified(a, IF Executed THEN "INCONCLUSIVE" ELSE "unbound"))
  <2>1. verification # "none" => ~Executed
    BY <1>2, <1>7 DEF VerifiedAlready
  <2>2. CASE Executed
    BY <1>4, <1>7, <2>1, <2>2 DEF Verdict, IncidentStatus
  <2>3. CASE ~Executed
    BY <1>3, <1>4, <1>7, <2>3 DEF Verdict, IncidentStatus
  <2> QED
    BY <2>2, <2>3
<1> QED
  BY <1>5, <1>6, <1>7 DEF BeginVerification

(* The checks that only read the lab.                                      *)
LEMMA CheckStep ==
  ASSUME IInv, NEW a \in Runs,
         \/ CheckDeployment(a) \/ MeasureBefore(a) \/ MeasureAfter(a)
         \/ CheckLogs(a) \/ Outage(a)
  PROVE  CoreInv'
<1>1. /\ Working(a) /\ pc[a] # "mark"
      /\ UNCHANGED <<rowVars, thread, unsaved, labVars>>
  BY DEF CheckDeployment, MeasureBefore, MeasureAfter, CheckLogs, Outage, Working, Steps
<1>2. LabSound' /\ LabTypeOK'
  BY <1>1, LabKept DEF rowVars
<1>3. CASE \E p \in {"before", "logs", "fail_closed"} : Goto(a, p) /\ UNCHANGED view
  <2>1. PICK p \in PlainPhases \ OnlyRequests : Goto(a, p)
    BY <1>3 DEF PlainPhases, OnlyRequests, Steps
  <2> QED
    BY <1>1, <1>2, <1>3, <2>1, Own, InnerMove DEF CoreInv
<1>4. CASE \E verdict \in Verdict : Conclude(a, verdict)
  BY <1>1, <1>2, <1>4, ConcludeMove DEF CoreInv
<1>5. CASE MeasureBefore(a)
  <2>1. MetricsSnapshot \in [requests : Nat, errors : Nat]
    BY TypeParts DEF IInv, LabTypeOK, Lab, MetricsSnapshot
  <2> DEFINE w == [view[a] EXCEPT !.before = MetricsSnapshot]
  <2>2. w \in View /\ w.state = view[a].state
    BY <2>1, Own DEF View
  <2>3. view' = [view EXCEPT ![a] = w]
    BY <1>5 DEF MeasureBefore
  <2>4. PICK p \in PlainPhases \ OnlyRequests : Goto(a, p)
    BY <1>5 DEF MeasureBefore, PlainPhases, OnlyRequests, Steps
  <2> HIDE DEF w
  <2> QED
    BY <1>1, <1>2, <2>2, <2>3, <2>4, InnerMove DEF CoreInv
<1>6. CASE MeasureAfter(a)
  <2>1. DeltaVerdict(a) \in Verdict
    BY DEF DeltaVerdict, Verdict
  <2> QED
    BY <1>3, <1>4, <1>6, <2>1 DEF MeasureAfter
<1>7. CASE CheckDeployment(a) \/ CheckLogs(a) \/ Outage(a)
  BY <1>3, <1>4, <1>7 DEF CheckDeployment, CheckLogs, Outage, Verdict
<1> QED
  BY <1>5, <1>6, <1>7

(* The probe, which is an order.                                           *)
LEMMA ProbeStep ==
  ASSUME IInv, NEW a \in Runs, Probe(a) \/ ProbeAnswer(a)
  PROVE  CoreInv'
<1>1. /\ Working(a) /\ pc[a] # "mark"
      /\ UNCHANGED <<rowVars, thread, unsaved, todo, customers, serving>>
  BY DEF Probe, ProbeAnswer, Working, Steps
<1>2. PICK succeeded : lab' = lab \/ lab' = RecordOrder(lab, succeeded)
  BY DEF Probe, ProbeAnswer
<1>3. LabSound' /\ LabTypeOK'
  BY <1>1, <1>2, OrderLab
<1>4. CASE Probe(a)
  <2>1. PICK probe \in {"paying", "delayed", "failed"} :
          view' = [view EXCEPT ![a].probe = probe]
    BY <1>4 DEF Probe, Payment
  <2> DEFINE w == [view[a] EXCEPT !.probe = probe]
  <2>2. w \in View /\ w.state = view[a].state
    BY Own DEF View
  <2>3. view' = [view EXCEPT ![a] = w]
    BY <2>1
  <2>4. PICK p \in PlainPhases \ OnlyRequests : Goto(a, p)
    BY <1>4 DEF Probe, PlainPhases, OnlyRequests, Steps
  <2> HIDE DEF w
  <2> QED
    BY <1>1, <1>3, <2>2, <2>3, <2>4, InnerMove DEF CoreInv
<1>5. CASE Goto(a, "after") /\ UNCHANGED view
  <2>1. PICK p \in PlainPhases \ OnlyRequests : Goto(a, p)
    BY <1>5 DEF PlainPhases, OnlyRequests, Steps
  <2> QED
    BY <1>1, <1>3, <1>5, <2>1, Own, InnerMove DEF CoreInv
<1>6. CASE \E verdict \in Verdict : Conclude(a, verdict)
  BY <1>1, <1>3, <1>6, ConcludeMove DEF CoreInv
<1> QED
  BY <1>4, <1>5, <1>6 DEF ProbeAnswer, Verdict

(* A verdict is recorded once.                                             *)
LEMMA PersistVerificationStep ==
  ASSUME IInv, NEW a \in Runs, PersistVerification(a)
  PROVE  CoreInv'
<1>1. /\ pc[a] = "persist" /\ Working(a)
      /\ UNCHANGED <<action, approval, report, labVars>>
  BY DEF PersistVerification, Working, Steps
<1>2. CASE /\ verification = "none" /\ verification' = view[a].verdict
           /\ incident' = IF view[a].verdict = "PASS" THEN "RESOLVED"
                                                     ELSE "NEEDS_MANUAL_ACTION"
           /\ Return(a, Verified(a, view[a].verdict)) /\ UNCHANGED thread
  <2> PICK s : s = Verified(a, view[a].verdict)
    OBVIOUS
  <2>1. view[a].verdict \in Verdict \union {"none"}
    BY Own DEF View
  <2>2. /\ s \in GraphState /\ s.next = "final_report"
        /\ s.stage \in {"resolved", "needs_manual_action"}
        /\ s.approval = view[a].state.approval
        /\ s.execution = view[a].state.execution /\ s.verified = view[a].verdict
    BY <2>1, VerifiedShape
  <2>3. Backed(s)'
    BY <1>1, <1>2, <2>2, Own DEF StepSound, Backed
  <2>4. RowsGrow /\ RowsTyped'
    BY <1>1, <1>2, <2>1, TypeParts DEF IInv, RowsGrow, RowsTyped, IncidentStatus
  <2> QED
    BY <1>1, <1>2, <2>2, <2>3, <2>4, ReturnStep DEF Past, Early, Investigating
<1>3. CASE Raise(a, "unavailable") /\ UNCHANGED <<incident, verification>>
  BY <1>1, <1>3, RaiseStep DEF rowVars
<1> QED
  BY <1>2, <1>3 DEF PersistVerification

(* The report of a closed incident.                                        *)
LEMMA FinalReportStep ==
  ASSUME IInv, NEW a \in Runs, FinalReport(a)
  PROVE  CoreInv'
<1>1. /\ pc[a] = "final_report" /\ Working(a)
      /\ UNCHANGED <<incident, action, approval, verification, labVars>>
  BY DEF FinalReport, Working, Nodes
<1>2. CASE /\ ChainHolds(view[a].state) /\ report' = Facts(a)
           /\ Return(a, [view[a].state EXCEPT !.next = "end"]) /\ UNCHANGED thread
  <2> PICK s : s = [view[a].state EXCEPT !.next = "end"]
    OBVIOUS
  <2>1. /\ s \in GraphState /\ s.next = "end" /\ s.stage = view[a].state.stage
        /\ s.approval = view[a].state.approval
        /\ s.execution = view[a].state.execution /\ s.verified = view[a].state.verified
    BY Own DEF GraphState
  <2>2. incident \in Closed /\ action \in Action /\ verification \in Verdict \union {"none"}
    BY <1>2, TypeParts DEF ChainHolds, IInv, RowsTyped
  <2>3. view[a].state.verified \in Verdict \union {"none"}
    BY <1>2, <2>2 DEF ChainHolds
  <2>4. report' \in Report /\ report'.final = incident
    BY <1>2, <2>2, <2>3, Own DEF Facts, Report, Action, GraphState
  <2>5. report'.final # "none"
    BY <2>2, <2>4 DEF Closed
  <2>6. Past(s)
    BY <2>1 DEF Past, Early, Investigating
  <2>7. Backed(s)'
    BY <1>1, <2>1, <2>5, <2>6, Own DEF StepSound, Backed, Past
  <2>8. RowsGrow /\ RowsTyped'
    BY <1>1, <2>4, <2>5, TypeParts DEF IInv, RowsGrow, RowsTyped
  <2> QED
    BY <1>1, <1>2, <2>1, <2>6, <2>7, <2>8, ReturnStep
<1>3. CASE Raise(a, "unavailable") /\ UNCHANGED report
  BY <1>1, <1>3, RaiseStep DEF rowVars
<1> QED
  BY <1>2, <1>3 DEF FinalReport, Reportable

(* The background writer, and the end of an invocation.                    *)
LEMMA SettleStep ==
  ASSUME IInv, NEW a \in Runs, SaveCheckpoint(a) \/ Finish(a)
  PROVE  CoreInv'
<1>1. UNCHANGED <<rowVars, labVars>>
  BY DEF SaveCheckpoint, Finish
<1>2. RowsTyped' /\ LabSound' /\ LabTypeOK'
  BY <1>1, RowsSame, LabKept DEF rowVars
<1>3. CASE SaveCheckpoint(a)
  BY <1>2, <1>3, SaveSound DEF CoreInv
<1>4. CASE Finish(a)
  <2>1. PICK p \in PlainPhases \ (OnlyRequests \union Steps) : Goto(a, p)
    BY <1>4 DEF Finish, PlainPhases, OnlyRequests, Steps, EndPhases
  <2>2. /\ view' = [view EXCEPT ![a] = Blank(NewState)] /\ pc[a] # "mark"
        /\ UNCHANGED <<thread, unsaved>>
    BY <1>4 DEF Finish
  <2> QED
    BY <1>1, <2>1, <2>2, BlankTyped, PlainStep
<1> QED
  BY <1>3, <1>4

-----------------------------------------------------------------------------
(* The operator and the customers never see the workflow.                  *)
LEMMA OutsideStep ==
  ASSUME IInv, Outsider \/ Aftermath,
         UNCHANGED <<rowVars, thread, unsaved, pc, view>>
  PROVE  CoreInv'
<1>1. /\ lab \in Lab /\ todo \subseteq Interventions
      /\ customers \in [Customers -> {"idle", "paying", "delayed", "done"}]
  BY TypeParts DEF IInv, LabTypeOK
<1>2. RowsGrow /\ RowsTyped' /\ MemorySound'
  BY RowsSame, IdleSound DEF rowVars
<1>3. MemoryTyped'
  BY TypeParts DEF IInv, MemoryTyped
<1>4. todo' \subseteq Interventions
  BY <1>1 DEF Outsider, Aftermath, Operator, FinishCommand, Perform, PlaceOrder, FinishOrder
<1>5. serving' = serving /\ serving \in [Requests -> Service]
  BY TypeParts DEF IInv, LabTypeOK, Outsider, Aftermath, Operator, FinishCommand, Perform,
                   PlaceOrder, FinishOrder
<1>10. customers' \in [Customers -> {"idle", "paying", "delayed", "done"}]
  BY <1>1 DEF Outsider, Aftermath, Operator, FinishCommand, Perform, PlaceOrder, FinishOrder,
              Payment
<1>6. ASSUME lab' = DeployFaultyVersion(lab)
      PROVE  lab' \in Lab /\ LabSound'
  <2>1. lab.deploys + 1 \in Nat /\ Faulty \in Version
        /\ (IF lab.version = Faulty THEN lab.previous ELSE lab.version)
             \in Version \union {"none"}
    BY <1>1 DEF Lab, Version
  <2>2. /\ lab' \in Lab /\ lab'.version = Faulty /\ lab'.deploys = lab.deploys + 1
        /\ lab'.rollbacks = lab.rollbacks
    BY <1>1, <1>6, <2>1 DEF DeployFaultyVersion, Lab
  <2>3. lab.rollbacks \in Nat /\ lab.deploys \in Nat
    BY <1>1 DEF Lab
  <2> QED
    BY <1>5, <2>2, <2>3 DEF IInv, LabSound, rowVars, Healthy, Faulty
<1>7. ASSUME lab' = ResetDeployment(lab)
      PROVE  lab' \in Lab /\ LabSound'
  <2>1. Healthy \in Version
    BY DEF Version
  <2>2. /\ lab' \in Lab /\ lab'.version = Healthy /\ lab'.previous = "none"
        /\ lab'.deploys = lab.deploys /\ lab'.rollbacks = lab.rollbacks
    BY <1>1, <1>7, <2>1 DEF ResetDeployment, Lab
  <2> QED
    BY <1>5, <2>2 DEF IInv, LabSound, rowVars, Healthy, Faulty
<1>8. ASSUME \/ lab' = InjectMissingConfig(lab)
             \/ lab' = ResetRuntime(lab) \/ lab' = ClearLogs(lab)
             \/ \E delayed \in BOOLEAN : lab' = [lab EXCEPT !.delayed = delayed]
             \/ \E succeeded \in BOOLEAN : lab' = RecordOrder(lab, succeeded)
             \/ lab' = lab
      PROVE  lab' \in Lab /\ LabSound'
  <2>1. /\ lab' \in Lab /\ lab'.version = lab.version /\ lab'.previous = lab.previous
        /\ lab'.deploys = lab.deploys /\ lab'.rollbacks = lab.rollbacks
    <3>1. CASE lab' = InjectMissingConfig(lab)
      BY <1>1, <3>1 DEF InjectMissingConfig, Lab
    <3>2. CASE \E delayed \in BOOLEAN : lab' = [lab EXCEPT !.delayed = delayed]
      BY <1>1, <3>2 DEF Lab
    <3>3. CASE \E succeeded \in BOOLEAN : lab' = RecordOrder(lab, succeeded)
      BY <1>1, <3>3, RecordOrderEffect
    <3>4. CASE lab' = ResetRuntime(lab) \/ lab' = ClearLogs(lab)
      <4>1. lab.logged \in Nat
        BY <1>1 DEF Lab
      <4>2. CASE lab' = ResetRuntime(lab)
        BY <1>1, <4>2 DEF ResetRuntime, Lab
      <4>3. CASE lab' = ClearLogs(lab)
        BY <1>1, <4>1, <4>3 DEF ClearLogs, Lab
      <4> QED
        BY <3>4, <4>2, <4>3
    <3> QED
      BY <1>1, <1>8, <3>1, <3>2, <3>3, <3>4
  <2> QED
    BY <1>5, <2>1, LabBooks DEF rowVars
<1>9. lab' \in Lab /\ LabSound'
  <2>1. CASE Operator
    BY <1>6, <1>8, <2>1 DEF Operator, Perform
  <2>2. CASE FinishCommand
    BY <1>7, <1>8, <2>2 DEF FinishCommand, Perform
  <2>3. CASE \E c \in Customers : PlaceOrder(c) \/ FinishOrder(c)
    BY <1>8, <2>3 DEF PlaceOrder, FinishOrder
  <2> QED
    BY <2>1, <2>2, <2>3 DEF Outsider, Aftermath
<1> QED
  BY <1>2, <1>3, <1>4, <1>5, <1>9, <1>10 DEF CoreInv, LabTypeOK

(* A step of one run.                                                      *)
LEMMA RunStep ==
  ASSUME IInv, NEW a \in Runs, Step(a) \/ CommitFails(a) \/ Outage(a) \/ LostAnswer(a)
  PROVE  CoreInv'
<1>1. RecordDecision(a) \/ InsertApproval(a) \/ Resume(a) => a \in Requests
  <2>1. RecordDecision(a) \/ InsertApproval(a) \/ Resume(a) => pc[a] \in OnlyRequests
    BY DEF RecordDecision, InsertApproval, Resume, OnlyRequests
  <2> QED
    BY <2>1, Own DEF WorkflowSound
<1>2. CASE CommitFails(a)
  BY <1>2, RaiseStep DEF CommitFails
<1>3. CASE \/ Investigate(a) \/ ManualTerminalization(a) \/ PolicyGate(a)
           \/ ApprovalWait(a) \/ RecordDecision(a) \/ InsertApproval(a) \/ Resume(a)
           \/ ApprovalInterrupt(a) \/ ReadDecision(a) \/ CommitDecision(a)
  BY <1>1, <1>3, InvestigateStep, ManualTerminalizationStep, PolicyGateStep,
     ApprovalWaitStep, RecordDecisionStep, InsertStep, ResumeStep,
     ApprovalInterruptStep, ReadDecisionStep, CommitDecisionStep
<1>4. CASE \/ ValidateExecution(a) \/ QueryDeployment(a) \/ PostRollback(a)
           \/ RollbackAnswer(a) \/ LostAnswer(a) \/ MarkExecuted(a)
           \/ CommitFailure(a)
  BY <1>4, ValidateExecutionStep, QueryDeploymentStep, PostRollbackStep,
     RollbackAnswerStep, MarkExecutedStep, CommitFailureStep
<1>5. CASE \/ BeginVerification(a) \/ CheckDeployment(a) \/ MeasureBefore(a)
           \/ Probe(a) \/ ProbeAnswer(a) \/ MeasureAfter(a) \/ CheckLogs(a)
           \/ Outage(a) \/ PersistVerification(a) \/ FinalReport(a)
           \/ SaveCheckpoint(a) \/ Finish(a)
  BY <1>5, BeginVerificationStep, CheckStep, ProbeStep, PersistVerificationStep,
     FinalReportStep, SettleStep
<1> QED
  BY <1>2, <1>3, <1>4, <1>5 DEF Step

(* A crash.                                                                *)
LEMMA CrashStep ==
  ASSUME IInv, Crash
  PROVE  CoreInv'
<1>1. UNCHANGED <<rowVars, labVars>>
  BY DEF Crash
<1>2. RowsTyped' /\ LabSound' /\ LabTypeOK'
  BY <1>1, RowsSame, LabKept DEF rowVars
<1> QED
  BY <1>2, CrashSound DEF CoreInv

(* The history stays a Boolean.                                            *)
LEMMA OverlappedTyped ==
  ASSUME IInv, Next
  PROVE  overlapped' \in BOOLEAN
<1>1. overlapped \in BOOLEAN
  BY DEF IInv, TypeOK
<1>2. \A a \in Runs : Step(a) => overlapped' \in BOOLEAN
  <2> SUFFICES ASSUME NEW a \in Runs, Step(a) PROVE overlapped' \in BOOLEAN
    OBVIOUS
  <2>1. CASE Resume(a)
    BY <1>1, <2>1 DEF Resume
  <2>2. CASE \/ Investigate(a) \/ ManualTerminalization(a) \/ PolicyGate(a)
             \/ ApprovalWait(a) \/ RecordDecision(a) \/ InsertApproval(a)
             \/ ApprovalInterrupt(a) \/ ReadDecision(a) \/ CommitDecision(a)
             \/ ValidateExecution(a) \/ QueryDeployment(a) \/ PostRollback(a)
             \/ RollbackAnswer(a) \/ MarkExecuted(a) \/ CommitFailure(a)
    BY <1>1, <2>2 DEF Investigate, ManualTerminalization, PolicyGate, ApprovalWait,
       RecordDecision, InsertApproval, ApprovalInterrupt, ReadDecision, CommitDecision,
       ValidateExecution, QueryDeployment, PostRollback, RollbackAnswer, MarkExecuted,
       CommitFailure
  <2>3. CASE \/ BeginVerification(a) \/ CheckDeployment(a) \/ MeasureBefore(a)
             \/ Probe(a) \/ ProbeAnswer(a) \/ MeasureAfter(a) \/ CheckLogs(a)
             \/ PersistVerification(a) \/ FinalReport(a)
             \/ SaveCheckpoint(a) \/ Finish(a)
    BY <1>1, <2>3 DEF BeginVerification, CheckDeployment, MeasureBefore, Probe,
       ProbeAnswer, MeasureAfter, CheckLogs, PersistVerification, FinalReport,
       SaveCheckpoint, Finish
  <2> QED
    BY <2>1, <2>2, <2>3 DEF Step
<1>3. Interrupt \/ Disturbance => overlapped' = overlapped
  BY DEF Interrupt, Disturbance, CommitFails, Outage, LostAnswer, Crash
<1> QED
  BY <1>1, <1>2, <1>3 DEF Next

(* The disturbances stay within their bound.                               *)
LEMMA DisturbedTyped ==
  ASSUME IInv, Next
  PROVE  disturbed' \in 0..MaxDisturbances
<1>1. disturbed \in 0..MaxDisturbances /\ MaxDisturbances \in Nat
  BY RemediationAssumption DEF IInv, TypeOK
<1>2. disturbed' = disturbed \/ Disturb
  BY DEF Next
<1> QED
  BY <1>1, <1>2 DEF Disturb

(* The invariant holds in the beginning ...                                *)
LEMMA InitIInv == Init => IInv
<1> SUFFICES ASSUME Init PROVE IInv
  OBVIOUS
<1>1. /\ incident = "INVESTIGATING" /\ approval = "none" /\ verification = "none"
      /\ action = [status |-> "none", current |-> Faulty, target |-> Healthy,
                   executed |-> FALSE, mark |-> 0]
      /\ report = Unreported /\ thread = NewState
      /\ unsaved = [a \in Runs |-> << >>]
      /\ pc = [a \in Runs |-> IF a = Workflow THEN "intake" ELSE "idle"]
      /\ view = [a \in Runs |-> Blank(NewState)]
      /\ overlapped = FALSE /\ disturbed = 0
  BY DEF Init
<1>2. /\ todo = Interventions /\ customers = [c \in Customers |-> "idle"]
      /\ serving = [r \in Requests |-> "none"] /\ "none" \in Service
      /\ lab = Baseline \/ lab = InjectMissingConfig(DeployFaultyVersion(Baseline))
  BY DEF Init, LabInit, Service
<1>3. action \in Action /\ action.target = Healthy
  BY <1>1 DEF Action, ActionStatus, Version
<1>4. report \in Report
  BY <1>1 DEF Unreported, Report, ActionStatus
<1>5. RowsTyped
  BY <1>1, <1>3, <1>4 DEF RowsTyped, IncidentStatus
<1>6. "intake" \in Phases /\ "idle" \in Phases
  BY DEF Phases, Nodes, Investigating
<1>7. MemoryTyped
  BY <1>1, <1>6, BlankTyped DEF MemoryTyped
<1>8. LabSound /\ LabTypeOK
  <2>1. CASE lab = Baseline
    BY <1>1, <1>2, <1>3, <2>1 DEF Baseline, LabSound, LabTypeOK, Lab, Version, Healthy, Faulty
  <2>2. CASE lab = InjectMissingConfig(DeployFaultyVersion(Baseline))
    <3>1. PICK d : d = DeployFaultyVersion(Baseline)
      OBVIOUS
    <3>2. Baseline \in Lab /\ Baseline.version = Healthy /\ Baseline.deploys = 0
          /\ Baseline.rollbacks = 0
      BY DEF Baseline, Lab, Version
    <3>3. /\ d \in Lab /\ d.version = Faulty /\ d.deploys = 1 /\ d.rollbacks = 0
      <4> PICK b \in Lab : /\ b = Baseline /\ b.version = Healthy
                          /\ b.deploys = 0 /\ b.rollbacks = 0
        BY <3>2
      <4>1. (IF b.version = Faulty THEN b.previous ELSE b.version) \in Version \union {"none"}
            /\ Faulty \in Version /\ b.deploys + 1 = 1
        BY DEF Lab, Version
      <4>2. d = [b EXCEPT !.version = Faulty,
                          !.previous = IF b.version = Faulty THEN b.previous ELSE b.version,
                          !.deploys = b.deploys + 1]
        BY <3>1 DEF DeployFaultyVersion
      <4>3. PICK q \in Version \union {"none"} :
              d = [b EXCEPT !.version = Faulty, !.previous = q, !.deploys = 1]
        BY <4>1, <4>2
      <4>4. d.version = Faulty /\ d.deploys = 1 /\ d.rollbacks = 0
        BY <4>3 DEF Lab
      <4>5. d \in Lab
        BY <4>1, <4>3 DEF Lab
      <4> QED
        BY <4>4, <4>5
    <3>4. /\ lab \in Lab /\ lab.version = Faulty /\ lab.deploys = 1
          /\ lab.rollbacks = 0
      BY <2>2, <3>1, <3>3 DEF InjectMissingConfig, Lab
    <3> QED
      BY <1>1, <1>2, <1>3, <3>4 DEF LabSound, LabTypeOK, Healthy, Faulty
  <2> QED
    BY <1>2, <2>1, <2>2
<1>9. Backed(NewState) /\ NewState.next = "intake" /\ NewState.stage = "investigation"
  BY <1>1 DEF NewState, Backed, Performed, Verdict
<1>10. \A a \in Runs : /\ view[a].state = NewState /\ unsaved[a] = << >>
                       /\ pc[a] = IF a = Workflow THEN "intake" ELSE "idle"
  BY <1>1, BlankTyped
<1>11. "intake" \in Early /\ "intake" \notin OnlyRequests
       /\ "idle" \notin Early /\ "idle" \notin Nodes \union Steps
  BY DEF Early, Investigating, OnlyRequests, Nodes, Steps
<1>12. ASSUME NEW a \in Runs
       PROVE  StepSound(a) /\ Held(a)
  <2>1. /\ view[a].state = NewState /\ unsaved[a] = << >> /\ pc[a] \in {"intake", "idle"}
    BY <1>10
  <2>2. Held(a)
    BY <2>1 DEF Held
  <2>3. pc[a] \in Nodes => view[a].state.next = pc[a]
    BY <1>9, <1>11, <2>1
  <2> QED
    BY <1>9, <2>1, <2>2, <2>3 DEF StepSound
<1>13. WorkflowSound
  <2>1. \A k \in 1..Len(unsaved[Workflow]) : FALSE
    <3>1. unsaved[Workflow] = << >>
      BY <1>10 DEF Runs
    <3> QED
      BY <3>1
  <2>2. /\ pc[Workflow] = "intake" /\ ~Past(thread)
        /\ view[Workflow].state.stage = "investigation"
    BY <1>1, <1>9, <1>10, <1>11 DEF Past, Runs
  <2> QED
    BY <1>11, <2>1, <2>2 DEF WorkflowSound
<1>14. \A r \in Requests : RequestSound(r)
  BY <1>10, <1>11, RemediationAssumption DEF RequestSound, Working, Runs
<1>15. MemorySound
  BY <1>1, <1>9, <1>12, <1>13, <1>14 DEF MemorySound
<1>16. overlapped \in BOOLEAN
  BY <1>1
<1>17. disturbed \in 0..MaxDisturbances
  <2>1. disturbed = 0 /\ MaxDisturbances \in Nat
    BY <1>1, RemediationAssumption
  <2> QED
    BY <2>1
<1> QED
  BY <1>5, <1>7, <1>8, <1>15, <1>16, <1>17, TypeParts DEF IInv

(* ... and every step keeps it.                                            *)
LEMMA NextIInv == IInv /\ [Next]_vars => IInv'
<1> SUFFICES ASSUME IInv, [Next]_vars PROVE IInv'
  OBVIOUS
<1>1. CASE UNCHANGED vars
  BY <1>1 DEF IInv, TypeOK, LabTypeOK, MemorySound, StepSound, Held, Backed, Past,
     WorkflowSound, RequestSound, Working, LabSound, vars, rowVars, labVars
<1>2. CASE Next
  <2>1. CoreInv'
    <3>1. CASE Disturbance
      BY <3>1, RunStep, CrashStep, OutsideStep DEF Disturbance
    <3>2. CASE Interrupt \/ \E a \in Runs : Step(a)
      BY <3>2, InterruptStep, RunStep
    <3>3. CASE /\ Aftermath \/ ServeRollback
               /\ UNCHANGED <<rowVars, thread, unsaved, pc, view>>
      BY <3>3, OutsideStep, ServeStep
    <3> QED
      BY <1>2, <3>1, <3>2, <3>3 DEF Next
  <2>2. overlapped' \in BOOLEAN /\ disturbed' \in 0..MaxDisturbances
    BY <1>2, OverlappedTyped, DisturbedTyped
  <2> QED
    BY <2>1, <2>2, TypePartsNext DEF CoreInv, IInv
<1> QED
  BY <1>1, <1>2

(* So it always holds.                                                     *)
LEMMA Inductive == Spec => []IInv
BY InitIInv, NextIInv, PTL DEF Spec

-----------------------------------------------------------------------------
(* Every variable keeps its type.                                          *)
THEOREM TypeCorrect == Spec => []TypeOK
<1>1. IInv => TypeOK
  BY DEF IInv
<1> QED
  BY <1>1, Inductive, PTL

(* The persisted checkpoint never claims an approval, an execution or a    *)
(* verdict the database does not hold, and never the end of a thread       *)
(* without its report, unless a failed knowledge search ended it: every    *)
(* node commits its rows before LangGraph saves the state it returns, and  *)
(* the rows a checkpoint relies on only grow, whoever else resumed it.     *)
THEOREM CheckpointsNeverAhead == Spec => []CheckpointNeverAhead
<1>1. IInv => CheckpointNeverAhead
  BY DEF IInv, MemorySound, Backed, CheckpointNeverAhead
<1> QED
  BY <1>1, Inductive, PTL

(* What the outside sees of a step: nothing, or one of the promised steps. *)
LEMMA StepKeepsPromise ==
  ASSUME IInv, Next
  PROVE  [Promise!AbstractNext]_(Promise!abstractVars)
<1> DEFINE Unseen == /\ approval' = approval /\ lab'.deploys = lab.deploys
                     /\ lab'.rollbacks = lab.rollbacks
<1>1. Unseen => UNCHANGED Promise!abstractVars
  BY DEF Promise!abstractVars
<1>2. lab \in Lab
  BY TypeParts DEF IInv, LabTypeOK
<1>3. ASSUME NEW succeeded, lab' = RecordOrder(lab, succeeded)
      PROVE  lab'.deploys = lab.deploys /\ lab'.rollbacks = lab.rollbacks
  BY <1>2, <1>3, RecordOrderEffect
<1>4. ASSUME ServeRollback, UNCHANGED rowVars
      PROVE  Unseen \/ Promise!Rollback
  BY <1>4, ServeLab DEF Promise!Rollback, rowVars
<1>5. ASSUME NEW a \in Runs, InsertApproval(a)
      PROVE  Unseen \/ Promise!Decide
  <2>1. a \in Requests
    BY <1>5, Own DEF InsertApproval, WorkflowSound, OnlyRequests
  <2>2. approval' = approval \/ (approval = "none" /\ approval' \in Decision \union {"none"})
    BY <1>5, <2>1, InsertStep
  <2>3. UNCHANGED labVars
    BY <1>5 DEF InsertApproval
  <2> QED
    BY <2>2, <2>3 DEF Promise!Decide, Decision, labVars
<1>6. ASSUME NEW a \in Runs, Probe(a) \/ ProbeAnswer(a)
      PROVE  Unseen
  <2>1. PICK succeeded : lab' = lab \/ lab' = RecordOrder(lab, succeeded)
    BY <1>6 DEF Probe, ProbeAnswer
  <2>2. approval' = approval
    BY <1>6 DEF Probe, ProbeAnswer, rowVars
  <2> QED
    BY <1>3, <2>1, <2>2
<1>7. ASSUME NEW a \in Runs, Step(a)
      PROVE  Unseen \/ Promise!Decide
  <2>1. CASE \/ Investigate(a) \/ ManualTerminalization(a) \/ PolicyGate(a)
             \/ ApprovalWait(a) \/ RecordDecision(a) \/ Resume(a)
             \/ ApprovalInterrupt(a) \/ ReadDecision(a) \/ CommitDecision(a)
             \/ ValidateExecution(a) \/ QueryDeployment(a)
             \/ PostRollback(a) \/ RollbackAnswer(a) \/ MarkExecuted(a) \/ CommitFailure(a)
    BY <2>1 DEF Investigate, ManualTerminalization, PolicyGate, ApprovalWait,
       RecordDecision, Resume, ApprovalInterrupt, ReadDecision, CommitDecision,
       ValidateExecution, QueryDeployment, PostRollback, RollbackAnswer, MarkExecuted,
       CommitFailure, rowVars, labVars
  <2>2. CASE \/ BeginVerification(a) \/ CheckDeployment(a) \/ MeasureBefore(a)
             \/ MeasureAfter(a) \/ CheckLogs(a)
             \/ PersistVerification(a) \/ FinalReport(a)
             \/ SaveCheckpoint(a) \/ Finish(a)
    BY <2>2 DEF BeginVerification, CheckDeployment, MeasureBefore, MeasureAfter,
       CheckLogs, PersistVerification, FinalReport, SaveCheckpoint, Finish, rowVars, labVars
  <2> QED
    BY <1>5, <1>6, <1>7, <2>1, <2>2 DEF Step
<1>8. ASSUME Outsider \/ Aftermath, UNCHANGED rowVars
      PROVE  Unseen \/ Promise!Deploy
  <2>1. approval' = approval
    BY <1>8 DEF rowVars
  <2>2. CASE Operator
    <3>1. CASE lab' = DeployFaultyVersion(lab)
      BY <1>2, <2>1, <3>1 DEF DeployFaultyVersion, Lab, Promise!Deploy
    <3>2. CASE lab' = ResetRuntime(lab)
      BY <1>2, <2>1, <3>2 DEF ResetRuntime, Lab
    <3>3. CASE lab' = [lab EXCEPT !.delayed = TRUE]
      BY <1>2, <2>1, <3>3 DEF Lab
    <3> QED
      BY <2>2, <3>1, <3>2, <3>3 DEF Operator, Perform
  <2>3. CASE FinishCommand
    <3>1. CASE lab' = InjectMissingConfig(lab)
      BY <1>2, <2>1, <3>1 DEF InjectMissingConfig, Lab
    <3>2. CASE lab' = [lab EXCEPT !.delayed = FALSE]
      BY <1>2, <2>1, <3>2 DEF Lab
    <3>3. CASE lab' = ResetDeployment(lab) \/ lab' = ClearLogs(lab)
      BY <1>2, <2>1, <3>3 DEF ResetDeployment, ClearLogs, Lab
    <3> QED
      BY <2>3, <3>1, <3>2, <3>3 DEF FinishCommand, Perform
  <2>4. CASE \E c \in Customers : PlaceOrder(c) \/ FinishOrder(c)
    BY <1>3, <2>1, <2>4 DEF PlaceOrder, FinishOrder
  <2> QED
    BY <1>8, <2>2, <2>3, <2>4 DEF Outsider, Aftermath
<1>9. Interrupt \/ Crash \/ (\E a \in Runs : CommitFails(a) \/ Outage(a) \/ LostAnswer(a))
        => Unseen
  BY DEF Interrupt, Crash, CommitFails, Outage, LostAnswer, rowVars, labVars
<1>10. Unseen \/ Promise!Decide \/ Promise!Rollback \/ Promise!Deploy
  BY <1>4, <1>7, <1>8, <1>9 DEF Next, Disturbance
<1> QED
  BY <1>1, <1>10 DEF Promise!AbstractNext

(* The whole path implements ApprovedRollback: whatever crashes, is lost,  *)
(* repeated or resumed twice, one decision is made, once, and a rollback   *)
(* takes effect only under an approval and never more often than the       *)
(* faulty version was deployed.                                            *)
THEOREM ImplementsPromise == Spec => RollbackOnlyApproved
<1>1. Init => Promise!AbstractInit
  <2> SUFFICES ASSUME Init PROVE Promise!AbstractInit
    OBVIOUS
  <2>1. approval = "none"
    BY DEF Init
  <2>2. lab.deploys \in Nat
    BY InitIInv DEF IInv, TypeOK, LabTypeOK, Lab
  <2>3. lab = Baseline \/ lab = InjectMissingConfig(DeployFaultyVersion(Baseline))
    BY DEF Init, LabInit
  <2>4. lab.rollbacks = 0
    <3>1. Baseline \in Lab /\ Baseline.rollbacks = 0
      BY DEF Baseline, Lab, Version
    <3>2. PICK d : d = DeployFaultyVersion(Baseline)
      OBVIOUS
    <3>3. d.rollbacks = 0
      BY <3>1, <3>2 DEF DeployFaultyVersion, Lab
    <3>4. InjectMissingConfig(d).rollbacks = d.rollbacks
      <4>1. DOMAIN d = DOMAIN Baseline /\ "rollbacks" \in DOMAIN Baseline
        BY <3>2 DEF DeployFaultyVersion, Baseline
      <4> QED
        BY <4>1 DEF InjectMissingConfig
    <3> QED
      BY <2>3, <3>1, <3>2, <3>3, <3>4
  <2> QED
    BY <2>1, <2>2, <2>4 DEF Promise!AbstractInit
<1>2. IInv /\ [Next]_vars => [Promise!AbstractNext]_(Promise!abstractVars)
  <2>1. UNCHANGED vars => UNCHANGED Promise!abstractVars
    BY DEF vars, rowVars, labVars, Promise!abstractVars
  <2> QED
    BY <2>1, StepKeepsPromise
<1> QED
  BY <1>1, <1>2, Inductive, PTL DEF Spec, RollbackOnlyApproved, Promise!AbstractSpec

=============================================================================
