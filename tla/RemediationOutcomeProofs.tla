----------------------- MODULE RemediationOutcomeProofs -----------------------
(***************************************************************************)
(* What the V1 path has achieved when an Action is EXECUTED, an incident   *)
(* RESOLVED or a report written, and what is still to be retried: proofs   *)
(* about Remediation, on top of the invariant of RemediationProofs.        *)
(*                                                                         *)
(* The invariant has more parts.  LabReal is about the deployment while    *)
(* nobody operates the lab.  Ordered says that a graph state's stage and   *)
(* next node agree, and that no checkpoint falls back behind the approval  *)
(* wait once one is past it; Deciding, that the gate makes the Action and  *)
(* only a decision resumes the thread; AtHome, that a run inside a node    *)
(* works on a state that led there.  Alone holds as long as one request at *)
(* a time has resumed the thread: what a run found in the rows is still so *)
(* when it acts on it, and nobody is left to change a reported round.      *)
(***************************************************************************)
EXTENDS RemediationProofs

-----------------------------------------------------------------------------
(* The deployment, as long as nobody operates the lab.                     *)
Untouched == todo = Interventions
AtTarget  == lab.version = Healthy /\ lab.previous = Faulty

Served == {"configuration", "executed", "found"}

LabReal ==
  /\ action.current = Faulty
  /\ Untouched =>
       /\ lab.previous # lab.version
       /\ lab.version = Faulty => lab.previous = Healthy
       /\ lab.version = Healthy => \/ lab.configured
                                   \/ \E r \in Requests : serving[r] = "configuration"
       /\ action.status = "EXECUTED" => AtTarget
       /\ \A r \in Requests : /\ serving[r] = "deployment" => lab.previous # "none"
                              /\ serving[r] \in Served => AtTarget
       /\ \A a \in Runs : /\ pc[a] = "rollback" => lab.previous # "none"
                          /\ pc[a] = "mark" => AtTarget

-----------------------------------------------------------------------------
(* Where a graph state's stage leads, and what it says of the Action.      *)
Ahead == {"investigation", "policy_gate"}

Leads(stage) ==
  CASE stage = "investigation"         -> Early \union {"manual_terminalization", "end"}
    [] stage = "policy_gate"           -> {"approval_wait", "manual_terminalization"}
    [] stage = "waiting_approval"      -> {"approval_interrupt", "approval_decision"}
    [] stage = "action_execution"      -> {"controlled_action_execution"}
    [] stage = "recovery_verification" -> {"recovery_verification"}
    [] stage \in {"resolved", "needs_manual_action"} -> {"final_report", "end"}

Placed(s, status) ==
  /\ s.next \in Leads(s.stage)
  /\ status = "PENDING_APPROVAL" =>
       s.stage \in Ahead \union {"waiting_approval"} /\ s.next # "manual_terminalization"

(* All graph states there are: the checkpoint, what the runs work on, and  *)
(* what they still hold.                                                   *)
Seen == {thread} \union {view[a].state : a \in Runs}
          \union {unsaved[ak[1]][ak[2]] :
                    ak \in {p \in Runs \X Nat : p[2] \in 1..Len(unsaved[p[1]])}}

(* The checkpoints that wait for the decision, or are past it, and the     *)
(* nodes before the one that makes the first of them.                      *)
Reached(s)  == s.stage \notin Ahead
Approaching == Early \union {"approval_wait", "manual_terminalization"}

WorkflowOrder ==
  LET held == unsaved[Workflow] IN
  /\ Reached(thread) => \A k \in 1..Len(held) : Reached(held[k])
  /\ \A j, k \in 1..Len(held) : j < k /\ Reached(held[j]) => Reached(held[k])
  /\ pc[Workflow] \in Approaching =>
       ~Reached(thread) /\ \A k \in 1..Len(held) : ~Reached(held[k])

RequestOrder(r) ==
  /\ pc[r] \notin Approaching
  /\ \A k \in 1..Len(unsaved[r]) : Reached(unsaved[r][k])
  /\ Working(r) \/ unsaved[r] # << >> => Reached(thread)

Ordered ==
  /\ \A s \in Seen : Placed(s, action.status)
  /\ WorkflowOrder
  /\ \A r \in Requests : RequestOrder(r)
  /\ approval # "none" => Reached(thread)

(* A run that is not at work holds nothing; one inside a node works on a   *)
(* state that led there.                                                   *)
Active(a) == pc[a] \in ResumePhases

ExecSteps   == {"query", "rollback", "mark", "fail_closed"}
VerifySteps == {"deployment", "before", "probe", "answer", "after", "logs", "persist"}

AtHome(a) ==
  /\ ~Active(a) => unsaved[a] = << >> /\ view[a].state = NewState
  /\ pc[a] = "decide" => view[a].state.next = "approval_decision"
  /\ pc[a] \in ExecSteps => view[a].state.next = "controlled_action_execution"
  /\ pc[a] \in VerifySteps => view[a].state.next = "recovery_verification"

-----------------------------------------------------------------------------
(* The last checkpoint a run has made, once all it holds is stored.        *)
Tip(a) == IF unsaved[a] = << >> THEN thread ELSE unsaved[a][Len(unsaved[a])]

(* Where a run changes nothing of a reported round, and the checkpoints    *)
(* that lead nowhere else.                                                 *)
Harmless == {"approval_interrupt", "approval_decision", "decide", "final_report", "settle"}
Fine(s)  == s.stage = "waiting_approval" \/ s.next \in {"final_report", "end"}

Settled(s, status) ==
  Reached(s) /\ s.next \in {"final_report", "end"} => status # "APPROVED"

(* What the only run at work has read still holds.                         *)
Sole(a) ==
  /\ pc[a] = "decide" =>
       /\ ~action.executed /\ view[a].status = action.status /\ view[a].incident = incident
       /\ action.status \in {"PENDING_APPROVAL", approval}
  /\ pc[a] \in ExecSteps => ~action.executed
  /\ pc[a] \in VerifySteps => action.executed /\ approval = "APPROVED"

RowsAgree ==
  /\ action.executed <=> action.status = "EXECUTED"
  /\ incident = "RESOLVED" =>
       approval = "APPROVED" /\ action.executed /\ verification = "PASS"
  /\ report.final # "none" =>
       /\ report.final = incident /\ incident \in Closed
       /\ report.status = action.status
       /\ action.status \notin {"PENDING_APPROVAL", "APPROVED"}
       /\ report.final = "RESOLVED" => report.verified = "PASS"

Reported ==
  report.final # "none" =>
    /\ \A a \in Runs : Active(a) => pc[a] \in Harmless /\ Fine(Tip(a))
    /\ (\A a \in Runs : ~Active(a)) /\ (\E r \in Requests : pc[r] \in {"insert", "resume"})
         => Fine(thread)

Alone ==
  /\ RowsAgree
  /\ \A a, b \in Runs : Active(a) /\ Active(b) => a = b
  /\ \A a \in Runs : Sole(a)
  /\ \A s \in Seen : Settled(s, action.status)
  /\ Reported

(* The Action is made at the gate, and a thread is resumed with a decision. *)
Deciding ==
  /\ pc[Workflow] \in Early \union {"manual_terminalization"} => action.status = "none"
  /\ \A r \in Requests :
       /\ pc[r] = "insert" => view[r].wanted \in Decision
       /\ pc[r] = "resume" \/ Active(r) => approval # "none"

OInv ==
  /\ IInv
  /\ LabReal
  /\ action.executed => approval = "APPROVED"
  /\ Ordered /\ Deciding
  /\ \A a \in Runs : AtHome(a)
  /\ ~overlapped => Alone

-----------------------------------------------------------------------------
(* The graph states a step leaves behind.                                  *)
LEMMA SeenMembers ==
  /\ thread \in Seen
  /\ \A a \in Runs : view[a].state \in Seen
  /\ \A a \in Runs : \A k \in 1..Len(unsaved[a]) : k \in Nat => unsaved[a][k] \in Seen
<1>1. ASSUME NEW a \in Runs, NEW k \in 1..Len(unsaved[a]), k \in Nat
      PROVE  unsaved[a][k] \in Seen
  <2> DEFINE Places == {p \in Runs \X Nat : p[2] \in 1..Len(unsaved[p[1]])}
             held == {unsaved[ak[1]][ak[2]] : ak \in Places}
  <2>1. <<a, k>> \in Places
    BY <1>1
  <2>2. unsaved[<<a, k>>[1]][<<a, k>>[2]] = unsaved[a][k]
    OBVIOUS
  <2>3. held \subseteq Seen
    BY DEF Seen
  <2> HIDE DEF Places
  <2>4. unsaved[a][k] \in held
    BY <2>1, <2>2
  <2> HIDE DEF held
  <2> QED
    BY <2>3, <2>4
<1> QED
  BY <1>1 DEF Seen

LEMMA SeenNext ==
  ASSUME NEW s \in Seen'
  PROVE  \/ s = thread'
         \/ \E a \in Runs : s = view'[a].state
         \/ \E a \in Runs : \E k \in 1..Len(unsaved'[a]) : k \in Nat /\ s = unsaved'[a][k]
<1>1. CASE \E p \in Runs \X Nat : p[2] \in 1..Len(unsaved'[p[1]]) /\ s = unsaved'[p[1]][p[2]]
  <2>1. PICK p \in Runs \X Nat : p[2] \in 1..Len(unsaved'[p[1]]) /\ s = unsaved'[p[1]][p[2]]
    BY <1>1
  <2>2. p[1] \in Runs /\ p[2] \in Nat
    OBVIOUS
  <2> QED
    BY <2>1, <2>2
<1> QED
  BY <1>1 DEF Seen

LEMMA SeenReturn ==
  ASSUME MemoryTyped, NEW a \in Runs, NEW s \in GraphState, Return(a, s), UNCHANGED thread
  PROVE  Seen' \subseteq Seen \union {s}
<1> SUFFICES ASSUME NEW t \in Seen' PROVE t \in Seen \/ t = s
  OBVIOUS
<1>1. /\ view'[a].state = s /\ unsaved'[a] = Append(unsaved[a], s)
      /\ unsaved[a] \in Seq(GraphState)
      /\ \A b \in Runs \ {a} : view'[b] = view[b] /\ unsaved'[b] = unsaved[b]
  BY ReturnEffect DEF MemoryTyped
<1>2. \A k \in 1..Len(unsaved'[a]) :
        \/ unsaved'[a][k] = s
        \/ k \in 1..Len(unsaved[a]) /\ unsaved'[a][k] = unsaved[a][k]
  <2>1. /\ Len(unsaved'[a]) = Len(unsaved[a]) + 1 /\ Len(unsaved[a]) \in Nat
        /\ unsaved'[a][Len(unsaved[a]) + 1] = s
        /\ \A k \in 1..Len(unsaved[a]) : unsaved'[a][k] = unsaved[a][k]
    BY <1>1
  <2> QED
    BY <2>1
<1> QED
  BY <1>1, <1>2, SeenNext, SeenMembers

LEMMA SeenRaise ==
  ASSUME MemoryTyped, NEW a \in Runs, NEW p \in EndPhases, Raise(a, p)
  PROVE  Seen' \subseteq Seen \union {NewState} /\ thread' = Tip(a)
<1>1. /\ view'[a].state = NewState /\ unsaved'[a] = << >>
      /\ \/ unsaved[a] = << >> /\ thread' = thread
         \/ \E k \in 1..Len(unsaved[a]) :
              thread' = unsaved[a][k] /\ k = Len(unsaved[a])
      /\ \A b \in Runs \ {a} : view'[b] = view[b] /\ unsaved'[b] = unsaved[b]
  BY RaiseEffect
<1>2. unsaved[a] \in Seq(GraphState) /\ Len(unsaved[a]) \in Nat
  BY DEF MemoryTyped
<1>3. thread' \in Seen
  BY <1>1, <1>2, SeenMembers
<1>4. \A k \in 1..Len(unsaved'[a]) : FALSE
  BY <1>1
<1>5. thread' = Tip(a)
  BY DEF Tip, Raise
<1> QED
  BY <1>1, <1>3, <1>4, <1>5, SeenNext, SeenMembers

LEMMA SeenMove ==
  ASSUME MemoryTyped, NEW a \in Runs, UNCHANGED <<thread, unsaved>>,
         NEW v, view' = view \/ (v \in View /\ view' = [view EXCEPT ![a] = v])
  PROVE  Seen' \subseteq Seen \union {v.state}
<1>1. \A b \in Runs : view'[b] = view[b] \/ view'[b] = v
  BY DEF MemoryTyped
<1> QED
  BY <1>1, SeenNext, SeenMembers

-----------------------------------------------------------------------------
(* What the stage of a placed state says of the node to run next.          *)
LEMMA PlacedNext ==
  ASSUME NEW s \in GraphState, NEW status, Placed(s, status)
  PROVE  /\ s.next \in Approaching => ~Reached(s)
         /\ ~Reached(s) => s.next \in Approaching \union {"end"}
         /\ s.next \in {"approval_interrupt", "approval_decision"}
              <=> s.stage = "waiting_approval"
         /\ s.next = "controlled_action_execution" <=> s.stage = "action_execution"
         /\ s.next = "recovery_verification" <=> s.stage = "recovery_verification"
         /\ s.next = "final_report" => s.stage \in {"resolved", "needs_manual_action"}
         /\ s.next = "end" =>
              s.stage \in {"resolved", "needs_manual_action", "investigation"}
         /\ s.stage \in {"resolved", "needs_manual_action"} =>
              s.next \in {"final_report", "end"}
         /\ s.next \notin Early \union {"approval_wait"} =>
              \/ s.next \in {"manual_terminalization", "end"}
              \/ Reached(s)
<1>1. s.stage \in Stages
  BY DEF GraphState
<1> QED
  BY <1>1 DEF Placed, Leads, Stages, Approaching, Early, Investigating, Reached, Ahead

LEMMA Phased ==
  /\ Nodes \intersect Steps = {} /\ "end" \notin Nodes
  /\ \A p \in Nodes \union {"settle"} :
       /\ p \in ResumePhases
       /\ p \notin ExecSteps \union VerifySteps \union {"decide"}
  /\ ExecSteps \union VerifySteps \union {"decide"} \subseteq ResumePhases
  /\ ResumePhases \subseteq Nodes \union Steps
  /\ \A p \in EndPhases \union {"idle", "insert", "resume"} : p \notin ResumePhases
  /\ Approaching \subseteq ResumePhases /\ Harmless \subseteq ResumePhases
BY DEF Nodes, Steps, Investigating, ResumePhases, ExecSteps, VerifySteps, EndPhases,
       Approaching, Early, Harmless

(* A working run, and everybody else, in terms of the invariant.           *)
LEMMA Known ==
  ASSUME OInv, NEW a \in Runs
  PROVE  /\ view[a].state \in GraphState /\ thread \in GraphState
         /\ Placed(view[a].state, action.status) /\ Placed(thread, action.status)
         /\ AtHome(a) /\ MemoryTyped
         /\ pc[a] \in Nodes => view[a].state.next = pc[a]
         /\ unsaved[a] \in Seq(GraphState) /\ Len(unsaved[a]) \in Nat
         /\ a # Workflow => a \in Requests
         /\ a \in Requests => a # Workflow /\ RequestOrder(a)
<1>1. IInv /\ Ordered /\ AtHome(a)
  BY DEF OInv
<1>2. MemoryTyped /\ view[a].state \in GraphState /\ StepSound(a)
      /\ (a # Workflow => a \in Requests)
  BY <1>1, Own, TypeParts DEF IInv
<1>3. unsaved[a] \in Seq(GraphState) /\ thread \in GraphState
  BY <1>2 DEF MemoryTyped
<1>4. Placed(view[a].state, action.status) /\ Placed(thread, action.status)
  BY <1>1, SeenMembers DEF Ordered
<1> QED
  BY <1>1, <1>2, <1>3, <1>4, RemediationAssumption DEF Ordered, StepSound

(* What a run does about the decision.                                     *)
LEMMA DecidingKept ==
  ASSUME OInv, NEW a \in Runs,
         approval' = approval \/ (approval = "none" /\ approval' \in Decision),
         \A b \in Runs \ {a} : view'[b] = view[b] /\ pc'[b] = pc[b],
         a = Workflow =>
           (pc'[a] \in Early \union {"manual_terminalization"} => action'.status = "none"),
         a \in Requests =>
           /\ Reached(thread) \/ action'.status = action.status
           /\ pc'[a] = "insert" => view'[a].wanted \in Decision
           /\ pc'[a] = "resume" \/ pc'[a] \in ResumePhases => approval' # "none"
  PROVE  Deciding'
<1>1. Deciding /\ WorkflowOrder /\ Workflow \notin Requests /\ Workflow \in Runs
  BY RemediationAssumption DEF OInv, Ordered, Runs
<1>2. a = Workflow \/ a \in Requests
  BY DEF Runs
<1>3. pc'[Workflow] \in Early \union {"manual_terminalization"} => action'.status = "none"
  BY <1>1, <1>2 DEF Deciding, WorkflowOrder, Approaching
<1>4. ASSUME NEW r \in Requests
      PROVE  /\ pc'[r] = "insert" => view'[r].wanted \in Decision
             /\ pc'[r] = "resume" \/ pc'[r] \in ResumePhases => approval' # "none"
  <2>1. CASE r = a
    BY <2>1
  <2>2. CASE r # a
    <3>1. r \in Runs /\ "none" \notin Decision
      BY DEF Runs, Decision
    <3> QED
      BY <1>1, <2>2, <3>1 DEF Deciding, Active
  <2> QED
    BY <2>1, <2>2
<1> QED
  BY <1>3, <1>4 DEF Deciding, Active

(* A node that returns keeps the order of the checkpoints.                 *)
LEMMA ReturnOrdered ==
  ASSUME OInv, NEW a \in Runs, NEW s \in GraphState, Return(a, s), Working(a),
         UNCHANGED <<thread, approval>>,
         \A t \in Seen : Placed(t, action'.status), Placed(s, action'.status),
         Reached(s) \/ (a = Workflow /\ pc[a] \in Approaching)
  PROVE  Ordered' /\ \A b \in Runs : AtHome(b)'
<1>1. /\ view'[a].state = s
      /\ pc'[a] = IF s.next = "end" THEN "settle" ELSE s.next
      /\ unsaved'[a] = Append(unsaved[a], s)
      /\ \A b \in Runs \ {a} :
           view'[b] = view[b] /\ pc'[b] = pc[b] /\ unsaved'[b] = unsaved[b]
  BY Known, ReturnEffect
<1>2. unsaved[a] \in Seq(GraphState) /\ MemoryTyped
  BY Known
<1>3. /\ Len(unsaved'[a]) = Len(unsaved[a]) + 1 /\ Len(unsaved[a]) \in Nat
      /\ \A k \in 1..Len(unsaved'[a]) :
           IF k \in 1..Len(unsaved[a]) THEN unsaved'[a][k] = unsaved[a][k]
                                       ELSE unsaved'[a][k] = s /\ k = Len(unsaved[a]) + 1
  <2>1. /\ Len(unsaved'[a]) = Len(unsaved[a]) + 1 /\ Len(unsaved[a]) \in Nat
        /\ unsaved'[a][Len(unsaved[a]) + 1] = s
        /\ \A k \in 1..Len(unsaved[a]) : unsaved'[a][k] = unsaved[a][k]
    BY <1>1, <1>2
  <2> QED
    BY <2>1
<1>4. pc'[a] \in Nodes \union {"settle"} /\ (s.next \in Nodes \/ s.next = "end")
  BY <1>1 DEF GraphState
<1>5. pc'[a] \in Approaching => ~Reached(s)
  <2>1. s.next \in Approaching => ~Reached(s)
    BY PlacedNext
  <2>2. "end" \notin Approaching /\ "settle" \notin Approaching
    BY DEF Approaching, Early, Investigating
  <2> QED
    BY <1>1, <2>1, <2>2
<1>6. Ordered
  BY DEF OInv
<1>7. \A t \in Seen' : Placed(t, action'.status)
  BY <1>2, SeenReturn
<1>8. WorkflowOrder'
  <2>1. CASE a # Workflow
    BY <1>1, <1>6, <2>1 DEF Ordered, WorkflowOrder, Reached, Runs
  <2>2. CASE a = Workflow
    <3> DEFINE old == unsaved[a]
               new == unsaved'[a]
    <3>1. /\ Reached(thread) => \A k \in 1..Len(old) : Reached(old[k])
          /\ \A j, k \in 1..Len(old) : j < k /\ Reached(old[j]) => Reached(old[k])
          /\ ~Reached(s) => ~Reached(thread) /\ \A k \in 1..Len(old) : ~Reached(old[k])
      BY <1>6, <2>2 DEF Ordered, WorkflowOrder
    <3>2. /\ Len(new) = Len(old) + 1 /\ Len(old) \in Nat
          /\ \A k \in 1..Len(new) : IF k \in 1..Len(old) THEN new[k] = old[k]
                                    ELSE new[k] = s /\ k = Len(old) + 1
      BY <1>3
    <3> HIDE DEF old, new
    <3>3. Reached(thread) => \A k \in 1..Len(new) : Reached(new[k])
      BY <3>1, <3>2
    <3>4. \A j, k \in 1..Len(new) : j < k /\ Reached(new[j]) => Reached(new[k])
      BY <3>1, <3>2
    <3>5. ~Reached(s) => ~Reached(thread) /\ \A k \in 1..Len(new) : ~Reached(new[k])
      BY <3>1, <3>2
    <3> QED
      BY <1>5, <2>2, <3>3, <3>4, <3>5 DEF WorkflowOrder, Reached, new
  <2> QED
    BY <2>1, <2>2
<1>9. ASSUME NEW r \in Requests
      PROVE  RequestOrder(r)'
  <2>1. RequestOrder(r) /\ r \in Runs /\ r # Workflow
    BY <1>6, RemediationAssumption DEF Ordered, Runs
  <2>2. CASE r # a
    BY <1>1, <2>1, <2>2 DEF RequestOrder, Working, Reached
  <2>3. CASE r = a
    <3>1. Reached(s) /\ Reached(thread)
      BY <2>1, <2>3 DEF RequestOrder
    <3>2. \A k \in 1..Len(unsaved'[r]) : Reached(unsaved'[r][k])
      BY <1>3, <2>1, <2>3, <3>1 DEF RequestOrder
    <3> QED
      BY <1>5, <2>3, <3>1, <3>2 DEF RequestOrder, Reached
  <2> QED
    BY <2>2, <2>3
<1>10. approval' # "none" => Reached(thread)'
  BY <1>6 DEF Ordered, Reached
<1>11. \A b \in Runs : AtHome(b)'
  <2>1. \A b \in Runs : AtHome(b)
    BY DEF OInv
  <2>2. AtHome(a)'
    BY <1>4, Phased DEF AtHome, Active
  <2> QED
    BY <1>1, <2>1, <2>2 DEF AtHome, Active
<1> QED
  BY <1>7, <1>8, <1>9, <1>10, <1>11 DEF Ordered

(* It leaves the only run at work alone.                                   *)
LEMMA ReturnAlone ==
  ASSUME OInv, NEW a \in Runs, NEW s \in GraphState, Return(a, s), Active(a),
         UNCHANGED <<thread, overlapped>>, ~overlapped,
         Placed(s, action'.status), RowsAgree',
         \A t \in Seen : Settled(t, action'.status), Settled(s, action'.status),
         report'.final # "none" => Fine(s)
  PROVE  Alone'
<1>1. /\ pc'[a] = IF s.next = "end" THEN "settle" ELSE s.next
      /\ unsaved'[a] = Append(unsaved[a], s)
      /\ \A b \in Runs \ {a} :
           view'[b] = view[b] /\ pc'[b] = pc[b] /\ unsaved'[b] = unsaved[b]
  BY Known, ReturnEffect
<1>2. Alone /\ MemoryTyped /\ unsaved[a] \in Seq(GraphState)
  BY Known DEF OInv
<1>3. pc'[a] \in Nodes \union {"settle"} /\ Active(a)'
  BY <1>1, Phased DEF GraphState, Active
<1>4. \A b \in Runs \ {a} : ~Active(b) /\ ~Active(b)'
  BY <1>1, <1>2 DEF Alone, Active
<1>5. \A b \in Runs : Sole(b)'
  <2>1. Sole(a)'
    BY <1>3, Phased DEF Sole
  <2>2. \A b \in Runs \ {a} : Sole(b)'
    BY <1>4, Phased DEF Sole, Active
  <2> QED
    BY <2>1, <2>2
<1>6. \A t \in Seen' : Settled(t, action'.status)
  BY <1>2, SeenReturn
<1>7. Reported'
  <2> SUFFICES ASSUME report'.final # "none"
               PROVE  pc'[a] \in Harmless /\ Fine(Tip(a)')
    BY <1>3, <1>4 DEF Reported, Fine
  <2>1. Tip(a)' = s
    BY <1>1, <1>2 DEF Tip
  <2>2. s.next \in {"approval_interrupt", "approval_decision", "final_report", "end"}
    BY PlacedNext DEF Fine
  <2>3. pc'[a] \in Harmless
    BY <1>1, <2>2 DEF Harmless
  <2> QED
    BY <2>1, <2>3
<1> QED
  BY <1>3, <1>4, <1>5, <1>6, <1>7 DEF Alone

(* So it keeps the invariant, given what it does to the rows.              *)
LEMMA ReturnKeeps ==
  ASSUME OInv, IInv', NEW a \in Runs, NEW s \in GraphState, Return(a, s), Active(a),
         UNCHANGED <<thread, approval, overlapped, labVars>>,
         Reached(s) \/ (a = Workflow /\ pc[a] \in Approaching),
         action'.current = action.current,
         action'.status = "EXECUTED" => action.status = "EXECUTED" \/ pc[a] = "mark",
         action'.executed => approval = "APPROVED",
         s.next \in Early \union {"manual_terminalization"} => action'.status = "none",
         Placed(s, action'.status), \A t \in Seen : Placed(t, action'.status),
         ~overlapped => /\ RowsAgree' /\ Settled(s, action'.status)
                        /\ \A t \in Seen : Settled(t, action'.status)
                        /\ report'.final # "none" => Fine(s)
  PROVE  OInv'
<1>1. Working(a)
  BY Phased DEF Active, Working
<1>2. Ordered' /\ \A b \in Runs : AtHome(b)'
  BY <1>1, ReturnOrdered
<1>3. ~overlapped' => Alone'
  BY ReturnAlone
<1>4. LabReal'
  <2>1. LabReal
    BY DEF OInv
  <2>2. /\ pc'[a] \notin {"rollback", "mark"}
        /\ \A b \in Runs \ {a} : pc'[b] = pc[b]
    <3>1. /\ pc'[a] = IF s.next = "end" THEN "settle" ELSE s.next
          /\ \A b \in Runs \ {a} : pc'[b] = pc[b]
      BY Known, ReturnEffect
    <3> QED
      BY <3>1 DEF GraphState, Nodes, Investigating
  <2> QED
    BY <2>1, <2>2 DEF LabReal, Untouched, AtTarget, labVars
<1>5. Deciding'
  <2>1. /\ pc'[a] = IF s.next = "end" THEN "settle" ELSE s.next
        /\ \A b \in Runs \ {a} : view'[b] = view[b] /\ pc'[b] = pc[b]
    BY Known, ReturnEffect
  <2>2. a = Workflow /\ pc'[a] \in Early \union {"manual_terminalization"}
          => action'.status = "none"
    BY <2>1 DEF Early, Investigating
  <2>3. a \in Requests => Reached(thread) /\ pc'[a] # "insert" /\ approval # "none"
    <3>1. pc'[a] # "insert"
      BY <2>1 DEF GraphState, Nodes, Investigating
    <3> QED
      BY <1>1, <3>1, Known DEF RequestOrder, OInv, Deciding
  <2> QED
    BY <2>1, <2>2, <2>3, DecidingKept
<1> QED
  BY <1>2, <1>3, <1>4, <1>5 DEF OInv

(* A node that raises keeps the order of the checkpoints ...               *)
LEMMA RaiseOrdered ==
  ASSUME OInv, NEW a \in Runs, NEW p \in {"refused", "unavailable", "lost"}, Raise(a, p),
         Working(a), UNCHANGED rowVars
  PROVE  Ordered' /\ \A b \in Runs : AtHome(b)'
<1>1. /\ view'[a].state = NewState /\ pc'[a] = p /\ unsaved'[a] = << >>
      /\ \/ unsaved[a] = << >> /\ thread' = thread
         \/ \E k \in 1..Len(unsaved[a]) : thread' = unsaved[a][k] /\ k = Len(unsaved[a])
      /\ \A b \in Runs \ {a} :
           view'[b] = view[b] /\ pc'[b] = pc[b] /\ unsaved'[b] = unsaved[b]
      /\ Seen' \subseteq Seen \union {NewState}
  BY Known, RaiseEffect, SeenRaise DEF EndPhases
<1>2. Ordered /\ MemoryTyped
  BY Known DEF OInv
<1>3. pc'[a] \notin Approaching /\ ~Working(a)' /\ ~Active(a)'
      /\ pc'[a] \notin ExecSteps \union VerifySteps \union {"decide"}
  <2>1. p \in EndPhases
    BY DEF EndPhases
  <2>2. p \notin Nodes \union Steps
    BY DEF Nodes, Steps, Investigating
  <2> QED
    BY <1>1, <2>1, <2>2, Phased DEF Working, Active
<1>4. Placed(NewState, action.status)
  BY DEF NewState, Placed, Leads, Early, Investigating, Ahead
<1>5. \A s \in Seen' : Placed(s, action'.status)
  BY <1>1, <1>2, <1>4 DEF Ordered, rowVars
<1> PICK t : t = thread'
  OBVIOUS
<1>6. Reached(thread) => Reached(t)
  BY <1>1, <1>2, RemediationAssumption DEF Ordered, WorkflowOrder, RequestOrder, Runs
<1>7. a # Workflow => Reached(thread) /\ Reached(t) /\ a \in Requests
  BY <1>2, <1>6 DEF Ordered, RequestOrder, Runs
<1>8. WorkflowOrder'
  <2>1. CASE a # Workflow
    BY <1>1, <1>2, <1>7, <2>1 DEF Ordered, WorkflowOrder, Reached, Runs
  <2>2. CASE a = Workflow
    BY <1>1, <1>3, <2>2 DEF WorkflowOrder
  <2> QED
    BY <2>1, <2>2
<1>9. ASSUME NEW r \in Requests
      PROVE  RequestOrder(r)'
  <2>1. CASE r = a
    BY <1>1, <1>3, <2>1 DEF RequestOrder
  <2>2. CASE r # a
    <3>1. r \in Runs /\ RequestOrder(r)
      BY <1>2 DEF Ordered, Runs
    <3> QED
      BY <1>1, <1>6, <2>2, <3>1 DEF RequestOrder, Working, Reached
  <2> QED
    BY <2>1, <2>2
<1>10. approval' # "none" => Reached(thread)'
  BY <1>2, <1>6 DEF Ordered, Reached, rowVars
<1>11. \A b \in Runs : AtHome(b)'
  BY <1>1, <1>3 DEF OInv, AtHome, Active
<1> QED
  BY <1>5, <1>8, <1>9, <1>10, <1>11 DEF Ordered

(* ... and the invariant.                                                  *)
LEMMA RaiseKeeps ==
  ASSUME OInv, IInv', NEW a \in Runs, NEW p \in {"refused", "unavailable", "lost"}, Raise(a, p),
         Active(a), UNCHANGED <<rowVars, overlapped, labVars>>
  PROVE  OInv'
<1>1. /\ pc'[a] = p /\ \A b \in Runs \ {a} : pc'[b] = pc[b] /\ view'[b] = view[b]
      /\ Seen' \subseteq Seen \union {NewState} /\ thread' = Tip(a)
  BY Known, RaiseEffect, SeenRaise DEF EndPhases
<1>2. p \notin ResumePhases /\ p \notin {"rollback", "mark"}
  BY Phased DEF EndPhases
<1>3. Ordered' /\ \A b \in Runs : AtHome(b)'
  BY RaiseOrdered, Phased DEF Active, Working
<1>4. LabReal'
  BY <1>1, <1>2 DEF OInv, LabReal, Untouched, AtTarget, rowVars, labVars
<1>5. ASSUME ~overlapped
      PROVE  Alone'
  <2>1. Alone
    BY <1>5 DEF OInv
  <2>2. \A b \in Runs : ~Active(b)'
    BY <1>1, <1>2, <2>1 DEF Alone, Active
  <2>3. \A b \in Runs : Sole(b)'
    BY <2>2, Phased DEF Sole, Active
  <2>4. RowsAgree'
    BY <2>1 DEF Alone, RowsAgree, rowVars
  <2>5. Settled(NewState, action.status)
    BY DEF Settled, NewState
  <2>6. \A s \in Seen' : Settled(s, action'.status)
    BY <1>1, <2>1, <2>5 DEF Alone, rowVars
  <2>7. Reported'
    <3>1. report.final # "none" => Fine(Tip(a))
      BY <2>1 DEF Alone, Reported
    <3> QED
      BY <1>1, <2>2, <3>1 DEF Reported, Fine, rowVars
  <2> QED
    BY <2>2, <2>3, <2>4, <2>6, <2>7 DEF Alone
<1>6. Deciding'
  <2>1. pc'[a] \notin Early \union {"manual_terminalization"}
        /\ pc'[a] \notin {"insert", "resume"} /\ pc'[a] \notin ResumePhases
    BY <1>1, <1>2, Phased DEF Approaching
  <2> QED
    BY <1>1, <2>1, DecidingKept DEF rowVars
<1> QED
  BY <1>3, <1>4, <1>5, <1>6 DEF OInv, rowVars

(* A step inside a node keeps the order of the checkpoints ...             *)
LEMMA MoveOrdered ==
  ASSUME OInv, UNCHANGED <<thread, unsaved, action>>,
         NEW a \in Runs, NEW p \in Phases \ Approaching, Goto(a, p),
         NEW v \in View, view' = view \/ view' = [view EXCEPT ![a] = v],
         Placed(v.state, action.status),
         AtHome(a)',
         a \in Requests /\ p \in Nodes \union Steps => Reached(thread),
         approval' # "none" => Reached(thread)
  PROVE  Ordered' /\ \A b \in Runs : AtHome(b)'
<1>1. /\ pc'[a] = p
      /\ \A b \in Runs \ {a} : view'[b] = view[b] /\ pc'[b] = pc[b]
      /\ Seen' \subseteq Seen \union {v.state}
  BY Known, MoveEffect, SeenMove
<1>2. Ordered
  BY DEF OInv
<1>4. \A s \in Seen' : Placed(s, action'.status)
  BY <1>1, <1>2 DEF Ordered
<1>5. WorkflowOrder'
  BY <1>1, <1>2 DEF Ordered, WorkflowOrder, Reached, Runs
<1>6. ASSUME NEW r \in Requests
      PROVE  RequestOrder(r)'
  <2>1. r \in Runs /\ RequestOrder(r)
    BY <1>2 DEF Ordered, Runs
  <2>2. CASE r = a
    BY <1>1, <2>1, <2>2 DEF RequestOrder, Working, Reached
  <2>3. CASE r # a
    BY <1>1, <2>1, <2>3 DEF RequestOrder, Working, Reached
  <2> QED
    BY <2>2, <2>3
<1>7. \A b \in Runs : AtHome(b)'
  BY <1>1 DEF OInv, AtHome, Active
<1> QED
  BY <1>4, <1>5, <1>6, <1>7 DEF Ordered, Reached

(* ... and, for a run at work, the invariant.                              *)
LEMMA MoveKeeps ==
  ASSUME OInv, IInv', LabReal', UNCHANGED <<thread, unsaved, rowVars, overlapped>>,
         NEW a \in Runs, Active(a), NEW p \in ResumePhases \ Approaching, Goto(a, p),
         NEW v \in View, view' = view \/ view' = [view EXCEPT ![a] = v],
         v.state.next = view[a].state.next, v.state.stage = view[a].state.stage,
         AtHome(a)',
         ~overlapped => Sole(a)' /\ (report.final # "none" => p \in Harmless)
  PROVE  OInv'
<1>1. /\ pc'[a] = p
      /\ \A b \in Runs \ {a} : view'[b] = view[b] /\ pc'[b] = pc[b]
      /\ Seen' \subseteq Seen \union {v.state}
  <2>1. p \in Phases /\ MemoryTyped /\ UNCHANGED <<thread, unsaved>>
    BY Known DEF ResumePhases, Phases
  <2>2. Seen' \subseteq Seen \union {v.state}
    BY <2>1, SeenMove
  <2> QED
    BY <2>1, <2>2, MoveEffect
<1>2. /\ p \in Phases \ Approaching
      /\ a \in Requests => Reached(thread)
      /\ approval' # "none" => Reached(thread)
  <2>1. p \in Phases
    BY DEF ResumePhases, Phases
  <2>2. a \in Requests => Reached(thread)
    BY Phased DEF OInv, Ordered, RequestOrder, Working, Active
  <2> QED
    BY <2>1, <2>2 DEF OInv, Ordered, rowVars
<1>3. Ordered' /\ \A b \in Runs : AtHome(b)'
  <2>1. Placed(v.state, action.status)
    BY Known DEF Placed
  <2> QED
    BY <1>2, <2>1, MoveOrdered DEF rowVars
<1>4. ASSUME ~overlapped
      PROVE  Alone'
  <2>1. Alone
    BY <1>4 DEF OInv
  <2>2. Active(a)' /\ \A b \in Runs \ {a} : ~Active(b) /\ ~Active(b)'
    BY <1>1, <2>1 DEF Alone, Active
  <2>3. \A b \in Runs : Sole(b)'
    BY <1>4, <2>2, Phased DEF Sole, Active
  <2>4. RowsAgree'
    BY <2>1 DEF Alone, RowsAgree, rowVars
  <2>5. Settled(view[a].state, action.status)
    BY <2>1, SeenMembers DEF Alone
  <2>6. \A s \in Seen' : Settled(s, action'.status)
    BY <1>1, <2>1, <2>5 DEF Alone, Settled, Reached, rowVars
  <2>7. Reported'
    <3>1. report.final # "none" => p \in Harmless /\ Fine(Tip(a))
      BY <1>4, <2>1 DEF Alone, Reported
    <3>2. Tip(a)' = Tip(a)
      BY DEF Tip
    <3> QED
      BY <1>1, <2>2, <3>1, <3>2 DEF Reported, Fine, rowVars
  <2> QED
    BY <2>2, <2>3, <2>4, <2>6, <2>7 DEF Alone
<1>5. Deciding'
  <2>1. p \notin Early \union {"manual_terminalization", "insert", "resume"}
    BY Phased DEF Approaching
  <2>2. a \in Requests => approval # "none"
    BY DEF OInv, Deciding
  <2> QED
    BY <1>1, <2>1, <2>2, DecidingKept DEF rowVars
<1> QED
  BY <1>3, <1>4, <1>5 DEF OInv, rowVars

-----------------------------------------------------------------------------
(* A step that leaves the deployment as it was.                            *)
LEMMA LabRealKept ==
  ASSUME LabReal, UNCHANGED <<todo, action>>,
         lab'.version = lab.version, lab'.previous = lab.previous,
         lab'.configured = lab.configured, UNCHANGED serving,
         \A b \in Runs : pc'[b] \in {"rollback", "mark"} => pc'[b] = pc[b]
  PROVE  LabReal'
BY DEF LabReal, Untouched, AtTarget

(* A step that only touches the lab.                                       *)
LEMMA OnlyLabKeeps ==
  ASSUME OInv, IInv', LabReal',
         UNCHANGED <<rowVars, thread, unsaved, pc, view, overlapped>>
  PROVE  OInv'
<1>1. Seen' = Seen
  BY DEF Seen
<1>2. Ordered'
  BY <1>1 DEF OInv, Ordered, WorkflowOrder, RequestOrder, Working, Reached, Placed, rowVars
<1>3. Deciding' /\ \A a \in Runs : AtHome(a)'
  BY DEF OInv, Deciding, AtHome, Active, rowVars
<1>4. ~overlapped' => Alone'
  <2>1. ~overlapped => RowsAgree' /\ \A s \in Seen' : Settled(s, action'.status)
    BY <1>1 DEF OInv, Alone, RowsAgree, rowVars
  <2>2. ~overlapped => (\A a \in Runs : Sole(a)')
    BY DEF OInv, Alone, Sole, rowVars
  <2>3. ~overlapped => Reported'
    BY DEF OInv, Alone, Reported, Active, Tip, Fine, rowVars
  <2> QED
    BY <2>1, <2>2, <2>3 DEF OInv, Alone, Active
<1> QED
  BY <1>2, <1>3, <1>4 DEF OInv, rowVars

(* A request outside the graph, on its way in or out.                      *)
LEMMA ApproachKeeps ==
  ASSUME OInv, IInv', UNCHANGED <<thread, unsaved, overlapped, labVars>>,
         UNCHANGED <<incident, action, verification, report>>,
         approval' = approval \/ (approval = "none" /\ approval' \in Decision),
         NEW r \in Requests, ~Active(r),
         NEW p \in {"insert", "resume", "done", "refused", "lost"}, Goto(r, p),
         NEW v \in View, view' = view \/ view' = [view EXCEPT ![r] = v],
         v.state = NewState,
         p = "insert" => view'[r].wanted \in Decision,
         p = "resume" => approval' # "none",
         p \in {"insert", "resume"} =>
           Reached(thread) /\ (pc[r] = "insert" \/ Fine(thread)),
         approval' # "none" => Reached(thread)
  PROVE  OInv'
<1>1. r \in Runs /\ r # Workflow /\ AtHome(r) /\ MemoryTyped
  BY Known, RemediationAssumption DEF Runs
<1>2. /\ p \in Phases \ Approaching /\ p \notin ResumePhases /\ p \notin Nodes
      /\ p \notin {"rollback", "mark"}
  BY Phased DEF Phases, Steps, EndPhases, Approaching, Early, Investigating, Nodes
<1>3. /\ pc'[r] = p
      /\ \A b \in Runs \ {r} : view'[b] = view[b] /\ pc'[b] = pc[b]
      /\ Seen' \subseteq Seen \union {NewState}
  BY <1>1, <1>2, MoveEffect, SeenMove
<1>4. view'[r].state = NewState /\ unsaved'[r] = << >>
  BY <1>1 DEF AtHome, MemoryTyped
<1>5. Ordered' /\ \A b \in Runs : AtHome(b)'
  <2>1. Placed(v.state, action.status)
    BY DEF NewState, Placed, Leads, Early, Investigating, Ahead
  <2>2. AtHome(r)'
    BY <1>2, <1>3, <1>4, Phased DEF AtHome, Active
  <2>3. p \in Nodes \union Steps => Reached(thread)
    BY DEF Nodes, Steps, Investigating
  <2> QED
    BY <1>1, <1>2, <2>1, <2>2, <2>3, MoveOrdered
<1>6. LabReal'
  BY <1>2, <1>3 DEF OInv, LabReal, Untouched, AtTarget, labVars
<1>7. Deciding'
  BY <1>1, <1>2, <1>3, DecidingKept
<1>8. ASSUME ~overlapped
      PROVE  Alone'
  <2>1. Alone
    BY <1>8 DEF OInv
  <2>2. \A b \in Runs : Active(b)' <=> Active(b)
    BY <1>2, <1>3 DEF Active
  <2>3. RowsAgree'
    BY <2>1 DEF Alone, RowsAgree, Decision
  <2>4. \A b \in Runs : Sole(b)'
    <3>1. \A b \in Runs : \/ pc'[b] = pc[b] /\ view'[b] = view[b]
                         \/ pc'[b] \notin ResumePhases
      BY <1>2, <1>3
    <3>2. \A b \in Runs : Active(b) => b = Workflow \/ approval # "none"
      BY DEF OInv, Deciding, Runs
    <3>3. pc[Workflow] # "decide"
      BY DEF OInv, IInv, MemorySound, WorkflowSound, OnlyRequests
    <3>4. \A b \in Runs : pc[b] = "decide" => approval' = approval
      BY <3>2, <3>3, Phased DEF Active
    <3> QED
      BY <2>1, <3>1, <3>4, Phased DEF Alone, Sole, Decision
  <2>5. \A s \in Seen' : Settled(s, action'.status)
    BY <1>3, <2>1 DEF Alone, Settled, NewState
  <2>6. Reported'
    <3> SUFFICES ASSUME report.final # "none"
                 PROVE  /\ \A b \in Runs : Active(b)' => pc'[b] \in Harmless /\ Fine(Tip(b)')
                        /\ (\A b \in Runs : ~Active(b)')
                             /\ (\E q \in Requests : pc'[q] \in {"insert", "resume"})
                             => Fine(thread)
      BY DEF Reported, Fine
    <3>1. \A b \in Runs : Tip(b)' = Tip(b)
      BY DEF Tip
    <3>2. \A b \in Runs : Active(b) => b # r
      OBVIOUS
    <3>3. \A b \in Runs : Active(b)' => pc'[b] \in Harmless /\ Fine(Tip(b)')
      BY <1>3, <2>1, <2>2, <3>1, <3>2 DEF Alone, Reported
    <3>4. (\A b \in Runs : ~Active(b)) /\ (\E q \in Requests : pc[q] \in {"insert", "resume"})
            => Fine(thread)
      BY <2>1 DEF Alone, Reported
    <3>5. (\E q \in Requests : pc'[q] \in {"insert", "resume"})
            => Fine(thread) \/ \E q \in Requests : pc[q] \in {"insert", "resume"}
      BY <1>3 DEF Runs
    <3> QED
      BY <2>2, <3>3, <3>4, <3>5
  <2> QED
    BY <2>1, <2>2, <2>3, <2>4, <2>5, <2>6 DEF Alone
<1> QED
  BY <1>5, <1>6, <1>7, <1>8 DEF OInv, Decision

-----------------------------------------------------------------------------
(* The workflow's own run, on its way to the approval wait.                *)
LEMMA OnItsWay ==
  ASSUME OInv, NEW a \in Runs, pc[a] \in Approaching
  PROVE  /\ a = Workflow /\ Active(a) /\ approval = "none" /\ ~action.executed
         /\ ~overlapped => report.final = "none" /\ incident # "RESOLVED"
<1>1. a = Workflow /\ Active(a)
  BY Phased DEF OInv, Ordered, RequestOrder, Active, Runs
<1>2. approval = "none"
  BY <1>1 DEF OInv, Ordered, WorkflowOrder
<1>3. pc[a] \notin Harmless
  BY DEF Approaching, Early, Investigating, Harmless
<1> QED
  BY <1>1, <1>2, <1>3 DEF OInv, Alone, Reported, RowsAgree

LEMMA InvestigateKeeps ==
  ASSUME OInv, IInv', NEW a \in Runs, Investigate(a), UNCHANGED disturbed
  PROVE  OInv'
<1>1. PICK node \in Successors(pc[a]) \union DeadEnds(pc[a])
                        \union {"manual_terminalization"} :
        Return(a, [view[a].state EXCEPT !.next = node])
  BY DEF Investigate
<1>2. pc[a] \in Investigating /\ UNCHANGED <<rowVars, thread, overlapped, labVars>>
  BY DEF Investigate
<1>3. /\ node \in Early \union {"manual_terminalization", "end"}
      /\ node \in Nodes \union {"end"}
  BY <1>1, <1>2 DEF Successors, DeadEnds, Early, Investigating, Nodes
<1> PICK s : s = [view[a].state EXCEPT !.next = node]
  OBVIOUS
<1>4. IInv /\ pc[a] \in Approaching /\ pc[a] \in Early
  BY <1>2 DEF OInv, Approaching, Early
<1>5. a = Workflow /\ Active(a) /\ action.status = "none"
  BY <1>4, OnItsWay DEF OInv, Deciding
<1>6. s \in GraphState /\ s.next = node /\ s.stage = "investigation"
  BY <1>3, <1>4, <1>5, Own DEF GraphState, WorkflowSound
<1>7. Placed(s, action.status) /\ Settled(s, action.status)
  BY <1>3, <1>5, <1>6 DEF Placed, Leads, Settled, Reached, Ahead
<1>8. ~overlapped => report.final = "none" /\ Alone
  BY <1>4, OnItsWay DEF OInv
<1> QED
  BY <1>1, <1>2, <1>4, <1>5, <1>6, <1>7, <1>8, ReturnKeeps
     DEF OInv, Ordered, Alone, RowsAgree, rowVars

LEMMA ManualTerminalizationKeeps ==
  ASSUME OInv, IInv', NEW a \in Runs, ManualTerminalization(a)
  PROVE  OInv'
<1> PICK s : s = [view[a].state EXCEPT !.stage = "needs_manual_action",
                                       !.next = "final_report"]
  OBVIOUS
<1>1. /\ pc[a] = "manual_terminalization" /\ Return(a, s)
      /\ incident' = "NEEDS_MANUAL_ACTION"
      /\ UNCHANGED <<action, approval, verification, report, thread, overlapped, labVars>>
  BY DEF ManualTerminalization
<1>2. pc[a] \in Approaching /\ IInv
  BY <1>1 DEF Approaching, OInv
<1>3. a = Workflow /\ Active(a) /\ action.status = "none"
  BY <1>1, <1>2, OnItsWay DEF OInv, Deciding
<1>4. s \in GraphState /\ s.next = "final_report" /\ s.stage = "needs_manual_action"
  BY <1>2, Own DEF GraphState, Nodes, Stages
<1>5. Placed(s, action.status) /\ Settled(s, action.status)
  BY <1>3, <1>4 DEF Placed, Leads, Settled
<1>6. ~overlapped => RowsAgree' /\ Alone /\ Fine(s)
  BY <1>1, <1>2, <1>4, OnItsWay DEF OInv, Alone, RowsAgree, Fine
<1>7. s.next \notin Early \union {"manual_terminalization"}
  BY <1>4 DEF Early, Investigating
<1> QED
  BY <1>1, <1>2, <1>3, <1>4, <1>5, <1>6, <1>7, ReturnKeeps DEF OInv, Ordered, Alone

(* Before the Action is made, everything there is leads to the gate.       *)
LEMMA AllEarly ==
  ASSUME OInv, pc[Workflow] \in Early, NEW t \in Seen
  PROVE  Placed(t, "PENDING_APPROVAL")
<1>1. Workflow \in Runs /\ IInv /\ Ordered
  BY DEF Runs, OInv
<1>2. /\ ~Past(thread) /\ \A k \in 1..Len(unsaved[Workflow]) : ~Past(unsaved[Workflow][k])
      /\ view[Workflow].state.next \in Early
  BY <1>1, Own, Known DEF WorkflowSound, StepSound, Early, Nodes
<1>3. ASSUME NEW r \in Requests
      PROVE  r \in Runs /\ unsaved[r] = << >> /\ view[r].state = NewState
  <2>1. r \in Runs /\ ~Working(r) /\ AtHome(r)
    BY <1>1, <1>2 DEF IInv, MemorySound, RequestSound, Runs, OInv
  <2>2. ~Active(r)
    BY <2>1, Phased DEF Active, Working
  <2> QED
    BY <2>1, <2>2 DEF AtHome
<1>4. ~Past(NewState)
  BY DEF Past, NewState, Early, Investigating
<1>5. ~Past(t)
  <2>1. CASE t = thread
    BY <1>2, <2>1
  <2>2. CASE \E a \in Runs : t = view[a].state
    BY <1>2, <1>3, <1>4, <2>2 DEF Past, Runs
  <2>3. CASE \E p \in Runs \X Nat : p[2] \in 1..Len(unsaved[p[1]]) /\ t = unsaved[p[1]][p[2]]
    <3> PICK p \in Runs \X Nat : p[2] \in 1..Len(unsaved[p[1]]) /\ t = unsaved[p[1]][p[2]]
      BY <2>3
    <3>1. p[1] = Workflow \/ p[1] \in Requests
      BY DEF Runs
    <3> QED
      BY <1>2, <1>3, <3>1
  <2> QED
    BY <2>1, <2>2, <2>3 DEF Seen
<1>6. Placed(t, action.status)
  BY <1>1 DEF Ordered
<1>7. t.next \in Early /\ t.next # "manual_terminalization"
  BY <1>5 DEF Past, Early, Investigating
<1>8. t.stage \in Stages
  <2>1. MemoryTyped
    BY <1>1, TypeParts DEF IInv
  <2>2. CASE \E p \in Runs \X Nat : p[2] \in 1..Len(unsaved[p[1]]) /\ t = unsaved[p[1]][p[2]]
    <3> PICK p \in Runs \X Nat : p[2] \in 1..Len(unsaved[p[1]]) /\ t = unsaved[p[1]][p[2]]
      BY <2>2
    <3>1. unsaved[p[1]] \in Seq(GraphState)
      BY <2>1 DEF MemoryTyped
    <3>2. t \in GraphState
      BY <3>1
    <3> QED
      BY <3>2 DEF GraphState
  <2> QED
    BY <2>1, <2>2, Own, <1>1 DEF Seen, GraphState, MemoryTyped
<1> QED
  BY <1>6, <1>7, <1>8 DEF Placed, Leads, Stages, Ahead, Early, Investigating

LEMMA PolicyGateKeeps ==
  ASSUME OInv, IInv', NEW a \in Runs, PolicyGate(a)
  PROVE  OInv'
<1>1. /\ pc[a] = "policy_gate" /\ pc[a] \in Approaching /\ pc[a] \in Early
      /\ UNCHANGED <<incident, approval, verification, report, thread, overlapped, labVars>>
  BY DEF PolicyGate, Approaching, Early
<1>2. /\ a = Workflow /\ Active(a) /\ action.status = "none" /\ ~action.executed
      /\ approval = "none" /\ IInv
  BY <1>1, OnItsWay DEF OInv, Deciding
<1>3. lab \in Lab /\ action \in Action
  BY <1>2, TypeParts DEF IInv, LabTypeOK, RowsTyped
<1>4. ~overlapped => report.final = "none" /\ Alone /\ incident # "RESOLVED"
  BY <1>1, OnItsWay DEF OInv
<1>5. ASSUME NEW n \in Nodes, NEW s,
             s = [view[a].state EXCEPT !.stage = "policy_gate", !.next = n]
      PROVE  s \in GraphState /\ s.next = n /\ s.stage = "policy_gate"
  BY <1>2, <1>5, Own DEF GraphState, Stages
<1>6. ASSUME /\ Return(a, [view[a].state EXCEPT !.stage = "policy_gate",
                                                !.next = "manual_terminalization"])
             /\ UNCHANGED action
      PROVE  OInv'
  <2> PICK s : s = [view[a].state EXCEPT !.stage = "policy_gate",
                                         !.next = "manual_terminalization"]
    OBVIOUS
  <2>1. s \in GraphState /\ s.next = "manual_terminalization" /\ s.stage = "policy_gate"
    BY <1>5 DEF Nodes
  <2>2. Placed(s, action.status) /\ Settled(s, action.status)
    BY <1>2, <2>1 DEF Placed, Leads, Settled
  <2> QED
    BY <1>1, <1>2, <1>4, <1>6, <2>1, <2>2, ReturnKeeps DEF OInv, Ordered, Alone, RowsAgree
<1>7. ASSUME /\ Eligible(lab)
             /\ action' = [action EXCEPT !.status = "PENDING_APPROVAL",
                                         !.current = lab.version, !.target = lab.previous]
             /\ Return(a, [view[a].state EXCEPT !.stage = "policy_gate",
                                                !.next = "approval_wait"])
      PROVE  OInv'
  <2> PICK s : s = [view[a].state EXCEPT !.stage = "policy_gate", !.next = "approval_wait"]
    OBVIOUS
  <2>1. s \in GraphState /\ s.next = "approval_wait" /\ s.stage = "policy_gate"
    BY <1>5 DEF Nodes
  <2>2. /\ action'.status = "PENDING_APPROVAL" /\ action'.current = lab.version
        /\ action'.executed = action.executed
    BY <1>3, <1>7 DEF Action
  <2>3. lab.version = Faulty /\ action.current = Faulty
    <3>1. lab.rollbacks = 0
      BY <1>2 DEF IInv, LabSound
    <3> QED
      BY <1>2, <1>3, <1>7, <3>1 DEF IInv, LabSound, Eligible, Lab, Version, OInv, LabReal
  <2>4. Placed(s, action'.status) /\ Settled(s, action'.status)
    BY <2>1, <2>2 DEF Placed, Leads, Settled, Ahead
  <2>5. /\ \A t \in Seen : Placed(t, action'.status)
        /\ \A t \in Seen : Settled(t, action'.status)
    BY <1>1, <1>2, <2>2, AllEarly DEF Settled
  <2>6. ~overlapped => RowsAgree' /\ report'.final = "none"
    BY <1>1, <1>2, <1>4, <2>2 DEF RowsAgree
  <2>7. s.next \notin Early \union {"manual_terminalization"}
    BY <2>1 DEF Early, Investigating
  <2> QED
    BY <1>1, <1>2, <1>7, <2>1, <2>2, <2>3, <2>4, <2>5, <2>6, <2>7, ReturnKeeps
<1> QED
  BY <1>6, <1>7 DEF PolicyGate

LEMMA ApprovalWaitKeeps ==
  ASSUME OInv, IInv', NEW a \in Runs, ApprovalWait(a)
  PROVE  OInv'
<1> PICK s : s = [view[a].state EXCEPT !.stage = "waiting_approval",
                                       !.next = "approval_interrupt"]
  OBVIOUS
<1>1. /\ pc[a] = "approval_wait" /\ Return(a, s)
      /\ incident' = "WAITING_APPROVAL"
      /\ UNCHANGED <<action, approval, verification, report, thread, overlapped, labVars>>
  BY DEF ApprovalWait
<1>2. pc[a] \in Approaching /\ IInv
  BY <1>1 DEF Approaching, OInv
<1>3. a = Workflow /\ Active(a)
  BY <1>2, OnItsWay
<1>4. s \in GraphState /\ s.next = "approval_interrupt" /\ s.stage = "waiting_approval"
  BY <1>2, Own DEF GraphState, Nodes, Stages
<1>5. Placed(s, action.status) /\ Settled(s, action.status)
  BY <1>4 DEF Placed, Leads, Settled
<1>6. ~overlapped => RowsAgree' /\ Alone /\ Fine(s)
  BY <1>1, <1>2, <1>4, OnItsWay DEF OInv, Alone, RowsAgree, Fine
<1>7. s.next \notin Early \union {"manual_terminalization"}
  BY <1>4 DEF Early, Investigating
<1> QED
  BY <1>1, <1>2, <1>3, <1>4, <1>5, <1>6, <1>7, ReturnKeeps DEF OInv, Ordered, Alone

LEMMA InterruptKeeps ==
  ASSUME OInv, IInv', Interrupt
  PROVE  OInv'
<1>1. /\ pc[Workflow] = "approval_interrupt" /\ Goto(Workflow, "settle") /\ Workflow \in Runs
      /\ UNCHANGED <<rowVars, thread, unsaved, view, overlapped, labVars>>
  BY DEF Interrupt, Runs
<1>2. pc'[Workflow] = "settle" /\ \A b \in Runs \ {Workflow} : pc'[b] = pc[b]
  BY <1>1, Own DEF Goto, OInv, IInv, TypeOK
<1>3. /\ "settle" \in ResumePhases \ Approaching /\ "settle" \in Harmless
      /\ "approval_interrupt" \in ResumePhases
      /\ "settle" \notin ExecSteps \union VerifySteps \union {"decide"}
  BY Phased DEF Harmless, Approaching, Early, Investigating, Nodes
<1>4. Active(Workflow) /\ AtHome(Workflow)' /\ Sole(Workflow)'
  BY <1>1, <1>2, <1>3 DEF Active, AtHome, Sole
<1>5. LabReal'
  <2>1. \A b \in Runs : pc'[b] \in {"rollback", "mark"} => pc'[b] = pc[b]
    BY <1>2
  <2> QED
    BY <1>1, <2>1, LabRealKept DEF OInv, labVars, rowVars
<1>6. view[Workflow] \in View
  BY <1>1, Own DEF OInv
<1> QED
  BY <1>1, <1>3, <1>4, <1>5, <1>6, MoveKeeps

-----------------------------------------------------------------------------
(* The decision: who finds a thread that waits finds one past the wait.    *)
LEMMA RecordDecisionKeeps ==
  ASSUME OInv, IInv', NEW r \in Requests, RecordDecision(r)
  PROVE  OInv'
<1>1. /\ r \in Runs /\ pc[r] = "idle" /\ ~Active(r)
      /\ UNCHANGED <<rowVars, thread, unsaved, overlapped, labVars>>
  BY Phased DEF RecordDecision, Runs, Active
<1>2. view[r] \in View /\ view[r].state = NewState /\ r \in DOMAIN view
  BY <1>1, Own DEF OInv, AtHome
<1>3. approval # "none" => Reached(thread)
  BY DEF OInv, Ordered
<1>4. thread.stage = "waiting_approval" => Reached(thread) /\ Fine(thread)
  BY DEF Reached, Ahead, Fine
<1>5. CASE \E wanted \in Decision :
             /\ WaitsForDecision /\ Goto(r, "insert")
             /\ view' = [view EXCEPT ![r].wanted = wanted]
  <2> PICK wanted \in Decision :
             /\ WaitsForDecision /\ Goto(r, "insert")
             /\ view' = [view EXCEPT ![r].wanted = wanted]
    BY <1>5
  <2> DEFINE v == [view[r] EXCEPT !.wanted = wanted]
  <2>1. v \in View /\ v.state = NewState /\ v.wanted = wanted
    BY <1>2 DEF View
  <2>2. view' = [view EXCEPT ![r] = v] /\ view'[r] = v
    BY <1>2
  <2> HIDE DEF v
  <2>3. "insert" \in {"insert", "resume", "done", "refused"}
    OBVIOUS
  <2>4. Reached(thread) /\ Fine(thread)
    BY <1>4 DEF WaitsForDecision
  <2> QED
    BY <1>1, <2>1, <2>2, <2>3, <2>4, ApproachKeeps DEF rowVars
<1>6. CASE \E p \in {"resume", "done", "refused"} :
             /\ p = "resume" => approval # "none" /\ thread.stage = "waiting_approval"
             /\ Goto(r, p) /\ UNCHANGED view
  <2> PICK p \in {"resume", "done", "refused"} :
             /\ p = "resume" => approval # "none" /\ thread.stage = "waiting_approval"
             /\ Goto(r, p) /\ UNCHANGED view
    BY <1>6
  <2> QED
    BY <1>1, <1>2, <1>3, <1>4, ApproachKeeps DEF rowVars
<1> QED
  BY <1>5, <1>6 DEF RecordDecision

LEMMA InsertKeeps ==
  ASSUME OInv, IInv', NEW r \in Requests, InsertApproval(r)
  PROVE  OInv'
<1>1. /\ r \in Runs /\ pc[r] = "insert" /\ ~Active(r) /\ Insert(r)
      /\ view' = [view EXCEPT ![r] = Blank(NewState)]
      /\ UNCHANGED <<incident, action, verification, report, thread, unsaved, overlapped,
                     labVars>>
  BY Phased DEF InsertApproval, Runs, Active
<1>2. view[r].wanted \in Decision /\ "none" \notin Decision
  BY <1>1 DEF OInv, Deciding, Decision
<1>3. PICK p \in {"resume", "refused"} :
        /\ Goto(r, p)
        /\ p = "resume" => approval' # "none"
        /\ approval' = approval \/ (approval = "none" /\ approval' \in Decision)
  BY <1>1, <1>2 DEF Insert
<1>4. Reached(thread)
  BY <1>1 DEF OInv, Ordered, RequestOrder, Working, Steps
<1>5. PICK v \in View : v.state = NewState /\ view' = [view EXCEPT ![r] = v]
  BY <1>1, BlankTyped
<1>6. p \in {"insert", "resume", "done", "refused"} /\ p # "insert"
  OBVIOUS
<1> QED
  BY <1>1, <1>3, <1>4, <1>5, <1>6, ApproachKeeps

LEMMA ResumeKeeps ==
  ASSUME OInv, IInv', NEW r \in Requests, Resume(r)
  PROVE  OInv'
<1> DEFINE p == IF thread.next = "end" THEN "settle" ELSE thread.next
<1>1. /\ r \in Runs /\ pc[r] = "resume" /\ Goto(r, p) /\ ~Active(r) /\ r # Workflow
      /\ view' = [view EXCEPT ![r] = Blank(thread)]
      /\ overlapped' = (overlapped \/ \E q \in Runs : Active(q))
      /\ UNCHANGED <<rowVars, thread, unsaved, labVars>>
  BY Phased, RemediationAssumption DEF Resume, Runs, Active
<1>2. /\ Reached(thread) /\ thread \in GraphState /\ Placed(thread, action.status)
      /\ MemoryTyped /\ AtHome(r) /\ approval # "none"
  BY <1>1, Known DEF RequestOrder, Working, Steps, OInv, Deciding
<1>3. Blank(thread) \in View /\ Blank(thread).state = thread
  BY <1>2, BlankTyped
<1>4. /\ p \in Nodes \union {"settle"} /\ p \notin Approaching
  BY <1>2, PlacedNext DEF GraphState, Approaching, Early, Investigating
<1>5. /\ p \in ResumePhases /\ p \notin ExecSteps \union VerifySteps \union {"decide"}
      /\ p \in Phases \ Approaching
  BY <1>4, Phased DEF Phases, ResumePhases
<1>6. p \in {"approval_interrupt", "approval_decision", "final_report", "settle"}
        <=> thread.next \in {"approval_interrupt", "approval_decision", "final_report", "end"}
  BY <1>2 DEF GraphState, Nodes, Investigating
<1> HIDE DEF p
<1>7. /\ pc'[r] = p /\ view'[r].state = thread
      /\ \A b \in Runs \ {r} : view'[b] = view[b] /\ pc'[b] = pc[b]
      /\ Seen' \subseteq Seen \union {thread}
  <2>1. Seen' \subseteq Seen \union {Blank(thread).state}
    BY <1>1, <1>2, <1>3, SeenMove
  <2> QED
    BY <1>1, <1>2, <1>3, <1>5, <2>1, MoveEffect DEF MemoryTyped
<1>8. Ordered' /\ \A b \in Runs : AtHome(b)'
  <2>1. AtHome(r)'
    BY <1>5, <1>7 DEF AtHome, Active
  <2>2. UNCHANGED <<thread, unsaved, action, approval>>
    BY <1>1 DEF rowVars
  <2> QED
    BY <1>1, <1>2, <1>3, <1>5, <2>1, <2>2, MoveOrdered
<1>9. LabReal'
  <2>1. \A b \in Runs : pc'[b] \in {"rollback", "mark"} => pc'[b] = pc[b]
    BY <1>5, <1>7 DEF ExecSteps
  <2> QED
    BY <1>1, <2>1, LabRealKept DEF OInv, rowVars, labVars
<1>10. Deciding'
  BY <1>1, <1>2, <1>5, <1>7, Phased, DecidingKept DEF rowVars
<1>11. ASSUME ~overlapped'
       PROVE  Alone'
  <2>1. Alone /\ \A b \in Runs : ~Active(b)
    BY <1>1, <1>11 DEF OInv, OInv
  <2>2. Active(r)' /\ \A b \in Runs \ {r} : ~Active(b)'
    BY <1>5, <1>7, <2>1 DEF Active
  <2>3. \A b \in Runs : Sole(b)'
    BY <1>5, <1>7, <2>1, Phased DEF Sole, Active
  <2>4. RowsAgree'
    BY <1>1, <2>1 DEF Alone, RowsAgree, rowVars
  <2>5. \A s \in Seen' : Settled(s, action'.status)
    BY <1>1, <1>7, <2>1, SeenMembers DEF Alone, rowVars
  <2>6. Reported'
    <3> SUFFICES ASSUME report'.final # "none" PROVE pc'[r] \in Harmless /\ Fine(Tip(r)')
      BY <1>1, <2>2 DEF Reported, Fine
    <3>1. Fine(thread)
      BY <1>1, <2>1 DEF Alone, Reported, rowVars
    <3>2. Tip(r)' = thread
      BY <1>1, <1>2 DEF Tip, AtHome
    <3>3. thread.next \in {"approval_interrupt", "approval_decision", "final_report", "end"}
      BY <1>2, <3>1, PlacedNext DEF Fine
    <3> QED
      BY <1>6, <1>7, <3>1, <3>2, <3>3 DEF Harmless
  <2> QED
    BY <2>2, <2>3, <2>4, <2>5, <2>6 DEF Alone
<1> QED
  BY <1>1, <1>8, <1>9, <1>10, <1>11 DEF OInv, rowVars

(* A resumed interrupt finds the Action still pending.                     *)
LEMMA ApprovalInterruptKeeps ==
  ASSUME OInv, IInv', NEW a \in Runs, ApprovalInterrupt(a)
  PROVE  OInv'
<1>1. /\ a \in Requests /\ a # Workflow /\ pc[a] = "approval_interrupt" /\ Active(a)
      /\ UNCHANGED <<rowVars, overlapped, labVars>>
  BY Phased, RemediationAssumption DEF ApprovalInterrupt, Active, Nodes
<1>2. CASE Return(a, Interrupted(view[a].state)) /\ UNCHANGED thread
  <2> PICK s : s = Interrupted(view[a].state)
    OBVIOUS
  <2>1. view[a].state.stage = "waiting_approval"
    BY <1>1, Known, PlacedNext DEF Nodes
  <2>2. s \in GraphState /\ s.next = "approval_decision" /\ s.stage = "waiting_approval"
    BY <2>1, Known DEF GraphState, Nodes, Interrupted
  <2>3. Placed(s, action.status) /\ Settled(s, action.status) /\ Reached(s) /\ Fine(s)
    BY <2>2 DEF Placed, Leads, Settled, Reached, Ahead, Fine
  <2>4. s.next \notin Early \union {"manual_terminalization"}
    BY <2>2 DEF Early, Investigating
  <2>5. ~overlapped => RowsAgree' /\ Alone
    BY <1>1 DEF OInv, Alone, RowsAgree, rowVars
  <2> QED
    BY <1>1, <1>2, <2>2, <2>3, <2>4, <2>5, ReturnKeeps DEF OInv, Ordered, Alone, rowVars
<1>3. CASE Raise(a, "refused")
  BY <1>1, <1>3, RaiseKeeps
<1> QED
  BY <1>2, <1>3 DEF ApprovalInterrupt

LEMMA ReadDecisionKeeps ==
  ASSUME OInv, IInv', NEW a \in Runs, ReadDecision(a)
  PROVE  OInv'
<1>1. /\ pc[a] = "approval_decision" /\ Active(a)
      /\ UNCHANGED <<rowVars, overlapped, labVars>>
  BY Phased DEF ReadDecision, Active, Nodes
<1>2. CASE /\ Applicable
           /\ view' = [view EXCEPT ![a].incident = incident, ![a].status = action.status]
           /\ Goto(a, "decide") /\ UNCHANGED <<thread, unsaved>>
  <2> DEFINE v == [view[a] EXCEPT !.incident = incident, !.status = action.status]
  <2>1. /\ incident \in IncidentStatus /\ action.status \in ActionStatus
        /\ view[a] \in View /\ a \in DOMAIN view
    BY TypeParts, Own DEF OInv, IInv, RowsTyped, Action
  <2>2. /\ v \in View /\ v.state = view[a].state
        /\ v.status = action.status /\ v.incident = incident
    BY <2>1 DEF View
  <2>3. view' = [view EXCEPT ![a] = v] /\ view'[a] = v
    BY <1>2, <2>1
  <2> HIDE DEF v
  <2>4. pc'[a] = "decide" /\ \A b \in Runs \ {a} : pc'[b] = pc[b]
    BY <1>2, Known DEF Goto, MemoryTyped
  <2>5. /\ "decide" \in ResumePhases \ Approaching /\ "decide" \in Harmless
        /\ "decide" \notin ExecSteps \union VerifySteps
    BY Phased DEF Approaching, Early, Investigating, Harmless, ExecSteps, VerifySteps
  <2>6. view[a].state.next = "approval_decision"
    BY <1>1, Known DEF Nodes
  <2>7. AtHome(a)'
    BY <2>2, <2>3, <2>4, <2>5, <2>6 DEF AtHome, Active
  <2>8. Sole(a)'
    BY <1>1, <1>2, <2>2, <2>3, <2>4, <2>5 DEF Sole, Applicable, rowVars
  <2>9. LabReal'
    <3>1. \A b \in Runs : pc'[b] \in {"rollback", "mark"} => pc'[b] = pc[b]
      BY <2>4
    <3> QED
      BY <1>1, <3>1, LabRealKept DEF OInv, labVars, rowVars
  <2> QED
    BY <1>1, <1>2, <2>2, <2>3, <2>5, <2>7, <2>8, <2>9, MoveKeeps
<1>3. CASE Raise(a, "refused")
  BY <1>1, <1>3, RaiseKeeps
<1> QED
  BY <1>2, <1>3 DEF ReadDecision

(* A decision is committed on what was read, or leaves what was stored.    *)
LEMMA CommitDecisionKeeps ==
  ASSUME OInv, IInv', NEW a \in Runs, CommitDecision(a)
  PROVE  OInv'
<1> PICK s : s = [view[a].state EXCEPT !.approval = approval,
                    !.stage = StageAfterDecision(approval),
                    !.next = RouteAfterDecision(approval)]
  OBVIOUS
<1>1. /\ pc[a] = "decide" /\ Return(a, s)
      /\ action' = [action EXCEPT !.status = Flushed(view[a].status, approval, @)]
      /\ incident' = Flushed(view[a].incident,
                             IF approval = "APPROVED" THEN "REMEDIATING"
                                                      ELSE "NEEDS_MANUAL_ACTION",
                             incident)
      /\ UNCHANGED <<approval, verification, report, thread, overlapped, labVars>>
  BY DEF CommitDecision
<1>2. Active(a) /\ a \in Requests /\ view[a].state.next = "approval_decision"
  BY <1>1, Phased, Own DEF Active, OInv, AtHome, WorkflowSound, OnlyRequests
<1>3. /\ action \in Action /\ approval \in Decision
      /\ view[a].state \in GraphState /\ MemoryTyped
  BY <1>2, TypeParts, Known DEF OInv, IInv, RowsTyped, Deciding
<1>4. /\ s \in GraphState
      /\ approval = "APPROVED" => s.next = "controlled_action_execution"
                                  /\ s.stage = "action_execution"
      /\ approval = "REJECTED" => s.next = "final_report" /\ s.stage = "needs_manual_action"
  BY <1>3 DEF GraphState, Nodes, Stages, StageAfterDecision, RouteAfterDecision, Decision
<1>5. /\ action'.executed = action.executed /\ action'.current = action.current
      /\ action'.status = Flushed(view[a].status, approval, action.status)
  BY <1>1, <1>3 DEF Action
<1>6. action'.status # "PENDING_APPROVAL"
  BY <1>1, <1>3, <1>5, Own DEF OInv, StepSound, Flushed, Decision
<1>7. action'.status = "EXECUTED" => action.status = "EXECUTED"
  BY <1>3, <1>5 DEF Flushed, Decision
<1>8. Placed(s, action'.status) /\ Reached(s)
  BY <1>3, <1>4, <1>6 DEF Placed, Leads, Reached, Ahead, Decision
<1>9. \A t \in Seen : Placed(t, action'.status)
  BY <1>6 DEF OInv, Ordered, Placed
<1>10. s.next \notin Early \union {"manual_terminalization"}
  BY <1>3, <1>4 DEF Early, Investigating, Decision
<1>11. ASSUME ~overlapped
       PROVE  /\ RowsAgree' /\ Settled(s, action'.status)
              /\ \A t \in Seen : Settled(t, action'.status)
              /\ report'.final # "none" => Fine(s)
  <2>1. /\ Alone /\ RowsAgree
        /\ ~action.executed /\ view[a].status = action.status /\ view[a].incident = incident
        /\ action.status \in {"PENDING_APPROVAL", approval}
    BY <1>1, <1>11 DEF OInv, Alone, Sole
  <2>2. /\ action'.status = approval
        /\ incident' = IF approval = "APPROVED" THEN "REMEDIATING" ELSE "NEEDS_MANUAL_ACTION"
    BY <1>1, <1>5, <2>1 DEF Flushed
  <2>3. incident # "RESOLVED"
    BY <2>1 DEF RowsAgree
  <2>4. report.final # "none" =>
          /\ report.final = "NEEDS_MANUAL_ACTION" /\ report.status = action.status
          /\ action.status = approval /\ approval = "REJECTED"
    BY <1>3, <2>1, <2>3 DEF RowsAgree, Closed, Decision
  <2>5. RowsAgree'
    BY <1>1, <1>3, <1>5, <2>1, <2>2, <2>4 DEF RowsAgree, Closed, Decision
  <2>6. Settled(s, action'.status)
    BY <1>3, <1>4, <2>2 DEF Settled, Decision
  <2>7. ASSUME NEW t \in Seen
        PROVE  Settled(t, action'.status)
    <3>1. Placed(t, action.status) /\ Settled(t, action.status)
      BY <2>1 DEF OInv, Ordered, Alone
    <3> QED
      BY <1>3, <2>1, <2>2, <3>1 DEF Settled, Placed, Leads, Reached, Ahead, Early,
                                             Investigating, Decision
  <2> QED
    BY <1>1, <1>4, <2>4, <2>5, <2>6, <2>7 DEF Fine
<1> QED
  <2>1. action'.executed => approval = "APPROVED"
    BY <1>5 DEF OInv
  <2> QED
    BY <1>1, <1>2, <1>4, <1>5, <1>7, <1>8, <1>9, <1>10, <1>11, <2>1, ReturnKeeps

-----------------------------------------------------------------------------
(* The execution: failing closed ends a path that is not executed.         *)
LEMMA FailClosedKeeps ==
  ASSUME OInv, IInv', NEW a \in Runs, Active(a), pc[a] \notin Harmless,
         view[a].state.next = "controlled_action_execution",
         NEW executed \in BOOLEAN, FailClosed(a, executed),
         ~overlapped => executed = action.executed,
         UNCHANGED <<approval, verification, report, thread, overlapped, labVars>>
  PROVE  OInv'
<1> PICK s : s = [view[a].state EXCEPT !.execution = "failure",
                    !.stage = "needs_manual_action", !.next = "final_report"]
  OBVIOUS
<1>1. /\ action' = [action EXCEPT !.status = IF executed THEN @ ELSE "FAILED"]
      /\ incident' = "NEEDS_MANUAL_ACTION" /\ Return(a, s)
  BY DEF FailClosed
<1>2. /\ action \in Action /\ view[a].state \in GraphState
      /\ Placed(view[a].state, action.status)
  BY TypeParts, Known DEF OInv, IInv, RowsTyped
<1>3. /\ action'.executed = action.executed /\ action'.current = action.current
      /\ action'.status = IF executed THEN action.status ELSE "FAILED"
  BY <1>1, <1>2 DEF Action
<1>4. action.status # "PENDING_APPROVAL"
  BY <1>2, PlacedNext DEF Placed, Ahead
<1>5. s \in GraphState /\ s.next = "final_report" /\ s.stage = "needs_manual_action"
  BY <1>2 DEF GraphState, Nodes, Stages
<1>6. Placed(s, action'.status) /\ Reached(s) /\ Fine(s)
  BY <1>3, <1>4, <1>5 DEF Placed, Leads, Reached, Ahead, Fine
<1>7. \A t \in Seen : Placed(t, action'.status)
  BY <1>3, <1>4 DEF OInv, Ordered, Placed
<1>8. s.next \notin Early \union {"manual_terminalization"}
  BY <1>5 DEF Early, Investigating
<1>9. ASSUME ~overlapped
      PROVE  /\ RowsAgree' /\ action'.status # "APPROVED"
             /\ report'.final = "none"
  <2>1. RowsAgree /\ report.final = "none" /\ executed = action.executed
    BY <1>9 DEF OInv, Alone, Reported
  <2> QED
    BY <1>1, <1>3, <2>1 DEF RowsAgree
<1> QED
  <2>1. action'.executed => approval = "APPROVED"
    BY <1>3 DEF OInv
  <2>2. action'.status = "EXECUTED" => action.status = "EXECUTED"
    BY <1>3
  <2>3. ~overlapped => /\ Settled(s, action'.status)
                       /\ \A t \in Seen : Settled(t, action'.status)
    BY <1>9 DEF Settled
  <2> QED
    BY <1>1, <1>3, <1>5, <1>6, <1>7, <1>8, <1>9, <2>1, <2>2, <2>3, ReturnKeeps

(* A step inside the execution.                                            *)
LEMMA ExecutionMove ==
  ASSUME OInv, IInv', LabReal', UNCHANGED <<thread, unsaved, rowVars, overlapped>>,
         NEW a \in Runs, NEW p \in ExecSteps, Goto(a, p), Active(a),
         pc[a] \notin Harmless, view[a].state.next = "controlled_action_execution",
         NEW v \in View, view' = view \/ view' = [view EXCEPT ![a] = v],
         v.state.next = view[a].state.next, v.state.stage = view[a].state.stage,
         ~overlapped => ~action.executed
  PROVE  OInv'
<1>1. p \in ResumePhases \ Approaching /\ p \notin VerifySteps \union {"decide"}
  BY Phased DEF ExecSteps, VerifySteps, Approaching, Early, Investigating
<1>2. pc'[a] = p /\ (view'[a] = view[a] \/ view'[a] = v)
  BY Known DEF Goto, MemoryTyped
<1>3. AtHome(a)'
  BY <1>1, <1>2 DEF AtHome, Active
<1>4. ~overlapped => Sole(a)' /\ report.final = "none"
  BY <1>1, <1>2 DEF Sole, rowVars, OInv, Alone, Reported
<1> QED
  BY <1>1, <1>3, <1>4, MoveKeeps

LEMMA ValidateExecutionKeeps ==
  ASSUME OInv, IInv', NEW a \in Runs, ValidateExecution(a)
  PROVE  OInv'
<1>1. /\ pc[a] = "controlled_action_execution" /\ Active(a) /\ pc[a] \notin Harmless
      /\ UNCHANGED <<approval, verification, report, thread, overlapped, labVars>>
  BY Phased DEF ValidateExecution, Active, Nodes, Harmless
<1>2. /\ view[a].state.next = "controlled_action_execution" /\ view[a] \in View
      /\ action \in Action /\ MemoryTyped
  BY <1>1, Known, Own, TypeParts DEF Nodes, OInv, IInv, RowsTyped
<1>3. CASE /\ Executable(a) /\ Goto(a, "query")
           /\ UNCHANGED <<incident, action, unsaved, view>>
  <2>1. "query" \in ExecSteps /\ ~action.executed /\ UNCHANGED rowVars
    BY <1>1, <1>3 DEF ExecSteps, Executable, rowVars
  <2>2. \A b \in Runs : pc'[b] \in {"rollback", "mark"} => pc'[b] = pc[b]
    BY <1>2, <1>3 DEF Goto, MemoryTyped
  <2>3. LabReal'
    BY <1>1, <1>3, <2>2, LabRealKept DEF OInv, labVars
  <2> QED
    BY <1>1, <1>2, <1>3, <2>1, <2>3, ExecutionMove
<1>4. CASE FailClosed(a, action.executed)
  <2>1. action.executed \in BOOLEAN
    BY <1>2 DEF Action
  <2> QED
    BY <1>1, <1>2, <1>4, <2>1, FailClosedKeeps
<1> QED
  BY <1>1, <1>3, <1>4 DEF ValidateExecution

LEMMA CommitFailureKeeps ==
  ASSUME OInv, IInv', NEW a \in Runs, CommitFailure(a)
  PROVE  OInv'
<1>1. /\ pc[a] = "fail_closed" /\ Active(a) /\ pc[a] \notin Harmless /\ pc[a] \in ExecSteps
      /\ FailClosed(a, FALSE)
      /\ UNCHANGED <<approval, verification, report, thread, overlapped, labVars>>
  BY Phased DEF CommitFailure, Active, ExecSteps, Harmless
<1>2. action.executed \in BOOLEAN
  BY TypeParts DEF OInv, IInv, RowsTyped, Action
<1>3. ~overlapped => FALSE = action.executed
  BY <1>1, <1>2 DEF OInv, Alone, Sole
<1> QED
  BY <1>1, <1>3, FailClosedKeeps DEF OInv, AtHome

(* What the run perceives of the deployment is so.                         *)
LEMMA PerceiveKeeps ==
  ASSUME OInv, IInv', LabReal', NEW a \in Runs, pc[a] \in {"query", "rollback"},
         NEW performed \in Performed, Perceive(a, performed),
         UNCHANGED <<rowVars, thread, unsaved, overlapped>>
  PROVE  OInv'
<1>1. PICK v \in View : /\ view' = [view EXCEPT ![a] = v]
                       /\ v.state.next = view[a].state.next
                       /\ v.state.stage = view[a].state.stage
  <2> DEFINE t == [view[a].state EXCEPT !.execution = performed]
             w == [view[a] EXCEPT !.state = t]
  <2>1. view[a] \in View /\ view[a].state \in GraphState
    BY Own DEF OInv
  <2>2. /\ t \in GraphState /\ t.next = view[a].state.next
        /\ t.stage = view[a].state.stage
    BY <2>1 DEF GraphState
  <2>3. w \in View /\ w.state = t
    BY <2>1, <2>2 DEF View
  <2>4. view' = [view EXCEPT ![a] = w]
    BY DEF Perceive
  <2> QED
    BY <2>2, <2>3, <2>4
<1>2. Goto(a, "mark") /\ "mark" \in ExecSteps
  BY DEF Perceive, ExecSteps
<1>3. /\ Active(a) /\ pc[a] \notin Harmless
      /\ view[a].state.next = "controlled_action_execution"
      /\ ~overlapped => ~action.executed
  BY Phased DEF Active, Harmless, OInv, AtHome, Alone, Sole, ExecSteps
<1> QED
  BY <1>1, <1>2, <1>3, ExecutionMove

LEMMA QueryDeploymentKeeps ==
  ASSUME OInv, IInv', NEW a \in Runs, QueryDeployment(a)
  PROVE  OInv'
<1>1. /\ pc[a] = "query" /\ pc[a] \in ExecSteps
      /\ UNCHANGED <<rowVars, thread, unsaved, overlapped, labVars>>
  BY DEF QueryDeployment, ExecSteps
<1>2. /\ Active(a) /\ pc[a] \notin Harmless /\ view[a] \in View
      /\ view[a].state.next = "controlled_action_execution" /\ MemoryTyped
      /\ ~overlapped => ~action.executed
  BY <1>1, Phased, Own, Known DEF Active, Harmless, OInv, AtHome, Alone, Sole
<1>3. action.target = Healthy /\ action.current = Faulty /\ LabReal
  BY DEF OInv, IInv, LabSound, LabReal
<1>4. CASE DoneAlready(lab) /\ Perceive(a, "found")
  <2>1. pc'[a] = "mark" /\ \A b \in Runs \ {a} : pc'[b] = pc[b]
    BY <1>2, <1>4 DEF Perceive, Goto, MemoryTyped
  <2>2. LabReal'
    BY <1>1, <1>3, <1>4, <2>1
       DEF LabReal, Untouched, AtTarget, DoneAlready, rowVars, labVars
  <2> QED
    BY <1>1, <1>4, <2>2, PerceiveKeeps DEF Performed
<1>5. CASE AsApproved(lab) /\ Goto(a, "rollback") /\ UNCHANGED view
  <2>1. pc'[a] = "rollback" /\ \A b \in Runs \ {a} : pc'[b] = pc[b]
    BY <1>2, <1>5 DEF Goto, MemoryTyped
  <2>2. lab.previous # "none"
    BY <1>3, <1>5 DEF AsApproved, Healthy
  <2>3. LabReal'
    BY <1>1, <1>3, <2>1, <2>2 DEF LabReal, Untouched, AtTarget, rowVars, labVars
  <2> QED
    BY <1>1, <1>2, <1>5, <2>3, ExecutionMove DEF ExecSteps
<1>6. CASE Goto(a, "fail_closed") /\ UNCHANGED view
  <2>1. \A b \in Runs : pc'[b] \in {"rollback", "mark"} => pc'[b] = pc[b]
    BY <1>2, <1>6 DEF Goto, MemoryTyped
  <2>2. LabReal'
    BY <1>1, <1>3, <2>1, LabRealKept DEF labVars, rowVars
  <2> QED
    BY <1>1, <1>2, <1>6, <2>2, ExecutionMove DEF ExecSteps
<1> QED
  BY <1>4, <1>5, <1>6 DEF QueryDeployment

(* The service leaves the deployment of an untouched lab at the target,    *)
(* and its configuration in place or about to be.                          *)
LEMMA ServeReal ==
  ASSUME OInv, ServeRollback, UNCHANGED <<rowVars, pc>>
  PROVE  LabReal'
<1>1. /\ action.target = Healthy /\ LabReal /\ lab \in Lab
      /\ serving \in [Requests -> Service]
      /\ Healthy # Faulty /\ Healthy # "none" /\ Faulty # "none"
  BY TypeParts DEF OInv, IInv, LabSound, LabTypeOK, Healthy, Faulty
<1>2. PICK r \in Requests : SwitchDeployment(r, Healthy) \/ RestoreConfiguration(r)
  BY <1>1 DEF ServeRollback
<1>3. UNCHANGED todo /\ (Untouched => lab.version \in Version /\ lab.previous # lab.version)
  BY <1>1, <1>2 DEF SwitchDeployment, RestoreConfiguration, LabReal, Lab
<1>4. CASE /\ serving[r] = "deployment" /\ RollbackTakesEffect(lab, Healthy)
           /\ lab' = RolledBack(lab, Healthy)
           /\ serving' = [serving EXCEPT ![r] = "configuration"]
  <2>1. /\ lab'.version = Healthy /\ lab'.previous = lab.version
        /\ lab.version = Faulty /\ serving'[r] = "configuration"
    BY <1>1, <1>4 DEF RolledBack, RollbackTakesEffect, Lab, Version
  <2> QED
    BY <1>1, <1>3, <2>1 DEF LabReal, Untouched, AtTarget, rowVars
<1>5. CASE /\ serving[r] = "deployment" /\ ~RollbackTakesEffect(lab, Healthy)
           /\ serving' = [serving EXCEPT ![r] = IF Healthy = lab.version THEN "found"
                                                                      ELSE "refused"]
           /\ UNCHANGED lab
  <2>1. Untouched /\ lab.version = Healthy => AtTarget
    BY <1>1, <1>5 DEF LabReal, AtTarget, Lab, Version
  <2>2. /\ serving'[r] = "found" => lab.version = Healthy
        /\ serving'[r] \in {"found", "refused"}
        /\ \A q \in Requests \ {r} : serving'[q] = serving[q]
    BY <1>1, <1>5
  <2>3. /\ \A q \in Requests : serving[q] = "configuration" => serving'[q] = "configuration"
        /\ Untouched => \A q \in Requests :
             /\ serving'[q] = "deployment" => lab.previous # "none"
             /\ serving'[q] \in Served => AtTarget
    BY <1>1, <1>5, <2>1, <2>2 DEF LabReal, Served
  <2> QED
    BY <1>1, <1>3, <1>5, <2>3 DEF LabReal, Untouched, AtTarget, rowVars
<1>6. CASE RestoreConfiguration(r)
  <2>1. /\ lab'.version = lab.version /\ lab'.previous = lab.previous
        /\ lab'.configured = TRUE
        /\ serving[r] = "configuration" /\ serving' = [serving EXCEPT ![r] = "executed"]
    BY <1>1, <1>6 DEF RestoreConfiguration, Restored, Lab
  <2>2. Untouched => \A q \in Requests :
          /\ serving'[q] = "deployment" => lab.previous # "none"
          /\ serving'[q] \in Served => AtTarget
    BY <1>1, <2>1 DEF LabReal, Served
  <2> QED
    BY <1>1, <1>3, <2>1, <2>2 DEF LabReal, Untouched, AtTarget, rowVars
<1> QED
  BY <1>2, <1>4, <1>5, <1>6 DEF SwitchDeployment

LEMMA ServeKeeps ==
  ASSUME OInv, IInv', ServeRollback,
         UNCHANGED <<rowVars, thread, unsaved, pc, view, overlapped>>
  PROVE  OInv'
BY ServeReal, OnlyLabKeeps

(* A rollback is sent for a deployment that has a predecessor.             *)
LEMMA PostRollbackKeeps ==
  ASSUME OInv, IInv', NEW a \in Runs, PostRollback(a)
  PROVE  OInv'
<1>1. /\ a \in Requests /\ pc[a] = "rollback" /\ serving[a] = "none"
      /\ serving' = [serving EXCEPT ![a] = "deployment"]
      /\ UNCHANGED <<rowVars, thread, unsaved, pc, view, overlapped, lab, todo, customers>>
  BY DEF PostRollback
<1>2. LabReal /\ serving \in [Requests -> Service]
  BY TypeParts DEF OInv, IInv, LabTypeOK
<1>3. /\ serving'[a] = "deployment" /\ "deployment" \notin Served
      /\ \A q \in Requests \ {a} : serving'[q] = serving[q]
      /\ Untouched => lab.previous # "none"
  BY <1>1, <1>2 DEF LabReal, Served
<1>4. LabReal'
  <2>1. \A q \in Requests : serving[q] = "configuration" => serving'[q] = "configuration"
    BY <1>1, <1>3
  <2>2. Untouched => \A q \in Requests :
          /\ serving'[q] = "deployment" => lab.previous # "none"
          /\ serving'[q] \in Served => AtTarget
    BY <1>2, <1>3 DEF LabReal
  <2> QED
    BY <1>1, <1>2, <2>1, <2>2 DEF LabReal, Untouched, AtTarget, rowVars
<1> QED
  BY <1>1, <1>4, OnlyLabKeeps

(* Its answer says that the deployment is at the target, unless it is      *)
(* refused or none.                                                        *)
LEMMA RollbackAnswerKeeps ==
  ASSUME OInv, IInv', NEW a \in Runs, RollbackAnswer(a) \/ LostAnswer(a)
  PROVE  OInv'
<1>1. /\ pc[a] = "rollback" /\ pc[a] \in ExecSteps
      /\ UNCHANGED <<rowVars, thread, unsaved, overlapped, labVars>>
  BY DEF RollbackAnswer, LostAnswer, ExecSteps
<1>2. /\ Active(a) /\ pc[a] \notin Harmless /\ view[a] \in View /\ MemoryTyped
      /\ view[a].state.next = "controlled_action_execution"
      /\ ~overlapped => ~action.executed
  BY <1>1, Phased, Own, Known DEF Active, Harmless, OInv, AtHome, Alone, Sole
<1>3. CASE /\ a \in Requests /\ serving[a] \in Performed
           /\ Perceive(a, serving[a])
  <2>1. pc'[a] = "mark" /\ \A b \in Runs \ {a} : pc'[b] = pc[b]
    BY <1>2, <1>3 DEF Perceive, Goto, MemoryTyped
  <2>2. Untouched => AtTarget
    BY <1>3 DEF OInv, LabReal, Served, Performed
  <2>3. LabReal'
    BY <1>1, <2>1, <2>2 DEF OInv, LabReal, Untouched, AtTarget, rowVars, labVars
  <2> QED
    BY <1>1, <1>3, <2>3, PerceiveKeeps
<1>4. CASE Goto(a, "fail_closed") /\ UNCHANGED view
  <2>1. \A b \in Runs : pc'[b] \in {"rollback", "mark"} => pc'[b] = pc[b]
    BY <1>2, <1>4 DEF Goto, MemoryTyped
  <2>2. LabReal'
    BY <1>1, <2>1, LabRealKept DEF OInv, labVars, rowVars
  <2> QED
    BY <1>1, <1>2, <1>4, <2>2, ExecutionMove DEF ExecSteps
<1> QED
  BY <1>3, <1>4 DEF RollbackAnswer, LostAnswer

(* The Action is recorded as executed with the deployment at its target.   *)
LEMMA MarkExecutedKeeps ==
  ASSUME OInv, IInv', NEW a \in Runs, MarkExecuted(a)
  PROVE  OInv'
<1> PICK s : s = [view[a].state EXCEPT !.stage = "recovery_verification",
                                       !.next = "recovery_verification"]
  OBVIOUS
<1>1. /\ pc[a] = "mark" /\ Return(a, s) /\ action' = Marked(action)
      /\ incident' = "VERIFYING"
      /\ UNCHANGED <<approval, verification, report, thread, overlapped, labVars>>
  BY DEF MarkExecuted
<1>2. action \in Action /\ approval = "APPROVED"
  BY <1>1, TypeParts, Own DEF OInv, IInv, RowsTyped, StepSound
<1>3. /\ action'.current = action.current /\ action'.executed = TRUE
      /\ action'.status = "EXECUTED"
  BY <1>1, <1>2 DEF Action, Marked
<1>4. s \in GraphState /\ s.next = "recovery_verification" /\ s.stage = "recovery_verification"
  BY Own DEF OInv, GraphState, Nodes, Stages
<1>5. /\ Placed(s, action'.status) /\ Reached(s)
      /\ \A t \in Seen : Placed(t, action'.status)
  <2>1. Placed(s, action'.status) /\ Reached(s)
    BY <1>3, <1>4 DEF Placed, Leads, Reached, Ahead
  <2>2. \A t \in Seen : Placed(t, action'.status)
    BY <1>3 DEF Placed, OInv, Ordered
  <2> QED
    BY <2>1, <2>2
<1>6. Active(a) /\ pc[a] \notin Harmless
  BY <1>1, Phased DEF Active, ExecSteps, Harmless
<1>7. ~overlapped => RowsAgree' /\ report'.final = "none"
  BY <1>1, <1>3, <1>6 DEF OInv, Alone, RowsAgree, Reported
<1>8. /\ Settled(s, action'.status) /\ \A t \in Seen : Settled(t, action'.status)
      /\ s.next \notin Early \union {"manual_terminalization"}
  BY <1>3, <1>4 DEF Settled, Early, Investigating
<1> QED
  BY <1>1, <1>2, <1>3, <1>4, <1>5, <1>6, <1>7, <1>8, ReturnKeeps

-----------------------------------------------------------------------------
(* The verification: a step from one of its checks to another.             *)
LEMMA VerificationMove ==
  ASSUME OInv, IInv', UNCHANGED <<thread, unsaved, rowVars, overlapped, todo, serving>>,
         lab'.version = lab.version, lab'.previous = lab.previous,
         lab'.configured = lab.configured,
         NEW a \in Runs, NEW p \in VerifySteps, Goto(a, p), Active(a),
         pc[a] \notin Harmless, view[a].state.next = "recovery_verification",
         NEW v \in View, view' = view \/ view' = [view EXCEPT ![a] = v],
         v.state = view[a].state,
         ~overlapped => action.executed /\ approval = "APPROVED"
  PROVE  OInv'
<1>1. p \in ResumePhases \ Approaching /\ p \notin ExecSteps \union {"decide"}
  BY Phased DEF ExecSteps, VerifySteps, Approaching, Early, Investigating
<1>2. /\ pc'[a] = p /\ (view'[a] = view[a] \/ view'[a] = v)
      /\ \A b \in Runs \ {a} : pc'[b] = pc[b]
  BY Known DEF Goto, MemoryTyped
<1>3. AtHome(a)'
  BY <1>1, <1>2 DEF AtHome, Active
<1>4. ~overlapped => Sole(a)' /\ report.final = "none"
  BY <1>1, <1>2 DEF Sole, rowVars, OInv, Alone, Reported
<1>5. LabReal'
  <2>1. \A b \in Runs : pc'[b] \in {"rollback", "mark"} => pc'[b] = pc[b]
    BY <1>1, <1>2 DEF ExecSteps
  <2> QED
    BY <2>1, LabRealKept DEF OInv, rowVars
<1> QED
  BY <1>1, <1>3, <1>4, <1>5, MoveKeeps

(* What a run inside the verification knows.                               *)
LEMMA Verifying ==
  ASSUME OInv, NEW a \in Runs, pc[a] \in VerifySteps
  PROVE  /\ Active(a) /\ pc[a] \notin Harmless /\ view[a] \in View /\ a \in DOMAIN view
         /\ view[a].state.next = "recovery_verification" /\ lab \in Lab
         /\ ~overlapped => action.executed /\ approval = "APPROVED"
<1>1. Active(a) /\ pc[a] \notin Harmless
  BY Phased DEF Active, VerifySteps, Harmless
<1>2. lab \in Lab /\ view[a] \in View /\ a \in DOMAIN view
  BY TypeParts, Own DEF OInv, IInv, LabTypeOK
<1> QED
  BY <1>1, <1>2 DEF OInv, AtHome, Alone, Sole

(* A check that settles the verdict.                                       *)
LEMMA ConcludeKeeps ==
  ASSUME OInv, IInv', UNCHANGED <<thread, unsaved, rowVars, overlapped, todo, serving>>,
         lab'.version = lab.version, lab'.previous = lab.previous,
         lab'.configured = lab.configured,
         NEW a \in Runs, pc[a] \in VerifySteps,
         NEW verdict \in Verdict, Conclude(a, verdict)
  PROVE  OInv'
<1>1. PICK v \in View : v.state = view[a].state /\ view' = [view EXCEPT ![a] = v]
  <2> DEFINE w == [view[a] EXCEPT !.verdict = verdict]
  <2>1. w \in View /\ w.state = view[a].state
    BY Own DEF OInv, View
  <2>2. view' = [view EXCEPT ![a] = w]
    BY DEF Conclude
  <2> QED
    BY <2>1, <2>2
<1>2. Goto(a, "persist") /\ "persist" \in VerifySteps
  BY DEF Conclude, VerifySteps
<1> QED
  BY <1>1, <1>2, Verifying, VerificationMove

(* The checks.                                                             *)
LEMMA CheckKeeps ==
  ASSUME OInv, IInv', NEW a \in Runs, pc[a] \in VerifySteps,
         \/ CheckDeployment(a) \/ MeasureBefore(a) \/ MeasureAfter(a) \/ CheckLogs(a)
         \/ Outage(a)
  PROVE  OInv'
<1>1. /\ UNCHANGED <<thread, unsaved, rowVars, overlapped, todo, lab, serving>>
      /\ lab'.version = lab.version /\ lab'.previous = lab.previous
      /\ lab'.configured = lab.configured
  BY DEF CheckDeployment, MeasureBefore, MeasureAfter, CheckLogs, Outage, labVars
<1>2. CASE \E p \in VerifySteps : Goto(a, p) /\ UNCHANGED view
  BY <1>1, <1>2, Verifying, VerificationMove
<1>3. CASE \E verdict \in Verdict : Conclude(a, verdict)
  BY <1>1, <1>3, ConcludeKeeps
<1>4. CASE MeasureBefore(a)
  <2> DEFINE v == [view[a] EXCEPT !.before = MetricsSnapshot]
  <2>1. v \in View /\ v.state = view[a].state
    BY Verifying DEF View, MetricsSnapshot, Lab
  <2>2. view' = [view EXCEPT ![a] = v] /\ Goto(a, "probe") /\ "probe" \in VerifySteps
    BY <1>4 DEF MeasureBefore, VerifySteps
  <2> HIDE DEF v
  <2> QED
    BY <1>1, <2>1, <2>2, Verifying, VerificationMove
<1>5. MeasureAfter(a) =>
        \/ Goto(a, "logs") /\ UNCHANGED view
        \/ \E verdict \in Verdict : Conclude(a, verdict)
  BY DEF MeasureAfter, DeltaVerdict, Verdict
<1>6. CheckLogs(a) => \E verdict \in Verdict : Conclude(a, verdict)
  BY DEF CheckLogs, Verdict
<1>7. Outage(a) => \E verdict \in Verdict : Conclude(a, verdict)
  BY DEF Outage, VerifySteps, Verdict
<1>8. CheckDeployment(a) =>
        \/ Goto(a, "before") /\ UNCHANGED view
        \/ \E verdict \in Verdict : Conclude(a, verdict)
  BY DEF CheckDeployment, Verdict
<1>9. {"before", "logs"} \subseteq VerifySteps
  BY DEF VerifySteps
<1> QED
  BY <1>2, <1>3, <1>4, <1>5, <1>6, <1>7, <1>8, <1>9

(* The probe is an order, which leaves the deployment alone.               *)
LEMMA ProbeKeeps ==
  ASSUME OInv, IInv', NEW a \in Runs, Probe(a) \/ ProbeAnswer(a)
  PROVE  OInv'
<1>1. /\ pc[a] \in VerifySteps /\ {"answer", "after"} \subseteq VerifySteps
      /\ UNCHANGED <<rowVars, thread, unsaved, overlapped, todo, customers, serving>>
  BY DEF Probe, ProbeAnswer, VerifySteps
<1>2. lab' = lab \/ \E succeeded \in BOOLEAN : lab' = RecordOrder(lab, succeeded)
  BY DEF Probe, ProbeAnswer
<1>3. /\ lab'.version = lab.version /\ lab'.previous = lab.previous
      /\ lab'.configured = lab.configured
  <2>1. lab \in Lab
    BY <1>1, Verifying
  <2>2. CASE \E succeeded \in BOOLEAN : lab' = RecordOrder(lab, succeeded)
    BY <2>1, <2>2 DEF RecordOrder, Lab
  <2> QED
    BY <1>2, <2>2
<1>4. CASE Probe(a)
  <2>1. PICK probe \in {"paying", "delayed", "failed"} : view' = [view EXCEPT ![a].probe = probe]
    BY <1>4 DEF Probe, Payment
  <2> DEFINE v == [view[a] EXCEPT !.probe = probe]
  <2>2. v \in View /\ v.state = view[a].state
    BY <1>1, Verifying DEF View
  <2>3. view' = [view EXCEPT ![a] = v] /\ Goto(a, "answer")
    BY <1>4, <2>1 DEF Probe
  <2> HIDE DEF v
  <2> QED
    BY <1>1, <1>3, <2>2, <2>3, Verifying, VerificationMove
<1>5. CASE ProbeAnswer(a)
  <2>1. CASE Goto(a, "after") /\ UNCHANGED view
    BY <1>1, <1>3, <2>1, Verifying, VerificationMove
  <2>2. CASE Conclude(a, "FAIL")
    BY <1>1, <1>3, <2>2, ConcludeKeeps DEF Verdict
  <2> QED
    BY <1>5, <2>1, <2>2 DEF ProbeAnswer
<1> QED
  BY <1>4, <1>5

(* A verification that ends, one way or another.                           *)
LEMMA VerifiedKeeps ==
  ASSUME OInv, IInv', NEW a \in Runs, Active(a), pc[a] \notin Harmless,
         view[a].state.next = "recovery_verification",
         NEW verdict \in Verdict \union {"none", "unbound"}, Return(a, Verified(a, verdict)),
         UNCHANGED <<action, approval, report, thread, overlapped, labVars>>,
         ~overlapped => /\ action.executed /\ approval = "APPROVED"
                        /\ incident' = "RESOLVED" =>
                             verification' = "PASS" \/ UNCHANGED <<incident, verification>>
  PROVE  OInv'
<1> PICK s : s = Verified(a, verdict)
  OBVIOUS
<1>1. /\ s \in GraphState /\ s.next = "final_report"
      /\ s.stage \in {"resolved", "needs_manual_action"}
  BY VerifiedShape DEF OInv
<1>2. action.status # "PENDING_APPROVAL"
  <2>1. view[a].state \in GraphState /\ Placed(view[a].state, action.status)
    BY Known
  <2>2. view[a].state.stage = "recovery_verification"
    BY <2>1, PlacedNext
  <2> QED
    BY <2>1, <2>2 DEF Placed, Ahead
<1>3. Placed(s, action'.status) /\ Reached(s)
  BY <1>1, <1>2 DEF Placed, Leads, Reached, Ahead
<1>4. \A t \in Seen : Placed(t, action'.status)
  BY DEF OInv, Ordered
<1>5. ASSUME ~overlapped
      PROVE  /\ RowsAgree' /\ report'.final = "none" /\ Settled(s, action'.status)
             /\ \A t \in Seen : Settled(t, action'.status)
  <2>1. Alone /\ RowsAgree /\ report.final = "none"
    BY <1>5 DEF OInv, Alone, Reported
  <2>2. action.status = "EXECUTED"
    BY <1>5, <2>1 DEF RowsAgree
  <2>3. RowsAgree'
    BY <1>5, <2>1, <2>2 DEF RowsAgree
  <2> QED
    BY <2>1, <2>2, <2>3 DEF Settled
<1>6. s.next \notin Early \union {"manual_terminalization"}
  BY <1>1 DEF Early, Investigating
<1> QED
  BY <1>1, <1>3, <1>4, <1>5, <1>6, ReturnKeeps DEF OInv

LEMMA BeginVerificationKeeps ==
  ASSUME OInv, IInv', NEW a \in Runs, BeginVerification(a)
  PROVE  OInv'
<1>1. /\ pc[a] = "recovery_verification" /\ Active(a) /\ pc[a] \notin Harmless
      /\ UNCHANGED <<action, approval, report, thread, overlapped, labVars>>
  BY Phased DEF BeginVerification, Active, Nodes, Harmless
<1>2. /\ view[a].state.next = "recovery_verification" /\ view[a] \in View
      /\ verification \in Verdict \union {"none"}
  BY <1>1, Known, Own, TypeParts DEF Nodes, OInv, IInv, RowsTyped
<1>3. ~overlapped => action.executed /\ approval = "APPROVED" /\ Executed
  <2>1. Backed(view[a].state)
    BY <1>1, Own DEF OInv, StepSound
  <2>2. action.executed /\ approval = "APPROVED"
    BY <1>2, <2>1 DEF Backed
  <2> QED
    BY <2>2 DEF OInv, Alone, RowsAgree, Executed
<1>4. CASE /\ VerifiedAlready(a) /\ Return(a, Verified(a, verification))
           /\ UNCHANGED <<incident, verification>>
  BY <1>1, <1>2, <1>3, <1>4, VerifiedKeeps
<1>5. CASE /\ Verifiable(a) /\ Goto(a, "deployment")
           /\ UNCHANGED <<incident, verification, unsaved, view>>
  <2>1. "deployment" \in VerifySteps
    BY DEF VerifySteps
  <2> QED
    BY <1>1, <1>2, <1>3, <1>5, <2>1, VerificationMove DEF rowVars, labVars
<1>6. CASE /\ incident' = "NEEDS_MANUAL_ACTION"
           /\ Return(a, Verified(a, IF Executed THEN "INCONCLUSIVE" ELSE "unbound"))
  <2>1. PICK verdict \in Verdict \union {"none", "unbound"} : Return(a, Verified(a, verdict))
    BY <1>6 DEF Verdict
  <2> QED
    BY <1>1, <1>2, <1>3, <1>6, <2>1, VerifiedKeeps
<1> QED
  BY <1>4, <1>5, <1>6 DEF BeginVerification

(* A verdict is stored with the incident's end.                            *)
LEMMA PersistVerificationKeeps ==
  ASSUME OInv, IInv', NEW a \in Runs, PersistVerification(a)
  PROVE  OInv'
<1>1. /\ pc[a] = "persist" /\ pc[a] \in VerifySteps
      /\ UNCHANGED <<action, approval, report, overlapped, labVars>>
  BY DEF PersistVerification, VerifySteps
<1>2. CASE /\ verification' = view[a].verdict
           /\ incident' = IF view[a].verdict = "PASS" THEN "RESOLVED"
                                                      ELSE "NEEDS_MANUAL_ACTION"
           /\ Return(a, Verified(a, view[a].verdict)) /\ UNCHANGED thread
  <2>1. view[a].verdict \in Verdict \union {"none", "unbound"}
    BY <1>1, Verifying DEF View
  <2> QED
    BY <1>1, <1>2, <2>1, Verifying, VerifiedKeeps
<1>3. CASE Raise(a, "unavailable") /\ UNCHANGED <<incident, verification>>
  BY <1>1, <1>3, Verifying, RaiseKeeps DEF rowVars
<1> QED
  BY <1>2, <1>3 DEF PersistVerification

-----------------------------------------------------------------------------
(* The report states the rows, which nobody changes any more.              *)
LEMMA FinalReportKeeps ==
  ASSUME OInv, IInv', NEW a \in Runs, FinalReport(a)
  PROVE  OInv'
<1>1. /\ pc[a] = "final_report" /\ Active(a)
      /\ UNCHANGED <<incident, action, approval, verification, overlapped, labVars>>
  BY Phased DEF FinalReport, Active, Nodes
<1>2. CASE /\ ChainHolds(view[a].state) /\ report' = Facts(a)
           /\ Return(a, [view[a].state EXCEPT !.next = "end"]) /\ UNCHANGED thread
  <2> PICK s : s = [view[a].state EXCEPT !.next = "end"]
    OBVIOUS
  <2>1. /\ view[a].state.next = "final_report" /\ view[a].state \in GraphState
        /\ Placed(view[a].state, action.status)
    BY <1>1, Known DEF Nodes
  <2>2. view[a].state.stage \in {"resolved", "needs_manual_action"}
    BY <2>1, PlacedNext
  <2>3. s \in GraphState /\ s.next = "end" /\ s.stage = view[a].state.stage
    BY <2>1 DEF GraphState
  <2>4. action.status # "PENDING_APPROVAL"
    BY <2>1, <2>2 DEF Placed, Ahead
  <2>5. Placed(s, action'.status) /\ Reached(s) /\ Fine(s)
    BY <1>1, <2>2, <2>3, <2>4 DEF Placed, Leads, Reached, Ahead, Fine
  <2>6. \A t \in Seen : Placed(t, action'.status)
    BY <1>1 DEF OInv, Ordered
  <2>7. ASSUME ~overlapped
        PROVE  /\ RowsAgree' /\ Settled(s, action'.status)
               /\ \A t \in Seen : Settled(t, action'.status)
    <3>1. Alone /\ action.status # "APPROVED"
      BY <2>1, <2>2, <2>7, SeenMembers DEF OInv, Alone, Settled, Reached, Ahead
    <3>2. /\ report'.final = incident /\ report'.status = action.status
          /\ report'.verified = view[a].state.verified
      BY <1>2 DEF Facts
    <3>3. RowsAgree'
      BY <1>1, <1>2, <2>4, <3>1, <3>2 DEF Alone, RowsAgree, ChainHolds
    <3> QED
      BY <1>1, <3>1, <3>3 DEF Settled
  <2>8. s.next \notin Early \union {"manual_terminalization"}
    BY <2>3 DEF Early, Investigating
  <2>9. action'.executed => approval = "APPROVED"
    BY <1>1 DEF OInv
  <2> QED
    BY <1>1, <1>2, <2>3, <2>5, <2>6, <2>7, <2>8, <2>9, ReturnKeeps
<1>3. CASE Raise(a, "unavailable") /\ UNCHANGED report
  BY <1>1, <1>3, RaiseKeeps DEF rowVars
<1> QED
  BY <1>2, <1>3 DEF FinalReport, Reportable

LEMMA CommitFailsKeeps ==
  ASSUME OInv, IInv', NEW a \in Runs, CommitFails(a)
  PROVE  OInv'
<1>1. UNCHANGED <<rowVars, overlapped, labVars>>
  BY DEF CommitFails
<1>2. CASE Commits(a) /\ Raise(a, "unavailable")
  <2>1. Active(a)
    <3>1. pc[a] \in Nodes \union ExecSteps \union VerifySteps \union {"decide"}
      BY <1>2 DEF Commits, Nodes, ExecSteps, VerifySteps
    <3> QED
      BY <3>1, Phased DEF Active
  <2> QED
    BY <1>1, <1>2, <2>1, RaiseKeeps
<1>3. CASE pc[a] = "insert" /\ Raise(a, "lost")
  <2>1. a \in Requests /\ ~Active(a) /\ AtHome(a) /\ MemoryTyped
    <3>1. pc[a] \in OnlyRequests
      BY <1>3 DEF OnlyRequests
    <3> QED
      BY <1>3, <3>1, Phased, Known DEF Active, OInv, IInv, MemorySound, WorkflowSound
  <2>2. unsaved[a] = << >>
    BY <2>1 DEF AtHome
  <2>3. /\ UNCHANGED <<thread, unsaved>> /\ Goto(a, "lost")
        /\ view' = [view EXCEPT ![a] = Blank(NewState)]
    BY <1>3, <2>1, <2>2 DEF Raise, MemoryTyped
  <2>4. Blank(NewState) \in View /\ Blank(NewState).state = NewState
    BY BlankTyped
  <2>5. approval' # "none" => Reached(thread)
    BY <1>1 DEF OInv, Ordered, rowVars
  <2> QED
    BY <1>1, <2>1, <2>3, <2>4, <2>5, ApproachKeeps DEF rowVars
<1> QED
  BY <1>1, <1>2, <1>3 DEF CommitFails

LEMMA OutageKeeps ==
  ASSUME OInv, IInv', NEW a \in Runs, Outage(a)
  PROVE  OInv'
<1>1. CASE pc[a] \in VerifySteps
  BY <1>1, CheckKeeps
<1>2. CASE pc[a] = "query"
  <2>1. /\ Goto(a, "fail_closed") /\ UNCHANGED view /\ pc[a] \in ExecSteps
        /\ UNCHANGED <<rowVars, thread, unsaved, overlapped, labVars>>
    BY <1>2 DEF Outage, ExecSteps
  <2>2. /\ Active(a) /\ pc[a] \notin Harmless /\ view[a] \in View /\ MemoryTyped
        /\ view[a].state.next = "controlled_action_execution"
        /\ ~overlapped => ~action.executed
    BY <1>2, <2>1, Phased, Own, Known DEF Active, Harmless, OInv, AtHome, Alone, Sole
  <2>3. \A b \in Runs : pc'[b] \in {"rollback", "mark"} => pc'[b] = pc[b]
    BY <2>1, <2>2 DEF Goto, MemoryTyped
  <2>4. LabReal'
    BY <2>1, <2>3, LabRealKept DEF OInv, labVars, rowVars
  <2> QED
    BY <2>1, <2>2, <2>4, ExecutionMove DEF ExecSteps
<1> QED
  BY <1>1, <1>2 DEF Outage, VerifySteps

-----------------------------------------------------------------------------
(* The background writer never takes the thread back behind the wait ...   *)
LEMMA SaveOrdered ==
  ASSUME OInv, NEW a \in Runs, SaveCheckpoint(a)
  PROVE  /\ Ordered' /\ Active(a) /\ Seen' \subseteq Seen /\ Tip(a)' = Tip(a)
         /\ \A b \in Runs \ {a} : unsaved'[b] = unsaved[b]
<1>1. /\ unsaved[a] # << >> /\ thread' = Head(unsaved[a])
      /\ unsaved' = [unsaved EXCEPT ![a] = Tail(@)]
      /\ UNCHANGED <<rowVars, pc, view, overlapped, labVars>>
  BY DEF SaveCheckpoint
<1>2. MemoryTyped /\ unsaved[a] \in Seq(GraphState) /\ AtHome(a) /\ Ordered
  BY Known DEF OInv
<1>3. /\ Len(unsaved[a]) \in Nat /\ Len(unsaved[a]) >= 1 /\ thread' = unsaved[a][1]
      /\ Len(Tail(unsaved[a])) = Len(unsaved[a]) - 1
      /\ \A k \in 1..Len(Tail(unsaved[a])) : Tail(unsaved[a])[k] = unsaved[a][k + 1]
  BY <1>1, <1>2
<1>4. unsaved'[a] = Tail(unsaved[a]) /\ \A b \in Runs \ {a} : unsaved'[b] = unsaved[b]
  BY <1>1, <1>2 DEF MemoryTyped
<1>5. \A k \in 1..Len(unsaved'[a]) :
        k + 1 \in 1..Len(unsaved[a]) /\ unsaved'[a][k] = unsaved[a][k + 1] /\ k + 1 \in Nat
  BY <1>3, <1>4
<1>6. Active(a)
  BY <1>1, <1>2 DEF AtHome
<1>7. thread' \in Seen
  BY <1>3, SeenMembers
<1>8. Seen' \subseteq Seen
  <2> SUFFICES ASSUME NEW s \in Seen' PROVE s \in Seen
    OBVIOUS
  <2>1. CASE \E b \in Runs : \E k \in 1..Len(unsaved'[b]) : k \in Nat /\ s = unsaved'[b][k]
    <3> PICK b \in Runs : \E k \in 1..Len(unsaved'[b]) : k \in Nat /\ s = unsaved'[b][k]
      BY <2>1
    <3>1. CASE b = a
      BY <1>5, <3>1, SeenMembers
    <3>2. CASE b # a
      BY <1>4, <3>2, SeenMembers
    <3> QED
      BY <3>1, <3>2
  <2> QED
    BY <1>1, <1>7, <2>1, SeenNext, SeenMembers
<1>9. Tip(a)' = Tip(a)
  <2>1. CASE Len(unsaved[a]) = 1
    <3>1. Tail(unsaved[a]) \in Seq(GraphState)
      BY <1>1, <1>2
    <3>2. Len(Tail(unsaved[a])) = 0
      BY <1>3, <2>1
    <3>3. Tail(unsaved[a]) = << >>
      <4> PICK t \in Seq(GraphState) : t = Tail(unsaved[a])
        BY <3>1
      <4>1. DOMAIN t = {} /\ Len(t) = 0
        BY <3>2
      <4> QED
        BY <4>1
    <3>4. unsaved'[a] = << >>
      BY <1>4, <3>3
    <3> QED
      BY <1>1, <1>3, <2>1, <3>4 DEF Tip
  <2>2. CASE Len(unsaved[a]) # 1
    <3>1. unsaved'[a] # << >> /\ Len(unsaved'[a]) \in 1..Len(unsaved'[a])
      <4>1. Len(unsaved'[a]) \in Nat /\ Len(unsaved'[a]) # 0
        BY <1>3, <1>4, <2>2
      <4> QED
        BY <4>1
    <3>2. Len(unsaved'[a]) + 1 = Len(unsaved[a])
      BY <1>3, <1>4
    <3> QED
      BY <1>1, <1>5, <3>1, <3>2 DEF Tip
  <2> QED
    BY <2>1, <2>2
<1>10. Ordered'
  <2>1. \A s \in Seen' : Placed(s, action'.status)
    BY <1>1, <1>2, <1>8 DEF Ordered, rowVars
  <2> PICK t : t = thread'
    OBVIOUS
  <2>2. Reached(thread) => Reached(t)
    BY <1>2, <1>3, <1>6, Phased DEF Ordered, WorkflowOrder, RequestOrder, Runs
  <2>3. WorkflowOrder'
    <3>1. CASE a = Workflow
      <4>1. /\ Reached(t) => \A k \in 1..Len(unsaved'[a]) : Reached(unsaved'[a][k])
            /\ \A j, k \in 1..Len(unsaved'[a]) :
                 j < k /\ Reached(unsaved'[a][j]) => Reached(unsaved'[a][k])
        BY <1>2, <1>3, <1>5, <3>1 DEF Ordered, WorkflowOrder
      <4>2. pc[a] \in Approaching =>
              ~Reached(t) /\ \A k \in 1..Len(unsaved'[a]) : ~Reached(unsaved'[a][k])
        BY <1>2, <1>3, <1>5, <3>1 DEF Ordered, WorkflowOrder
      <4> QED
        BY <1>1, <3>1, <4>1, <4>2 DEF WorkflowOrder, Reached
    <3>2. CASE a # Workflow
      <4>1. Reached(thread) /\ Workflow \in Runs
        BY <1>1, <1>2, <3>2 DEF Ordered, RequestOrder, Runs
      <4>2. unsaved'[Workflow] = unsaved[Workflow]
        BY <1>4, <3>2, <4>1
      <4> QED
        BY <1>1, <1>2, <4>1, <4>2 DEF Ordered, WorkflowOrder, Reached
    <3> QED
      BY <3>1, <3>2
  <2>4. ASSUME NEW r \in Requests
        PROVE  RequestOrder(r)'
    <3>1. RequestOrder(r) /\ r \in Runs
      BY <1>2 DEF Ordered, Runs
    <3>2. \A k \in 1..Len(unsaved'[r]) : Reached(unsaved'[r][k])
      BY <1>4, <1>5, <3>1 DEF RequestOrder
    <3>3. Working(r) \/ unsaved'[r] # << >> => Reached(t)
      BY <1>1, <1>4, <2>2, <3>1 DEF RequestOrder
    <3> QED
      BY <1>1, <3>1, <3>2, <3>3 DEF RequestOrder, Reached, Working
  <2>5. approval' # "none" => Reached(t)
    BY <1>1, <1>2, <2>2 DEF Ordered, rowVars
  <2> QED
    BY <2>1, <2>3, <2>4, <2>5 DEF Ordered, Reached
<1> QED
  BY <1>4, <1>6, <1>8, <1>9, <1>10

(* ... and the only run at work ends where it would have.                  *)
LEMMA SaveKeeps ==
  ASSUME OInv, IInv', NEW a \in Runs, SaveCheckpoint(a)
  PROVE  OInv'
<1>1. UNCHANGED <<rowVars, pc, view, overlapped, labVars>>
  BY DEF SaveCheckpoint
<1>2. /\ Ordered' /\ Active(a) /\ Seen' \subseteq Seen /\ Tip(a)' = Tip(a)
      /\ \A b \in Runs \ {a} : unsaved'[b] = unsaved[b]
  BY SaveOrdered
<1>3. LabReal'
  BY <1>1, LabRealKept DEF OInv, rowVars, labVars
<1>4. Deciding'
  BY <1>1 DEF OInv, Deciding, Active, rowVars
<1>5. \A b \in Runs : AtHome(b)'
  <2>1. \A b \in Runs : AtHome(b)
    BY DEF OInv
  <2> QED
    BY <1>1, <1>2, <2>1 DEF AtHome, Active
<1>6. ASSUME ~overlapped
      PROVE  Alone'
  <2>1. Alone /\ \A b \in Runs \ {a} : ~Active(b)
    BY <1>2, <1>6 DEF OInv, Alone
  <2>2. RowsAgree' /\ (\A b \in Runs : Sole(b)')
    <3>1. RowsAgree'
      BY <1>1, <2>1 DEF Alone, RowsAgree, rowVars
    <3>2. \A b \in Runs : Sole(b)'
      BY <1>1, <2>1 DEF Alone, Sole, rowVars
    <3> QED
      BY <3>1, <3>2
  <2>3. \A s \in Seen' : Settled(s, action'.status)
    BY <1>1, <1>2, <2>1 DEF Alone, rowVars
  <2>4. \A b \in Runs : Active(b)' <=> b = a
    BY <1>1, <1>2, <2>1 DEF Active
  <2>5. Reported'
    <3>1. report.final # "none" => pc[a] \in Harmless /\ Fine(Tip(a))
      BY <1>2, <2>1 DEF Alone, Reported
    <3> QED
      BY <1>1, <1>2, <2>4, <3>1 DEF Reported, Fine, rowVars
  <2> QED
    BY <2>2, <2>3, <2>4, <2>5 DEF Alone
<1> QED
  BY <1>1, <1>2, <1>3, <1>4, <1>5, <1>6 DEF OInv, rowVars

(* An invocation that returns leaves its last checkpoint in the thread.    *)
LEMMA FinishKeeps ==
  ASSUME OInv, IInv', NEW a \in Runs, Finish(a)
  PROVE  OInv'
<1>1. /\ pc[a] = "settle" /\ unsaved[a] = << >> /\ Goto(a, "done") /\ Active(a)
      /\ view' = [view EXCEPT ![a] = Blank(NewState)]
      /\ UNCHANGED <<rowVars, thread, unsaved, overlapped, labVars>>
  BY Phased DEF Finish, Active
<1>2. /\ "done" \in Phases \ Approaching /\ "done" \notin ResumePhases
      /\ "done" \notin Nodes \union Steps
      /\ "done" \notin Early \union {"manual_terminalization"}
  BY Phased DEF Phases, EndPhases, Approaching, Early, Investigating, Nodes, Steps
<1>3. Blank(NewState) \in View /\ Blank(NewState).state = NewState /\ MemoryTyped
  BY BlankTyped, Known
<1>4. /\ pc'[a] = "done" /\ view'[a].state = NewState
      /\ \A b \in Runs \ {a} : view'[b] = view[b] /\ pc'[b] = pc[b]
      /\ Seen' \subseteq Seen \union {NewState}
  <2>1. Seen' \subseteq Seen \union {Blank(NewState).state}
    BY <1>1, <1>3, SeenMove
  <2> QED
    BY <1>1, <1>2, <1>3, <2>1, MoveEffect DEF MemoryTyped
<1>5. Ordered' /\ \A b \in Runs : AtHome(b)'
  <2>1. Placed(NewState, action.status)
    BY DEF NewState, Placed, Leads, Early, Investigating, Ahead
  <2>2. AtHome(a)'
    BY <1>1, <1>2, <1>4, Phased DEF AtHome, Active
  <2>3. UNCHANGED <<thread, unsaved, action>> /\ (approval' # "none" => Reached(thread))
    BY <1>1 DEF rowVars, OInv, Ordered
  <2>4. PICK v \in View : v.state = NewState /\ view' = [view EXCEPT ![a] = v]
    BY <1>1, <1>3
  <2> QED
    BY <1>1, <1>2, <2>1, <2>2, <2>3, <2>4, MoveOrdered
<1>6. LabReal'
  <2>1. \A b \in Runs : pc'[b] \in {"rollback", "mark"} => pc'[b] = pc[b]
    BY <1>4
  <2> QED
    BY <1>1, <2>1, LabRealKept DEF OInv, rowVars, labVars
<1>7. Deciding'
  BY <1>1, <1>2, <1>4, DecidingKept DEF rowVars
<1>8. ASSUME ~overlapped
      PROVE  Alone'
  <2>1. Alone
    BY <1>8 DEF OInv
  <2>2. \A b \in Runs : ~Active(b)'
    BY <1>1, <1>2, <1>4, <2>1 DEF Alone, Active
  <2>3. \A b \in Runs : Sole(b)'
    BY <2>2, Phased DEF Sole, Active
  <2>4. RowsAgree'
    BY <1>1, <2>1 DEF Alone, RowsAgree, rowVars
  <2>5. \A s \in Seen' : Settled(s, action'.status)
    BY <1>1, <1>4, <2>1 DEF Alone, Settled, NewState, rowVars
  <2>6. Reported'
    <3>1. report.final # "none" => Fine(thread)
      BY <1>1, <2>1 DEF Alone, Reported, Tip
    <3> QED
      BY <1>1, <2>2, <3>1 DEF Reported, Fine, rowVars
  <2> QED
    BY <2>2, <2>3, <2>4, <2>5, <2>6 DEF Alone
<1> QED
  BY <1>1, <1>5, <1>6, <1>7, <1>8 DEF OInv, rowVars

(* After a crash nobody is at work, and only the checkpoint is left.       *)
LEMMA CrashKeeps ==
  ASSUME OInv, IInv', Crash
  PROVE  OInv'
<1>1. /\ \A a \in Runs : /\ pc'[a] \in EndPhases \union {"idle"}
                         /\ unsaved'[a] = << >> /\ view'[a].state = NewState
      /\ UNCHANGED <<rowVars, thread, overlapped, labVars>>
  BY BlankTyped DEF Crash, EndPhases
<1>2. \A a \in Runs : /\ ~Active(a)' /\ pc'[a] \notin Approaching
                      /\ pc'[a] \notin Nodes \union Steps
  <2>1. \A p \in EndPhases \union {"idle"} : p \notin Nodes \union Steps
    BY DEF EndPhases, Nodes, Steps, Investigating
  <2> QED
    BY <1>1, <2>1, Phased DEF Active
<1>3. \A s \in Seen' : s = thread \/ s = NewState
  <2> SUFFICES ASSUME NEW s \in Seen' PROVE s = thread \/ s = NewState
    OBVIOUS
  <2>1. \A a \in Runs : \A k \in 1..Len(unsaved'[a]) : FALSE
    BY <1>1
  <2> QED
    BY <1>1, <2>1, SeenNext
<1>4. Placed(NewState, action.status) /\ Settled(NewState, action.status)
  BY DEF NewState, Placed, Leads, Early, Investigating, Ahead, Settled
<1>5. Workflow \in Runs /\ Requests \subseteq Runs
  BY DEF Runs
<1>6. Ordered'
  <2>1. \A s \in Seen' : Placed(s, action'.status)
    BY <1>1, <1>3, <1>4, SeenMembers DEF OInv, Ordered, rowVars
  <2>2. WorkflowOrder' /\ \A r \in Requests : RequestOrder(r)'
    BY <1>1, <1>2, <1>5 DEF WorkflowOrder, RequestOrder, Working
  <2> QED
    BY <1>1, <2>1, <2>2 DEF OInv, Ordered, Reached, rowVars
<1>7. \A a \in Runs : AtHome(a)' /\ Sole(a)'
  BY <1>1, <1>2, Phased DEF AtHome, Sole, Active
<1>8. Deciding'
  BY <1>1, <1>2, <1>5, Phased DEF Deciding, Approaching, Steps
<1>9. LabReal'
  BY <1>1, <1>2, LabRealKept DEF Steps, OInv, rowVars, labVars
<1>10. ASSUME ~overlapped
       PROVE  Alone'
  <2>1. Alone
    BY <1>10 DEF OInv
  <2>2. RowsAgree'
    BY <1>1, <2>1 DEF Alone, RowsAgree, rowVars
  <2>3. \A s \in Seen' : Settled(s, action'.status)
    BY <1>1, <1>3, <1>4, <2>1, SeenMembers DEF Alone, rowVars
  <2>4. Reported'
    BY <1>2, <1>5 DEF Reported, Steps
  <2> QED
    BY <1>2, <1>7, <2>2, <2>3, <2>4 DEF Alone
<1> QED
  BY <1>1, <1>6, <1>7, <1>8, <1>9, <1>10 DEF OInv, rowVars

(* The operator may always touch the lab; from then on nothing is claimed  *)
(* of it.  Orders leave the deployment alone.                              *)
LEMMA OutsideKeeps ==
  ASSUME OInv, IInv', Outsider \/ Aftermath,
         UNCHANGED <<rowVars, thread, unsaved, pc, view, overlapped>>
  PROVE  OInv'
<1>1. lab \in Lab /\ todo \subseteq Interventions /\ LabReal
  BY TypeParts DEF OInv, IInv, LabTypeOK
<1>2. CASE Operator \/ FinishCommand
  <2>1. \E i \in todo : todo' = todo \ {i}
    BY <1>2 DEF Operator, FinishCommand, Perform
  <2>2. todo' # Interventions
    BY <1>1, <2>1
  <2>3. LabReal'
    BY <1>1, <2>2 DEF LabReal, Untouched, rowVars
  <2> QED
    BY <2>3, OnlyLabKeeps
<1>3. CASE \E c \in Customers : PlaceOrder(c) \/ FinishOrder(c)
  <2>1. /\ UNCHANGED todo
        /\ UNCHANGED serving
        /\ lab' = lab \/ \E succeeded \in BOOLEAN : lab' = RecordOrder(lab, succeeded)
    BY <1>3 DEF PlaceOrder, FinishOrder
  <2>2. /\ lab'.version = lab.version /\ lab'.previous = lab.previous
        /\ lab'.configured = lab.configured
    <3>1. CASE \E succeeded \in BOOLEAN : lab' = RecordOrder(lab, succeeded)
      BY <1>1, <3>1 DEF RecordOrder, Lab
    <3> QED
      BY <2>1, <3>1
  <2>3. LabReal'
    BY <1>1, <2>1, <2>2, LabRealKept DEF rowVars
  <2> QED
    BY <2>3, OnlyLabKeeps
<1> QED
  BY <1>2, <1>3 DEF Outsider, Aftermath

-----------------------------------------------------------------------------
(* A step of one run.                                                      *)
LEMMA RunKeeps ==
  ASSUME OInv, IInv', NEW a \in Runs,
         (Step(a) /\ UNCHANGED disturbed) \/ CommitFails(a) \/ Outage(a) \/ LostAnswer(a)
  PROVE  OInv'
<1>1. RecordDecision(a) \/ InsertApproval(a) \/ Resume(a) => a \in Requests
  <2>1. RecordDecision(a) \/ InsertApproval(a) \/ Resume(a) => pc[a] \in OnlyRequests
    BY DEF RecordDecision, InsertApproval, Resume, OnlyRequests
  <2> QED
    BY <2>1, Own DEF OInv, WorkflowSound
<1>2. CASE \/ (Investigate(a) /\ UNCHANGED disturbed)
           \/ ManualTerminalization(a) \/ PolicyGate(a)
           \/ ApprovalWait(a) \/ RecordDecision(a) \/ InsertApproval(a) \/ Resume(a)
           \/ ApprovalInterrupt(a) \/ ReadDecision(a) \/ CommitDecision(a)
  BY <1>1, <1>2, InvestigateKeeps, ManualTerminalizationKeeps, PolicyGateKeeps,
     ApprovalWaitKeeps, RecordDecisionKeeps, InsertKeeps, ResumeKeeps,
     ApprovalInterruptKeeps, ReadDecisionKeeps, CommitDecisionKeeps
<1>3. CASE \/ ValidateExecution(a) \/ QueryDeployment(a) \/ PostRollback(a)
           \/ RollbackAnswer(a) \/ LostAnswer(a) \/ MarkExecuted(a)
           \/ CommitFailure(a)
  BY <1>3, ValidateExecutionKeeps, QueryDeploymentKeeps, PostRollbackKeeps,
     RollbackAnswerKeeps, MarkExecutedKeeps, CommitFailureKeeps
<1>4. CASE CheckDeployment(a) \/ MeasureBefore(a) \/ MeasureAfter(a) \/ CheckLogs(a)
  <2>1. pc[a] \in VerifySteps
    BY <1>4 DEF CheckDeployment, MeasureBefore, MeasureAfter, CheckLogs, VerifySteps
  <2> QED
    BY <1>4, <2>1, CheckKeeps
<1>5. CASE \/ BeginVerification(a) \/ Probe(a) \/ ProbeAnswer(a)
           \/ PersistVerification(a) \/ FinalReport(a)
           \/ SaveCheckpoint(a) \/ Finish(a) \/ CommitFails(a) \/ Outage(a)
  BY <1>5, BeginVerificationKeeps, ProbeKeeps, PersistVerificationKeeps,
     FinalReportKeeps, SaveKeeps, FinishKeeps, CommitFailsKeeps, OutageKeeps
<1> QED
  BY <1>2, <1>3, <1>4, <1>5 DEF Step

(* Every step keeps the invariant ...                                      *)
LEMMA NextOInv == OInv /\ [Next]_vars => OInv'
<1> SUFFICES ASSUME OInv, [Next]_vars PROVE OInv'
  OBVIOUS
<1>1. IInv'
  BY NextIInv DEF OInv
<1>2. CASE UNCHANGED vars
  <2>1. /\ UNCHANGED <<rowVars, thread, unsaved, pc, view, overlapped>>
        /\ UNCHANGED labVars
    BY <1>2 DEF vars
  <2>2. LabReal'
    BY <2>1, LabRealKept DEF OInv, rowVars, labVars
  <2> QED
    BY <1>1, <2>1, <2>2, OnlyLabKeeps
<1>3. CASE Next
  <2>1. CASE Interrupt
    BY <1>1, <2>1, InterruptKeeps
  <2>2. CASE \E a \in Runs : Step(a) /\ UNCHANGED disturbed
    BY <1>1, <2>2, RunKeeps
  <2>3. CASE /\ Aftermath \/ ServeRollback
             /\ UNCHANGED <<rowVars, thread, unsaved, pc, view, overlapped>>
    BY <1>1, <2>3, OutsideKeeps, ServeKeeps
  <2>4. CASE Disturbance
    BY <1>1, <2>4, RunKeeps, CrashKeeps, OutsideKeeps DEF Disturbance
  <2> QED
    BY <1>3, <2>1, <2>2, <2>3, <2>4 DEF Next
<1> QED
  BY <1>2, <1>3

(* ... which holds in the beginning ...                                    *)
LEMMA InitOInv == Init => OInv
<1> SUFFICES ASSUME Init PROVE OInv
  OBVIOUS
<1>1. IInv
  BY InitIInv
<1>2. /\ thread = NewState /\ overlapped = FALSE /\ approval = "none"
      /\ incident = "INVESTIGATING" /\ report = Unreported
      /\ action.status = "none" /\ ~action.executed /\ action.current = Faulty
  BY DEF Init
<1>3. ASSUME NEW a \in Runs
      PROVE  /\ unsaved[a] = << >> /\ view[a].state = NewState
             /\ pc[a] = IF a = Workflow THEN "intake" ELSE "idle"
  <2>1. unsaved[a] = << >> /\ view[a] = Blank(NewState)
        /\ pc[a] = IF a = Workflow THEN "intake" ELSE "idle"
    BY DEF Init
  <2> QED
    BY <2>1, BlankTyped
<1>4. Workflow \in Runs /\ Requests \subseteq Runs /\ Workflow \notin Requests
  BY RemediationAssumption DEF Runs
<1>5. \A s \in Seen : s = NewState
  BY <1>2, <1>3 DEF Seen
<1>6. Placed(NewState, "none") /\ Settled(NewState, "none") /\ ~Reached(NewState)
  BY DEF NewState, Placed, Leads, Early, Investigating, Ahead, Settled, Reached
<1>7. /\ "intake" \in Approaching
      /\ "intake" \notin ExecSteps \union VerifySteps \union {"decide", "rollback", "mark"}
      /\ \A r \in Requests : ~Active(r) /\ ~Working(r) /\ pc[r] = "idle"
      /\ "idle" \notin Approaching \union ExecSteps \union VerifySteps
                         \union {"decide", "rollback", "mark", "insert", "resume"}
  <2>1. "intake" \in Approaching
    BY DEF Approaching, Early, Investigating
  <2>2. "intake" \notin ExecSteps \union VerifySteps \union {"decide", "rollback", "mark"}
    BY DEF ExecSteps, VerifySteps
  <2>3. "idle" \notin Nodes \union Steps
    BY DEF Nodes, Steps, Investigating
  <2>4. "idle" \notin Approaching \union ExecSteps \union VerifySteps
    BY DEF ExecSteps, VerifySteps, Approaching, Early, Investigating
  <2>5. \A r \in Requests : pc[r] = "idle"
    BY <1>3, <1>4
  <2> QED
    BY <2>1, <2>2, <2>3, <2>4, <2>5 DEF Active, Working, ResumePhases
<1>8. LabReal
  <2>1. lab = Baseline \/ lab = InjectMissingConfig(DeployFaultyVersion(Baseline))
    BY DEF Init, LabInit
  <2>2. /\ lab.previous # lab.version
        /\ lab.version = Faulty => lab.previous = Healthy
        /\ lab.version = Healthy => lab.configured
    <3>1. CASE lab = Baseline
      BY <3>1 DEF Baseline, Healthy, Faulty
    <3>2. CASE lab = InjectMissingConfig(DeployFaultyVersion(Baseline))
      <4>1. PICK d : d = DeployFaultyVersion(Baseline)
        OBVIOUS
      <4>2. d.version = Faulty /\ d.previous = Healthy
        BY <4>1 DEF DeployFaultyVersion, Baseline, Healthy, Faulty
      <4>3. "version" \in DOMAIN d /\ "previous" \in DOMAIN d
        BY <4>1 DEF DeployFaultyVersion, Baseline
      <4>4. lab.version = d.version /\ lab.previous = d.previous
        BY <3>2, <4>1, <4>3 DEF InjectMissingConfig
      <4> QED
        BY <4>2, <4>4 DEF Healthy, Faulty
    <3> QED
      BY <2>1, <3>1, <3>2
  <2>3. serving = [r \in Requests |-> "none"]
    BY DEF Init, LabInit
  <2> QED
    BY <1>2, <1>3, <1>7, <2>2, <2>3, <1>4 DEF LabReal, Runs, Served
<1>9. Ordered
  <2>1. \A s \in Seen : Placed(s, action.status)
    BY <1>2, <1>5, <1>6
  <2>2. WorkflowOrder
    BY <1>2, <1>3, <1>4, <1>6 DEF WorkflowOrder
  <2>3. \A r \in Requests : RequestOrder(r)
    <3>1. ASSUME NEW r \in Requests PROVE RequestOrder(r)
      <4>1. unsaved[r] = << >> /\ Len(unsaved[r]) = 0
        BY <1>3, <1>4
      <4> QED
        BY <1>7, <4>1 DEF RequestOrder
    <3> QED
      BY <3>1
  <2> QED
    BY <1>2, <2>1, <2>2, <2>3 DEF Ordered
<1>10. Deciding
  BY <1>2, <1>7 DEF Deciding
<1>11. \A a \in Runs : AtHome(a) /\ Sole(a)
  BY <1>3, <1>7 DEF AtHome, Sole
<1>12. Alone
  <2>1. RowsAgree /\ Reported
    BY <1>2 DEF RowsAgree, Reported, Unreported
  <2>2. \A a, b \in Runs : Active(a) /\ Active(b) => a = b
    BY <1>7 DEF Runs
  <2> QED
    BY <1>2, <1>5, <1>6, <1>11, <2>1, <2>2 DEF Alone
<1> QED
  BY <1>1, <1>2, <1>8, <1>9, <1>10, <1>11, <1>12 DEF OInv

(* ... and therefore always.                                               *)
LEMMA OutcomeInductive == Spec => []OInv
BY InitOInv, NextOInv, PTL DEF Spec

-----------------------------------------------------------------------------
(* An Action recorded EXECUTED was: while nobody operates the lab, the     *)
(* deployment is the one the human approved, whatever crashed, was lost or *)
(* ran twice.  A rollback answered, found done or performed unheard leaves *)
(* the target deployed, however late the service performs it, and nobody   *)
(* but the operator deploys anything else.                                 *)
THEOREM ExecutedActionsAreReal == Spec => []ExecutedIsReal
<1>1. OInv => ExecutedIsReal
  BY DEF OInv, IInv, LabSound, LabReal, Untouched, AtTarget, ExecutedIsReal, DoneAlready
<1> QED
  BY <1>1, OutcomeInductive, PTL

(* As long as one request at a time resumes the thread and nobody operates *)
(* the lab, an incident is RESOLVED only with an approved and executed     *)
(* Action, a passed verification, and the lab at the target, configured or *)
(* about to be by a rollback request the service still works on.           *)
THEOREM ResolutionsAreEarned == Spec => []ResolvedIsEarned
<1>1. OInv => ResolvedIsEarned
  <2> SUFFICES ASSUME OInv, ~overlapped, todo = Interventions, incident = "RESOLVED"
               PROVE  /\ approval = "APPROVED" /\ Executed /\ verification = "PASS"
                      /\ lab.version = action.target
                      /\ lab.configured \/ \E r \in Requests : serving[r] = "configuration"
    BY DEF ResolvedIsEarned
  <2>1. approval = "APPROVED" /\ Executed /\ verification = "PASS"
    BY DEF OInv, Alone, RowsAgree, Executed
  <2>2. /\ AtTarget /\ action.target = Healthy
        /\ lab.configured \/ \E r \in Requests : serving[r] = "configuration"
    BY <2>1 DEF OInv, LabReal, Untouched, AtTarget, Executed, IInv, LabSound
  <2> QED
    BY <2>1, <2>2 DEF AtTarget
<1> QED
  BY <1>1, OutcomeInductive, PTL

(* The report of a round that one request at a time has worked on says     *)
(* what the rows say, also after crashes, repeated decisions and restarts: *)
(* once it is written, every checkpoint left leads to the decision, which  *)
(* refuses or repeats, or to the report again.                             *)
THEOREM ReportsAgree == Spec => []ReportAgrees
<1>1. OInv => ReportAgrees
  BY DEF OInv, Alone, RowsAgree, ReportAgrees
<1> QED
  BY <1>1, OutcomeInductive, PTL

(* After a crash or an error between the decision's commit and its being   *)
(* applied, the thread still waits, so the same decision sent again can    *)
(* resume it: no checkpoint is behind the wait, and none is past it while  *)
(* the Action is pending.                                                  *)
THEOREM DecisionsStayRetryable == Spec => []RetryableUntilApplied
<1>1. OInv => RetryableUntilApplied
  <2> SUFFICES ASSUME OInv, approval # "none", action.status = "PENDING_APPROVAL"
               PROVE  thread.stage = "waiting_approval" /\ Consistent
    BY DEF RetryableUntilApplied
  <2>1. Reached(thread) /\ Placed(thread, action.status)
    BY SeenMembers DEF OInv, Ordered
  <2> QED
    BY <2>1 DEF Reached, Placed, Consistent
<1> QED
  BY <1>1, OutcomeInductive, PTL
=============================================================================
