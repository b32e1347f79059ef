------------------------------ MODULE FaultLab ------------------------------
(***************************************************************************)
(* The Fault Lab the backend investigates and repairs: order-service and   *)
(* payment-service, two processes whose state is a handful of JSON files   *)
(* and in-memory buffers.  Everybody shares it: the operator's command     *)
(* line, the customers that place orders, and the backend, whose adapters  *)
(* read it and whose one side effect, the rollback, changes it.            *)
(*                                                                         *)
(* A handler runs in a thread of its own, and what it does under one lock  *)
(* is one step.  A rollback takes two, the deployment and then the         *)
(* configuration, and goes on when its caller no longer waits; a reset     *)
(* takes three; an order reads the configuration and the deployment, one   *)
(* step here since either order of the two reads admits the same orders    *)
(* unless the lab is operated between them, and then awaits the payment.   *)
(***************************************************************************)
EXTENDS Naturals

CONSTANTS
  Requests,       \* who may ask for a rollback, each at most once
  Customers,      \* orders placed by others than the backend
  Interventions   \* what the operator's command line may do, each at most once

InterventionKinds ==
  { "deploy",         \* fault_control inject missing_config: the deployment ...
    "misconfigure",   \* ... and then the missing setting
    "delay",          \* fault_control inject payment_timeout
    "reset_order",    \* fault_control reset: order-service's runtime state ...
    "reset_deployment", \* ... its deployment ...
    "reset_logs",     \* ... and its log ...
    "reset_payment" } \* ... and then payment-service

ASSUME InterventionsAssumption ==
  /\ Interventions \subseteq InterventionKinds
  /\ "misconfigure" \in Interventions => "deploy" \in Interventions
  /\ "reset_payment" \in Interventions => "reset_logs" \in Interventions
  /\ "reset_logs" \in Interventions => "reset_deployment" \in Interventions
  /\ "reset_deployment" \in Interventions => "reset_order" \in Interventions

VARIABLES
  lab,        \* the two services' state
  todo,       \* the interventions not performed yet
  customers,  \* where each customer's order stands
  serving     \* how far the service is with each rollback request

labVars == <<lab, todo, customers, serving>>

Healthy == "v1.0.0"
Faulty  == "v1.1.0"
Version == {Healthy, Faulty}

(* version, previous: the deployment; configured: PAYMENT_TIMEOUT is set;  *)
(* delayed: payments outlast order-service's timeout; requests, errors:    *)
(* the runtime metrics; logged, cleared: error events ever logged, and how *)
(* many of them the last reset discarded; deploys, rollbacks: history, how *)
(* often the faulty version was deployed and a rollback took effect.       *)
Lab == [version : Version, previous : Version \union {"none"},
        configured : BOOLEAN, delayed : BOOLEAN,
        requests : Nat, errors : Nat, logged : Nat, cleared : Nat,
        deploys : Nat, rollbacks : Nat]

Baseline == [version |-> Healthy, previous |-> "none",
             configured |-> TRUE, delayed |-> FALSE,
             requests |-> 0, errors |-> 0, logged |-> 0, cleared |-> 0,
             deploys |-> 0, rollbacks |-> 0]

(* A rollback request: not sent, on its way to the deployment, to the      *)
(* configuration, or answered.                                             *)
Answers == {"executed", "found", "refused"}
Service == {"none", "deployment", "configuration"} \union Answers

LabTypeOK ==
  /\ lab \in Lab
  /\ todo \subseteq Interventions
  /\ customers \in [Customers -> {"idle", "paying", "delayed", "done"}]
  /\ serving \in [Requests -> Service]

(* The metrics and the log as the adapters report them.                    *)
MetricsSnapshot == [requests |-> lab.requests, errors |-> lab.errors]

ErrorsLoggedSince(mark) ==
  lab.logged - (IF mark > lab.cleared THEN mark ELSE lab.cleared)

-----------------------------------------------------------------------------
DeployFaultyVersion(l) ==
  [l EXCEPT !.version = Faulty,
            !.previous = IF l.version = Faulty THEN @ ELSE l.version,
            !.deploys = @ + 1]

(* A new RuntimeState: the metrics start from zero.                        *)
InjectMissingConfig(l) ==
  [l EXCEPT !.configured = FALSE, !.requests = 0, !.errors = 0]

ResetRuntime(l) ==
  [l EXCEPT !.configured = TRUE, !.requests = 0, !.errors = 0]

ResetDeployment(l) == [l EXCEPT !.version = Healthy, !.previous = "none"]

ClearLogs(l) == [l EXCEPT !.cleared = l.logged]

(* rollback_to_previous_version: asking for the version already current    *)
(* succeeds and changes nothing; only the predecessor can be rolled to.    *)
RollbackTakesEffect(l, target) ==
  /\ target # l.version
  /\ target = l.previous

RolledBack(l, target) ==
  [l EXCEPT !.version = target, !.previous = l.version, !.rollbacks = @ + 1]

RestoredNothing(l) == l  \* mutant: the configuration is not restored

Restored(l) == [l EXCEPT !.configured = TRUE]

(* create_order: the check made before the payment is awaited, and what    *)
(* the finished order leaves in the metrics and the log.                   *)
OrderAdmitted(l) == l.version = Faulty => l.configured

RecordOrder(l, succeeded) ==
  IF succeeded
    THEN [l EXCEPT !.requests = @ + 1]
    ELSE [l EXCEPT !.requests = @ + 1, !.errors = @ + 1, !.logged = @ + 1]

(* create_payment reads its delay when the request arrives.                *)
Payment(l) == IF l.delayed THEN "delayed" ELSE "paying"

-----------------------------------------------------------------------------
(* A lab the operator may hand over: untouched, or with one scenario's     *)
(* fault injected.                                                         *)
LabInit ==
  /\ lab \in { Baseline,
               InjectMissingConfig(DeployFaultyVersion(Baseline)) }
  /\ todo = Interventions
  /\ customers = [c \in Customers |-> "idle"]
  /\ serving = [r \in Requests |-> "none"]

Perform(i, l) ==
  /\ i \in todo
  /\ todo' = todo \ {i}
  /\ lab' = l
  /\ UNCHANGED <<customers, serving>>

(* A command begins, and finishes later.                                   *)
Operator ==
  \/ Perform("deploy", DeployFaultyVersion(lab))
  \/ Perform("delay", [lab EXCEPT !.delayed = TRUE])
  \/ Perform("reset_order", ResetRuntime(lab))

FinishCommand ==
  \/ /\ "deploy" \notin todo
     /\ Perform("misconfigure", InjectMissingConfig(lab))
  \/ /\ "reset_order" \notin todo
     /\ Perform("reset_deployment", ResetDeployment(lab))
  \/ /\ "reset_deployment" \notin todo
     /\ Perform("reset_logs", ClearLogs(lab))
  \/ /\ "reset_logs" \notin todo
     /\ Perform("reset_payment", [lab EXCEPT !.delayed = FALSE])

PlaceOrder(c) ==
  /\ customers[c] = "idle"
  /\ \/ /\ OrderAdmitted(lab)
        /\ customers' = [customers EXCEPT ![c] = Payment(lab)]
        /\ UNCHANGED lab
     \/ /\ ~OrderAdmitted(lab)
        /\ customers' = [customers EXCEPT ![c] = "done"]
        /\ lab' = RecordOrder(lab, FALSE)
  /\ UNCHANGED <<todo, serving>>

FinishOrder(c) ==
  /\ customers[c] \in {"paying", "delayed"}
  /\ customers' = [customers EXCEPT ![c] = "done"]
  /\ lab' = RecordOrder(lab, customers[c] = "paying")
  /\ UNCHANGED <<todo, serving>>

(* The service works on a rollback request, whoever still waits for it.    *)
SwitchDeployment(r, target) ==
  /\ serving[r] = "deployment"
  /\ \/ /\ RollbackTakesEffect(lab, target)
        /\ lab' = RolledBack(lab, target)
        /\ serving' = [serving EXCEPT ![r] = "configuration"]
     \/ /\ ~RollbackTakesEffect(lab, target)
        /\ serving' = [serving EXCEPT ![r] = IF target = lab.version THEN "found"
                                                                    ELSE "refused"]
        /\ UNCHANGED lab
  /\ UNCHANGED <<todo, customers>>

RestoreConfiguration(r) ==
  /\ serving[r] = "configuration"
  /\ lab' = Restored(lab)
  /\ serving' = [serving EXCEPT ![r] = "executed"]
  /\ UNCHANGED <<todo, customers>>

Outsider  == Operator \/ \E c \in Customers : PlaceOrder(c)
Aftermath == FinishCommand \/ \E c \in Customers : FinishOrder(c)
=============================================================================
