-------------------------- MODULE ApprovedRollback --------------------------
(***************************************************************************)
(* What the approval workflow promises about the world outside it, with    *)
(* its database, its checkpoints and its requests left out: one decision,  *)
(* made once; the only side effect is a rollback; it happens under an      *)
(* approval, and each one undoes a deployment somebody made.               *)
(***************************************************************************)
EXTENDS Naturals

VARIABLES
  decision,   \* the human decision: "none", "APPROVED" or "REJECTED"
  deploys,    \* deployments of the faulty version, by whoever operates the lab
  rollbacks   \* rollbacks that changed the deployment

abstractVars == <<decision, deploys, rollbacks>>

AbstractInit ==
  /\ decision = "none"
  /\ deploys \in Nat
  /\ rollbacks = 0

Decide ==
  /\ decision = "none"
  /\ decision' \in {"APPROVED", "REJECTED"}
  /\ UNCHANGED <<deploys, rollbacks>>

Deploy ==
  /\ deploys' = deploys + 1
  /\ UNCHANGED <<decision, rollbacks>>

Rollback ==
  /\ decision = "APPROVED"
  /\ rollbacks < deploys
  /\ rollbacks' = rollbacks + 1
  /\ UNCHANGED <<decision, deploys>>

AbstractNext == Decide \/ Deploy \/ Rollback

AbstractSpec == AbstractInit /\ [][AbstractNext]_abstractVars
=============================================================================
