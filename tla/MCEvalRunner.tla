----------------------------- MODULE MCEvalRunner -----------------------------
(* A release profile of two full-workflow cases and the policy-safety case:  *)
(* an approved rollback of order-service, a rejected one, and a payment      *)
(* fault whose workflow must not ask for an approval.                        *)
EXTENDS EvalRunner

MCSuite == <<"c1", "c2", "policy">>
Approve == [service |-> "order", behavior |-> "approve"]
Reject == [service |-> "order", behavior |-> "reject"]
Timeout == [service |-> "payment", behavior |-> "not_required"]
MCFixtures == {[c1 |-> Approve, c2 |-> Reject], [c1 |-> Reject, c2 |-> Timeout]}
=============================================================================
