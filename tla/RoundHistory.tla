---------------------------- MODULE RoundHistory ----------------------------
(***************************************************************************)
(* What one incident promises about its investigation rounds, with no      *)
(* requests, sessions, background tasks or crashes in sight: an            *)
(* append-only history in which only the newest round ever moves, a        *)
(* terminal round is sealed for good, a new round starts only after a      *)
(* sealed one, and a published report belongs to a sealed round, agrees    *)
(* with it and is the only one.                                            *)
(***************************************************************************)
EXTENDS Naturals, Sequences

VARIABLES
  rounds,   \* rounds[n] is the status of the round numbered n
  reports   \* the published reports, each the round and the outcome it states

histVars == <<rounds, reports>>

Terminal == {"CONCLUDED", "INCONCLUSIVE", "FAILED"}
Status   == {"OPEN", "INVESTIGATING"} \union Terminal

Newest == Len(rounds)

TypeOK ==
  /\ rounds \in Seq(Status)
  /\ rounds # << >>
  /\ reports \in SUBSET [round : Nat, final : Terminal]

Init ==
  /\ rounds = <<"OPEN">>
  /\ reports = {}

(* The newest round is accepted for execution, or handed back unstarted.   *)
Move ==
  /\ rounds[Newest] \notin Terminal
  /\ \E s \in Status : rounds' = [rounds EXCEPT ![Newest] = s]
  /\ UNCHANGED reports

(* A supplemental observation opens the next round.                        *)
Open ==
  /\ rounds[Newest] \in Terminal
  /\ rounds' = Append(rounds, "OPEN")
  /\ UNCHANGED reports

(* The one report of a sealed round.                                       *)
Publish(n) ==
  /\ rounds[n] \in Terminal
  /\ \A p \in reports : p.round # n
  /\ reports' = reports \union {[round |-> n, final |-> rounds[n]]}
  /\ UNCHANGED rounds

Next ==
  \/ Move
  \/ Open
  \/ \E n \in DOMAIN rounds : Publish(n)

Spec == Init /\ [][Next]_histVars
=============================================================================
