--------------------------- MODULE MCRemediation ---------------------------
(* One incident, and a few approval requests, whatever they decide.        *)
EXTENDS Remediation, TLC

Symmetry == Permutations(Requests)
=============================================================================
