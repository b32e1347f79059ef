-------------------------- MODULE MCRoundLifecycle --------------------------
(***************************************************************************)
(* Model values and symmetry for the runs of RoundLifecycle.  Requests are *)
(* interchangeable within their kind, so permuting them is sound for the   *)
(* safety runs; the runs that check liveness do not use it.                *)
(***************************************************************************)
EXTENDS RoundLifecycle, TLC

CONSTANTS s1, s2, s3, c1, c2

RequestSymmetry == Permutations(StartRequests) \union Permutations(ContinueRequests)
=============================================================================
