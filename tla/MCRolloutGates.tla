--------------------------- MODULE MCRolloutGates ---------------------------
(***************************************************************************)
(* Model checking of RolloutGates.  Jobs are interchangeable.  The states  *)
(* that differ only in the histories no checked property mentions are one. *)
(***************************************************************************)
EXTENDS RolloutGates, TLC

Symmetry == Permutations(Jobs)

WithoutHistory == <<rollout, status, row, job, req, call, crashes, voided>>
=============================================================================
