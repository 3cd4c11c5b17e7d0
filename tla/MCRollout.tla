------------------------------ MODULE MCRollout ------------------------------
(* Rollout for TLC: devices are alike, and so are requests. *)
EXTENDS Rollout, TLC

Symmetry == Permutations(Devices) \cup Permutations(Requests)
=============================================================================
