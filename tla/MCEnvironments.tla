----------------------------- MODULE MCEnvironments -----------------------------
(***************************************************************************)
(* The instance of Environments for TLC: two resources, and a free name    *)
(* more than they need at a time.                                          *)
(***************************************************************************)
EXTENDS Environments, TLC

Symmetry == Permutations(Resources) \cup Permutations(Ids)
=============================================================================
