---------------------------- MODULE MCDeployments ----------------------------
(***************************************************************************)
(* An instance of Deployments for TLC.                                     *)
(***************************************************************************)
EXTENDS Deployments
=============================================================================
