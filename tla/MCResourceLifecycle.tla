------------------------- MODULE MCResourceLifecycle -------------------------
(***************************************************************************)
(* Instances of ResourceLifecycle for TLC, over every handler of the       *)
(* provider or over those of one resource.                                 *)
(***************************************************************************)
EXTENDS ResourceLifecycle, ResourcePrograms

OnlyPublicApplication == {PublicApplication}
OnlyPostgresql == {Postgresql}
=============================================================================
