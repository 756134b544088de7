----------------------------- MODULE MCHttpCall -----------------------------
(***************************************************************************)
(* Instances of HttpCall for TLC: two calls one after the other, so that   *)
(* what is left of the first can reach the server during the second.       *)
(***************************************************************************)
EXTENDS HttpCall

AllMethods == {"GET", "PATCH", "POST", "PUT", "DELETE"}
=============================================================================
