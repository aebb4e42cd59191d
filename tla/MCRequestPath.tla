---------------------------- MODULE MCRequestPath ----------------------------
(***************************************************************************)
(* A small instance of RequestPath with its fairness.                      *)
(***************************************************************************)
EXTENDS RequestPath
=============================================================================
