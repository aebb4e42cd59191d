----------------------------- MODULE MCApiClient -----------------------------
(***************************************************************************)
(* A small instance of ApiClient: one call of one tab.                     *)
(***************************************************************************)
EXTENDS ApiClient, TLC

CONSTANTS b1, f1    \* a tab of the browser and its call

OneTab == f1 :> b1
=============================================================================
