------------------------------ MODULE MCDeploy ------------------------------
(***************************************************************************)
(* TLC instance of Deploy.                                                 *)
(***************************************************************************)
EXTENDS Deploy
=============================================================================
