----------------------------- MODULE MCSessions -----------------------------
(***************************************************************************)
(* TLC instance of Sessions.  People, challenges and requests would be     *)
(* interchangeable, but a liveness property is checked: no symmetry.       *)
(***************************************************************************)
EXTENDS Sessions
=============================================================================
