---------------------------- MODULE MCTeamAccess ----------------------------
(***************************************************************************)
(* TLC instance of TeamAccess: people are interchangeable, and requests.   *)
(***************************************************************************)
EXTENDS TeamAccess, TLC

Sym == Permutations(People) \cup Permutations(Callers)
=============================================================================
