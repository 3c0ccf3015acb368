---------------------------- MODULE MCOnboarding ----------------------------
(* Two requests at a time and two quotes: a claim overlaps any other request *)
(* and a second quote replaces the first.                                   *)
EXTENDS Onboarding
=============================================================================
