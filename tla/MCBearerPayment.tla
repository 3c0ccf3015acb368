-------------------------- MODULE MCBearerPayment --------------------------
(***************************************************************************)
(* TLC instance of BearerPayment: turn h1 asks provider b1, the others b2, *)
(* which makes the others interchangeable.                                 *)
(***************************************************************************)
EXTENDS BearerPayment, TLC
CONSTANTS h1, b1, b2

BaseOf == [h \in Handles |-> IF h = h1 THEN b1 ELSE b2]
Sym == Permutations(Handles \ {h1})
=============================================================================
