-------------------------- MODULE MCMemoryConsent --------------------------
(***************************************************************************)
(* TLC instance of MemoryConsent.  The proposal i1 and the stored text s1  *)
(* have the same id d1; the proposal i2 and the import m1 have the id d2.  *)
(***************************************************************************)
EXTENDS MemoryConsent, TLC
CONSTANTS i1, i2, d1, d2

IdOfText == [x \in Texts |-> IF x \in {i2} \cup Imports THEN d2 ELSE d1]
=============================================================================
