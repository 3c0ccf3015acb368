---------------------------- MODULE MCMintQuotes ----------------------------
(***************************************************************************)
(* TLC instance of MintQuotes: quote q1 mints proof p1, quote q2 proof p2. *)
(* The pollers are interchangeable, and so are the proofs of swaps.        *)
(***************************************************************************)
EXTENDS MintQuotes, TLC
CONSTANTS q1, q2, p1, p2

QuoteProofOf == [q \in Quotes |-> IF q = q1 THEN p1 ELSE p2]
Sym == Permutations(Pollers) \cup Permutations(Proofs \ Reserved)
=============================================================================
