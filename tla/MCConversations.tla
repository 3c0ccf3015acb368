--------------------------- MODULE MCConversations ---------------------------
(* Two tabs that are alike, of one write at a time.                         *)
EXTENDS Conversations, TLC
Alike == Permutations(Tabs)
One == [t \in Tabs |-> 1]
=============================================================================
