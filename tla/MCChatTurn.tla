----------------------------- MODULE MCChatTurn -----------------------------
(* A unit is ten seconds: a turn has 100, a paid request 45 rounded up, the *)
(* local model 60, and a wallet, a settlement or a discovery takes up to    *)
(* ten.                                                                     *)
EXTENDS ChatTurn
=============================================================================
