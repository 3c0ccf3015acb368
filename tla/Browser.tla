------------------------------- MODULE Browser -------------------------------
(***************************************************************************)
(* What the modules of the owner's browser share: its tabs, each with the  *)
(* script of src/src/main.js in memory of its own.  BrowserSession is the  *)
(* session they keep, Conversations the sealed conversations they show.    *)
(***************************************************************************)
CONSTANT Tabs
=============================================================================
