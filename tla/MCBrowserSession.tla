--------------------------- MODULE MCBrowserSession ---------------------------
(***************************************************************************)
(* TLC instance of BrowserSession: only the first tab is navigated while a *)
(* renewal is in flight.                                                   *)
(***************************************************************************)
EXTENDS BrowserSession

CONSTANTS a, b

TwoLoops == [t \in Tabs |-> IF t = a THEN 2 ELSE 1]
=============================================================================
