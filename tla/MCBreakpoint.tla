---------------------------- MODULE MCBreakpoint ----------------------------
(* Small instances of Breakpoint for TLC.                                  *)
EXTENDS Breakpoint, TLC

CONSTANTS x, y

\* x is held in its request and its response, y once.
MCHits == x :> 2 @@ y :> 1
=============================================================================
