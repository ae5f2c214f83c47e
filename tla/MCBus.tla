------------------------------- MODULE MCBus -------------------------------
(* Small instances of Bus for TLC.                                         *)
EXTENDS Bus, TLC

CONSTANTS x, y, all, one

\* A reader of everything with room for one item, so that markers and events
\* compete for it; one that filters, with room for two.
MCWants == all :> {x, y} @@ one :> {x}
MCSize  == all :> 1 @@ one :> 2
=============================================================================
