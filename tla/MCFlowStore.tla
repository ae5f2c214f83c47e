----------------------------- MODULE MCFlowStore -----------------------------
(***************************************************************************)
(* Small instances of FlowStore for TLC.  A client that polls multiplies   *)
(* what sessions and messages can do, and changes nothing of them: a       *)
(* behaviour has either, and which is chosen at its start.                 *)
(***************************************************************************)
EXTENDS FlowStore, TLC

CONSTANTS s1, s2, h1, p1

VARIABLE polled    \* whether clients poll

MCInit == Init /\ polled \in BOOLEAN

MCNext ==
  /\ Next
  /\ IF polled THEN UNCHANGED <<log, begun>> ELSE UNCHANGED polls
  /\ UNCHANGED polled

MCSpec == MCInit /\ [][MCNext]_<<vars, polled>>

\* Sessions are interchangeable.
MCSymmetry == Permutations({s1, s2})
=============================================================================
