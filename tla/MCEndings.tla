----------------------------- MODULE MCEndings -----------------------------
(* A small instance of Endings for TLC: two windows on a daemon.           *)
EXTENDS MCSysProxy, Endings

CONSTANTS w1, w2

\* The windows are alike: of two of which one owns the daemon, it is w1.
OwnerFirst == own'[w2] /\ ui'[w1] # "closed" => own'[w1]

MCEndingsSpec ==
  /\ EndingsInit /\ [][EndingsNext /\ OwnerFirst]_<<part, vars, attach>>
  /\ Fairness /\ A!Fairness
=============================================================================
