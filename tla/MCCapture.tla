----------------------------- MODULE MCCapture -----------------------------
(* A small instance of Capture for TLC.                                    *)
EXTENDS Capture, TLC
\* Nothing tells one exchange from another.
Symmetry == Permutations(Exchange)
=============================================================================
