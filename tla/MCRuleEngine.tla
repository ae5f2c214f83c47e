---------------------------- MODULE MCRuleEngine ----------------------------
(* Small instances of RuleEngine for TLC.                                  *)
EXTENDS RuleEngine, TLC

CONSTANTS a, x, y

\* Exchanges are interchangeable.
MCSymmetry == Permutations({x, y})
=============================================================================
