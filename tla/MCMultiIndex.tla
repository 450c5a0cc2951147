---------------------------- MODULE MCMultiIndex ----------------------------
(* Model checking of MultiIndex.                                           *)
EXTENDS MultiIndex, TLC

CONSTANTS a, b

\* The two objects of a run are interchangeable.
Sym == Permutations({a, b})
=============================================================================
