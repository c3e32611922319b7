----------------------------- MODULE MCEvalCache -----------------------------
(* EvalCache with interchangeable workers and leaf keys.                   *)
EXTENDS EvalCache, TLC

Symmetry == Permutations(Workers) \union Permutations(Keys)
=============================================================================
