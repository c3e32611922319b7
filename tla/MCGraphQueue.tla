---------------------------- MODULE MCGraphQueue ----------------------------
(* GraphQueue with the symmetry its safety runs may use.                   *)
EXTENDS GraphQueue, TLC

Symmetry == Permutations(Workers) \union Permutations(Producers)
=============================================================================
