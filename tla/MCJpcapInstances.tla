-------------------------- MODULE MCJpcapInstances --------------------------
(* JpcapInstances with the constants that its TLC runs use. *)
EXTENDS JpcapInstances, TLC

Symmetry == Permutations(Object)
=============================================================================
