----------------------------- MODULE MCMilling ------------------------------
(* Milling on small instances: the sets of the .cfg files are model values. *)
EXTENDS Milling, TLC

Symmetry == Permutations(Sessions) \cup Permutations(Lots)
=============================================================================
