---------------------------- MODULE MCReferences ----------------------------
(* Symmetry of the runs of References.                                      *)
EXTENDS References, TLC

Symmetry == Permutations(Sessions)
=============================================================================
