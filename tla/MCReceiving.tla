---------------------------- MODULE MCReceiving -----------------------------
(* Symmetry of the runs of Receiving.                                       *)
EXTENDS Receiving, TLC

Symmetry == Permutations(Sessions)
=============================================================================
