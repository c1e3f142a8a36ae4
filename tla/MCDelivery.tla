----------------------------- MODULE MCDelivery -----------------------------
(* Delivery on small instances: the sets of the .cfg files are model values. *)
EXTENDS Delivery, TLC

Symmetry == Permutations(Sessions) \cup Permutations(Lots)
=============================================================================
