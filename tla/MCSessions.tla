----------------------------- MODULE MCSessions -----------------------------
(* Sessions on small instances: the sets of the .cfg file are model values. *)
EXTENDS Sessions, TLC

CONSTANT STAFF

Symmetry == Permutations(Requests) \cup Permutations(Users) \cup Permutations(Tokens)
=============================================================================
