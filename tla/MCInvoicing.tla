---------------------------- MODULE MCInvoicing -----------------------------
(* Symmetry of the runs of Invoicing.                                       *)
EXTENDS Invoicing, TLC

Symmetry == Permutations(Sessions) \cup Permutations(Rows)
=============================================================================
