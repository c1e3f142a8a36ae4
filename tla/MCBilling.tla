----------------------------- MODULE MCBilling ------------------------------
(* Amounts of the line rows and symmetry for the runs of Billing.           *)
EXTENDS Billing, TLC

CONSTANTS r1, r2, r3

\* One row is a deduction.
RowAmounts == r1 :> 1 @@ r2 :> 2 @@ r3 :> -1

Symmetry == Permutations(Sessions)
=============================================================================
