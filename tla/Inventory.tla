----------------------------- MODULE Inventory ------------------------------
(***************************************************************************)
(* The append-only stock ledger (modules/inventory).  stock[l] is the sum  *)
(* of the committed movements of lot l, which is what available_quantity   *)
(* selects; posted[s][l] is what the open transaction of session s has     *)
(* appended as negative movements and not yet committed.  A lot row and    *)
(* the movement that receives it are committed together.                   *)
(***************************************************************************)
EXTENDS LotLocks

CONSTANT MaxKg  \* the largest lot, and the largest quantity of one item

ASSUME MaxKgAssumption == MaxKg \in Nat \ {0}

VARIABLES lotQty,  \* quantity_kg of the PaddyLot or RiceLot row; 0: no such lot yet
          stock,
          posted

inventoryVars == <<lotQty, stock, posted>>

Kg            == 0 .. MaxKg
NothingPosted == [l \in Lots |-> 0]

InventoryTypeOK == /\ lotQty \in [Lots -> Kg]
                   /\ stock  \in [Lots -> Int]
                   /\ posted \in [Sessions -> [Lots -> Nat]]

InventoryInit == /\ lotQty = [l \in Lots |-> 0]
                 /\ stock  = NothingPosted
                 /\ posted = [s \in Sessions |-> NothingPosted]

\* SUM(quantity_kg) as session s sees it: READ COMMITTED shows it every committed
\* movement and its own.
Available(s, l) == stock[l] - posted[s][l]

\* The balance covers a movement of q kilograms out of l.
Covers(s, l, q) == q <= Available(s, l)

\* Mutant of PostIssue: it refuses only when there is no stock left at all.
PostIfAnyStock(s, l, q) == /\ q > 0
                           /\ Available(s, l) > 0
                           /\ posted' = [posted EXCEPT ![s][l] = @ + q]

\* post_transaction with a negative quantity: the movement is appended only if the
\* balance covers it, and an empty movement is refused.
PostIssue(s, l, q) == /\ q > 0
                      /\ Covers(s, l, q)
                      /\ posted' = [posted EXCEPT ![s][l] = @ + q]

\* Mutant of ReceiveLot: the same load, or output, is received again.
ReceiveAgain(l, q) == /\ q > 0
                      /\ lotQty' = [lotQty EXCEPT ![l] = @ + q]
                      /\ stock'  = [stock EXCEPT ![l] = @ + q]
                      /\ UNCHANGED posted

\* A new lot: its row and post_transaction with its whole quantity, one commit.
ReceiveLot(l, q) == /\ q > 0
                    /\ lotQty[l] = 0
                    /\ lotQty' = [lotQty EXCEPT ![l] = q]
                    /\ stock'  = [stock EXCEPT ![l] = @ + q]
                    /\ UNCHANGED posted

\* COMMIT publishes the movements of the session, ROLLBACK drops them.
CommitPosted(s) ==
  /\ stock'  = [l \in Lots |-> stock[l] - posted[s][l]]
  /\ posted' = [posted EXCEPT ![s] = NothingPosted]
  /\ UNCHANGED lotQty

DiscardPosted(s) == /\ posted' = [posted EXCEPT ![s] = NothingPosted]
                    /\ UNCHANGED <<lotQty, stock>>
=============================================================================
