--------------------------- MODULE AtomicDelivery ---------------------------
(***************************************************************************)
(* Dispatch and delivery as the documentation promises them                *)
(* (delivery/service.py:3-8, docs/BUSINESS-FLOW.md): each request takes    *)
(* effect at one instant.  Rice leaves stock once per dispatch, whole, when *)
(* the dispatch is confirmed; then one receipt closes it.                  *)
(***************************************************************************)
EXTENDS Integers

CONSTANTS Lots, Documents, Others, MaxKg, NoReceipt, Receipts(_)

VARIABLES lotQty, stock, status, items, issued, receipt

vars == <<lotQty, stock, status, items, issued, receipt>>

None == [l \in Lots |-> 0]

Init == /\ lotQty  = None
        /\ stock   = None
        /\ status  = [d \in Documents |-> "ABSENT"]
        /\ items   = [d \in Documents |-> None]
        /\ issued  = [d \in Documents \cup Others |-> None]
        /\ receipt = [d \in Documents |-> NoReceipt]

Receive(l, q) == /\ lotQty[l] = 0
                 /\ lotQty' = [lotQty EXCEPT ![l] = q]
                 /\ stock'  = [stock EXCEPT ![l] = q]
                 /\ UNCHANGED <<status, items, issued, receipt>>

Create(d, p) == /\ status[d] = "ABSENT"
                /\ \E l \in Lots : p[l] > 0
                /\ \A l \in Lots : p[l] <= lotQty[l]
                /\ status' = [status EXCEPT ![d] = "DRAFT"]
                /\ items'  = [items EXCEPT ![d] = p]
                /\ UNCHANGED <<lotQty, stock, issued, receipt>>

Prepare(d) == /\ status[d] = "DRAFT"
              /\ status' = [status EXCEPT ![d] = "PREPARED"]
              /\ UNCHANGED <<lotQty, stock, items, issued, receipt>>

Confirm(d) == /\ status[d] = "PREPARED"
              /\ \A l \in Lots : items[d][l] <= stock[l]
              /\ status' = [status EXCEPT ![d] = "DISPATCHED"]
              /\ stock'  = [l \in Lots |-> stock[l] - items[d][l]]
              /\ issued' = [issued EXCEPT ![d] = items[d]]
              /\ UNCHANGED <<lotQty, items, receipt>>

Deliver(d) == /\ status[d] = "DISPATCHED"
              /\ status'  = [status EXCEPT ![d] = "DELIVERED"]
              /\ \E r \in Receipts(items[d]) : receipt' = [receipt EXCEPT ![d] = r]
              /\ UNCHANGED <<lotQty, stock, items, issued>>

\* Another document o draws on the lots: stock falls, not below zero, by what o takes.
Withdraw(o) == /\ stock' = [l \in Lots |-> stock'[l]]
               /\ \A l \in Lots : stock'[l] \in 0 .. stock[l]
               /\ issued' = [issued EXCEPT ![o] =
                              [l \in Lots |-> @[l] + (stock[l] - stock'[l])]]
               /\ UNCHANGED <<lotQty, status, items, receipt>>

Next == \/ \E l \in Lots, q \in 1 .. MaxKg : Receive(l, q)
        \/ \E d \in Documents : \/ \E p \in [Lots -> 0 .. MaxKg] : Create(d, p)
                                \/ Prepare(d)
                                \/ Confirm(d)
                                \/ Deliver(d)
        \/ \E o \in Others : Withdraw(o)

Spec == Init /\ [][Next]_vars
=============================================================================
