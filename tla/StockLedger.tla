----------------------------- MODULE StockLedger ----------------------------
(***************************************************************************)
(* What the append-only ledger promises its users (docs/DECISIONS.md,      *)
(* ADR-0004): stock comes in by receipts and goes out by issues of whole   *)
(* documents, and no issue takes more of a lot than the lot has.           *)
(***************************************************************************)
EXTENDS Integers

CONSTANT Lots

VARIABLE onHand

Init == onHand = [l \in Lots |-> 0]

Receive(l, q) == /\ q > 0
                 /\ onHand' = [onHand EXCEPT ![l] = @ + q]

Issue(d) == /\ \A l \in Lots : d[l] <= onHand[l]
            /\ onHand' = [l \in Lots |-> onHand[l] - d[l]]

\* The document a step issues is what the step takes from each lot.
Issued == [l \in Lots |-> onHand[l] - onHand'[l]]

Next == \/ \E l \in Lots : Receive(l, onHand'[l] - onHand[l])
        \/ (\A l \in Lots : Issued[l] >= 0) /\ Issue(Issued)

Spec == Init /\ [][Next]_onHand
=============================================================================
