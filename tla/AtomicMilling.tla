---------------------------- MODULE AtomicMilling ---------------------------
(***************************************************************************)
(* Milling as its users are told it works (docs/BUSINESS-FLOW.md,          *)
(* milling/models.py:7-10): each request takes effect at one instant, on   *)
(* the state of that instant.  A batch consumes its inputs, all of them    *)
(* and once, when it starts; rice is recorded only while it runs; it       *)
(* completes once it has produced.                                         *)
(***************************************************************************)
EXTENDS Integers

CONSTANTS Lots, Documents, Others, MaxKg, MaxOutputs

VARIABLES lotQty, stock, status, inputs, consumed, outputs

vars == <<lotQty, stock, status, inputs, consumed, outputs>>

None == [l \in Lots |-> 0]

Init == /\ lotQty   = None
        /\ stock    = None
        /\ status   = [b \in Documents |-> "ABSENT"]
        /\ inputs   = [b \in Documents |-> None]
        /\ consumed = [b \in Documents \cup Others |-> None]
        /\ outputs  = [b \in Documents |-> 0]

Receive(l, q) == /\ lotQty[l] = 0
                 /\ lotQty' = [lotQty EXCEPT ![l] = q]
                 /\ stock'  = [stock EXCEPT ![l] = q]
                 /\ UNCHANGED <<status, inputs, consumed, outputs>>

Create(b, p) == /\ status[b] = "ABSENT"
                /\ \E l \in Lots : p[l] > 0
                /\ \A l \in Lots : p[l] > 0 => lotQty[l] > 0
                /\ status' = [status EXCEPT ![b] = "DRAFT"]
                /\ inputs' = [inputs EXCEPT ![b] = p]
                /\ UNCHANGED <<lotQty, stock, consumed, outputs>>

Start(b) == /\ status[b] = "DRAFT"
            /\ \A l \in Lots : inputs[b][l] <= stock[l]
            /\ status'   = [status EXCEPT ![b] = "IN_PROGRESS"]
            /\ stock'    = [l \in Lots |-> stock[l] - inputs[b][l]]
            /\ consumed' = [consumed EXCEPT ![b] = inputs[b]]
            /\ UNCHANGED <<lotQty, inputs, outputs>>

Produce(b) == /\ status[b] = "IN_PROGRESS"
              /\ outputs' = [outputs EXCEPT ![b] = IF @ < MaxOutputs THEN @ + 1 ELSE @]
              /\ UNCHANGED <<lotQty, stock, status, inputs, consumed>>

Complete(b) == /\ status[b] = "IN_PROGRESS"
               /\ outputs[b] > 0
               /\ status' = [status EXCEPT ![b] = "COMPLETED"]
               /\ UNCHANGED <<lotQty, stock, inputs, consumed, outputs>>

\* Another document o draws on the lots: stock falls, not below zero, by what o takes.
Withdraw(o) == /\ stock' = [l \in Lots |-> stock'[l]]
               /\ \A l \in Lots : stock'[l] \in 0 .. stock[l]
               /\ consumed' = [consumed EXCEPT ![o] =
                              [l \in Lots |-> @[l] + (stock[l] - stock'[l])]]
               /\ UNCHANGED <<lotQty, status, inputs, outputs>>

Next == \/ \E l \in Lots, q \in 1 .. MaxKg : Receive(l, q)
        \/ \E b \in Documents : \/ \E p \in [Lots -> 0 .. MaxKg] : Create(b, p)
                              \/ Start(b)
                              \/ Produce(b)
                              \/ Complete(b)
        \/ \E o \in Others : Withdraw(o)

Spec == Init /\ [][Next]_vars
=============================================================================
