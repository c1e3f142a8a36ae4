--------------------------- MODULE AtomicReceiving --------------------------
(***************************************************************************)
(* The load states as documented (docs/BUSINESS-FLOW.md:52-64): each       *)
(* request takes effect at one instant; the last weighment before grading  *)
(* counts, and an accepted load becomes one paddy lot of that weight.      *)
(***************************************************************************)
EXTENDS Integers, Sequences

CONSTANTS Loads, MaxKg

VARIABLES status, nets, graded, lotQty, received

vars == <<status, nets, graded, lotQty, received>>

Init == /\ status   = [l \in Loads |-> "ABSENT"]
        /\ nets     = [l \in Loads |-> <<>>]
        /\ graded   = [l \in Loads |-> FALSE]
        /\ lotQty   = [l \in Loads |-> 0]
        /\ received = [l \in Loads |-> 0]

Move(l, from, to) == status[l] \in from /\ status' = [status EXCEPT ![l] = to]

Create(l) == Move(l, {"ABSENT"}, "DRAFT") /\ UNCHANGED <<nets, graded, lotQty, received>>

Arrive(l) == Move(l, {"DRAFT"}, "ARRIVED") /\ UNCHANGED <<nets, graded, lotQty, received>>

Weigh(l, kg) == /\ Move(l, {"ARRIVED", "WEIGHED"}, "WEIGHED")
                /\ nets' = [nets EXCEPT ![l] = Append(@, kg)]
                /\ UNCHANGED <<graded, lotQty, received>>

Grade(l) == /\ Move(l, {"WEIGHED", "QC_PENDING"}, "QC_PENDING")
            /\ graded' = [graded EXCEPT ![l] = TRUE]
            /\ UNCHANGED <<nets, lotQty, received>>

Accept(l) == LET kg == nets[l][Len(nets[l])] IN
             /\ Move(l, {"QC_PENDING"}, "ACCEPTED")
             /\ lotQty'   = [lotQty EXCEPT ![l] = kg]
             /\ received' = [received EXCEPT ![l] = kg]
             /\ UNCHANGED <<nets, graded>>

Reject(l) == /\ Move(l, {"QC_PENDING"}, "REJECTED")
             /\ UNCHANGED <<nets, graded, lotQty, received>>

Next == \E l \in Loads : \/ Create(l)
                         \/ Arrive(l)
                         \/ \E kg \in 1 .. MaxKg : Weigh(l, kg)
                         \/ Grade(l)
                         \/ Accept(l)
                         \/ Reject(l)

Spec == Init /\ [][Next]_vars
=============================================================================
