----------------------------- MODULE Numbering ------------------------------
(***************************************************************************)
(* What reference.py:3-8 promises: the records of a prefix are numbered    *)
(* consecutively in the order they appear.  An invoice also has a number   *)
(* of its own, which no other invoice has.                                 *)
(***************************************************************************)
EXTENDS Naturals, FiniteSets

CONSTANT Prefixes

VARIABLES issued, numbers

vars == <<issued, numbers>>

Init == issued = [p \in Prefixes |-> {}] /\ numbers = {}

Following(p) == Cardinality(issued[p]) + 1

Record(p) == issued' = [issued EXCEPT ![p] = @ \cup {Following(p)}]

Invoice == /\ Record("INV")
           /\ \E n \in numbers' : n \notin numbers /\ numbers' = numbers \cup {n}

Next == \/ \E p \in Prefixes \ {"INV"} : Record(p) /\ UNCHANGED numbers
        \/ Invoice

Spec == Init /\ [][Next]_vars
=============================================================================
