----------------------------- MODULE MCPrinting -----------------------------
(* Printing and Amounts on small instances.                                 *)
EXTENDS Printing, TLC

\* Odd paisa in one and in several rows, two HSN codes, two rates, amounts that round.
LineInputs == [hsn : {"paddy", "rice"}, quantity : {1000}, price : {10300, 3333},
               rate : {500, 1800}]

\* Amounts in paisa, to two crore rupees: every group of digits empty, small and large.
SpokenAmounts ==
  {c * 1000000000 + l * 10000000 + r * 100 + p :
     c \in {0, 1}, l \in {0, 1, 57, 99}, r \in {0, 1, 19, 20, 99, 101, 339, 40000, 99999},
     p \in {0, 50}} 

Symmetry == Permutations(Sessions) \cup Permutations(Docs)
=============================================================================
