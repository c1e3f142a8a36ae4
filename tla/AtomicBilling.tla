--------------------------- MODULE AtomicBilling ----------------------------
(***************************************************************************)
(* Claims as billing/service.py:3-8 and docs/BUSINESS-FLOW.md promise      *)
(* them: DRAFT may be edited, a claim is submitted with lines, approved,   *)
(* and paid within its net amount; each request takes effect at once.      *)
(***************************************************************************)
EXTENDS Integers, FiniteSets, FiniteSetsExt

CONSTANTS Claims, Receipts, Rows, Amount, References, MaxAmount

VARIABLES status, lines, net, links, paid, used

vars == <<status, lines, net, links, paid, used>>

Init == /\ status = [c \in Claims |-> "ABSENT"]
        /\ lines  = [c \in Claims |-> {}]
        /\ net    = [c \in Claims |-> 0]
        /\ links  = [c \in Claims |-> {}]
        /\ paid   = [c \in Claims |-> 0]
        /\ used   = [c \in Claims |-> [r \in References |-> 0]]

Move(c, from, to) == status[c] = from /\ status' = [status EXCEPT ![c] = to]

\* The lines of c are replaced by rows that no claim has; the net follows them.
SetLines(c, L) ==
  /\ \A d \in Claims : L \cap lines[d] = {}
  /\ lines' = [lines EXCEPT ![c] = L]
  /\ net'   = [net EXCEPT ![c] = Max({0, MapThenSumSet(LAMBDA r : Amount[r], L)})]
  /\ UNCHANGED <<paid, used>>

Create(c, R, L) == /\ Move(c, "ABSENT", "DRAFT")
                   /\ \A d \in Claims : R \cap links[d] = {}
                   /\ links' = [links EXCEPT ![c] = R]
                   /\ SetLines(c, L)

Edit(c, L) == status[c] = "DRAFT" /\ SetLines(c, L) /\ UNCHANGED <<status, links>>

Submit(c) == /\ lines[c] # {}
             /\ Move(c, "DRAFT", "SUBMITTED")
             /\ UNCHANGED <<lines, net, links, paid, used>>

Approve(c) == Move(c, "SUBMITTED", "APPROVED") /\ UNCHANGED <<lines, net, links, paid, used>>

\* A payment within the outstanding balance; the one that settles it makes c PAID.
Pay(c, amount, R) ==
  /\ status[c] \in {"APPROVED", "PARTIALLY_PAID"}
  /\ paid[c] + amount <= net[c]
  /\ \A r \in R : used[c][r] = 0
  /\ paid'   = [paid EXCEPT ![c] = @ + amount]
  /\ used'   = [used EXCEPT ![c] = [r \in References |-> IF r \in R THEN 1 ELSE @[r]]]
  /\ status' = [status EXCEPT ![c] = IF paid'[c] = net[c] THEN "PAID" ELSE "PARTIALLY_PAID"]
  /\ UNCHANGED <<lines, net, links>>

Next == \E c \in Claims :
          \/ \E L \in SUBSET Rows : \/ \E R \in SUBSET Receipts : Create(c, R, L)
                                    \/ Edit(c, L)
          \/ Submit(c)
          \/ Approve(c)
          \/ \E amount \in 1 .. MaxAmount, R \in SUBSET References :
               Cardinality(R) <= 1 /\ Pay(c, amount, R)

Spec == Init /\ [][Next]_vars
=============================================================================
