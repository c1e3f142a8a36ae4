-------------------------- MODULE AtomicInvoicing ---------------------------
(***************************************************************************)
(* Tax invoices as invoicing/service.py:3-8 promises them: totals always   *)
(* those of the lines, a DRAFT may be edited, ISSUED is locked and has a   *)
(* PDF of what was issued.  Each request takes effect at one instant.      *)
(***************************************************************************)
CONSTANTS Invoices, Rows, NoPdf

VARIABLES status, lines, totals, pdf

vars == <<status, lines, totals, pdf>>

Init == /\ status = [i \in Invoices |-> "ABSENT"]
        /\ lines  = [i \in Invoices |-> {}]
        /\ totals = [i \in Invoices |-> {}]
        /\ pdf    = [i \in Invoices |-> NoPdf]

\* The lines of i become the one new row r; no invoice has that row yet.
SetLines(i, r) == /\ \A j \in Invoices : r \notin lines[j]
                  /\ lines'  = [lines EXCEPT ![i] = {r}]
                  /\ totals' = [totals EXCEPT ![i] = {r}]
                  /\ UNCHANGED pdf

PrintPdf(i) == /\ pdf' = [pdf EXCEPT ![i] = [lines |-> lines[i], totals |-> totals[i]]]
               /\ UNCHANGED <<lines, totals>>

Create(i, r) == /\ status[i] = "ABSENT"
                /\ status' = [status EXCEPT ![i] = "DRAFT"]
                /\ SetLines(i, r)

Edit(i, r) == status[i] = "DRAFT" /\ SetLines(i, r) /\ UNCHANGED status

Issue(i) == /\ status[i] = "DRAFT"
            /\ status' = [status EXCEPT ![i] = "ISSUED"]
            /\ PrintPdf(i)

GeneratePdf(i) == status[i] # "ABSENT" /\ PrintPdf(i) /\ UNCHANGED status

Next == \E i \in Invoices : \/ \E r \in Rows : Create(i, r) \/ Edit(i, r)
                            \/ Issue(i)
                            \/ GeneratePdf(i)

Spec == Init /\ [][Next]_vars
=============================================================================
