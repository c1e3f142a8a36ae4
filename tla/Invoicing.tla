----------------------------- MODULE Invoicing ------------------------------
(***************************************************************************)
(* modules/invoicing/service.py, the tax invoices: created as DRAFT, edited *)
(* by replacing the lines and recomputing the totals, issued with a PDF.   *)
(*                                                                         *)
(* A handler loads the invoice row and then its lines, two statements, and *)
(* no row is locked FOR UPDATE.  An UPDATE or DELETE locks the rows it     *)
(* changes to the end of its transaction; a row another session has        *)
(* changed is waited for, and then changed all the same.                   *)
(*                                                                         *)
(* Amounts are abstracted to the line rows they sum, header fields and     *)
(* buyer snapshot to whether an edit changes any, the stored PDF to the    *)
(* lines and the totals printed on it.                                     *)
(***************************************************************************)
EXTENDS DatabaseSessions, TaxInvoices, FiniteSets

CONSTANTS NoSession,
          Rows,                \* identities of line rows
          NoPdf,
          SerialInvoices       \* invoices on which no two requests overlap

ASSUME NullAssumption    == NoSession \notin Sessions
ASSUME SerialAssumption  == SerialInvoices \subseteq Invoices

VARIABLES status,   \* TaxInvoice.status; ABSENT: no such invoice yet
          lines,    \* lines[i]: the committed TaxInvoiceLine rows of i
          totals,   \* totals[i]: the rows that the amounts on row i add up
          pdf,      \* the document of pdf_document_id: the lines and totals it prints
          rowLock,  \* rowLock[i]: the session with an uncommitted UPDATE of row i
          pc, target,
          read,     \* read[s]: the totals and the lines the handler has loaded
          dels,     \* dels[s]: rows that s has deleted and not committed
          adds      \* adds[s]: the new line rows the request of s carries

invoiceVars == <<status, lines, totals, pdf>>
sessionVars == <<rowLock, pc, target, read, dels, adds>>
vars        == <<invoiceVars, sessionVars>>

Statuses == {"ABSENT", "DRAFT", "ISSUED"}
Steps    == {"idle", "editLines", "header", "delete", "refresh", "sum", "saveTotals",
             "issueLines", "issue", "pdfLines", "savePdf"}
Printout == [lines : SUBSET Rows, totals : SUBSET Rows]
Nothing  == [lines |-> {}, totals |-> {}]

TypeOK == /\ status  \in [Invoices -> Statuses]
          /\ lines   \in [Invoices -> SUBSET Rows]
          /\ totals  \in [Invoices -> SUBSET Rows]
          /\ pdf     \in [Invoices -> Printout \cup {NoPdf}]
          /\ rowLock \in [Invoices -> Sessions \cup {NoSession}]
          /\ pc      \in [Sessions -> Steps]
          /\ target  \in [Sessions -> Invoices \cup {NoInvoice}]
          /\ read    \in [Sessions -> Printout]
          /\ dels    \in [Sessions -> SUBSET Rows]
          /\ adds    \in [Sessions -> SUBSET Rows]
          /\ \A s \in Sessions : pc[s] = "idle" =>   \* an idle session holds nothing
               /\ target[s] = NoInvoice /\ dels[s] = {} /\ adds[s] = {}
               /\ \A i \in Invoices : rowLock[i] # s

Init == /\ status  = [i \in Invoices |-> "ABSENT"]
        /\ lines   = [i \in Invoices |-> {}]
        /\ totals  = [i \in Invoices |-> {}]
        /\ pdf     = [i \in Invoices |-> NoPdf]
        /\ rowLock = [i \in Invoices |-> NoSession]
        /\ pc      = [s \in Sessions |-> "idle"]
        /\ target  = [s \in Sessions |-> NoInvoice]
        /\ read    = [s \in Sessions |-> Nothing]
        /\ dels    = [s \in Sessions |-> {}]
        /\ adds    = [s \in Sessions |-> {}]

-----------------------------------------------------------------------------
\* Row r is a fresh uuid: no table, document or handler knows it.
Fresh(r) == /\ \A i \in Invoices : /\ r \notin lines[i] \cup totals[i]
                                   /\ pdf[i] # NoPdf =>
                                        r \notin pdf[i].lines \cup pdf[i].totals
            /\ \A s \in Sessions :
                 r \notin read[s].lines \cup read[s].totals \cup dels[s] \cup adds[s]

\* _load_invoice: the row; its lines are the next statement.
Begin(s, i, step, new) ==
  /\ pc[s] = "idle"
  /\ i \in SerialInvoices => \A t \in Sessions : target[t] # i
  /\ pc'     = [pc EXCEPT ![s] = step]
  /\ target' = [target EXCEPT ![s] = i]
  /\ read'   = [read EXCEPT ![s].totals = totals[i]]
  /\ adds'   = [adds EXCEPT ![s] = new]
  /\ UNCHANGED <<invoiceVars, rowLock, dels>>

\* selectinload(TaxInvoice.lines)
LoadLines(s, step) ==
  /\ read' = [read EXCEPT ![s].lines = lines[target[s]]]
  /\ pc'   = [pc EXCEPT ![s] = step]
  /\ UNCHANGED <<invoiceVars, rowLock, target, dels, adds>>

Goto(s, step) == pc' = [pc EXCEPT ![s] = step] /\ UNCHANGED <<invoiceVars, target, adds>>

\* No other session has an uncommitted UPDATE of the row of s.
RowIsFree(s) == rowLock[target[s]] \in {s, NoSession}

\* The sessions with an uncommitted DELETE of a row that s deletes.
Deleters(s) == {t \in Sessions \ {s} : dels[t] \cap read[s].lines # {}}

\* COMMIT and ROLLBACK unlock every row of the session.
EndRequest(s) ==
  /\ rowLock' = [i \in Invoices |-> IF rowLock[i] = s THEN NoSession ELSE rowLock[i]]
  /\ pc'      = [pc EXCEPT ![s] = "idle"]
  /\ target'  = [target EXCEPT ![s] = NoInvoice]
  /\ read'    = [read EXCEPT ![s] = Nothing]
  /\ dels'    = [dels EXCEPT ![s] = {}]
  /\ adds'    = [adds EXCEPT ![s] = {}]

\* Mutant of Abandon: the session of a failed request is not closed.
AbandonWithoutClose(s) ==
  /\ pc'     = [pc EXCEPT ![s] = "idle"]
  /\ target' = [target EXCEPT ![s] = NoInvoice]
  /\ read'   = [read EXCEPT ![s] = Nothing]
  /\ adds'   = [adds EXCEPT ![s] = {}]
  /\ UNCHANGED <<invoiceVars, rowLock, dels>>

Abandon(s) == EndRequest(s) /\ UNCHANGED invoiceVars

-----------------------------------------------------------------------------
(* create_invoice: nobody else knows the invoice before the commit.         *)

Create(i, r) == /\ status[i] = "ABSENT"
                /\ Fresh(r)
                /\ status' = [status EXCEPT ![i] = "DRAFT"]
                /\ lines'  = [lines EXCEPT ![i] = {r}]
                /\ totals' = [totals EXCEPT ![i] = {r}]
                /\ UNCHANGED <<pdf, sessionVars>>

-----------------------------------------------------------------------------
(* update_invoice: load; UPDATE the header if it changes, DELETE the loaded  *)
(* lines, INSERT the new ones; refresh; sum the lines; UPDATE the totals.    *)

EditRequest(s, i, r) == /\ status[i] = "DRAFT"
                        /\ Fresh(r)
                        /\ Begin(s, i, "editLines", {r})

LoadEditedLines(s) == /\ pc[s] = "editLines"
                      /\ LoadLines(s, "header") \/ LoadLines(s, "delete")

WriteHeader(s) == /\ pc[s] = "header"
                  /\ RowIsFree(s)
                  /\ rowLock' = [rowLock EXCEPT ![target[s]] = s]
                  /\ Goto(s, "delete")
                  /\ UNCHANGED <<read, dels>>

\* A row that is gone already is not missed.
ReplaceLines(s) == /\ pc[s] = "delete"
                   /\ Deleters(s) = {}
                   /\ dels' = [dels EXCEPT ![s] = read[s].lines \cap lines[target[s]]]
                   /\ Goto(s, "refresh")
                   /\ UNCHANGED <<read, rowLock>>

RefreshRow(s) == /\ pc[s] = "refresh"
                 /\ read' = [read EXCEPT ![s].totals = totals[target[s]]]
                 /\ Goto(s, "sum")
                 /\ UNCHANGED <<rowLock, dels>>

\* The lines as s sees them: READ COMMITTED and its own changes.
SumLines(s) ==
  /\ pc[s] = "sum"
  /\ read' = [read EXCEPT ![s].lines = (lines[target[s]] \ dels[s]) \cup adds[s]]
  /\ Goto(s, "saveTotals")
  /\ UNCHANGED <<rowLock, dels>>

\* Totals equal to the refreshed ones are not written.
TotalsChange(s) == read[s].lines # read[s].totals

\* Mutant of CommitEdit: the sum is taken before the new lines are flushed.
CommitEditBeforeFlush(s) ==
  LET i == target[s] IN
  /\ pc[s] = "saveTotals"
  /\ TotalsChange(s) => RowIsFree(s)
  /\ lines'  = [lines EXCEPT ![i] = (@ \ dels[s]) \cup adds[s]]
  /\ totals' = IF TotalsChange(s) THEN [totals EXCEPT ![i] = read[s].lines \ adds[s]] ELSE totals
  /\ EndRequest(s)
  /\ UNCHANGED <<status, pdf>>

\* Mutant of CommitEdit: the deletions are committed and the new lines are lost.
CommitEditDroppingLines(s) ==
  LET i == target[s] IN
  /\ pc[s] = "saveTotals"
  /\ TotalsChange(s) => RowIsFree(s)
  /\ lines'  = [lines EXCEPT ![i] = @ \ dels[s]]
  /\ totals' = IF TotalsChange(s) THEN [totals EXCEPT ![i] = read[s].lines] ELSE totals
  /\ EndRequest(s)
  /\ UNCHANGED <<status, pdf>>

CommitEdit(s) ==
  LET i == target[s] IN
  /\ pc[s] = "saveTotals"
  /\ TotalsChange(s) => RowIsFree(s)
  /\ lines'  = [lines EXCEPT ![i] = (@ \ dels[s]) \cup adds[s]]
  /\ totals' = IF TotalsChange(s) THEN [totals EXCEPT ![i] = read[s].lines] ELSE totals
  /\ EndRequest(s)
  /\ UNCHANGED <<status, pdf>>

-----------------------------------------------------------------------------
(* issue_invoice and generate_pdf print what they have loaded.              *)

IssueRequest(s, i) == status[i] = "DRAFT" /\ Begin(s, i, "issueLines", {})

LoadIssuedLines(s) == pc[s] = "issueLines" /\ LoadLines(s, "issue")

CommitIssue(s) == /\ pc[s] = "issue" /\ read[s].lines # {}
                  /\ RowIsFree(s)
                  /\ status' = [status EXCEPT ![target[s]] = "ISSUED"]
                  /\ pdf'    = [pdf EXCEPT ![target[s]] = read[s]]
                  /\ EndRequest(s)
                  /\ UNCHANGED <<lines, totals>>

PdfRequest(s, i) == status[i] # "ABSENT" /\ Begin(s, i, "pdfLines", {})

LoadPdfLines(s) == pc[s] = "pdfLines" /\ LoadLines(s, "savePdf")

CommitPdf(s) == /\ pc[s] = "savePdf" /\ read[s].lines # {}
                /\ RowIsFree(s)
                /\ pdf' = [pdf EXCEPT ![target[s]] = read[s]]
                /\ EndRequest(s)
                /\ UNCHANGED <<status, lines, totals>>

-----------------------------------------------------------------------------
Crash(s) == pc[s] # "idle" /\ Abandon(s)

\* The sessions a waiting session waits for.
WaitsFor(s) ==
  CASE pc[s] = "delete" -> Deleters(s)
    [] \/ pc[s] \in {"header", "issue", "savePdf"}
       \/ pc[s] = "saveTotals" /\ TotalsChange(s)
         -> {rowLock[target[s]]} \ {s, NoSession}
    [] OTHER -> {}

\* PostgreSQL's deadlock detector ends a session on a cycle of waiting ones.
DeadlockVictim(s) ==
  /\ \E D \in SUBSET Sessions : s \in D /\ \A t \in D : WaitsFor(t) \cap D # {}
  /\ Abandon(s)

Request(s, i) == \/ \E r \in Rows : EditRequest(s, i, r)
                 \/ IssueRequest(s, i)
                 \/ PdfRequest(s, i)

Load(s) == \/ LoadEditedLines(s)
           \/ RefreshRow(s)
           \/ SumLines(s)
           \/ LoadIssuedLines(s)
           \/ LoadPdfLines(s)

\* The statements that may have to wait for a row.
Write(s) == \/ WriteHeader(s)
            \/ ReplaceLines(s)
            \/ CommitEdit(s)
            \/ CommitIssue(s)
            \/ CommitPdf(s)

Next == \/ \E i \in Invoices, r \in Rows : Create(i, r)
        \/ \E s \in Sessions, i \in Invoices : Request(s, i)
        \/ \E s \in Sessions : Load(s) \/ Write(s) \/ Crash(s) \/ DeadlockVictim(s)

Spec == Init /\ [][Next]_vars

(* A handler runs to its end; waiters for a row are served in turn; the      *)
(* deadlock detector finds every cycle.                                     *)
Fairness == /\ \A s \in Sessions : WF_vars(Load(s)) /\ SF_vars(Write(s))
            /\ WF_vars(\E s \in Sessions : DeadlockVictim(s))

FairSpec == Spec /\ Fairness

-----------------------------------------------------------------------------
(* Properties                                                               *)

\* Edits that replace each other's lines never leave an invoice without lines, so an
\* invoice that exists can always be issued and printed.
NeverWithoutLines == \A i \in Invoices : status[i] # "ABSENT" => lines[i] # {}

\* ISSUED is locked (invoicing/service.py:7): lines and totals change no more.
IssuedIsLocked ==
  [][\A i \in Invoices : status[i] = "ISSUED" => /\ lines'[i]  = lines[i]
                                                 /\ totals'[i] = totals[i]]_vars

\* Every request ends: no wait for a row outlives its holder or a deadlock.
RequestsEnd == \A s \in Sessions : pc[s] # "idle" ~> pc[s] = "idle"

OnSerial(f) == [i \in SerialInvoices |-> f[i]]

Atomic == INSTANCE AtomicInvoicing
            WITH Invoices <- SerialInvoices, status <- OnSerial(status),
                 lines <- OnSerial(lines), totals <- OnSerial(totals), pdf <- OnSerial(pdf)

\* Requests on one invoice that do not overlap take effect atomically: an edit replaces
\* all the lines of a DRAFT with their totals, and issuing prints exactly these.
ImplementsAtomic == Atomic!Spec
=============================================================================
