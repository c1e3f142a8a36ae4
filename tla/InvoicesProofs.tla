--------------------------- MODULE InvoicesProofs ---------------------------
(***************************************************************************)
(* Tax invoices and their papers, for any number of sessions, invoices,    *)
(* lines, buyers, documents, states and deployments.                       *)
(*                                                                         *)
(* Invoicing: what an edit relies on from one statement to the next is its *)
(* own new line (Relies); on the invoices where no two requests overlap    *)
(* what a handler has read is what is committed (SerialSound), and its     *)
(* COMMIT is one step of AtomicInvoicing.                                  *)
(*                                                                         *)
(* Printing: a request that has stored a document has it on disk, if that  *)
(* is where documents go now, under a key of its own (TaskOK, OwnDocs);    *)
(* so committed documents keep their bytes, a download gives the last      *)
(* paper, and the buyer master leaves papers alone.                        *)
(*                                                                         *)
(* Amounts: the rows of the summary part the lines, so sums over rows are  *)
(* sums over lines; each group of words adds what it stands for.           *)
(***************************************************************************)
EXTENDS Invoicing, Printing, SumTheorems

-----------------------------------------------------------------------------
(* Invoicing                                                                *)

Editing == {"editLines", "header", "delete", "refresh", "sum", "saveTotals"}

\* What a handler relies on from one statement to the next: its invoice is there, and an
\* edit carries a new line.
Relies(s) == /\ pc[s] = "idle" <=> target[s] = NoInvoice
             /\ target[s] \in Invoices => status[target[s]] # "ABSENT"
             /\ pc[s] \in Editing => \E r \in Rows : adds[s] = {r}

Sound == TypeOK /\ (\A s \in Sessions : Relies(s)) /\ NeverWithoutLines

InvoiceTypes == /\ status  \in [Invoices -> Statuses]
                /\ lines   \in [Invoices -> SUBSET Rows]
                /\ totals  \in [Invoices -> SUBSET Rows]
                /\ pdf     \in [Invoices -> Printout \cup {NoPdf}]

SessionTypes == /\ rowLock \in [Invoices -> Sessions \cup {NoSession}]
                /\ pc      \in [Sessions -> Steps]
                /\ target  \in [Sessions -> Invoices \cup {NoInvoice}]
                /\ read    \in [Sessions -> Printout]
                /\ dels    \in [Sessions -> SUBSET Rows]
                /\ adds    \in [Sessions -> SUBSET Rows]
                /\ \A s \in Sessions : pc[s] = "idle" =>
                     /\ target[s] = NoInvoice /\ dels[s] = {} /\ adds[s] = {}
                     /\ \A i \in Invoices : rowLock[i] # s

LEMMA InitSound == Init => Sound
<1> SUFFICES ASSUME Init PROVE Sound
  OBVIOUS
<1>1. Nothing \in Printout
  BY DEF Nothing, Printout
<1>2. TypeOK
  BY <1>1, NullAssumption, NoInvoiceAssumption DEF Init, TypeOK, Statuses, Steps
<1>3. (\A s \in Sessions : Relies(s)) /\ NeverWithoutLines
  BY NullAssumption, NoInvoiceAssumption DEF Init, Relies, Editing, NeverWithoutLines
<1> QED
  BY <1>2, <1>3 DEF Sound

\* A step of s leaves what the other sessions have alone.
OthersKeep(s) == \A t \in Sessions \ {s} : /\ pc'[t] = pc[t]
                                           /\ target'[t] = target[t]
                                           /\ read'[t] = read[t]
                                           /\ dels'[t] = dels[t]
                                           /\ adds'[t] = adds[t]

LEMMA OthersRely ==
  ASSUME Sound, NEW s \in Sessions, OthersKeep(s),
         \A i \in Invoices : status[i] # "ABSENT" => status'[i] # "ABSENT"
  PROVE  \A t \in Sessions \ {s} : Relies(t)'
BY DEF Sound, OthersKeep, Relies

LEMMA EndTypes ==
  ASSUME Sound, NEW s \in Sessions, EndRequest(s),
         \A i \in Invoices : status[i] # "ABSENT" => status'[i] # "ABSENT"
  PROVE  /\ SessionTypes' /\ \A t \in Sessions : Relies(t)'
         /\ target'[s] = NoInvoice /\ adds'[s] = {} /\ OthersKeep(s)
<1>1. Nothing \in Printout
  BY DEF Nothing, Printout
<1>2. /\ pc'[s] = "idle" /\ target'[s] = NoInvoice /\ adds'[s] = {} /\ dels'[s] = {}
      /\ OthersKeep(s)
  BY DEF EndRequest, OthersKeep, Sound, TypeOK
<1>3. \A i \in Invoices : rowLock'[i] # s /\ (rowLock'[i] = rowLock[i] \/ rowLock'[i] = NoSession)
  BY NullAssumption, NoInvoiceAssumption DEF EndRequest
<1>4. /\ rowLock' \in [Invoices -> Sessions \cup {NoSession}]
      /\ pc'      \in [Sessions -> Steps]
      /\ target'  \in [Sessions -> Invoices \cup {NoInvoice}]
      /\ read'    \in [Sessions -> Printout]
      /\ dels'    \in [Sessions -> SUBSET Rows]
      /\ adds'    \in [Sessions -> SUBSET Rows]
  BY <1>1 DEF EndRequest, Sound, TypeOK, Steps
<1>5. SessionTypes'
  BY <1>2, <1>3, <1>4, NullAssumption, NoInvoiceAssumption
    DEF SessionTypes, OthersKeep, Sound, TypeOK
<1>6. Relies(s)'
  BY <1>2, NullAssumption, NoInvoiceAssumption DEF Relies, Editing
<1> QED
  BY <1>2, <1>5, <1>6, OthersRely

LEMMA AbandonSound ==
  ASSUME Sound, NEW s \in Sessions, Abandon(s)
  PROVE  Sound'
<1>1. EndRequest(s) /\ UNCHANGED <<status, lines, totals, pdf>>
  BY DEF Abandon, invoiceVars
<1>2. TypeOK'
  BY <1>1, EndTypes DEF Sound, TypeOK, SessionTypes
<1> QED
  BY <1>1, <1>2, EndTypes DEF Sound, NeverWithoutLines

LEMMA CreateSound ==
  ASSUME Sound, NEW i \in Invoices, NEW r \in Rows, Create(i, r)
  PROVE  Sound'
<1>1. TypeOK'
  BY DEF Create, sessionVars, Sound, TypeOK, Statuses
<1>2. \A s \in Sessions : Relies(s)'
  BY DEF Create, sessionVars, Sound, TypeOK, Relies
<1>3. NeverWithoutLines'
  BY DEF Create, Sound, TypeOK, NeverWithoutLines
<1> QED
  BY <1>1, <1>2, <1>3 DEF Sound

\* The step at which each request begins, with the status that it asks for.
LEMMA RequestBegins ==
  ASSUME NEW s \in Sessions, NEW i \in Invoices, Request(s, i)
  PROVE  \E step \in {"editLines", "issueLines", "pdfLines"}, new \in SUBSET Rows :
           /\ Begin(s, i, step, new)
           /\ IF step = "pdfLines" THEN status[i] # "ABSENT" ELSE status[i] = "DRAFT"
           /\ IF step = "editLines" THEN \E r \in Rows : Fresh(r) /\ new = {r} ELSE new = {}
<1> DEFINE Begins(step, new) ==
             /\ Begin(s, i, step, new)
             /\ IF step = "pdfLines" THEN status[i] # "ABSENT" ELSE status[i] = "DRAFT"
             /\ IF step = "editLines" THEN \E r \in Rows : Fresh(r) /\ new = {r} ELSE new = {}
<1>1. ASSUME NEW r \in Rows, EditRequest(s, i, r)
      PROVE  Begins("editLines", {r}) /\ {r} \in SUBSET Rows
  BY <1>1 DEF EditRequest
<1>2. IssueRequest(s, i) => Begins("issueLines", {})
  BY DEF IssueRequest
<1>3. PdfRequest(s, i) => Begins("pdfLines", {})
  BY DEF PdfRequest
<1> HIDE DEF Begins
<1>4. \E step \in {"editLines", "issueLines", "pdfLines"}, new \in SUBSET Rows :
        Begins(step, new)
  BY <1>1, <1>2, <1>3 DEF Request
<1> USE DEF Begins
<1> QED
  BY <1>4

LEMMA BeginSound ==
  ASSUME Sound, NEW s \in Sessions, NEW i \in Invoices, Request(s, i)
  PROVE  Sound'
<1>1. PICK step \in {"editLines", "issueLines", "pdfLines"}, new \in SUBSET Rows :
        /\ Begin(s, i, step, new)
        /\ status[i] # "ABSENT"
        /\ step = "editLines" => \E r \in Rows : new = {r}
  BY RequestBegins
<1>2. /\ pc'     = [pc EXCEPT ![s] = step]
      /\ target' = [target EXCEPT ![s] = i]
      /\ adds'   = [adds EXCEPT ![s] = new]
      /\ UNCHANGED <<status, lines, totals, pdf, rowLock, dels>>
  BY <1>1 DEF Begin, invoiceVars
<1>3. read' \in [Sessions -> Printout] /\ \A t \in Sessions \ {s} : read'[t] = read[t]
  BY <1>1 DEF Begin, Sound, TypeOK, Printout
<1>4. step \in Steps \ {"idle"}
  BY DEF Steps
<1>5. TypeOK'
  BY <1>2, <1>3, <1>4 DEF Sound, TypeOK
<1>6. OthersKeep(s)
  BY <1>2, <1>3 DEF OthersKeep, Sound, TypeOK
<1>7. Relies(s)'
  <2>1. pc'[s] = step /\ target'[s] = i /\ adds'[s] = new
    BY <1>2 DEF Sound, TypeOK
  <2> QED
    <3>1. pc'[s] \in Editing => \E r \in Rows : adds'[s] = {r}
      BY <1>1, <2>1 DEF Editing
    <3>2. pc'[s] # "idle" /\ target'[s] # NoInvoice /\ status'[target'[s]] # "ABSENT"
      BY <1>1, <1>2, <1>4, <2>1, NullAssumption, NoInvoiceAssumption
    <3> QED
      BY <3>1, <3>2 DEF Relies
<1> QED
  BY <1>2, <1>5, <1>6, <1>7, OthersRely DEF Sound, NeverWithoutLines

-----------------------------------------------------------------------------
Works(s) == Load(s) \/ WriteHeader(s) \/ ReplaceLines(s)

\* A statement before the COMMIT changes what its own session has read and locked.
LEMMA WorksChange ==
  ASSUME Sound, NEW s \in Sessions, Works(s)
  PROVE  /\ UNCHANGED <<status, lines, totals, pdf, target, adds>>
         /\ SessionTypes'
         /\ OthersKeep(s)
         /\ pc[s] # "idle" /\ pc'[s] # "idle"
         /\ pc'[s] \in Editing => pc[s] \in Editing
<1> USE DEF Works, Load, LoadEditedLines, RefreshRow, SumLines, LoadIssuedLines, LoadPdfLines,
            WriteHeader, ReplaceLines
<1>0. target[s] \in Invoices
  <2>1. pc[s] # "idle"
    OBVIOUS
  <2> QED
    BY <2>1 DEF Sound, Relies, TypeOK
<1>1. PICK step \in Steps \ {"idle"} :
        /\ pc' = [pc EXCEPT ![s] = step]
        /\ pc[s] # "idle"
        /\ step \in Editing => pc[s] \in Editing
        /\ UNCHANGED <<status, lines, totals, pdf, target, adds>>
  BY DEF LoadLines, Goto, Steps, Editing, invoiceVars
<1>2. read' \in [Sessions -> Printout] /\ \A t \in Sessions \ {s} : read'[t] = read[t]
  <2>1. /\ lines[target[s]] \in SUBSET Rows /\ totals[target[s]] \in SUBSET Rows
        /\ (lines[target[s]] \ dels[s]) \cup adds[s] \in SUBSET Rows
    BY <1>0 DEF Sound, TypeOK
  <2>2. \/ read' = read
        \/ \E L \in SUBSET Rows : \/ read' = [read EXCEPT ![s].lines = L]
                                  \/ read' = [read EXCEPT ![s].totals = L]
    BY <2>1 DEF LoadLines
  <2>3. read[s] \in Printout
    BY DEF Sound, TypeOK
  <2>4. \A L \in SUBSET Rows : /\ [read[s] EXCEPT !.lines = L] \in Printout
                               /\ [read[s] EXCEPT !.totals = L] \in Printout
    BY <2>3 DEF Printout
  <2>5. read' = read \/ \E x \in Printout : read' = [read EXCEPT ![s] = x]
    BY <2>2, <2>4
  <2> QED
    BY <2>5 DEF Sound, TypeOK
<1>3. dels' = dels \/ \E D \in SUBSET Rows : dels' = [dels EXCEPT ![s] = D]
  <2>1. read[s].lines \cap lines[target[s]] \in SUBSET Rows
    BY <1>0 DEF Sound, TypeOK
  <2> QED
    BY <2>1 DEF LoadLines
<1>4. rowLock' = rowLock \/ rowLock' = [rowLock EXCEPT ![target[s]] = s]
  BY DEF LoadLines
<1> HIDE DEF Works, Load, LoadEditedLines, RefreshRow, SumLines, LoadIssuedLines,
             LoadPdfLines, WriteHeader, ReplaceLines
<1>5. OthersKeep(s) /\ pc'[s] # "idle"
  BY <1>1, <1>2, <1>3 DEF Sound, TypeOK, OthersKeep
<1>6. /\ rowLock' \in [Invoices -> Sessions \cup {NoSession}]
      /\ \A i \in Invoices : rowLock'[i] = rowLock[i] \/ rowLock'[i] = s
  BY <1>0, <1>4 DEF Sound, TypeOK
<1>7. SessionTypes'
  <2>1. \A t \in Sessions : pc'[t] = "idle" =>
          /\ target'[t] = NoInvoice /\ dels'[t] = {} /\ adds'[t] = {}
          /\ \A i \in Invoices : rowLock'[i] # t
    BY <1>5, <1>6 DEF OthersKeep, Sound, TypeOK
  <2>2. dels' \in [Sessions -> SUBSET Rows] /\ pc' \in [Sessions -> Steps]
    BY <1>1, <1>3 DEF Sound, TypeOK
  <2>3. target' \in [Sessions -> Invoices \cup {NoInvoice}] /\ adds' \in [Sessions -> SUBSET Rows]
    BY <1>1 DEF Sound, TypeOK
  <2> QED
    BY <1>2, <1>6, <2>1, <2>2, <2>3 DEF SessionTypes
<1> QED
  BY <1>1, <1>5, <1>7 DEF Sound, TypeOK

LEMMA WorksSound ==
  ASSUME Sound, NEW s \in Sessions, Works(s)
  PROVE  Sound'
<1>1. TypeOK'
  BY WorksChange DEF Sound, TypeOK, SessionTypes
<1>2. Relies(s)'
  BY WorksChange DEF Sound, Relies
<1> QED
  BY <1>1, <1>2, WorksChange, OthersRely DEF Sound, NeverWithoutLines

LEMMA EditSound ==
  ASSUME Sound, NEW s \in Sessions, CommitEdit(s)
  PROVE  Sound'
<1> DEFINE i == target[s]
           L == (lines[i] \ dels[s]) \cup adds[s]
<1>1. /\ EndRequest(s) /\ UNCHANGED <<status, pdf>>
      /\ lines' = [lines EXCEPT ![i] = L]
      /\ totals' = totals \/ totals' = [totals EXCEPT ![i] = read[s].lines]
      /\ pc[s] = "saveTotals"
  BY DEF CommitEdit
<1>2. i \in Invoices /\ adds[s] # {}
  <2>1. Relies(s) /\ target[s] \in Invoices \cup {NoInvoice}
    BY DEF Sound, TypeOK
  <2>2. \E r \in Rows : adds[s] = {r}
    BY <1>1, <2>1 DEF Relies, Editing
  <2> QED
    BY <1>1, <2>1, <2>2 DEF Relies
<1>3. L \in SUBSET Rows /\ L # {} /\ read[s].lines \in SUBSET Rows
  BY <1>2 DEF Sound, TypeOK, Printout
<1> HIDE DEF L
<1>4. TypeOK'
  BY <1>1, <1>2, <1>3, EndTypes DEF Sound, TypeOK, SessionTypes
<1>5. NeverWithoutLines'
  BY <1>1, <1>2, <1>3 DEF Sound, TypeOK, NeverWithoutLines
<1> QED
  BY <1>1, <1>4, <1>5, EndTypes DEF Sound

LEMMA PrintSound ==
  ASSUME Sound, NEW s \in Sessions, CommitIssue(s) \/ CommitPdf(s)
  PROVE  Sound'
<1>1. /\ EndRequest(s) /\ UNCHANGED <<lines, totals>>
      /\ status' = status \/ status' = [status EXCEPT ![target[s]] = "ISSUED"]
      /\ pdf' = [pdf EXCEPT ![target[s]] = read[s]]
      /\ read[s].lines # {} /\ pc[s] \in {"issue", "savePdf"}
  BY DEF CommitIssue, CommitPdf
<1>2. target[s] \in Invoices /\ status[target[s]] # "ABSENT"
  BY <1>1 DEF Sound, Relies, TypeOK
<1>3. \A i \in Invoices : status[i] # "ABSENT" <=> status'[i] # "ABSENT"
  BY <1>1, <1>2 DEF Sound, TypeOK
<1>4. TypeOK'
  <2>1. SessionTypes'
    BY <1>1, <1>3, EndTypes
  <2>2. InvoiceTypes'
    BY <1>1, <1>2 DEF Sound, TypeOK, InvoiceTypes, Statuses
  <2> QED
    BY <2>1, <2>2 DEF TypeOK, SessionTypes, InvoiceTypes
<1> QED
  BY <1>1, <1>3, <1>4, EndTypes DEF Sound, NeverWithoutLines

LEMMA StepSound == Sound /\ [Next]_vars => Sound'
<1> SUFFICES ASSUME Sound, [Next]_vars PROVE Sound'
  OBVIOUS
<1>1. ASSUME NEW s \in Sessions, Load(s) \/ Write(s) \/ Crash(s) \/ DeadlockVictim(s)
      PROVE  Sound'
  BY <1>1, WorksSound, EditSound, PrintSound, AbandonSound
     DEF Works, Write, Crash, DeadlockVictim
<1>2. CASE UNCHANGED vars
  BY <1>2 DEF vars, invoiceVars, sessionVars, Sound, TypeOK, Relies, NeverWithoutLines
<1> QED
  BY <1>1, <1>2, CreateSound, BeginSound DEF Next

\* Sound is inductive: it holds initially and every step keeps it.
LEMMA SoundInvariant == Spec => []Sound
BY InitSound, StepSound, PTL DEF Spec

\* In every reachable state the variables of the invoices have their types, and an idle
\* session has no row locked and nothing uncommitted (the session is closed at the end).
THEOREM InvoicesTypeCorrect == Spec => []TypeOK
<1>1. Sound => TypeOK
  BY DEF Sound
<1> QED
  BY <1>1, SoundInvariant, PTL

\* Edits that replace each other's lines leave an invoice with lines (update_invoice).
THEOREM InvoicesKeepLines == Spec => []NeverWithoutLines
<1>1. Sound => NeverWithoutLines
  BY DEF Sound
<1> QED
  BY <1>1, SoundInvariant, PTL

-----------------------------------------------------------------------------
(* Requests on a serial invoice take effect one at a time: Invoicing         *)
(* implements AtomicInvoicing, whatever requests overlap on the others.      *)

\* Two requests never have the same serial invoice as their target.
Alone == \A s, t \in Sessions :
           target[s] = target[t] /\ target[s] \in SerialInvoices => s = t

\* What a handler has read of a serial invoice is still so.
Current(s) ==
  LET i == target[s] IN
  /\ read[s].totals = totals[i]
  /\ pc[s] \in Editing \cup {"issueLines", "issue"} => status[i] = "DRAFT"
  /\ pc[s] \in {"header", "delete", "issue", "savePdf"} => read[s].lines = lines[i]
  /\ pc[s] \in {"refresh", "sum", "saveTotals"} => dels[s] = lines[i]
  /\ pc[s] = "saveTotals" => read[s].lines = adds[s]

\* The new line of a request is that of no invoice and no other request.
NewLines == /\ \A s \in Sessions, i \in Invoices : adds[s] \cap lines[i] = {}
            /\ \A s, t \in Sessions : s # t => adds[s] \cap adds[t] = {}

SerialInvoice == /\ Alone
                 /\ \A s \in Sessions : target[s] \in SerialInvoices => Current(s)
                 /\ NewLines

SerialSound == Sound /\ SerialInvoice

LEMMA NullIsNotSerial == NoInvoice \notin SerialInvoices
BY NullAssumption, NoInvoiceAssumption, SerialAssumption

LEMMA InitSerial == Init => SerialSound
BY InitSound, NullIsNotSerial DEF Init, SerialSound, SerialInvoice, Alone, NewLines

\* A step of s changes no invoice but its target.
OnlyTarget(s) == \A i \in Invoices \ {target[s]} :
                   /\ status'[i] = status[i] /\ lines'[i] = lines[i]
                   /\ totals'[i] = totals[i] /\ pdf'[i] = pdf[i]

\* What is so of a serial invoice stays so for its handler while others work.
LEMMA OthersCurrent ==
  ASSUME SerialSound, NEW s \in Sessions, OthersKeep(s), OnlyTarget(s)
  PROVE  \A t \in Sessions \ {s} : target'[t] \in SerialInvoices => Current(t)'
<1> SUFFICES ASSUME NEW t \in Sessions \ {s}, target'[t] \in SerialInvoices
             PROVE  Current(t)'
  OBVIOUS
<1>1. target'[t] = target[t] /\ Current(t)
  BY DEF OthersKeep, SerialSound, SerialInvoice
<1>2. target[t] \in Invoices \ {target[s]}
  BY <1>1, SerialAssumption DEF SerialSound, SerialInvoice, Alone
<1> QED
  BY <1>1, <1>2 DEF Current, OthersKeep, OnlyTarget

\* A request that ends: its new line, and no other, may now be a line of its invoice.
LEMMA EndSerial ==
  ASSUME SerialSound, Sound', NEW s \in Sessions, EndRequest(s), OnlyTarget(s),
         \A i \in Invoices : lines'[i] \subseteq lines[i] \cup adds[s],
         \A i \in Invoices : status[i] # "ABSENT" => status'[i] # "ABSENT"
  PROVE  SerialSound'
<1>1. target'[s] = NoInvoice /\ adds'[s] = {} /\ OthersKeep(s)
  BY EndTypes DEF SerialSound
<1>2. \A t \in Sessions \ {s} : target'[t] \in SerialInvoices => Current(t)'
  BY <1>1, OthersCurrent
<1>3. Alone'
  BY <1>1, NullIsNotSerial DEF SerialSound, SerialInvoice, Alone, OthersKeep
<1>4. NewLines'
  <2>1. ASSUME NEW t \in Sessions, NEW i \in Invoices
        PROVE  adds'[t] \cap lines'[i] = {}
    <3>1. CASE t = s
      BY <1>1, <3>1
    <3>2. CASE t # s
      BY <1>1, <3>2 DEF SerialSound, SerialInvoice, NewLines, OthersKeep
    <3> QED
      BY <3>1, <3>2
  <2>2. \A t, u \in Sessions : t # u => adds'[t] \cap adds'[u] = {}
    BY <1>1 DEF SerialSound, SerialInvoice, NewLines, OthersKeep
  <2> QED
    BY <2>1, <2>2 DEF NewLines
<1> QED
  BY <1>1, <1>2, <1>3, <1>4, NullIsNotSerial DEF SerialSound, SerialInvoice

LEMMA AbandonSerial ==
  ASSUME SerialSound, NEW s \in Sessions, Abandon(s)
  PROVE  SerialSound'
<1>1. Sound' /\ EndRequest(s) /\ UNCHANGED <<status, lines, totals, pdf>>
  BY AbandonSound DEF Abandon, invoiceVars, SerialSound
<1> QED
  BY <1>1, EndSerial DEF OnlyTarget

\* A new invoice is nobody's target yet, and its line is new.
LEMMA CreateSerial ==
  ASSUME SerialSound, NEW i \in Invoices, NEW r \in Rows, Create(i, r)
  PROVE  SerialSound'
<1>1. Sound'
  BY CreateSound DEF SerialSound
<1>2. /\ status[i] = "ABSENT" /\ UNCHANGED <<pc, target, read, dels, adds>>
      /\ lines' = [lines EXCEPT ![i] = {r}]
      /\ \A j \in Invoices \ {i} : /\ status'[j] = status[j] /\ lines'[j] = lines[j]
                                   /\ totals'[j] = totals[j]
      /\ \A s \in Sessions : r \notin adds[s]
  BY DEF Create, Fresh, sessionVars, SerialSound, Sound, TypeOK
<1>3. ASSUME NEW s \in Sessions, target[s] \in SerialInvoices
      PROVE  Current(s)'
  <2>1. Current(s) /\ target[s] \in Invoices \ {i}
    BY <1>2, <1>3, SerialAssumption DEF SerialSound, SerialInvoice, Sound, Relies
  <2> QED
    BY <1>2, <2>1 DEF Current
<1>4. NewLines'
  BY <1>2 DEF SerialSound, SerialInvoice, NewLines, Sound, TypeOK
<1> QED
  BY <1>1, <1>2, <1>3, <1>4 DEF SerialSound, SerialInvoice, Alone

LEMMA BeginSerial ==
  ASSUME SerialSound, NEW s \in Sessions, NEW i \in Invoices, Request(s, i)
  PROVE  SerialSound'
<1>1. Sound'
  BY BeginSound DEF SerialSound
<1>2. PICK step \in {"editLines", "issueLines", "pdfLines"}, new \in SUBSET Rows :
        /\ Begin(s, i, step, new)
        /\ IF step = "pdfLines" THEN status[i] # "ABSENT" ELSE status[i] = "DRAFT"
        /\ IF step = "editLines" THEN \E r \in Rows : Fresh(r) /\ new = {r} ELSE new = {}
  BY RequestBegins
<1>3. /\ UNCHANGED <<status, lines, totals, pdf>>
      /\ pc'[s] = step /\ target'[s] = i /\ adds'[s] = new
      /\ read'[s].totals = totals[i]
      /\ OthersKeep(s)
      /\ i \in SerialInvoices => \A t \in Sessions : target[t] # i
  BY <1>2 DEF Begin, invoiceVars, SerialSound, Sound, TypeOK, OthersKeep, Printout
<1>4. \A t \in Sessions \ {s} : target'[t] \in SerialInvoices => Current(t)'
  BY <1>3, OthersCurrent DEF OnlyTarget
<1>5. Current(s)'
  BY <1>2, <1>3 DEF Current, Editing
<1>6. Alone'
  BY <1>3 DEF SerialSound, SerialInvoice, Alone, OthersKeep
<1>7. /\ \A j \in Invoices : new \cap lines[j] = {}
      /\ \A t \in Sessions : new \cap adds[t] = {}
  BY <1>2 DEF Fresh
<1>8. NewLines'
  BY <1>3, <1>7 DEF OthersKeep, SerialSound, SerialInvoice, NewLines
<1> QED
  BY <1>1, <1>4, <1>5, <1>6, <1>8 DEF SerialSound, SerialInvoice

\* What a statement reads of a serial invoice is what the invoice has.
LEMMA WorksSerial ==
  ASSUME SerialSound, NEW s \in Sessions, Works(s)
  PROVE  SerialSound'
<1>1. Sound' /\ OthersKeep(s) /\ UNCHANGED <<status, lines, totals, pdf, target, adds>>
  BY WorksSound, WorksChange DEF SerialSound
<1>2. \A t \in Sessions \ {s} : target'[t] \in SerialInvoices => Current(t)'
  BY <1>1, OthersCurrent DEF OnlyTarget
<1>3. ASSUME target[s] \in SerialInvoices
      PROVE  Current(s)'
  <2> DEFINE i == target[s]
  <2>0. Current(s) /\ i \in Invoices /\ UNCHANGED i /\ read[s] \in Printout
    BY <1>1, <1>3, SerialAssumption DEF SerialSound, SerialInvoice, Sound, TypeOK
  <2>2. CASE LoadEditedLines(s) \/ LoadIssuedLines(s) \/ LoadPdfLines(s)
    <3>1. PICK step : /\ LoadLines(s, step)
                      /\ \/ step \in {"header", "delete"} /\ pc[s] = "editLines"
                         \/ step = "issue" /\ pc[s] = "issueLines"
                         \/ step = "savePdf" /\ pc[s] = "pdfLines"
      BY <2>2 DEF LoadEditedLines, LoadIssuedLines, LoadPdfLines
    <3>2. pc'[s] = step /\ read'[s] = [read[s] EXCEPT !.lines = lines[i]]
      BY <3>1 DEF LoadLines, SerialSound, Sound, TypeOK
    <3> QED
      BY <1>1, <2>0, <3>1, <3>2 DEF Current, Editing, Printout
  <2>3. CASE WriteHeader(s)
    <3>1. pc[s] = "header" /\ pc'[s] = "delete" /\ read' = read /\ dels' = dels
      BY <2>3 DEF WriteHeader, Goto, SerialSound, Sound, TypeOK
    <3> QED
      BY <1>1, <2>0, <3>1 DEF Current, Editing
  <2>4. CASE ReplaceLines(s)
    <3>1. /\ pc[s] = "delete" /\ pc'[s] = "refresh" /\ read' = read
          /\ dels'[s] = read[s].lines \cap lines[i]
      BY <2>4 DEF ReplaceLines, Goto, SerialSound, Sound, TypeOK
    <3>2. dels'[s] = lines[i]
      BY <2>0, <3>1 DEF Current
    <3> QED
      BY <1>1, <2>0, <3>1, <3>2 DEF Current, Editing
  <2>5. CASE RefreshRow(s)
    <3>1. /\ pc[s] = "refresh" /\ pc'[s] = "sum" /\ dels' = dels
          /\ read'[s] = [read[s] EXCEPT !.totals = totals[i]]
      BY <2>5 DEF RefreshRow, Goto, SerialSound, Sound, TypeOK
    <3> QED
      BY <1>1, <2>0, <3>1 DEF Current, Editing, Printout
  <2>6. CASE SumLines(s)
    <3>1. /\ pc[s] = "sum" /\ pc'[s] = "saveTotals" /\ dels' = dels
          /\ read'[s] = [read[s] EXCEPT !.lines = (lines[i] \ dels[s]) \cup adds[s]]
      BY <2>6 DEF SumLines, Goto, SerialSound, Sound, TypeOK
    <3>2. (lines[i] \ dels[s]) \cup adds[s] = adds[s]
      BY <2>0, <3>1 DEF Current
    <3> QED
      BY <1>1, <2>0, <3>1, <3>2 DEF Current, Editing, Printout
  <2> QED
    BY <2>2, <2>3, <2>4, <2>5, <2>6 DEF Works, Load
<1> QED
  BY <1>1, <1>2, <1>3 DEF SerialSound, SerialInvoice, Alone, NewLines

\* Every commit writes rows of the invoice of its request only.
LEMMA CommitReaches ==
  ASSUME SerialSound, NEW s \in Sessions, CommitEdit(s) \/ CommitIssue(s) \/ CommitPdf(s)
  PROVE  /\ target[s] \in Invoices /\ EndRequest(s) /\ OnlyTarget(s)
         /\ \A i \in Invoices : lines'[i] \subseteq lines[i] \cup adds[s]
         /\ \A i \in Invoices : status[i] # "ABSENT" => status'[i] # "ABSENT"
<1>1. target[s] \in Invoices /\ EndRequest(s)
  BY DEF CommitEdit, CommitIssue, CommitPdf, SerialSound, Sound, Relies, TypeOK
<1>2. OnlyTarget(s)
  BY DEF CommitEdit, CommitIssue, CommitPdf, SerialSound, Sound, TypeOK, OnlyTarget
<1> QED
  BY <1>1, <1>2 DEF CommitEdit, CommitIssue, CommitPdf, SerialSound, Sound, TypeOK

LEMMA StepSerial == SerialSound /\ [Next]_vars => SerialSound'
<1> SUFFICES ASSUME SerialSound, [Next]_vars PROVE SerialSound'
  OBVIOUS
<1>0. Sound'
  BY StepSound DEF SerialSound
<1>1. ASSUME NEW s \in Sessions, CommitEdit(s) \/ CommitIssue(s) \/ CommitPdf(s)
      PROVE  SerialSound'
  BY <1>0, <1>1, CommitReaches, EndSerial
<1>2. ASSUME NEW s \in Sessions, Load(s) \/ Write(s) \/ Crash(s) \/ DeadlockVictim(s)
      PROVE  SerialSound'
  BY <1>1, <1>2, WorksSerial, AbandonSerial DEF Works, Write, Crash, DeadlockVictim
<1>3. CASE UNCHANGED vars
  BY <1>0, <1>3 DEF vars, invoiceVars, sessionVars, SerialSound, SerialInvoice, Alone, Current,
     NewLines
<1> QED
  BY <1>2, <1>3, CreateSerial, BeginSerial DEF Next

-----------------------------------------------------------------------------
(* The commits on a serial invoice are the atomic operations                 *)

\* An edit leaves its new line and the totals of it.
LEMMA EditIsAtomic ==
  ASSUME SerialSound, NEW s \in Sessions, CommitEdit(s), target[s] \in SerialInvoices
  PROVE  \E r \in Rows : Atomic!Edit(target[s], r)
<1> DEFINE i == target[s]
<1>1. i \in Invoices /\ i \in SerialInvoices /\ Current(s) /\ Relies(s) /\ pc[s] = "saveTotals"
  BY SerialAssumption DEF CommitEdit, SerialSound, SerialInvoice, Sound
<1>2. PICK r \in Rows : adds[s] = {r}
  BY <1>1 DEF Relies, Editing
<1>3. /\ lines' = [lines EXCEPT ![i] = (lines[i] \ dels[s]) \cup adds[s]]
      /\ totals' = IF read[s].lines # read[s].totals
                   THEN [totals EXCEPT ![i] = read[s].lines] ELSE totals
      /\ UNCHANGED <<status, pdf>>
  BY DEF CommitEdit, TotalsChange
<1>4. /\ status[i] = "DRAFT" /\ dels[s] = lines[i] /\ read[s].totals = totals[i]
      /\ read[s].lines = {r}
  BY <1>1, <1>2 DEF Current, Editing
<1> HIDE DEF i
<1>5. lines' = [lines EXCEPT ![i] = {r}] /\ totals' = [totals EXCEPT ![i] = {r}]
  <2>1. (lines[i] \ dels[s]) \cup adds[s] = {r}
    BY <1>2, <1>4
  <2>2. totals \in [Invoices -> SUBSET Rows]
    BY DEF SerialSound, Sound, TypeOK
  <2>3. totals' = [totals EXCEPT ![i] = {r}]
    <3>1. CASE {r} = totals[i]
      BY <1>1, <1>3, <1>4, <2>2, <3>1
    <3>2. CASE {r} # totals[i]
      BY <1>3, <1>4, <3>2
    <3> QED
      BY <3>1, <3>2
  <2> QED
    BY <1>3, <2>1, <2>3
<1>6. /\ OnSerial(lines)' = [OnSerial(lines) EXCEPT ![i] = {r}]
      /\ OnSerial(totals)' = [OnSerial(totals) EXCEPT ![i] = {r}]
  BY <1>1, <1>5, SerialAssumption DEF OnSerial, SerialSound, Sound, TypeOK
<1>7. \A j \in SerialInvoices : r \notin OnSerial(lines)[j]
  BY <1>2, SerialAssumption DEF OnSerial, SerialSound, SerialInvoice, NewLines
<1>8. OnSerial(status)[i] = "DRAFT" /\ UNCHANGED <<OnSerial(status), OnSerial(pdf)>>
  BY <1>1, <1>3, <1>4 DEF OnSerial
<1>9. Atomic!Edit(i, r)
  BY <1>6, <1>7, <1>8 DEF Atomic!Edit, Atomic!SetLines
<1> QED
  BY <1>9 DEF i

\* What is printed is what the invoice has.
LEMMA PrintIsAtomic ==
  ASSUME SerialSound, NEW s \in Sessions, CommitIssue(s) \/ CommitPdf(s),
         target[s] \in SerialInvoices
  PROVE  Atomic!Issue(target[s]) \/ Atomic!GeneratePdf(target[s])
<1> DEFINE i == target[s]
<1>1. /\ i \in Invoices /\ i \in SerialInvoices /\ Current(s) /\ Relies(s)
      /\ read[s] \in Printout /\ pc[s] \in {"issue", "savePdf"}
  BY SerialAssumption DEF CommitIssue, CommitPdf, SerialSound, SerialInvoice, Sound, TypeOK
<1>2. pdf' = [pdf EXCEPT ![i] = read[s]] /\ UNCHANGED <<lines, totals>>
  BY DEF CommitIssue, CommitPdf
<1>3. read[s] = [lines |-> lines[i], totals |-> totals[i]]
  BY <1>1 DEF Current, Printout
<1>4. /\ OnSerial(pdf)' = [OnSerial(pdf) EXCEPT ![i] = read[s]]
      /\ OnSerial(lines)[i] = lines[i] /\ OnSerial(totals)[i] = totals[i]
      /\ OnSerial(status)[i] = status[i]
      /\ UNCHANGED <<OnSerial(lines), OnSerial(totals)>>
  BY <1>1, <1>2, SerialAssumption DEF OnSerial, SerialSound, Sound, TypeOK
<1>5. Atomic!PrintPdf(i)
  BY <1>3, <1>4 DEF Atomic!PrintPdf
<1>6. CASE CommitIssue(s)
  <2>1. status[i] = "DRAFT" /\ status' = [status EXCEPT ![i] = "ISSUED"]
    BY <1>1, <1>6 DEF CommitIssue, Current
  <2>2. OnSerial(status)' = [OnSerial(status) EXCEPT ![i] = "ISSUED"]
    BY <1>1, <2>1, SerialAssumption DEF OnSerial, SerialSound, Sound, TypeOK
  <2> QED
    BY <1>4, <1>5, <2>1, <2>2 DEF Atomic!Issue
<1>7. CASE CommitPdf(s)
  <2>1. status[i] # "ABSENT" /\ UNCHANGED OnSerial(status)
    BY <1>1, <1>7 DEF CommitPdf, Relies, OnSerial
  <2> QED
    BY <1>4, <1>5, <2>1 DEF Atomic!GeneratePdf
<1> QED
  BY <1>6, <1>7

LEMMA CreateIsAtomic ==
  ASSUME SerialSound, NEW i \in SerialInvoices, NEW r \in Rows, Create(i, r)
  PROVE  Atomic!Create(i, r)
<1>1. i \in Invoices
  BY SerialAssumption
<1>2. /\ OnSerial(status)[i] = "ABSENT"
      /\ OnSerial(status)' = [OnSerial(status) EXCEPT ![i] = "DRAFT"]
      /\ OnSerial(lines)'  = [OnSerial(lines) EXCEPT ![i] = {r}]
      /\ OnSerial(totals)' = [OnSerial(totals) EXCEPT ![i] = {r}]
      /\ UNCHANGED OnSerial(pdf)
  BY <1>1, SerialAssumption DEF Create, OnSerial, SerialSound, Sound, TypeOK
<1>3. \A j \in SerialInvoices : r \notin OnSerial(lines)[j]
  BY SerialAssumption DEF Create, Fresh, OnSerial
<1> QED
  BY <1>2, <1>3 DEF Atomic!Create, Atomic!SetLines

LEMMA StepAtomic == SerialSound /\ [Next]_vars => [Atomic!Next]_(Atomic!vars)
<1> SUFFICES ASSUME SerialSound, [Next]_vars PROVE [Atomic!Next]_(Atomic!vars)
  OBVIOUS
<1>1. ASSUME \A j \in SerialInvoices : /\ status'[j] = status[j] /\ lines'[j] = lines[j]
                                       /\ totals'[j] = totals[j] /\ pdf'[j] = pdf[j]
      PROVE  UNCHANGED Atomic!vars
  BY <1>1 DEF OnSerial, Atomic!vars
<1>2. ASSUME UNCHANGED <<status, lines, totals, pdf>>
      PROVE  UNCHANGED Atomic!vars
  BY <1>1, <1>2
<1>3. ASSUME NEW i \in Invoices, NEW r \in Rows, Create(i, r)
      PROVE  [Atomic!Next]_(Atomic!vars)
  <2>1. CASE i \in SerialInvoices
    BY <1>3, <2>1, CreateIsAtomic DEF Atomic!Next
  <2>2. CASE i \notin SerialInvoices
    BY <1>1, <1>3, <2>2, SerialAssumption DEF Create, SerialSound, Sound, TypeOK
  <2> QED
    BY <2>1, <2>2
<1>4. ASSUME NEW s \in Sessions, CommitEdit(s) \/ CommitIssue(s) \/ CommitPdf(s)
      PROVE  [Atomic!Next]_(Atomic!vars)
  <2>1. CASE target[s] \in SerialInvoices
    BY <1>4, <2>1, EditIsAtomic, PrintIsAtomic DEF Atomic!Next
  <2>2. CASE target[s] \notin SerialInvoices
    BY <1>1, <1>4, <2>2, CommitReaches, SerialAssumption DEF OnlyTarget
  <2> QED
    BY <2>1, <2>2
<1>5. ASSUME NEW s \in Sessions, Works(s) \/ Crash(s) \/ DeadlockVictim(s)
      PROVE  [Atomic!Next]_(Atomic!vars)
  BY <1>2, <1>5, WorksChange DEF SerialSound, Crash, DeadlockVictim, Abandon, invoiceVars
<1>6. ASSUME NEW s \in Sessions, NEW i \in Invoices, Request(s, i)
      PROVE  [Atomic!Next]_(Atomic!vars)
  BY <1>2, <1>6, RequestBegins DEF Begin, invoiceVars
<1>7. CASE UNCHANGED vars
  BY <1>2, <1>7 DEF vars, invoiceVars
<1> QED
  BY <1>3, <1>4, <1>5, <1>6, <1>7 DEF Next, Works, Write

\* Every interleaving of requests has, for the invoices whose requests do not overlap, the
\* effect of these requests taken one at a time: totals are those of the lines, and issuing
\* prints exactly these (modules/invoicing/service.py:3-8).
THEOREM InvoicesAreAtomic == Spec => ImplementsAtomic
<1>1. Init => Atomic!Init
  BY SerialAssumption DEF Init, OnSerial, Atomic!Init
<1>2. Spec => []SerialSound
  BY InitSerial, StepSerial, PTL DEF Spec
<1> QED
  BY <1>1, <1>2, StepAtomic, PTL DEF Spec, ImplementsAtomic, Atomic!Spec

-----------------------------------------------------------------------------
(* Printing                                                                 *)

\* What a request carries between its steps.  What it has stored is on the disk if the
\* disk is where the service stores now.
TaskOK(s) ==
  LET t == task[s] IN
  t # ABSENT =>
    /\ t.kind # "claim" => t.on \in Invoices /\ invoice[t.on] # ABSENT
    /\ t.step = "store" => t.doc = NoDoc
    /\ t.step = "commit" =>
         /\ t.doc \in Docs /\ document[t.doc] = ABSENT /\ t.doc \notin lost
         /\ t.bytes \in Bytes
         /\ t.kind \in {"issue", "pdf"} => t.bytes \in Paper
         /\ file[t.doc] = IF backend = "local" THEN t.bytes ELSE EMPTY

Stored(s) == task[s] # ABSENT /\ task[s].step = "commit"

\* No two requests store under one key.
OwnDocs == \A s, t \in Sessions : Stored(s) /\ Stored(t) /\ task[s].doc = task[t].doc => s = t

\* The paper of an invoice is what was last printed for it.
PaperOK(i) ==
  printed[i] # EMPTY =>
    /\ invoice[i] # ABSENT /\ invoice[i].pdf \in Docs
    /\ invoice[i].pdf \notin lost => BytesIn(invoice[i].pdf) = printed[i]

\* The inductive invariant.
Safe == /\ PrintingTypeOK
        /\ \A s \in Sessions : TaskOK(s)
        /\ OwnDocs
        /\ DocumentsHaveBytes
        /\ \A i \in Invoices : PaperOK(i)

LEMMA NoBytes == EMPTY \notin Bytes
BY RowsAssumption DEF Bytes

LEMMA InitSafe == PrintingInit => Safe
<1> SUFFICES ASSUME PrintingInit PROVE Safe
  OBVIOUS
<1>1. PrintingTypeOK
  BY DeploysAssumption DEF PrintingInit, PrintingTypeOK
<1>2. (\A s \in Sessions : TaskOK(s)) /\ OwnDocs
  BY DEF PrintingInit, TaskOK, OwnDocs, Stored
<1>3. DocumentsHaveBytes
  BY DEF PrintingInit, DocumentsHaveBytes
<1>4. \A i \in Invoices : PaperOK(i)
  BY DEF PrintingInit, PaperOK
<1> QED
  BY <1>1, <1>2, <1>3, <1>4 DEF Safe

-----------------------------------------------------------------------------
(* Steps that store nothing                                                 *)

\* Masters change, invoices are created and edited: every paper keeps its document.
LEMMA RowsSafe ==
  ASSUME Safe, PrintingTypeOK', UNCHANGED <<stored, host, task, printed>>,
         \A i \in Invoices : invoice[i] # ABSENT =>
           invoice'[i] # ABSENT /\ invoice'[i].pdf = invoice[i].pdf
  PROVE  Safe'
<1>1. \A s \in Sessions : TaskOK(s)'
  BY DEF Safe, TaskOK, stored, host
<1>2. OwnDocs'
  BY DEF Safe, OwnDocs, Stored
<1>3. DocumentsHaveBytes'
  BY DEF Safe, DocumentsHaveBytes, stored, host
<1>4. \A i \in Invoices : PaperOK(i)'
  BY DEF Safe, PaperOK, BytesIn, stored, host
<1> QED
  BY <1>1, <1>2, <1>3, <1>4 DEF Safe

LEMMA MastersSafe == ASSUME Safe, Masters PROVE Safe'
<1>0. PrintingTypeOK
  BY DEF Safe
<1>1. ASSUME NEW c \in Code, UpdateMillSettings(c)
      PROVE  Safe'
  <2>1. PrintingTypeOK'
    BY <1>0, <1>1 DEF PrintingTypeOK, UpdateMillSettings, stored, host
  <2> QED
    BY <1>1, <2>1, RowsSafe DEF UpdateMillSettings
<1>2. ASSUME NEW b \in Buyers, NEW c \in Code, CreateBuyer(b, c) \/ UpdateBuyer(b, c)
      PROVE  Safe'
  <2>1. /\ buyer' = [buyer EXCEPT ![b] = c]
        /\ UNCHANGED <<mill, invoice, stored, host, task, printed>>
    BY <1>2 DEF CreateBuyer, UpdateBuyer
  <2>2. buyer' \in [Buyers -> {ABSENT, DELETED} \cup Code]
    BY <1>0, <2>1 DEF PrintingTypeOK
  <2>3. \A p \in Buyers : buyer[p] \in Code => buyer'[p] \in Code
    BY <1>0, <2>1 DEF PrintingTypeOK
  <2>4. \A i \in Invoices : invoice[i] # ABSENT => invoice[i].buyer \in Buyers \cup {NoBuyer}
    BY <1>0 DEF PrintingTypeOK, Invoice
  <2>5. PrintingTypeOK'
    BY <1>0, <2>1, <2>2, <2>3, <2>4 DEF PrintingTypeOK, stored, host
  <2> QED
    BY <2>1, <2>5, RowsSafe
<1>3. ASSUME NEW b \in Buyers, DeleteBuyer(b)
      PROVE  Safe'
  <2>1. /\ buyer'   = [buyer EXCEPT ![b] = DELETED]
        /\ invoice' = [i \in Invoices |->
                         IF invoice[i] # ABSENT /\ invoice[i].buyer = b
                         THEN [invoice[i] EXCEPT !.buyer = NoBuyer] ELSE invoice[i]]
        /\ UNCHANGED <<mill, stored, host, task, printed>>
    BY <1>3 DEF DeleteBuyer
  <2>2. buyer' \in [Buyers -> {ABSENT, DELETED} \cup Code]
    BY <1>0, <2>1 DEF PrintingTypeOK
  <2>3. ASSUME NEW i \in Invoices, invoice[i] # ABSENT
        PROVE  /\ invoice'[i] \in Invoice /\ invoice'[i] # ABSENT
               /\ invoice'[i].pdf = invoice[i].pdf /\ invoice'[i].eway = invoice[i].eway
               /\ invoice'[i].buyer = IF invoice[i].buyer = b THEN NoBuyer ELSE invoice[i].buyer
    <3>1. invoice[i] \in Invoice
      BY <1>0, <2>3 DEF PrintingTypeOK
    <3>2. invoice'[i] = IF invoice[i].buyer = b THEN [invoice[i] EXCEPT !.buyer = NoBuyer]
                                                ELSE invoice[i]
      BY <2>1, <2>3
    <3>3. [invoice[i] EXCEPT !.buyer = NoBuyer] \in Invoice
      BY <3>1 DEF Invoice
    <3> QED
      BY <2>3, <3>1, <3>2, <3>3, RowsAssumption DEF Invoice
  <2>4. \A i \in Invoices : invoice[i] = ABSENT => invoice'[i] = ABSENT
    BY <2>1
  <2>5. invoice' \in [Invoices -> {ABSENT} \cup Invoice]
    BY <2>1, <2>3, <2>4
  <2>6. ASSUME NEW i \in Invoices, invoice'[i] # ABSENT
        PROVE  /\ invoice'[i].buyer # NoBuyer => buyer'[invoice'[i].buyer] \in Code
               /\ \A d \in {invoice'[i].pdf, invoice'[i].eway} \ {NoDoc} : document'[d] # ABSENT
    <3>1. invoice[i] # ABSENT /\ invoice[i] \in Invoice
      BY <1>0, <2>4, <2>6 DEF PrintingTypeOK
    <3>2. invoice'[i].buyer # NoBuyer =>
            invoice'[i].buyer = invoice[i].buyer /\ invoice[i].buyer \in Buyers \ {b}
      BY <2>3, <3>1, PrintingNullAssumption, NoInvoiceAssumption DEF Invoice
    <3>3. invoice'[i].buyer # NoBuyer => buyer'[invoice'[i].buyer] \in Code
      BY <1>0, <2>1, <3>1, <3>2 DEF PrintingTypeOK
    <3> QED
      BY <1>0, <2>1, <2>3, <3>1, <3>3 DEF PrintingTypeOK, stored
  <2>7. PrintingTypeOK'
    BY <1>0, <2>1, <2>2, <2>5, <2>6 DEF PrintingTypeOK, stored, host
  <2> QED
    BY <2>1, <2>3, <2>7, RowsSafe
<1> QED
  BY <1>1, <1>2, <1>3 DEF Masters

LEMMA HeaderSafe ==
  ASSUME Safe, NEW i \in Invoices, NEW b \in Buyers \cup {NoBuyer}, NEW g \in Given,
         CreateDraft(i, b, g) \/ Edit(i, b, g)
  PROVE  Safe'
<1>0. PrintingTypeOK
  BY DEF Safe
<1>1. Found(b) /\ UNCHANGED <<masters, stored, host, task, printed>>
  BY DEF CreateDraft, Edit
<1>2. Snapshot(b, g) \in Code /\ (b # NoBuyer => buyer[b] \in Code)
  BY <1>1 DEF Found, IsRow, Snapshot, Given, Code
<1>3. PICK new \in Invoice :
        /\ invoice' = [invoice EXCEPT ![i] = new]
        /\ new.buyer = b
        /\ invoice[i] # ABSENT => new.pdf = invoice[i].pdf /\ new.eway = invoice[i].eway
        /\ invoice[i] = ABSENT => new.pdf = NoDoc /\ new.eway = NoDoc
  <2>1. CASE CreateDraft(i, b, g)
    <3> DEFINE row == [status |-> "DRAFT", buyer |-> b, party |-> Snapshot(b, g),
                       pdf |-> NoDoc, eway |-> NoDoc]
    <3>1. row \in Invoice
      BY <1>2 DEF Invoice
    <3>2. invoice' = [invoice EXCEPT ![i] = row] /\ invoice[i] = ABSENT
      BY <2>1 DEF CreateDraft
    <3> QED
      BY <3>1, <3>2
  <2>2. CASE Edit(i, b, g)
    <3> DEFINE row == [invoice[i] EXCEPT !.buyer = b, !.party = Snapshot(b, g)]
    <3>1. invoice[i] \in Invoice /\ invoice[i] # ABSENT
      BY <1>0, <2>2 DEF Edit, PrintingTypeOK
    <3>2. /\ row \in Invoice /\ row.buyer = b
          /\ row.pdf = invoice[i].pdf /\ row.eway = invoice[i].eway
      BY <1>2, <3>1 DEF Invoice
    <3>3. invoice' = [invoice EXCEPT ![i] = row]
      BY <2>2 DEF Edit
    <3> QED
      BY <3>1, <3>2, <3>3
  <2> QED
    BY <2>1, <2>2
<1>4. new # ABSENT
  BY RowsAssumption
<1>5. invoice' \in [Invoices -> {ABSENT} \cup Invoice]
  BY <1>0, <1>3 DEF PrintingTypeOK
<1>6. \A j \in Invoices : invoice'[j] = IF j = i THEN new ELSE invoice[j]
  BY <1>0, <1>3 DEF PrintingTypeOK
<1>7. ASSUME NEW j \in Invoices, invoice'[j] # ABSENT
      PROVE  /\ invoice'[j].buyer # NoBuyer => buyer'[invoice'[j].buyer] \in Code
             /\ \A d \in {invoice'[j].pdf, invoice'[j].eway} \ {NoDoc} : document'[d] # ABSENT
  <2>1. CASE j = i
    BY <1>0, <1>1, <1>2, <1>3, <1>6, <2>1 DEF PrintingTypeOK, masters, stored
  <2>2. CASE j # i
    BY <1>0, <1>1, <1>6, <1>7, <2>2 DEF PrintingTypeOK, masters, stored
  <2> QED
    BY <2>1, <2>2
<1>8. PrintingTypeOK'
  BY <1>0, <1>1, <1>5, <1>7 DEF PrintingTypeOK, masters, stored, host
<1> QED
  BY <1>1, <1>3, <1>4, <1>6, <1>8, RowsSafe

\* A request begins, or ends without a commit.
LEMMA TaskSafe ==
  ASSUME Safe, UNCHANGED <<masters, invoice, stored, host, printed>>,
         task' \in [Sessions -> {ABSENT} \cup Task],
         \A s \in Sessions : TaskOK(s)',
         \A s \in Sessions : Stored(s)' => Stored(s) /\ task'[s] = task[s]
  PROVE  Safe'
<1>1. PrintingTypeOK'
  BY DEF Safe, PrintingTypeOK, masters, stored, host
<1>2. OwnDocs'
  BY DEF Safe, OwnDocs
<1>3. DocumentsHaveBytes'
  BY DEF Safe, DocumentsHaveBytes, stored, host
<1>4. \A i \in Invoices : PaperOK(i)'
  BY DEF Safe, PaperOK, BytesIn, stored, host
<1> QED
  BY <1>1, <1>2, <1>3, <1>4 DEF Safe

LEMMA BeginSafe ==
  ASSUME Safe, NEW s \in Sessions, NEW kind \in Kinds,
         NEW i \in Invoices \cup {NoInvoice}, NEW party \in Code,
         kind # "claim" => i \in Invoices /\ invoice[i] # ABSENT,
         BeginTask(s, kind, i, party)
  PROVE  Safe'
<1> DEFINE new == [kind |-> kind, step |-> "store", on |-> i,
                   party |-> party, doc |-> NoDoc, bytes |-> EMPTY]
<1>1. /\ task' = [task EXCEPT ![s] = new]
      /\ UNCHANGED <<masters, invoice, stored, host, printed>>
  BY DEF BeginTask
<1>2. new \in Task
  BY DEF Task
<1>3. task' \in [Sessions -> {ABSENT} \cup Task]
  BY <1>1, <1>2 DEF Safe, PrintingTypeOK
<1>4. \A t \in Sessions : task'[t] = IF t = s THEN new ELSE task[t]
  BY <1>1 DEF Safe, PrintingTypeOK
<1>5. ASSUME NEW t \in Sessions
      PROVE  TaskOK(t)'
  <2>1. CASE t = s
    BY <1>1, <1>4, <2>1 DEF TaskOK
  <2>2. CASE t # s
    BY <1>1, <1>4, <2>2 DEF Safe, TaskOK, stored, host
  <2> QED
    BY <2>1, <2>2
<1>6. \A t \in Sessions : Stored(t)' => Stored(t) /\ task'[t] = task[t]
  BY <1>4 DEF Stored
<1> QED
  BY <1>1, <1>3, <1>5, <1>6, TaskSafe

LEMMA RequestSafe ==
  ASSUME Safe, NEW s \in Sessions, DocumentRequest(s) PROVE Safe'
<1>1. ASSUME NEW i \in Invoices, NEW kind \in {"issue", "pdf", "eway"}, PaperRequest(s, kind,
             i)
      PROVE  Safe'
  <2>1. invoice[i] # ABSENT /\ invoice[i].party \in Code
    BY <1>1 DEF PaperRequest, Safe, PrintingTypeOK, Invoice
  <2> QED
    BY <1>1, <2>1, BeginSafe DEF PaperRequest, Kinds
<1>2. ASSUME ClaimRequest(s)
      PROVE  Safe'
  BY <1>2, BeginSafe DEF ClaimRequest, Kinds, Code
<1> QED
  BY <1>1, <1>2 DEF DocumentRequest, Kinds

\* The request that ends is forgotten, the others go on.
LEMMA EndTasks ==
  ASSUME Safe, NEW s \in Sessions, End(s)
  PROVE  /\ task' \in [Sessions -> {ABSENT} \cup Task]
         /\ \A t \in Sessions : task'[t] = IF t = s THEN ABSENT ELSE task[t]
BY DEF Safe, PrintingTypeOK, End

LEMMA FailSafe ==
  ASSUME Safe, NEW s \in Sessions, Fail(s)
  PROVE  Safe'
<1>1. End(s) /\ UNCHANGED <<masters, invoice, stored, host, printed>>
  BY DEF Fail
<1>2. \A t \in Sessions : TaskOK(t)'
  BY <1>1, EndTasks DEF Safe, TaskOK, stored, host
<1>3. \A t \in Sessions : Stored(t)' => Stored(t) /\ task'[t] = task[t]
  BY <1>1, EndTasks DEF Stored
<1> QED
  BY <1>1, <1>2, <1>3, EndTasks, TaskSafe

-----------------------------------------------------------------------------
(* Storing and committing                                                   *)

\* A document an invoice refers to is committed.
LEMMA LinksAreRows ==
  ASSUME PrintingTypeOK, NEW i \in Invoices, invoice[i] # ABSENT
  PROVE  /\ invoice[i].pdf \in Docs => document[invoice[i].pdf] # ABSENT
         /\ invoice[i].eway \in Docs => document[invoice[i].eway] # ABSENT
BY PrintingNullAssumption, NoInvoiceAssumption DEF PrintingTypeOK

LEMMA StoreSafe ==
  ASSUME Safe, NEW s \in Sessions, NEW d \in Docs, Store(s, d)
  PROVE  Safe'
<1> DEFINE t     == task[s]
           bytes == BytesOf(t)
           new   == [t EXCEPT !.step = "commit", !.doc = d, !.bytes = bytes]
<1>0. PrintingTypeOK /\ TaskOK(s)
  BY DEF Safe
<1>1. t \in Task /\ t # ABSENT
  BY <1>0 DEF Store, PrintingTypeOK
<1>2. /\ FreshDoc(d) /\ Put(d, bytes)
      /\ task' = [task EXCEPT ![s] = new]
      /\ UNCHANGED <<masters, invoice, document, host, printed>>
  BY DEF Store
<1>3. bytes \in Bytes /\ (t.kind \in {"issue", "pdf"} => bytes \in Paper)
  BY <1>0, <1>1 DEF BytesOf, Rendered, Bytes, Paper, Task, PrintingTypeOK
<1>4. /\ new \in Task
      /\ new.step = "commit" /\ new.doc = d /\ new.bytes = bytes
      /\ new.kind = t.kind /\ new.on = t.on
  BY <1>1, <1>3 DEF Task
<1>5. new # ABSENT
  BY <1>4, RowsAssumption
<1>6. \A q \in Sessions : task'[q] = IF q = s THEN new ELSE task[q]
  BY <1>0, <1>2 DEF PrintingTypeOK
<1>7. task' \in [Sessions -> {ABSENT} \cup Task]
  BY <1>0, <1>2, <1>4 DEF PrintingTypeOK
<1> HIDE DEF new, bytes
<1>8. /\ file' \in [Docs -> {EMPTY} \cup Bytes]
      /\ \A e \in Docs : file'[e] = IF e = d /\ backend = "local" THEN bytes ELSE file[e]
  BY <1>0, <1>2, <1>3 DEF PrintingTypeOK, Put
<1>9. document[d] = ABSENT /\ file[d] = EMPTY /\ d \notin lost
  BY <1>2 DEF FreshDoc
<1>10. PrintingTypeOK'
  BY <1>0, <1>2, <1>7, <1>8 DEF PrintingTypeOK, masters, host
<1>11. ASSUME NEW q \in Sessions
       PROVE  TaskOK(q)'
  <2>1. CASE q = s
    BY <1>0, <1>1, <1>2, <1>3, <1>4, <1>6, <1>8, <1>9, <2>1 DEF TaskOK, host
  <2>2. CASE q # s
    <3>1. TaskOK(q) /\ task'[q] = task[q]
      BY <1>6, <2>2 DEF Safe
    <3>2. task[q] # ABSENT => task[q].doc # d
      BY <1>2 DEF FreshDoc
    <3> QED
      BY <1>2, <1>8, <3>1, <3>2 DEF TaskOK, host
  <2> QED
    BY <2>1, <2>2
<1>12. OwnDocs'
  <2>1. \A q \in Sessions : task[q] # ABSENT => task[q].doc # d
    BY <1>2 DEF FreshDoc
  <2> QED
    BY <1>4, <1>6, <2>1 DEF Safe, OwnDocs, Stored
<1>13. DocumentsHaveBytes'
  BY <1>2, <1>8, <1>9 DEF Safe, DocumentsHaveBytes, host
<1>14. ASSUME NEW i \in Invoices
       PROVE  PaperOK(i)'
  <2>1. PaperOK(i)
    BY DEF Safe
  <2>2. invoice[i] # ABSENT /\ invoice[i].pdf \in Docs => invoice[i].pdf # d
    BY <1>0, <1>9, LinksAreRows
  <2> QED
    BY <1>2, <1>8, <2>1, <2>2 DEF PaperOK, BytesIn, host
<1> QED
  BY <1>10, <1>11, <1>12, <1>13, <1>14 DEF Safe

\* The document of a request is inserted: its bytes are in the row or on the disk.
LEMMA Inserted ==
  ASSUME Safe, NEW s \in Sessions, Stored(s), End(s), InsertDocument(task[s]),
         NEW d, d = task[s].doc
  PROVE  /\ d \in Docs /\ document[d] = ABSENT
         /\ document' \in [Docs -> {ABSENT} \cup DocumentRow]
         /\ document'[d] # ABSENT
         /\ UNCHANGED <<masters, file, host>>
         /\ \A e \in Docs \ {d} : document'[e] = document[e]
         /\ BytesIn(d)' = task[s].bytes
         /\ \A q \in Sessions : task'[q] # ABSENT => task[q].doc # d \/ ~ Stored(q)
         /\ DocumentsHaveBytes'
<1> DEFINE t == task[s]
<1>0. PrintingTypeOK /\ TaskOK(s) /\ t # ABSENT /\ t.step = "commit"
  BY DEF Safe, Stored
<1>1. /\ d \in Docs /\ document[d] = ABSENT /\ d \notin lost /\ t.bytes \in Bytes
      /\ file[d] = IF backend = "local" THEN t.bytes ELSE EMPTY
  BY <1>0 DEF TaskOK
<1>2. document' = [document EXCEPT ![d] = Row(t)] /\ UNCHANGED <<masters, file, host>>
  BY DEF InsertDocument
<1>3. /\ Row(t) \in DocumentRow /\ Row(t) # ABSENT
      /\ Row(t).content = IF backend = "db" THEN t.bytes ELSE EMPTY
  BY <1>1, RowsAssumption DEF Row, DocumentRow
<1>4. /\ document' \in [Docs -> {ABSENT} \cup DocumentRow]
      /\ document'[d] = Row(t)
      /\ \A e \in Docs \ {d} : document'[e] = document[e]
  BY <1>0, <1>1, <1>2, <1>3 DEF PrintingTypeOK
<1>5. BytesIn(d)' = t.bytes
  BY <1>0, <1>1, <1>2, <1>3, <1>4, NoBytes DEF BytesIn, PrintingTypeOK
<1>6. DocumentsHaveBytes'
  BY <1>0, <1>1, <1>2, <1>3, <1>4, NoBytes DEF Safe, DocumentsHaveBytes, PrintingTypeOK, host
<1>7. \A q \in Sessions : task'[q] # ABSENT => task[q].doc # d \/ ~ Stored(q)
  BY EndTasks DEF Safe, OwnDocs
<1> QED
  BY <1>1, <1>2, <1>3, <1>4, <1>5, <1>6, <1>7

\* What the commit of any request leaves of the others.
LEMMA OthersGoOn ==
  ASSUME Safe, NEW s \in Sessions, Stored(s), End(s), InsertDocument(task[s]),
         \A i \in Invoices : invoice[i] # ABSENT => invoice'[i] # ABSENT
  PROVE  (\A q \in Sessions : TaskOK(q)') /\ OwnDocs'
<1>1. UNCHANGED <<file, host>>
  BY DEF InsertDocument
<1>2. ASSUME NEW q \in Sessions
      PROVE  TaskOK(q)'
  <2>1. task'[q] # ABSENT => task'[q] = task[q] /\ TaskOK(q)
    BY EndTasks DEF Safe
  <2>2. task'[q] # ABSENT /\ Stored(q) => task[q].doc # task[s].doc
    BY Inserted
  <2>3. \A e \in Docs \ {task[s].doc} : document'[e] = document[e]
    BY Inserted
  <2> QED
    BY <1>1, <2>1, <2>2, <2>3 DEF TaskOK, Stored, host
<1>3. OwnDocs'
  BY EndTasks DEF Safe, OwnDocs, Stored
<1> QED
  BY <1>2, <1>3

\* The commit of a paper or of an e-way bill, which sets a link of an invoice.
LEMMA LinkSafe ==
  ASSUME Safe, NEW s \in Sessions, Stored(s), End(s), InsertDocument(task[s]),
         NEW i \in Invoices, i = task[s].on,
         NEW new \in Invoice, invoice[i] \in Invoice,
         invoice' = [invoice EXCEPT ![i] = new],
         new.buyer = invoice[i].buyer,
         \/ /\ new.pdf = task[s].doc /\ new.eway = invoice[i].eway
            /\ printed' = [printed EXCEPT ![i] = task[s].bytes] /\ task[s].bytes \in Paper
         \/ /\ new.eway = task[s].doc /\ new.pdf = invoice[i].pdf
            /\ printed' = printed
  PROVE  Safe'
<1>0. PrintingTypeOK /\ TaskOK(s)
  BY DEF Safe
<1>1. PICK d : d = task[s].doc
  OBVIOUS
<1>2. /\ d \in Docs /\ document[d] = ABSENT
      /\ document' \in [Docs -> {ABSENT} \cup DocumentRow]
      /\ document'[d] # ABSENT
      /\ UNCHANGED <<masters, file, host>>
      /\ \A e \in Docs \ {d} : document'[e] = document[e]
      /\ BytesIn(d)' = task[s].bytes
      /\ DocumentsHaveBytes'
  BY <1>1, Inserted
<1>3. new # ABSENT /\ invoice[i] # ABSENT
  BY RowsAssumption
<1>4. \A j \in Invoices : invoice'[j] = IF j = i THEN new ELSE invoice[j]
  BY <1>0 DEF PrintingTypeOK
<1>5. (\A q \in Sessions : TaskOK(q)') /\ OwnDocs'
  BY <1>3, <1>4, OthersGoOn
<1>6. \A e \in Docs : document[e] # ABSENT => document'[e] # ABSENT
  BY <1>2
<1>7. ASSUME NEW j \in Invoices, invoice'[j] # ABSENT
      PROVE  /\ invoice'[j].buyer # NoBuyer => buyer'[invoice'[j].buyer] \in Code
             /\ \A e \in {invoice'[j].pdf, invoice'[j].eway} \ {NoDoc} : document'[e] # ABSENT
  <2>1. buyer' = buyer
    BY <1>2 DEF masters
  <2>2. ASSUME NEW k \in Invoices, invoice[k] # ABSENT,
             NEW e \in {invoice[k].pdf, invoice[k].eway} \ {NoDoc}
        PROVE  document'[e] # ABSENT
    BY <1>0, <1>6, <2>2 DEF PrintingTypeOK, Invoice
  <2>3. CASE j = i
    BY <1>0, <1>1, <1>2, <1>3, <1>4, <2>1, <2>2, <2>3 DEF PrintingTypeOK
  <2>4. CASE j # i
    BY <1>0, <1>4, <1>7, <2>1, <2>2, <2>4 DEF PrintingTypeOK
  <2> QED
    BY <2>3, <2>4
<1>8. invoice' \in [Invoices -> {ABSENT} \cup Invoice] /\ printed' \in [Invoices -> {EMPTY} \cup Paper]
  BY <1>0 DEF PrintingTypeOK
<1>9. PrintingTypeOK'
  BY <1>0, <1>2, <1>7, <1>8, EndTasks DEF PrintingTypeOK, masters, host
<1>10. ASSUME NEW j \in Invoices
       PROVE  PaperOK(j)'
  <2>1. PaperOK(j)
    BY DEF Safe
  <2>2. ASSUME NEW e \in Docs, e # d
        PROVE  BytesIn(e)' = BytesIn(e)
    BY <1>2, <2>2 DEF BytesIn
  <2>3. invoice[j] # ABSENT /\ invoice[j].pdf \in Docs => invoice[j].pdf # d
    BY <1>0, <1>2, LinksAreRows
  <2>4. lost' = lost
    BY <1>2 DEF host
  <2>5. CASE invoice'[j] # ABSENT /\ invoice'[j].pdf = d /\ printed'[j] = task[s].bytes
    BY <1>2, <2>5 DEF PaperOK
  <2>6. CASE /\ printed'[j] = printed[j]
             /\ invoice[j] # ABSENT => invoice'[j] # ABSENT /\ invoice'[j].pdf = invoice[j].pdf
    <3>1. CASE printed[j] = EMPTY
      BY <2>6, <3>1 DEF PaperOK
    <3>2. CASE printed[j] # EMPTY
      <4>1. PICK e \in Docs : e = invoice[j].pdf
        BY <2>1, <3>2 DEF PaperOK
      <4>2. invoice'[j] # ABSENT /\ invoice'[j].pdf = e /\ e # d
        BY <2>1, <2>3, <2>6, <3>2, <4>1 DEF PaperOK
      <4>3. e \notin lost => BytesIn(e)' = printed[j]
        BY <2>1, <2>2, <3>2, <4>1, <4>2 DEF PaperOK
      <4> QED
        BY <2>4, <2>6, <4>2, <4>3 DEF PaperOK, BytesIn
    <3> QED
      BY <3>1, <3>2
  <2> QED
    BY <1>0, <1>1, <1>3, <1>4, <2>5, <2>6 DEF PrintingTypeOK
<1> QED
  BY <1>2, <1>5, <1>9, <1>10 DEF Safe

LEMMA CommitSafe ==
  ASSUME Safe, NEW s \in Sessions, CommitPaper(s) \/ CommitEway(s) \/ CommitClaim(s)
  PROVE  Safe'
<1> DEFINE t == task[s]
<1>0. PrintingTypeOK /\ TaskOK(s)
  BY DEF Safe
<1>1. /\ End(s) /\ InsertDocument(t)
      /\ t # ABSENT /\ t.step = "commit"
  BY DEF CommitPaper, CommitEway, CommitClaim, Committing
<1>2. Stored(s) /\ t \in Task /\ t.doc \in Docs
  BY <1>0, <1>1 DEF Stored, PrintingTypeOK, TaskOK
<1>3. CASE CommitPaper(s)
  <2>1. t.on \in Invoices /\ invoice[t.on] \in Invoice /\ t.bytes \in Paper
    BY <1>0, <1>1, <1>3 DEF CommitPaper, Committing, TaskOK, PrintingTypeOK
  <2> DEFINE new == [invoice[t.on] EXCEPT !.pdf = t.doc,
                                          !.status = IF t.kind = "issue" THEN "ISSUED" ELSE @]
  <2>2. /\ new \in Invoice
        /\ new.buyer = invoice[t.on].buyer
        /\ new.pdf = t.doc /\ new.eway = invoice[t.on].eway
    BY <1>2, <2>1 DEF Invoice
  <2>3. /\ invoice' = [invoice EXCEPT ![t.on] = new]
        /\ printed' = [printed EXCEPT ![t.on] = t.bytes]
    BY <1>3 DEF CommitPaper
  <2> QED
    BY <1>1, <1>2, <2>1, <2>2, <2>3, LinkSafe
<1>4. CASE CommitEway(s)
  <2>1. t.on \in Invoices /\ invoice[t.on] \in Invoice
    BY <1>0, <1>1, <1>4 DEF CommitEway, Committing, TaskOK, PrintingTypeOK
  <2> DEFINE new == [invoice[t.on] EXCEPT !.eway = t.doc]
  <2>2. /\ new \in Invoice
        /\ new.buyer = invoice[t.on].buyer
        /\ new.eway = t.doc /\ new.pdf = invoice[t.on].pdf
    BY <1>2, <2>1 DEF Invoice
  <2>3. invoice' = [invoice EXCEPT ![t.on] = new] /\ printed' = printed
    BY <1>4 DEF CommitEway
  <2> QED
    BY <1>1, <1>2, <2>1, <2>2, <2>3, LinkSafe
<1>5. CASE CommitClaim(s)
  <2>1. UNCHANGED <<invoice, printed>>
    BY <1>5 DEF CommitClaim
  <2>2. PICK d : d = t.doc
    OBVIOUS
  <2>3. /\ d \in Docs /\ document[d] = ABSENT
        /\ document' \in [Docs -> {ABSENT} \cup DocumentRow]
        /\ document'[d] # ABSENT
        /\ UNCHANGED <<masters, file, host>>
        /\ \A e \in Docs \ {d} : document'[e] = document[e]
        /\ DocumentsHaveBytes'
    BY <1>1, <1>2, <2>2, Inserted
  <2>4. (\A q \in Sessions : TaskOK(q)') /\ OwnDocs'
    BY <1>1, <1>2, <2>1, OthersGoOn
  <2>5. \A i \in Invoices : invoice[i] # ABSENT =>
          /\ invoice[i].pdf \in Docs \cup {NoDoc} /\ invoice[i].eway \in Docs \cup {NoDoc}
          /\ \A e \in {invoice[i].pdf, invoice[i].eway} \ {NoDoc} : document'[e] # ABSENT
    BY <1>0, <2>3 DEF PrintingTypeOK, Invoice
  <2>6. PrintingTypeOK'
    BY <1>0, <1>1, <2>1, <2>3, <2>5, EndTasks DEF PrintingTypeOK, masters, host
  <2>7. ASSUME NEW i \in Invoices
        PROVE  PaperOK(i)'
    <3>1. PaperOK(i) /\ (invoice[i] # ABSENT /\ invoice[i].pdf \in Docs => invoice[i].pdf # d)
      BY <1>0, <2>3, LinksAreRows DEF Safe
    <3> QED
      BY <2>1, <2>3, <3>1 DEF PaperOK, BytesIn, host
  <2> QED
    BY <2>3, <2>4, <2>6, <2>7 DEF Safe
<1> QED
  BY <1>3, <1>4, <1>5

-----------------------------------------------------------------------------
LEMMA DeploySafe ==
  ASSUME Safe, NEW setting \in {"db", "local"}, NEW wiped \in BOOLEAN, Deploy(setting, wiped)
  PROVE  Safe'
<1>0. PrintingTypeOK
  BY DEF Safe
<1>1. /\ deploys < MaxDeploys /\ deploys' = deploys + 1 /\ backend' = setting
      /\ file' = IF wiped THEN [d \in Docs |-> EMPTY] ELSE file
      /\ lost' = IF wiped THEN lost \cup {d \in Docs : file[d] # EMPTY} ELSE lost
      /\ task' = [s \in Sessions |-> ABSENT]
      /\ UNCHANGED <<masters, invoice, document, printed>>
  BY DEF Deploy
<1>2. deploys' \in 0 .. MaxDeploys
  BY <1>0, <1>1, DeploysAssumption DEF PrintingTypeOK
<1>3. file' \in [Docs -> {EMPTY} \cup Bytes] /\ lost' \in SUBSET Docs
  BY <1>0, <1>1 DEF PrintingTypeOK
<1>4. PrintingTypeOK'
  BY <1>0, <1>1, <1>2, <1>3 DEF PrintingTypeOK, masters
<1>5. (\A s \in Sessions : TaskOK(s)') /\ OwnDocs'
  BY <1>1 DEF TaskOK, OwnDocs, Stored
<1>6. \A d \in Docs : d \notin lost' => d \notin lost /\ file'[d] = file[d]
  BY <1>1
<1>7. DocumentsHaveBytes'
  BY <1>1, <1>6 DEF Safe, DocumentsHaveBytes
<1>8. ASSUME NEW i \in Invoices
      PROVE  PaperOK(i)'
  BY <1>1, <1>6, <1>8 DEF Safe, PaperOK, BytesIn
<1> QED
  BY <1>4, <1>5, <1>7, <1>8 DEF Safe

LEMMA StepSafe == Safe /\ [PrintingNext]_printingVars => Safe'
<1> SUFFICES ASSUME Safe, [PrintingNext]_printingVars PROVE Safe'
  OBVIOUS
<1>1. CASE Masters
  BY <1>1, MastersSafe
<1>2. ASSUME NEW i \in Invoices, NEW b \in Buyers \cup {NoBuyer}, NEW g \in Given,
             CreateDraft(i, b, g) \/ Edit(i, b, g)
      PROVE  Safe'
  BY <1>2, HeaderSafe
<1>3. ASSUME NEW s \in Sessions, DocumentRequest(s) \/ Serve(s)
      PROVE  Safe'
  BY <1>3, RequestSafe, StoreSafe, CommitSafe, FailSafe DEF Serve
<1>4. ASSUME NEW setting \in {"db", "local"}, NEW wiped \in BOOLEAN, Deploy(setting, wiped)
      PROVE  Safe'
  BY <1>4, DeploySafe
<1>5. CASE UNCHANGED printingVars
  <2>1. UNCHANGED <<masters, invoice, stored, host, task, printed>>
    BY <1>5 DEF printingVars
  <2>2. PrintingTypeOK'
    BY <2>1 DEF Safe, PrintingTypeOK, masters, stored, host
  <2> QED
    BY <2>1, <2>2, RowsSafe
<1> QED
  BY <1>1, <1>2, <1>3, <1>4, <1>5 DEF PrintingNext

LEMMA SafeInvariant == PrintingSpec => []Safe
BY InitSafe, StepSafe, PTL DEF PrintingSpec

\* Rows, files and requests keep their types, and no invoice links a buyer or a document
\* that is not there.
THEOREM PapersTypeCorrect == PrintingSpec => []PrintingTypeOK
<1>1. Safe => PrintingTypeOK
  BY DEF Safe
<1> QED
  BY <1>1, SafeInvariant, PTL

\* A committed document keeps its bytes, in one place, until the disk is wiped.
THEOREM DocumentsKeepBytes == PrintingSpec => []DocumentsHaveBytes
<1>1. Safe => DocumentsHaveBytes
  BY DEF Safe
<1> QED
  BY <1>1, SafeInvariant, PTL

\* A download gives the last paper that was printed, whatever backend is configured now,
\* unless its file is lost.
THEOREM DownloadGivesLastPaper == PrintingSpec => []StoredPaperSurvives
<1>1. Safe => StoredPaperSurvives
  BY PrintingNullAssumption, NoInvoiceAssumption
    DEF Safe, PaperOK, StoredPaperSurvives, Delivered
<1> QED
  BY <1>1, SafeInvariant, PTL

\* No change of the buyer master changes what a download gives.
THEOREM PapersIgnoreTheBuyerMaster == PrintingSpec => BuyersLeavePapers
<1>1. ASSUME PrintingTypeOK, [PrintingNext]_printingVars, buyer' # buyer, NEW i \in Invoices,
             invoice[i] # ABSENT
      PROVE  Delivered(i)' = Delivered(i)
  <2>1. PICK b \in Buyers : \/ \E c \in Code : CreateBuyer(b, c) \/ UpdateBuyer(b, c)
                           \/ DeleteBuyer(b)
    <3>1. CASE Masters
      BY <1>1, <3>1 DEF Masters, UpdateMillSettings
    <3>2. ASSUME NEW j \in Invoices, NEW p \in Buyers \cup {NoBuyer}, NEW g \in Given,
                 CreateDraft(j, p, g) \/ Edit(j, p, g)
          PROVE  buyer' = buyer
      BY <3>2 DEF CreateDraft, Edit, masters
    <3>3. ASSUME NEW s \in Sessions, DocumentRequest(s)
          PROVE  buyer' = buyer
      BY <3>3 DEF DocumentRequest, PaperRequest, ClaimRequest, BeginTask, masters
    <3>4. ASSUME NEW s \in Sessions, Serve(s)
          PROVE  buyer' = buyer
      BY <3>4
        DEF Serve, Store, CommitPaper, CommitEway, CommitClaim, Fail, InsertDocument, masters
    <3>5. ASSUME NEW setting \in {"db", "local"}, NEW wiped \in BOOLEAN, Deploy(setting, wiped)
          PROVE  buyer' = buyer
      BY <3>5 DEF Deploy, masters
    <3>6. UNCHANGED printingVars => buyer' = buyer
      BY DEF printingVars, masters
    <3> QED
      BY <1>1, <3>1, <3>2, <3>3, <3>4, <3>5, <3>6 DEF PrintingNext
  <2>2. UNCHANGED <<mill, document, file>>
    BY <2>1 DEF CreateBuyer, UpdateBuyer, DeleteBuyer, stored
  <2>3. invoice'[i].pdf = invoice[i].pdf /\ invoice'[i].party = invoice[i].party
    <3>1. invoice[i] \in Invoice
      BY <1>1 DEF PrintingTypeOK
    <3> QED
      BY <1>1, <2>1, <3>1 DEF CreateBuyer, UpdateBuyer, DeleteBuyer, Invoice
  <2> QED
    BY <2>2, <2>3 DEF Delivered, BytesIn, Rendered
<1>2. PrintingTypeOK /\ [PrintingNext]_printingVars
        => [buyer' # buyer =>
              \A i \in Invoices : invoice[i] # ABSENT => Delivered(i)' = Delivered(i)]_printingVars
  BY <1>1 DEF printingVars
<1> QED
  BY <1>2, PapersTypeCorrect, PTL DEF PrintingSpec, BuyersLeavePapers

-----------------------------------------------------------------------------
(* Figures of a page                                                        *)

\* The split of an amount gives it back, and CGST the odd paisa.
LEMMA SplitIsRight ==
  ASSUME NEW gst \in Nat, NEW interstate \in BOOLEAN
  PROVE  LET c == GstComponents(gst, interstate) IN
         /\ SplitsSumBack(gst, c)
         /\ c.cgst \in Nat
         /\ interstate => c.cgst = 0
         /\ ~interstate => 2 * c.cgst - gst \in {0, 1}
<1> DEFINE h == HalfUp(gst, 2)
<1>1. h \in Nat /\ 2 * h - gst \in {0, 1}
  BY DEF HalfUp
<1> HIDE DEF h
<1>2. CASE interstate
  BY <1>2 DEF GstComponents, SplitsSumBack, Split
<1>3. CASE ~interstate
  <2>1. GstComponents(gst, interstate) = [cgst |-> h, sgst |-> gst - h, igst |-> 0]
    BY <1>3 DEF GstComponents, h
  <2>2. h + (gst - h) + 0 = gst /\ h - (gst - h) \in {0, 1}
    BY <1>1
  <2> QED
    BY <1>1, <1>3, <2>1, <2>2 DEF SplitsSumBack, Split
<1> QED
  BY <1>2, <1>3

\* CGST, SGST and IGST sum back to the amount that was split, and the halves differ by no
\* more than the odd paisa, for every amount.
THEOREM HalvesSumBack ==
  ASSUME NEW amount \in Nat, NEW interstate \in BOOLEAN
  PROVE  SplitsSumBack(amount, GstComponents(amount, interstate))
BY SplitIsRight

\* Rounding half to even is off by half of one at most.
LEMMA HalfIsClose ==
  ASSUME NEW tax \in Nat
  PROVE  HalfEven(tax, 2) \in Nat /\ 2 * HalfEven(tax, 2) - tax \in {-1, 0, 1}
<1> DEFINE q == tax \div 2
<1>1. q \in Nat /\ tax - 2 * q \in {0, 1} /\ tax % 2 = tax - 2 * q
  OBVIOUS
<1>2. HalfEven(tax, 2) \in {q, q + 1} /\ (HalfEven(tax, 2) = q + 1 => tax % 2 = 1)
  <2>1. tax % 2 \in {0, 1}
    OBVIOUS
  <2> QED
    BY <2>1 DEF HalfEven
<1> HIDE DEF q
<1> QED
  BY <1>1, <1>2

LEMMA MinIn ==
  ASSUME NEW n \in Nat, NEW K \in SUBSET (1 .. n), K # {}
  PROVE  Min(K) \in K
<1> DEFINE T == {1 .. k : k \in K}
<1>1. IsFiniteSet(1 .. n)
  <2>1. 1 \in Int /\ n \in Int
    OBVIOUS
  <2> QED
    BY <2>1, FS_Interval
<1>2. T \in SUBSET (SUBSET (1 .. n)) /\ T # {}
  <2>1. \A k \in K : 1 .. k \in SUBSET (1 .. n)
    OBVIOUS
  <2> QED
    BY <2>1
<1>3. PICK x \in T : \A y \in T : y \subseteq x => y = x
  <2> DEFINE S == 1 .. n
  <2>1. IsFiniteSet(S) /\ T \in SUBSET (SUBSET S) /\ T # {}
    BY <1>1, <1>2
  <2> HIDE DEF T, S
  <2> QED
    BY <2>1, Smallest
<1>4. PICK k \in K : x = 1 .. k
  OBVIOUS
<1>5. \A j \in K : k <= j
  <2> SUFFICES ASSUME NEW j \in K, j < k PROVE FALSE
    OBVIOUS
  <2>1. 1 .. j \in T /\ 1 .. j \subseteq 1 .. k
    OBVIOUS
  <2>2. 1 .. j = 1 .. k
    BY <1>3, <1>4, <2>1
  <2>3. k \in 1 .. k /\ k \notin 1 .. j
    OBVIOUS
  <2> QED
    BY <2>2, <2>3
<1> QED
  BY <1>5 DEF Min

-----------------------------------------------------------------------------
AreLines(rows, n) ==
  /\ n \in Nat /\ DOMAIN rows = 1 .. n
  /\ \A k \in 1 .. n : rows[k].taxable \in Nat /\ rows[k].gst \in Nat

\* The lines with the HSN and the rate of line k, and the row of the summary they make.
Like(rows, k)  == {j \in DOMAIN rows : SummaryKey(rows[j]) = SummaryKey(rows[k])}
RowOf(rows, k) == [rate |-> rows[k].rate, taxable |-> TaxableOf(rows, Like(rows, k)),
                    gst |-> GstOf(rows, Like(rows, k)), first |-> Min(Like(rows, k))]

Taxables(rows) == [k \in DOMAIN rows |-> rows[k].taxable]
Gsts(rows)     == [k \in DOMAIN rows |-> rows[k].gst]

LEMMA ColumnsAre ==
  ASSUME NEW rows, NEW n, AreLines(rows, n), NEW K \in SUBSET (1 .. n)
  PROVE  /\ IsFiniteSet(K)
         /\ TaxableOf(rows, K) = Sum(Taxables(rows), K) /\ TaxableOf(rows, K) \in Nat
         /\ GstOf(rows, K) = Sum(Gsts(rows), K) /\ GstOf(rows, K) \in Nat
<1>1. IsFiniteSet(1 .. n)
  <2>1. 1 \in Int /\ n \in Int
    BY DEF AreLines
  <2> QED
    BY <2>1, FS_Interval
<1>2. IsFiniteSet(K)
  BY <1>1, FS_Subset
<1>3. DOMAIN rows = 1 .. n
  BY DEF AreLines
<1>4. TaxableOf(rows, K) = Sum(Taxables(rows), K)
  <2>1. TaxableOf(rows, K) = MapThenSumSet(LAMBDA k : rows[k]["taxable"], K)
    BY DEF TaxableOf
  <2>2. TaxableOf(rows, K) = Sum([k \in K |-> rows[k]["taxable"]], K)
    BY <1>2, <2>1, SumOfColumn
  <2>3. \A k \in K : [j \in K |-> rows[j]["taxable"]][k] = Taxables(rows)[k]
    BY <1>3 DEF Taxables
  <2> QED
    BY <1>2, <2>2, <2>3, SumSame
<1>5. GstOf(rows, K) = Sum(Gsts(rows), K)
  <2>1. GstOf(rows, K) = MapThenSumSet(LAMBDA k : rows[k]["gst"], K)
    BY DEF GstOf
  <2>2. GstOf(rows, K) = Sum([k \in K |-> rows[k]["gst"]], K)
    BY <1>2, <2>1, SumOfColumn
  <2>3. \A k \in K : [j \in K |-> rows[j]["gst"]][k] = Gsts(rows)[k]
    BY <1>3 DEF Gsts
  <2> QED
    BY <1>2, <2>2, <2>3, SumSame
<1>6. \A k \in K : Taxables(rows)[k] \in Nat /\ Gsts(rows)[k] \in Nat
  BY DEF AreLines, Taxables, Gsts
<1> QED
  BY <1>2, <1>4, <1>5, <1>6, SumIsNat

\* A row stands for the lines of its key.
LEMMA RowsAre ==
  ASSUME NEW rows, NEW n, AreLines(rows, n), NEW j \in 1 .. n, NEW k \in 1 .. n
  PROVE  (RowOf(rows, j) = RowOf(rows, k)) <=> (SummaryKey(rows[j]) = SummaryKey(rows[k]))
<1>1. DOMAIN rows = 1 .. n /\ n \in Nat
  BY DEF AreLines
<1>2. ASSUME SummaryKey(rows[j]) = SummaryKey(rows[k])
      PROVE  RowOf(rows, j) = RowOf(rows, k)
  <2>1. Like(rows, j) = Like(rows, k)
    BY <1>2 DEF Like
  <2>2. rows[j].rate = rows[k].rate
    BY <1>2 DEF SummaryKey
  <2> QED
    BY <2>1, <2>2 DEF RowOf
<1>3. ASSUME RowOf(rows, j) = RowOf(rows, k)
      PROVE  SummaryKey(rows[j]) = SummaryKey(rows[k])
  <2>1. Min(Like(rows, j)) = Min(Like(rows, k))
    BY <1>3 DEF RowOf
  <2>2. /\ Like(rows, j) \in SUBSET (1 .. n) /\ j \in Like(rows, j)
        /\ Like(rows, k) \in SUBSET (1 .. n) /\ k \in Like(rows, k)
    BY <1>1 DEF Like
  <2>3. Min(Like(rows, j)) \in Like(rows, j) /\ Min(Like(rows, k)) \in Like(rows, k)
    BY <1>1, <2>2, MinIn
  <2> QED
    BY <2>1, <2>3 DEF Like
<1> QED
  BY <1>2, <1>3

\* The figures of the row of line k.
RowFigures(rows, interstate, k) ==
  [row |-> RowOf(rows, k), parts |-> GstComponents(RowOf(rows, k).gst, interstate)]

LEMMA SummaryIs ==
  ASSUME NEW rows, NEW n, AreLines(rows, n), NEW interstate \in BOOLEAN
  PROVE  Figures(rows, interstate).summary = {RowFigures(rows, interstate, k) : k \in 1 .. n}
<1>1. TaxSummary(rows) = {RowOf(rows, k) : k \in 1 .. n}
  BY DEF AreLines, TaxSummary, RowOf, Like
<1> QED
  BY <1>1 DEF Figures, RowFigures

\* The lines that a row of the summary stands for.
PartsOf(rows, summary) == [s \in summary |-> {k \in DOMAIN rows : RowOf(rows, k) = s.row}]

\* The summary has a row for each key, and the rows part the rows.
PartsAreRight(rows, n, interstate, summary) ==
  LET part == PartsOf(rows, summary) IN
  /\ IsFiniteSet(summary)
  /\ Cardinality(summary) = Cardinality({SummaryKey(rows[k]) : k \in DOMAIN rows})
  /\ part \in [summary -> SUBSET (1 .. n)]
  /\ \A k \in 1 .. n : \E s \in summary : k \in part[s]
  /\ \A s, t \in summary : s # t => part[s] \cap part[t] = {}
  /\ \A s \in summary : /\ s.row.taxable = TaxableOf(rows, part[s])
                        /\ s.row.gst = GstOf(rows, part[s])
                        /\ s.parts = GstComponents(s.row.gst, interstate)

LEMMA SummaryParts ==
  ASSUME NEW rows, NEW n, AreLines(rows, n), NEW interstate \in BOOLEAN,
         NEW summary, summary = Figures(rows, interstate).summary
  PROVE  PartsAreRight(rows, n, interstate, summary)
<1> DEFINE part    == PartsOf(rows, summary)
           keys    == {SummaryKey(rows[k]) : k \in DOMAIN rows}
           Item(k) == RowFigures(rows, interstate, k)
<1>1. summary = {Item(k) : k \in 1 .. n}
  BY SummaryIs
<1>2. DOMAIN rows = 1 .. n /\ n \in Nat
  BY DEF AreLines
<1>3. \A k \in 1 .. n : /\ Item(k).row = RowOf(rows, k)
                        /\ Item(k).parts = GstComponents(Item(k).row.gst, interstate)
  BY DEF RowFigures
<1>4. \A j, k \in 1 .. n : Item(j) = Item(k) <=> SummaryKey(rows[j]) = SummaryKey(rows[k])
  <2>1. \A j, k \in 1 .. n : Item(j) = Item(k) <=> RowOf(rows, j) = RowOf(rows, k)
    BY DEF RowFigures
  <2> QED
    BY <2>1, RowsAre
<1>5. IsFiniteSet(1 .. n)
  <2>1. 1 \in Int /\ n \in Int
    BY <1>2
  <2> QED
    BY <2>1, FS_Interval
<1>6. IsFiniteSet(keys)
  <2> DEFINE f == [k \in 1 .. n |-> SummaryKey(rows[k])]
  <2>1. f \in Surjection(1 .. n, keys)
    BY <1>2 DEF Surjection
  <2> HIDE DEF f, keys
  <2> QED
    BY <1>5, <2>1, FS_Surjection
<1>7. IsFiniteSet(summary) /\ Cardinality(summary) = Cardinality(keys)
  <2> DEFINE At(c) == CHOOSE k \in 1 .. n : SummaryKey(rows[k]) = c
             f     == [c \in keys |-> Item(At(c))]
  <2>1. \A c \in keys : At(c) \in 1 .. n /\ SummaryKey(rows[At(c)]) = c
    BY <1>2
  <2> HIDE DEF At, Item
  <2>2. f \in [keys -> summary]
    BY <1>1, <2>1
  <2>3. \A c, e \in keys : f[c] = f[e] => c = e
    BY <1>4, <2>1
  <2>4. \A s \in summary : \E c \in keys : f[c] = s
    <3> TAKE s \in summary
    <3>1. PICK k \in 1 .. n : s = Item(k)
      BY <1>1
    <3>2. SummaryKey(rows[k]) \in keys
      BY <1>2
    <3>3. Item(At(SummaryKey(rows[k]))) = Item(k)
      BY <1>4, <2>1, <3>2
    <3> QED
      BY <3>1, <3>2, <3>3
  <2>5. f \in Bijection(keys, summary)
    BY <2>2, <2>3, <2>4 DEF Bijection, Injection, Surjection, IsInjective
  <2>6. ExistsBijection(keys, summary)
    BY <2>5 DEF ExistsBijection
  <2> QED
    BY <1>6, <2>6, FS_Bijection
<1>8. part \in [summary -> SUBSET (1 .. n)]
  BY <1>2 DEF PartsOf
<1>9. \A k \in 1 .. n : \E s \in summary : k \in part[s]
  <2> HIDE DEF Item
  <2> QED
    BY <1>1, <1>2, <1>3 DEF PartsOf
<1>10. \A s, t \in summary : s # t => part[s] \cap part[t] = {}
  <2> SUFFICES ASSUME NEW s \in summary, NEW t \in summary, NEW k \in 1 .. n,
                      RowOf(rows, k) = s.row, RowOf(rows, k) = t.row
               PROVE  s = t
    BY <1>2 DEF PartsOf
  <2>1. PICK a \in 1 .. n : s = Item(a)
    BY <1>1
  <2>2. PICK b \in 1 .. n : t = Item(b)
    BY <1>1
  <2> QED
    BY <1>3, <2>1, <2>2 DEF RowFigures
<1>11. ASSUME NEW s \in summary
       PROVE  /\ s.row.taxable = TaxableOf(rows, part[s])
              /\ s.row.gst = GstOf(rows, part[s])
              /\ s.parts = GstComponents(s.row.gst, interstate)
  <2>1. PICK k \in 1 .. n : s = Item(k)
    BY <1>1, <1>11
  <2>2. s.row = RowOf(rows, k) /\ s.parts = GstComponents(s.row.gst, interstate)
    BY <1>3, <2>1
  <2>3. part[s] = Like(rows, k)
    <3>1. part[s] = {j \in 1 .. n : RowOf(rows, j) = RowOf(rows, k)}
      BY <1>2, <1>11, <2>2 DEF PartsOf
    <3> QED
      BY <1>2, <3>1, RowsAre DEF Like
  <2> HIDE DEF Item
  <2> QED
    BY <2>2, <2>3 DEF RowOf
<1> QED
  BY <1>7, <1>8, <1>9, <1>10, <1>11 DEF PartsAreRight

\* The columns of the summary are added up as they stand.
LEMMA CellsAre ==
  ASSUME NEW S, IsFiniteSet(S)
  PROVE  /\ MapThenSumSet(LAMBDA s : s.row.taxable, S) = Sum([s \in S |-> s.row.taxable], S)
         /\ MapThenSumSet(LAMBDA s : s.row.gst, S) = Sum([s \in S |-> s.row.gst], S)
         /\ MapThenSumSet(LAMBDA s : s.parts.cgst, S) = Sum([s \in S |-> s.parts.cgst], S)
<1>1. MapThenSumSet(LAMBDA s : s["row"]["taxable"], S) = Sum([s \in S |-> s["row"]["taxable"]], S)
  BY SumOfCells
<1>2. MapThenSumSet(LAMBDA s : s["row"]["gst"], S) = Sum([s \in S |-> s["row"]["gst"]], S)
  BY SumOfCells
<1>3. MapThenSumSet(LAMBDA s : s["parts"]["cgst"], S) = Sum([s \in S |-> s["parts"]["cgst"]], S)
  BY SumOfCells
<1> QED
  BY <1>1, <1>2, <1>3

\* What the total row adds up is what the invoice adds up, and its CGST is near the column's.
LEMMA TotalRowIs ==
  ASSUME NEW rows, NEW n, AreLines(rows, n), NEW interstate \in BOOLEAN,
         NEW summary, summary = Figures(rows, interstate).summary,
         NEW total, total = TotalRow(summary, interstate)
  PROVE  /\ total.taxable = Totals(rows).taxable /\ total.taxable \in Nat
         /\ total.tax = Totals(rows).tax /\ total.tax \in Nat
         /\ Split(total.parts) = total.tax
         /\ 2 * (MapThenSumSet(LAMBDA s : s.parts.cgst, summary) - total.parts.cgst)
              \in -1 .. Cardinality(summary) + 1
<1> DEFINE part     == PartsOf(rows, summary)
           D        == 1 .. n
           taxables == [s \in summary |-> s.row.taxable]
           taxes    == [s \in summary |-> s.row.gst]
           cgsts    == [s \in summary |-> s.parts.cgst]
           taxable  == Sum(taxables, summary)
           tax      == Sum(taxes, summary)
           cgst     == Sum(cgsts, summary)
<1>1. /\ IsFiniteSet(summary)
      /\ part \in [summary -> SUBSET D]
      /\ \A k \in D : \E s \in summary : k \in part[s]
      /\ \A s, t \in summary : s # t => part[s] \cap part[t] = {}
      /\ \A s \in summary : /\ s.row.taxable = TaxableOf(rows, part[s])
                            /\ s.row.gst = GstOf(rows, part[s])
                            /\ s.parts = GstComponents(s.row.gst, interstate)
  <2> HIDE DEF taxables, taxes, cgsts
  <2>1. PartsAreRight(rows, n, interstate, summary)
    BY SummaryParts, Zenon
  <2> QED
    BY <2>1 DEF PartsAreRight
<1>2. /\ MapThenSumSet(LAMBDA s : s.row.taxable, summary) = taxable
      /\ MapThenSumSet(LAMBDA s : s.row.gst, summary) = tax
      /\ MapThenSumSet(LAMBDA s : s.parts.cgst, summary) = cgst
  BY <1>1, CellsAre
<1>3. D \in SUBSET (1 .. n) /\ DOMAIN rows = D /\ IsFiniteSet(D)
  <2>1. D \in SUBSET (1 .. n) /\ DOMAIN rows = D
    BY DEF AreLines
  <2> QED
    BY <2>1, ColumnsAre
<1>4. \A k \in D : Taxables(rows)[k] \in Nat /\ Gsts(rows)[k] \in Nat
  BY <1>3 DEF AreLines, Taxables, Gsts
<1>5. \A K \in SUBSET D : /\ TaxableOf(rows, K) = Sum(Taxables(rows), K)
                          /\ TaxableOf(rows, K) \in Nat
                          /\ GstOf(rows, K) = Sum(Gsts(rows), K)
                          /\ GstOf(rows, K) \in Nat
  BY ColumnsAre
<1> HIDE DEF part, D
<1>6. /\ \A s \in summary : taxables[s] = Sum(Taxables(rows), part[s]) /\ taxables[s] \in Nat
      /\ \A s \in summary : taxes[s] = Sum(Gsts(rows), part[s]) /\ taxes[s] \in Nat
  BY <1>1, <1>5
<1> HIDE DEF taxables, taxes
<1>7. taxable = Totals(rows).taxable /\ taxable \in Nat
  <2> DEFINE f == Taxables(rows)
  <2>1. /\ \A k \in D : f[k] \in Int
        /\ \A s \in summary : taxables[s] = Sum(f, part[s])
    BY <1>4, <1>6
  <2>a. /\ IsFiniteSet(D) /\ IsFiniteSet(summary) /\ part \in [summary -> SUBSET D]
        /\ \A k \in D : \E s \in summary : k \in part[s]
        /\ \A s, t \in summary : s # t => part[s] \cap part[t] = {}
    BY <1>1, <1>3
  <2> HIDE DEF f
  <2>2. taxable = Sum(f, D)
    BY <2>1, <2>a, SumOfParts
  <2>3. Totals(rows).taxable = TaxableOf(rows, D)
    BY <1>3 DEF Totals
  <2>4. taxable = TaxableOf(rows, D) /\ TaxableOf(rows, D) \in Nat
    BY <1>5, <2>2 DEF f
  <2> QED
    BY <2>3, <2>4
<1>8. tax = Totals(rows).tax /\ tax \in Nat
  <2> DEFINE f == Gsts(rows)
  <2>1. /\ \A k \in D : f[k] \in Int
        /\ \A s \in summary : taxes[s] = Sum(f, part[s])
    BY <1>4, <1>6
  <2>a. /\ IsFiniteSet(D) /\ IsFiniteSet(summary) /\ part \in [summary -> SUBSET D]
        /\ \A k \in D : \E s \in summary : k \in part[s]
        /\ \A s, t \in summary : s # t => part[s] \cap part[t] = {}
    BY <1>1, <1>3
  <2> HIDE DEF f
  <2>2. tax = Sum(f, D)
    BY <2>1, <2>a, SumOfParts
  <2>3. Totals(rows).tax = GstOf(rows, D)
    BY <1>3 DEF Totals
  <2>4. tax = GstOf(rows, D) /\ GstOf(rows, D) \in Nat
    BY <1>5, <2>2 DEF f
  <2> QED
    BY <2>3, <2>4
<1>9. /\ total.taxable = taxable /\ total.tax = tax
      /\ total.parts = IF interstate THEN [cgst |-> 0, sgst |-> 0, igst |-> tax]
                       ELSE [cgst |-> HalfEven(tax, 2), sgst |-> tax - HalfEven(tax, 2), igst |-> 0]
  BY <1>2 DEF TotalRow
<1>10. \A s \in summary : /\ cgsts[s] \in Nat
                          /\ interstate => cgsts[s] = 0
                          /\ ~interstate => 2 * cgsts[s] - taxes[s] \in {0, 1}
  <2> TAKE s \in summary
  <2>1. taxes[s] = s.row.gst /\ s.row.gst \in Nat /\ cgsts[s] = s.parts.cgst
    BY <1>1, <1>5, <1>6 DEF taxes
  <2>2. s.parts = GstComponents(s.row.gst, interstate)
    BY <1>1
  <2> HIDE DEF cgsts
  <2> QED
    BY <2>1, <2>2, SplitIsRight
<1> HIDE DEF cgsts
<1>11. HalfEven(tax, 2) \in Nat /\ 2 * HalfEven(tax, 2) - tax \in {-1, 0, 1}
  BY <1>8, HalfIsClose
<1>12. Split(total.parts) = tax
  <2> HIDE DEF tax
  <2> QED
    BY <1>8, <1>9, <1>11 DEF Split
<1>13. 2 * (cgst - total.parts.cgst) \in -1 .. Cardinality(summary) + 1
  <2>1. Cardinality(summary) \in Nat
    BY <1>1, FS_CardinalityType
  <2>2. CASE interstate
    <3>1. cgst = 0
      <4>1. IsFiniteSet(summary) /\ \A s \in summary : cgsts[s] = 0
        BY <1>1, <1>10, <2>2
      <4> QED
        BY <4>1, SumOfZeros
    <3>2. total.parts.cgst = 0
      BY <1>9, <2>2
    <3> QED
      BY <2>1, <3>1, <3>2
  <2>3. CASE ~interstate
    <3>1. \A s \in summary : /\ cgsts[s] \in Int /\ taxes[s] \in Int
                             /\ 2 * cgsts[s] - taxes[s] \in {0, 1}
      BY <1>6, <1>10, <2>3
    <3>2. 2 * cgst - tax \in 0 .. Cardinality(summary)
      BY <1>1, <3>1, SumOfHalves
    <3>3. total.parts.cgst = HalfEven(tax, 2)
      BY <1>9, <2>3
    <3>4. cgst \in Int
      BY <1>1, <3>1, SumIsInt
    <3> HIDE DEF cgst, tax
    <3> QED
      BY <1>8, <1>11, <2>1, <3>2, <3>3, <3>4
  <2> QED
    BY <2>2, <2>3
<1>14. MapThenSumSet(LAMBDA s : s.parts.cgst, summary) = cgst
  BY <1>2
<1> QED
  BY <1>7, <1>8, <1>9, <1>12, <1>13, <1>14

LEMMA PageIsRight ==
  ASSUME NEW rows, NEW n, AreLines(rows, n), NEW interstate \in BOOLEAN
  PROVE  Agree(rows, Page(rows, interstate))
<1> DEFINE page    == Page(rows, interstate)
           figures == Figures(rows, interstate)
           summary == figures.summary
           total   == TotalRow(summary, interstate)
<1>1. page.figures = figures /\ page.grand = Totals(rows).grand /\ page.total = total
  BY DEF Page
<1>2. \A k \in DOMAIN rows : SplitsSumBack(rows[k].gst, figures.lines[k])
  <2> TAKE k \in DOMAIN rows
  <2>1. rows[k].gst \in Nat
    BY DEF AreLines
  <2>2. figures.lines[k] = GstComponents(rows[k].gst, interstate)
    BY DEF Figures
  <2> QED
    BY <2>1, <2>2, SplitIsRight
<1>3. \A s \in summary : SplitsSumBack(s.row.gst, s.parts)
  <2> DEFINE part == PartsOf(rows, summary)
  <2> TAKE s \in summary
  <2>1. /\ part[s] \in SUBSET (1 .. n)
        /\ s.row.gst = GstOf(rows, part[s])
        /\ s.parts = GstComponents(s.row.gst, interstate)
    <3>1. PartsAreRight(rows, n, interstate, summary)
      BY SummaryParts, Zenon
    <3> QED
      BY <3>1 DEF PartsAreRight
  <2>2. GstOf(rows, part[s]) \in Nat
    BY <2>1, ColumnsAre
  <2> HIDE DEF part, summary
  <2> QED
    BY <2>1, <2>2, SplitIsRight
<1>4. Cardinality(summary) = Cardinality({SummaryKey(rows[k]) : k \in DOMAIN rows})
  <2>1. PartsAreRight(rows, n, interstate, summary)
    BY SummaryParts, Zenon
  <2> QED
    BY <2>1 DEF PartsAreRight
<1>5. /\ total.taxable = Totals(rows).taxable /\ total.taxable \in Nat
      /\ total.tax = Totals(rows).tax /\ total.tax \in Nat
      /\ Split(total.parts) = total.tax
      /\ 2 * (MapThenSumSet(LAMBDA s : s.parts.cgst, summary) - total.parts.cgst)
           \in -1 .. Cardinality(summary) + 1
  BY TotalRowIs
<1>6. Totals(rows).grand = Totals(rows).taxable + Totals(rows).tax
  BY DEF Totals
<1>7. ColumnIsClose(page)
  BY <1>1, <1>5 DEF ColumnIsClose
<1> HIDE DEF page, figures, total
<1>8. Agree(rows, page)
  <2>1. \A k \in DOMAIN rows : SplitsSumBack(rows[k].gst, page.figures.lines[k])
    BY <1>1, <1>2
  <2>2. /\ \A s \in page.figures.summary : SplitsSumBack(s.row.gst, s.parts)
        /\ Cardinality(page.figures.summary)
             = Cardinality({SummaryKey(rows[k]) : k \in DOMAIN rows})
    BY <1>1, <1>3, <1>4
  <2>3. page.total.taxable = Totals(rows).taxable /\ page.total.tax = Totals(rows).tax
    BY <1>1, <1>5
  <2>4. page.total.taxable + Split(page.total.parts) = page.grand
    BY <1>1, <1>5, <1>6
  <2> QED
    BY <1>7, <2>1, <2>2, <2>3, <2>4 DEF Agree
<1> QED
  BY <1>8 DEF page

\* The figures of a page agree, for any number of lines of any quantities, prices and rates:
\* what _tax_summary and the total row of the page add up is what the invoice adds up.
THEOREM PagesAreRight == PagesAgree
<1> SUFFICES ASSUME NEW inputs \in InputLists, NEW interstate \in BOOLEAN
             PROVE  Agree(Lines(inputs), Page(Lines(inputs), interstate))
  BY DEF PagesAgree
<1>1. PICK n \in 1 .. MaxLines : inputs \in [1 .. n -> Inputs]
  BY DEF InputLists
<1>2. \A in \in Inputs : Line(in).taxable \in Nat /\ Line(in).gst \in Nat
  <2>1. \A m \in Nat : HalfUp(m, 100000) \in Nat /\ HalfUp(m, 10000) \in Nat
    BY DEF HalfUp
  <2>2. \A a, b \in Nat : a * b \in Nat
    OBVIOUS
  <2> TAKE in \in Inputs
  <2> DEFINE taxable == HalfUp(in.quantity * in.price, 100000)
  <2>3. in.quantity \in Nat /\ in.price \in Nat /\ in.rate \in Nat
    BY InputAssumption
  <2>4. taxable \in Nat
    BY <2>1, <2>2, <2>3
  <2>5. Line(in).taxable = taxable /\ Line(in).gst = HalfUp(taxable * in.rate, 10000)
    BY DEF Line
  <2> HIDE DEF taxable
  <2> QED
    BY <2>1, <2>2, <2>3, <2>4, <2>5
<1>3. AreLines(Lines(inputs), n)
  BY <1>1, <1>2 DEF AreLines, Lines
<1> QED
  BY <1>3, PageIsRight
-----------------------------------------------------------------------------
(* Amounts in words: what is read of a number grows with each group by what  *)
(* the group stands for.                                                    *)

Units == {100, 1000, Lakh, Crore}

\* Of Reading: the small words before word k, the units, and the value of all groups.
Before(words, k) ==
  {j \in 1 .. k - 1 : words[j] \notin Units /\ \A i \in j .. k - 1 : words[i] \notin Units}
Ends(words)   == {k \in DOMAIN words : words[k] \in Units}
GroupAt(words) == [k \in Ends(words) |-> words[k] * Sum(words, Before(words, k))]
GroupsOf(words) == Sum(GroupAt(words), Ends(words))


LEMMA GroupsAre ==
  ASSUME NEW words, IsFiniteSet(Ends(words))
  PROVE  MapThenSumSet(LAMBDA k : words[k] * Sum(words, Before(words, k)), Ends(words))
           = GroupsOf(words)
<1> DEFINE S     == Ends(words)
           e(k)  == words[k] * Sum(words, Before(words, k))
           h     == [k \in S |-> e(k)]
           Eq(g) == g = [s \in SUBSET S |-> IF s = {} THEN 0 ELSE e(Pick(s)) + g[s \ {Pick(s)}]]
           F     == CHOOSE g : Eq(g)
<1>1. MapThenSumSet(LAMBDA k : words[k] * Sum(words, Before(words, k)), S) = F[S]
  BY DEF MapThenSumSet, MapThenFoldSet, Pick
<1>2. \A s \in SUBSET S : s # {} => h[Pick(s)] = e(Pick(s))
  <2> HIDE DEF e, S
  <2> QED
    BY PickIn
<1>3. h = GroupAt(words)
  BY DEF GroupAt
<1>4. IsFiniteSet(S)
  OBVIOUS
<1> HIDE DEF h, e, S
<1>5. \A g : Eq(g) <=> Unfolds(g, h, S)
  BY <1>2 DEF Unfolds
<1> HIDE DEF Eq
<1>6. Eq(F)
  BY <1>4, <1>5, UnfoldsExist
<1> HIDE DEF F
<1>7. F[S] = Sum(h, S)
  BY <1>4, <1>5, <1>6, UnfoldsToSum
<1> QED
  BY <1>1, <1>3, <1>7 DEF GroupsOf, S


LEMMA ReadingIs ==
  ASSUME NEW words \in Seq(Nat)
  PROVE  /\ Reading(words) = GroupsOf(words) + Sum(words, Before(words, Len(words) + 1))
         /\ IsFiniteSet(Ends(words))
<1>1. IsFiniteSet(Ends(words))
  <2>1. Len(words) \in Int /\ 1 \in Int /\ DOMAIN words = 1 .. Len(words)
    OBVIOUS
  <2>2. IsFiniteSet(DOMAIN words)
    BY <2>1, FS_Interval
  <2>3. Ends(words) \subseteq DOMAIN words
    BY DEF Ends
  <2> QED
    BY <2>2, <2>3, FS_Subset
<1>2. Reading(words) = MapThenSumSet(LAMBDA k : words[k] * Sum(words, Before(words, k)), Ends(words))
                         + Sum(words, Before(words, Len(words) + 1))
  BY DEF Reading, Units, Before, Ends, Sum
<1> QED
  BY <1>1, <1>2, GroupsAre

\* The words of one group: its number, in one word or two that are no units.
LEMMA DigitsSay ==
  ASSUME NEW n \in 1 .. 99
  PROVE  /\ TwoDigits(n) \in Seq(Nat)
         /\ \A i \in 1 .. Len(TwoDigits(n)) : TwoDigits(n)[i] \notin Units
         /\ \/ Len(TwoDigits(n)) = 1 /\ TwoDigits(n)[1] = n
            \/ Len(TwoDigits(n)) = 2 /\ TwoDigits(n)[1] + TwoDigits(n)[2] = n
<1>1. CASE n < 20 \/ n % 10 = 0
  BY <1>1 DEF TwoDigits, Units, Lakh, Crore
<1>2. CASE ~ (n < 20 \/ n % 10 = 0)
  <2> DEFINE r == n % 10
  <2>1. r \in 0 .. 9
    OBVIOUS
  <2>2. TwoDigits(n) = <<n - r, r>>
    BY <1>2 DEF TwoDigits
  <2> HIDE DEF r
  <2>3. n - r \in 0 .. 99 /\ r \in 0 .. 99
    BY <1>2, <2>1
  <2> QED
    BY <2>1, <2>2, <2>3 DEF Units, Lakh, Crore
<1> QED
  BY <1>1, <1>2

\* Nothing, or words that end in a unit: what follows is a group of its own.
Whole(w) == w # <<>> => w[Len(w)] \in Units

LEMMA SumOfOne ==
  ASSUME NEW f, NEW x, f[x] \in Int
  PROVE  Sum(f, {x}) = f[x]
<1>1. IsFiniteSet({x}) /\ {x} \ {x} = {}
  BY FS_Singleton
<1>2. Sum(f, {x}) = f[x] + Sum(f, {x} \ {x})
  BY <1>1, SumTakeOut
<1> QED
  BY <1>1, <1>2, SumOfNothing

LEMMA SumOfTwo ==
  ASSUME NEW f, NEW x, NEW y, x # y, f[x] \in Int, f[y] \in Int
  PROVE  Sum(f, {x, y}) = f[x] + f[y]
<1>1. IsFiniteSet({x, y}) /\ {x, y} \ {x} = {y}
  <2>1. {x} \cup {y} = {x, y} /\ {x, y} \ {x} = {y}
    OBVIOUS
  <2>2. IsFiniteSet({x} \cup {y})
    BY FS_Singleton, FS_Union
  <2> QED
    BY <2>1, <2>2
<1>2. \A z \in {x, y} : f[z] \in Int
  OBVIOUS
<1>3. Sum(f, {x, y}) = f[x] + Sum(f, {x, y} \ {x})
  BY <1>1, <1>2, SumTakeOut
<1> QED
  BY <1>1, <1>3, SumOfOne

LEMMA DigitsBefore ==
  ASSUME NEW w \in Seq(Nat), Whole(w), NEW n \in 1 .. 99, NEW v \in Seq(Nat),
         \A i \in 1 .. Len(w) : v[i] = w[i],
         \A i \in 1 .. Len(TwoDigits(n)) : v[Len(w) + i] = TwoDigits(n)[i]
  PROVE  Sum(v, Before(v, Len(w) + Len(TwoDigits(n)) + 1)) = n
<1> DEFINE d == TwoDigits(n)
           L == Len(w)
           m == Len(d)
<1>1. /\ d \in Seq(Nat) /\ \A i \in 1 .. m : d[i] \notin Units
      /\ \/ m = 1 /\ d[1] = n
         \/ m = 2 /\ d[1] + d[2] = n
  BY DigitsSay
<1>2. L \in Nat /\ (L > 0 => v[L] \in Units)
  BY DEF Whole
<1>3. \A i \in 1 .. m : v[L + i] = d[i]
  OBVIOUS
<1> HIDE DEF d, L, m
<1>4. Before(v, L + m + 1) = (L + 1) .. (L + m)
  <2>1. m \in {1, 2}
    BY <1>1
  <2>2. \A i \in (L + 1) .. (L + m) : v[i] \notin Units
    <3> TAKE i \in (L + 1) .. (L + m)
    <3>1. i - L \in 1 .. m /\ i = L + (i - L)
      BY <1>2, <2>1
    <3>2. v[L + (i - L)] = d[i - L] /\ d[i - L] \notin Units
      BY <1>1, <1>3, <3>1
    <3> QED
      BY <3>1, <3>2
  <2>3. \A j \in 1 .. L : L \in j .. L + m
    BY <1>2, <2>1
  <2>4. (L + m + 1) - 1 = L + m
    BY <1>2, <2>1
  <2>5. \A j \in 1 .. L + m : j \notin 1 .. L => j \in (L + 1) .. (L + m) /\ \A i \in j .. L + m : i \in (L + 1) .. (L + m)
    BY <1>2, <2>1
  <2>6. \A j \in 1 .. L : j \notin (L + 1) .. (L + m) /\ L > 0
    BY <1>2, <2>1
  <2>7. (L + 1) .. (L + m) \subseteq 1 .. L + m
    BY <1>2, <2>1
  <2>8. Before(v, L + m + 1)
          = {j \in 1 .. L + m : v[j] \notin Units /\ \A i \in j .. L + m : v[i] \notin Units}
    BY <2>4 DEF Before
  <2> QED
    BY <1>2, <2>2, <2>3, <2>5, <2>6, <2>7, <2>8
<1>5. CASE m = 1
  <2>1. (L + 1) .. (L + m) = {L + 1}
    BY <1>2, <1>5
  <2>2. v[L + 1] = n /\ n \in Int
    BY <1>1, <1>3, <1>5
  <2>3. Sum(v, {L + 1}) = v[L + 1]
    BY <2>2, SumOfOne
  <2>4. Sum(v, Before(v, L + m + 1)) = n
    BY <1>4, <2>1, <2>2, <2>3
  <2> QED
    BY <2>4 DEF L, m, d
<1>6. CASE m = 2
  <2>1. (L + 1) .. (L + m) = {L + 1, L + 2} /\ L + 1 # L + 2
    BY <1>2, <1>6
  <2>2. v[L + 1] = d[1] /\ v[L + 2] = d[2]
    BY <1>3, <1>6
  <2>3. d[1] \in Int /\ d[2] \in Int
    <3>1. \A i \in 1 .. Len(d) : d[i] \in Nat
      <4>1. d \in Seq(Nat)
        BY <1>1
      <4> QED
        BY <4>1
    <3>2. Len(d) = 2
      BY <1>6 DEF m
    <3> QED
      BY <3>1, <3>2
  <2>4. d[1] + d[2] = n
    BY <1>1, <1>6
  <2>5. Sum(v, {L + 1, L + 2}) = v[L + 1] + v[L + 2]
    <3>1. v[L + 1] \in Int /\ v[L + 2] \in Int
      BY <2>2, <2>3
    <3> DEFINE x == L + 1
               y == L + 2
    <3>2. x # y /\ v[x] \in Int /\ v[y] \in Int
      BY <2>1, <3>1
    <3> HIDE DEF x, y
    <3>3. Sum(v, {x, y}) = v[x] + v[y]
      BY <3>2, SumOfTwo
    <3> QED
      BY <3>3 DEF x, y
  <2>6. Sum(v, Before(v, L + m + 1)) = n
    BY <1>4, <2>1, <2>2, <2>4, <2>5
  <2> QED
    BY <2>6 DEF L, m, d
<1> QED
  BY <1>1, <1>5, <1>6

LEMMA GroupTypes ==
  ASSUME NEW words \in Seq(Nat)
  PROVE  /\ IsFiniteSet(Ends(words)) /\ Ends(words) \subseteq 1 .. Len(words)
         /\ \A k \in Nat : k <= Len(words) + 1 => Sum(words, Before(words, k)) \in Nat
         /\ \A k \in Ends(words) : GroupAt(words)[k] \in Nat
         /\ GroupsOf(words) \in Nat
<1>1. IsFiniteSet(Ends(words)) /\ Ends(words) \subseteq 1 .. Len(words)
  <2>1. DOMAIN words = 1 .. Len(words)
    OBVIOUS
  <2> QED
    BY <2>1, ReadingIs DEF Ends
<1>2. ASSUME NEW k \in Nat, k <= Len(words) + 1
      PROVE  Sum(words, Before(words, k)) \in Nat
  <2>1. k - 1 \in Int /\ 1 \in Int
    OBVIOUS
  <2>2. IsFiniteSet(1 .. k - 1)
    BY <2>1, FS_Interval
  <2>3. Before(words, k) \subseteq 1 .. k - 1
    BY DEF Before
  <2>4. \A j \in Before(words, k) : words[j] \in Nat
    BY <1>2, <2>3
  <2> QED
    BY <2>2, <2>3, <2>4, FS_Subset, SumIsNat
<1>3. ASSUME NEW k \in Ends(words)
      PROVE  GroupAt(words)[k] \in Nat
  <2>1. k \in Nat /\ k <= Len(words) + 1 /\ words[k] \in Nat
    BY <1>1
  <2>2. Sum(words, Before(words, k)) \in Nat
    BY <1>2, <2>1
  <2>3. GroupAt(words)[k] = words[k] * Sum(words, Before(words, k))
    BY DEF GroupAt
  <2>4. \A a, b \in Nat : a * b \in Nat
    OBVIOUS
  <2> QED
    BY <2>1, <2>2, <2>3, <2>4
<1>4. GroupsOf(words) \in Nat
  BY <1>1, <1>3, SumIsNat DEF GroupsOf
<1> QED
  BY <1>1, <1>2, <1>3, <1>4

\* Words that follow leave what the groups say alone.
LEMMA GroupsStay ==
  ASSUME NEW w \in Seq(Nat), NEW v \in Seq(Nat), Len(w) <= Len(v),
         \A i \in 1 .. Len(w) : v[i] = w[i], Ends(w) \subseteq Ends(v)
  PROVE  \A k \in Ends(w) : GroupAt(v)[k] = GroupAt(w)[k]
<1> SUFFICES ASSUME NEW k \in Ends(w) PROVE GroupAt(v)[k] = GroupAt(w)[k]
  OBVIOUS
<1>1. k \in 1 .. Len(w)
  BY GroupTypes
<1>2. \A i \in 1 .. k - 1 : v[i] = w[i]
  BY <1>1
<1>3. \A j \in 1 .. k - 1 : \A i \in j .. k - 1 : i \in 1 .. k - 1
  BY <1>1
<1>4. Before(v, k) = Before(w, k)
  BY <1>2, <1>3 DEF Before
<1>5. IsFiniteSet(Before(w, k)) /\ \A j \in Before(w, k) : w[j] = v[j]
  <2>1. k - 1 \in Int /\ 1 \in Int
    BY <1>1
  <2>2. IsFiniteSet(1 .. k - 1)
    BY <2>1, FS_Interval
  <2>3. Before(w, k) \subseteq 1 .. k - 1
    BY DEF Before
  <2> QED
    BY <1>2, <2>2, <2>3, FS_Subset
<1>6. Sum(w, Before(w, k)) = Sum(v, Before(w, k))
  BY <1>5, SumSame
<1> QED
  BY <1>1, <1>4, <1>6 DEF GroupAt

\* A further group adds what it stands for.
LEMMA GroupAdds ==
  ASSUME NEW w \in Seq(Nat), Whole(w), NEW n \in 0 .. 99, NEW u \in Units
  PROVE  /\ w \o Group(n, u) \in Seq(Nat)
         /\ Whole(w \o Group(n, u))
         /\ GroupsOf(w \o Group(n, u)) = GroupsOf(w) + n * u
<1>0. u \in Nat
  BY DEF Units, Lakh, Crore
<1>1. CASE n = 0
  <2>1. w \o Group(n, u) = w
    BY <1>1 DEF Group
  <2>2. GroupsOf(w) \in Nat /\ n * u = 0
    BY <1>0, <1>1, GroupTypes
  <2> QED
    BY <2>1, <2>2
<1>2. CASE n # 0
  <2> DEFINE d == TwoDigits(n)
             v == w \o Group(n, u)
             L == Len(w)
             m == Len(d)
             e == L + m + 1
  <2>1. n \in 1 .. 99 /\ n \in Nat
    BY <1>2
  <2>2. d \in Seq(Nat) /\ \A i \in 1 .. m : d[i] \notin Units
    BY <2>1, DigitsSay
  <2>3. v = w \o (d \o <<u>>)
    BY <1>2 DEF Group
  <2>4. /\ L \in Nat /\ m \in Nat /\ v \in Seq(Nat) /\ Len(v) = e
        /\ \A i \in 1 .. L : v[i] = w[i]
        /\ \A i \in 1 .. m : v[L + i] = d[i]
        /\ v[e] = u
    <3> DEFINE x == d \o <<u>>
    <3> HIDE DEF d
    <3>1. x \in Seq(Nat) /\ Len(x) = m + 1
      BY <1>0, <2>2
    <3>2. L \in Nat /\ m \in Nat
      BY <2>2
    <3>3. /\ \A i \in 1 .. m : x[i] = d[i]
          /\ x[m + 1] = u
      BY <1>0, <2>2, <3>2
    <3> HIDE DEF x
    <3>4. w \o x \in Seq(Nat) /\ Len(w \o x) = L + (m + 1)
      BY <3>1
    <3>5. /\ \A i \in 1 .. L : (w \o x)[i] = w[i]
          /\ \A i \in 1 .. m + 1 : (w \o x)[L + i] = x[i]
      BY <3>1, <3>2
    <3> QED
      BY <2>3, <3>2, <3>3, <3>4, <3>5 DEF x
  <2>5. Sum(v, Before(v, e)) = n
    BY <2>1, <2>4, DigitsBefore
  <2> HIDE DEF d, v, L, m
  <2>6. Ends(v) = Ends(w) \cup {e} /\ e \notin Ends(w)
    <3>1. DOMAIN v = 1 .. e /\ DOMAIN w = 1 .. L
      BY <2>4 DEF L
    <3>2. \A k \in 1 .. e : k \in 1 .. L \/ k = e \/ (k - L \in 1 .. m /\ k = L + (k - L))
      BY <2>4
    <3>3. \A k \in 1 .. e : k \in 1 .. L \/ k = e \/ v[k] \notin Units
      BY <2>2, <2>4, <3>2
    <3>4. 1 .. L \subseteq 1 .. e /\ e \in 1 .. e /\ e \notin 1 .. L
      BY <2>4
    <3> QED
      BY <2>4, <3>1, <3>3, <3>4 DEF Ends
  <2>7. \A k \in Ends(w) : GroupAt(v)[k] = GroupAt(w)[k]
    <3>1. Len(w) <= Len(v)
      BY <2>4 DEF L
    <3>2. \A i \in 1 .. Len(w) : v[i] = w[i]
      BY <2>4 DEF L
    <3>3. Ends(w) \subseteq Ends(v)
      BY <2>6
    <3>4. v \in Seq(Nat)
      BY <2>4
    <3> QED
      BY <3>1, <3>2, <3>3, <3>4, GroupsStay
  <2>8. GroupAt(v)[e] = u * n
    BY <2>4, <2>5, <2>6 DEF GroupAt
  <2>9. GroupsOf(v) = u * n + GroupsOf(w)
    <3>1. Sum(GroupAt(v), Ends(w) \cup {e}) = GroupAt(v)[e] + Sum(GroupAt(v), Ends(w))
      <4>1. IsFiniteSet(Ends(v)) /\ \A k \in Ends(v) : GroupAt(v)[k] \in Int
        BY <2>4, GroupTypes
      <4>2. Ends(w) \in SUBSET Ends(v) /\ e \in Ends(v) \ Ends(w)
        BY <2>6
      <4> HIDE DEF e
      <4> QED
        BY <4>1, <4>2, SumAddOne
    <3>2. Sum(GroupAt(v), Ends(w)) = Sum(GroupAt(w), Ends(w))
      BY <2>7, GroupTypes, SumSame
    <3> QED
      BY <2>6, <2>8, <3>1, <3>2 DEF GroupsOf
  <2>10. GroupsOf(w) \in Nat
    BY GroupTypes
  <2>11. Whole(v)
    BY <2>4 DEF Whole
  <2>12. u * n + GroupsOf(w) = GroupsOf(w) + n * u
    BY <1>0, <2>1, <2>10
  <2> QED
    BY <2>4, <2>9, <2>11, <2>12 DEF v
<1> QED
  BY <1>1, <1>2

\* The last group has no unit.
LEMMA RestAdds ==
  ASSUME NEW w \in Seq(Nat), Whole(w), NEW n \in 0 .. 99
  PROVE  Reading(w \o TwoDigits(n)) = GroupsOf(w) + n
<1>1. CASE n = 0
  <2>1. w \o TwoDigits(n) = w
    BY <1>1 DEF TwoDigits
  <2>2. Before(w, Len(w) + 1) = {}
    <3>1. \A j \in 1 .. (Len(w) + 1) - 1 : Len(w) \in j .. (Len(w) + 1) - 1 /\ w # <<>>
      OBVIOUS
    <3> QED
      BY <3>1 DEF Before, Whole
  <2>3. Reading(w) = GroupsOf(w) + 0
    BY <2>2, ReadingIs, SumOfNothing
  <2> QED
    BY <1>1, <2>1, <2>3
<1>2. CASE n # 0
  <2> DEFINE d == TwoDigits(n)
             v == w \o d
             L == Len(w)
             m == Len(d)
  <2>1. n \in 1 .. 99
    BY <1>2
  <2>2. d \in Seq(Nat) /\ \A i \in 1 .. m : d[i] \notin Units
    BY <2>1, DigitsSay
  <2>4. /\ L \in Nat /\ m \in Nat /\ v \in Seq(Nat) /\ Len(v) = L + m
        /\ \A i \in 1 .. L : v[i] = w[i]
        /\ \A i \in 1 .. m : v[L + i] = d[i]
    <3> HIDE DEF d
    <3> QED
      BY <2>2
  <2>5. Sum(v, Before(v, Len(v) + 1)) = n
    BY <2>1, <2>4, DigitsBefore
  <2> HIDE DEF d, v, L, m
  <2>6. Ends(v) = Ends(w)
    <3>1. DOMAIN v = 1 .. L + m /\ DOMAIN w = 1 .. L
      BY <2>4 DEF L
    <3>2. \A k \in 1 .. L + m : k \in 1 .. L \/ (k - L \in 1 .. m /\ k = L + (k - L))
      BY <2>4
    <3>3. \A k \in 1 .. L + m : k \in 1 .. L \/ v[k] \notin Units
      BY <2>2, <2>4, <3>2
    <3>4. 1 .. L \subseteq 1 .. L + m
      BY <2>4
    <3> QED
      BY <2>4, <3>1, <3>3, <3>4 DEF Ends
  <2>7. \A k \in Ends(w) : GroupAt(v)[k] = GroupAt(w)[k]
    <3>1. Len(w) <= Len(v)
      BY <2>4 DEF L
    <3>2. \A i \in 1 .. Len(w) : v[i] = w[i]
      BY <2>4 DEF L
    <3>3. Ends(w) \subseteq Ends(v)
      BY <2>6
    <3>4. v \in Seq(Nat)
      BY <2>4
    <3> QED
      BY <3>1, <3>2, <3>3, <3>4, GroupsStay
  <2>8. GroupsOf(v) = GroupsOf(w)
    <3>1. IsFiniteSet(Ends(w))
      BY GroupTypes
    <3>2. Sum(GroupAt(v), Ends(w)) = Sum(GroupAt(w), Ends(w))
      BY <2>7, <3>1, SumSame
    <3> QED
      BY <2>6, <3>2 DEF GroupsOf
  <2> QED
    BY <2>4, <2>5, <2>8, ReadingIs DEF v, d
<1> QED
  BY <1>1, <1>2

\* The five groups of a number make it up.
LEMMA FiveGroups ==
  ASSUME NEW n \in Nat
  PROVE  n = (n \div Crore) * Crore + ((n \div Lakh) % 100) * Lakh
               + ((n \div 1000) % 100) * 1000 + ((n \div 100) % 10) * 100 + (n % 100)
<1> DEFINE a == n \div 100
           b == n \div 1000
           c == n \div Lakh
           e == n \div Crore
<1>1. a \in Nat /\ b \in Nat /\ c \in Nat /\ e \in Nat
  BY DEF Lakh, Crore
<1>2. n = 100 * a + (n % 100)
  OBVIOUS
<1>3. a = 10 * b + (a % 10)
  <2>1. b = a \div 10
    OBVIOUS
  <2> HIDE DEF a, b
  <2> QED
    BY <1>1, <2>1
<1>4. b = 100 * c + (b % 100)
  <2>1. c = b \div 100
    BY DEF Lakh
  <2> HIDE DEF b, c
  <2> QED
    BY <1>1, <2>1
<1>5. c = 100 * e + (c % 100)
  <2>1. e = c \div 100
    BY DEF Lakh, Crore
  <2> HIDE DEF c, e
  <2> QED
    BY <1>1, <2>1
<1> DEFINE p == a % 10
           q == b % 100
           r == c % 100
           z == n % 100
<1>6. p \in Nat /\ q \in Nat /\ r \in Nat /\ z \in Nat
  <2> HIDE DEF a, b, c, e
  <2> QED
    BY <1>1
<1> SUFFICES n = e * Crore + r * Lakh + q * 1000 + p * 100 + z
  OBVIOUS
<1> HIDE DEF a, b, c, e, p, q, r, z
<1>7. n = 100 * a + z /\ a = 10 * b + p /\ b = 100 * c + q /\ c = 100 * e + r
  BY <1>2, <1>3, <1>4, <1>5 DEF p, q, r, z
<1> QED
  BY <1>1, <1>6, <1>7 DEF Lakh, Crore

\* number_to_indian_words says every number below a hundred crore: a reader of the words
\* gets it back.
THEOREM NumberIsRead ==
  ASSUME NEW n \in Nat, Sayable(n)
  PROVE  Reading(NumberWords(n)) = n
<1>1. CASE n = 0
  <2>1. NumberWords(n) = <<0>> /\ <<0>> \in Seq(Nat) /\ Len(<<0>>) = 1
    BY <1>1 DEF NumberWords
  <2>2. 0 \notin Units
    BY DEF Units, Lakh, Crore
  <2>3. Ends(<<0>>) = {}
    BY <2>2 DEF Ends
  <2>4. GroupsOf(<<0>>) = 0
    BY <2>3, SumOfNothing DEF GroupsOf
  <2>5. Before(<<0>>, 1 + 1) = {1}
    BY <2>2 DEF Before
  <2>6. Sum(<<0>>, {1}) = 0
    <3>1. <<0>>[1] = 0 /\ 0 \in Int
      OBVIOUS
    <3> DEFINE w == <<0>>
    <3>2. w[1] \in Int /\ w[1] = 0
      BY <3>1
    <3> HIDE DEF w
    <3>3. Sum(w, {1}) = 0
      BY <3>2, SumOfOne
    <3> QED
      BY <3>3 DEF w
  <2>7. Reading(<<0>>) = GroupsOf(<<0>>) + Sum(<<0>>, Before(<<0>>, Len(<<0>>) + 1))
    BY <2>1, ReadingIs
  <2> QED
    BY <1>1, <2>1, <2>4, <2>5, <2>6, <2>7
<1>2. CASE n # 0
  <2> DEFINE a  == n \div Crore
             b  == (n \div Lakh) % 100
             c  == (n \div 1000) % 100
             e  == (n \div 100) % 10
             r  == n % 100
             w1 == Group(a, Crore)
             w2 == w1 \o Group(b, Lakh)
             w3 == w2 \o Group(c, 1000)
             w4 == w3 \o Group(e, 100)
  <2>1. NumberWords(n) = w4 \o TwoDigits(r)
    BY <1>2 DEF NumberWords
  <2>2. a \in 0 .. 99 /\ b \in 0 .. 99 /\ c \in 0 .. 99 /\ e \in 0 .. 99 /\ r \in 0 .. 99
    BY DEF Sayable, Lakh, Crore
  <2>3. n = a * Crore + b * Lakh + c * 1000 + e * 100 + r
    BY FiveGroups
  <2> HIDE DEF a, b, c, e, r
  <2>4. {Crore, Lakh, 1000, 100} \subseteq Units
    BY DEF Units
  <2>5. w1 \in Seq(Nat) /\ Whole(w1) /\ GroupsOf(w1) = a * Crore
    <3>1. <<>> \in Seq(Nat) /\ Whole(<<>>)
      BY DEF Whole
    <3>2. GroupsOf(<<>>) = 0
      <4>1. Ends(<<>>) = {}
        BY DEF Ends
      <4> QED
        BY <4>1, SumOfNothing DEF GroupsOf
    <3>3. /\ <<>> \o w1 \in Seq(Nat) /\ Whole(<<>> \o w1)
          /\ GroupsOf(<<>> \o w1) = GroupsOf(<<>>) + a * Crore
      <4> DEFINE x == <<>>
      <4>1. x \in Seq(Nat) /\ Whole(x)
        BY <3>1
      <4> HIDE DEF x, w1
      <4>2. /\ x \o Group(a, Crore) \in Seq(Nat) /\ Whole(x \o Group(a, Crore))
            /\ GroupsOf(x \o Group(a, Crore)) = GroupsOf(x) + a * Crore
        <5>1. a \in 0 .. 99 /\ Crore \in Units
          BY <2>2, <2>4
        <5> QED
          BY <4>1, <5>1, GroupAdds, Zenon
      <4> QED
        BY <4>2 DEF x, w1
    <3>4. w1 \in Seq(Nat)
      <4>1. a # 0 => TwoDigits(a) \in Seq(Nat)
        <5>1. a # 0 => a \in 1 .. 99
          BY <2>2
        <5> QED
          BY <5>1, DigitsSay, Zenon
      <4>2. Crore \in Nat
        BY DEF Crore
      <4> QED
        BY <4>1, <4>2 DEF Group
    <3>5. <<>> \o w1 = w1
      <4> HIDE DEF w1
      <4> QED
        BY <3>4
    <3>6. a * Crore \in Nat
      BY <2>2 DEF Crore
    <3> HIDE DEF w1
    <3> QED
      BY <3>2, <3>3, <3>5, <3>6
  <2>6. w2 \in Seq(Nat) /\ Whole(w2) /\ GroupsOf(w2) = GroupsOf(w1) + b * Lakh
    <3> HIDE DEF w1
    <3>1. w1 \in Seq(Nat) /\ Whole(w1) /\ b \in 0 .. 99 /\ Lakh \in Units
      BY <2>2, <2>4, <2>5
    <3> QED
      BY <3>1, GroupAdds, Zenon
  <2>7. w3 \in Seq(Nat) /\ Whole(w3) /\ GroupsOf(w3) = GroupsOf(w2) + c * 1000
    <3> DEFINE u == 1000
               t == w2 \o Group(c, u)
    <3>1. w2 \in Seq(Nat) /\ Whole(w2) /\ c \in 0 .. 99 /\ u \in Units
      BY <2>2, <2>4, <2>6
    <3> HIDE DEF w2, u
    <3>2. t \in Seq(Nat) /\ Whole(t) /\ GroupsOf(t) = GroupsOf(w2) + c * u
      BY <3>1, GroupAdds, Zenon
    <3> QED
      BY <3>2 DEF u
  <2>8. w4 \in Seq(Nat) /\ Whole(w4) /\ GroupsOf(w4) = GroupsOf(w3) + e * 100
    <3> DEFINE u == 100
               t == w3 \o Group(e, u)
    <3>1. w3 \in Seq(Nat) /\ Whole(w3) /\ e \in 0 .. 99 /\ u \in Units
      BY <2>2, <2>4, <2>7
    <3> HIDE DEF w3, u
    <3>2. t \in Seq(Nat) /\ Whole(t) /\ GroupsOf(t) = GroupsOf(w3) + e * u
      BY <3>1, GroupAdds, Zenon
    <3> QED
      BY <3>2 DEF u
  <2> HIDE DEF w1, w2, w3, w4
  <2>9. Reading(w4 \o TwoDigits(r)) = GroupsOf(w4) + r
    BY <2>2, <2>8, RestAdds
  <2>10. GroupsOf(w4) + r = a * Crore + b * Lakh + c * 1000 + e * 100 + r
    BY <2>5, <2>6, <2>7, <2>8
  <2> QED
    BY <2>1, <2>3, <2>9, <2>10
<1> QED
  BY <1>1, <1>2

\* An amount in words is read as the amount, in rupees and paise.
THEOREM WordsAreRight == WordsAgree
<1> SUFFICES ASSUME NEW paisa \in Spoken, Sayable(paisa \div 100)
             PROVE  /\ Reading(AmountInWords(paisa).rupees) = paisa \div 100
                    /\ Reading(AmountInWords(paisa).paise)  = paisa % 100
  BY DEF WordsAgree
<1>1. paisa \in Nat
  BY InputAssumption
<1>2. paisa \div 100 \in Nat /\ paisa % 100 \in 0 .. 99
  BY <1>1
<1>3. Reading(AmountInWords(paisa).rupees) = paisa \div 100
  <2>1. AmountInWords(paisa).rupees = NumberWords(paisa \div 100)
    BY DEF AmountInWords
  <2> QED
    BY <1>2, <2>1, NumberIsRead
<1>4. Reading(AmountInWords(paisa).paise) = paisa % 100
  <2> DEFINE r == paisa % 100
  <2>1. AmountInWords(paisa).paise = IF r > 0 THEN NumberWords(r) ELSE <<>>
    BY DEF AmountInWords
  <2>2. Sayable(r) /\ r \in Nat
    BY <1>2 DEF Sayable, Crore
  <2>3. r = 0 => Reading(<<>>) = 0
    <3>1. /\ <<>> \in Seq(Nat) /\ Len(<<>>) = 0 /\ Ends(<<>>) = {}
          /\ Before(<<>>, 0 + 1) = {}
      BY DEF Ends, Before
    <3>2. Reading(<<>>) = GroupsOf(<<>>) + Sum(<<>>, Before(<<>>, Len(<<>>) + 1))
      BY <3>1, ReadingIs
    <3>3. GroupsOf(<<>>) = 0 /\ Sum(<<>>, {}) = 0
      BY <3>1, SumOfNothing DEF GroupsOf
    <3>4. Reading(<<>>) = 0 + 0
      BY <3>1, <3>2, <3>3, Zenon
    <3> QED
      BY <3>4
  <2> HIDE DEF r
  <2>4. r > 0 => Reading(NumberWords(r)) = r
    BY <2>2, NumberIsRead
  <2>5. r > 0 \/ r = 0
    BY <2>2
  <2>6. Reading(AmountInWords(paisa).paise) = r
    BY <2>1, <2>2, <2>3, <2>4, <2>5
  <2> QED
    BY <2>6 DEF r
<1> QED
  BY <1>3, <1>4
-----------------------------------------------------------------------------
\* Whatever has been printed, its figures agree and its words say its amounts.
THEOREM FiguresAlwaysAgree == PrintingSpec => []FiguresAgree
<1>1. PagesAgree /\ WordsAgree
  BY PagesAreRight, WordsAreRight
<1>2. PrintingInit => FiguresAgree
  BY <1>1 DEF FiguresAgree
<1>3. FiguresAgree /\ [PrintingNext]_printingVars => FiguresAgree'
  BY <1>1 DEF FiguresAgree
<1> QED
  BY <1>2, <1>3, PTL DEF PrintingSpec
=============================================================================
