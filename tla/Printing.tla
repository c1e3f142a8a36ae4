------------------------------ MODULE Printing ------------------------------
(***************************************************************************)
(* The papers of invoices: what documents/service.py and storage.py keep,  *)
(* what invoicing/service.py and billing/service.py store there and what   *)
(* invoicing/router.py delivers; with the buyer master and the mill profile *)
(* that a paper is printed from.                                           *)
(*                                                                         *)
(* Of buyer and mill a paper shows the state codes, which decide how its   *)
(* GST is split (Amounts); lines and totals are those of Invoicing.  A row *)
(* is loaded once and written at the COMMIT: the waiting in between is in  *)
(* Invoicing too.                                                          *)
(***************************************************************************)
EXTENDS DatabaseSessions, TaxInvoices, Amounts

CONSTANTS Buyers, NoBuyer,
          Docs, NoDoc,        \* documents, by the uuid of their storage key
          ABSENT, DELETED,    \* of a row
          EMPTY,              \* no bytes
          UPLOAD,             \* the bytes of an e-way bill, or of the invoice of a claim
          MaxDeploys          \* bound: deployments

ASSUME PrintingNullAssumption == NoBuyer \notin Buyers /\ NoDoc \notin Docs
ASSUME DeploysAssumption == MaxDeploys \in Nat

VARIABLES mill,      \* MillSettings.state_code
          buyer,     \* buyer[b]: state_code of the master row
          invoice,   \* invoice[i]: the TaxInvoice row
          document,  \* document[d]: the Document row
          file,      \* file[d]: bytes on the disk under the storage key of d
          backend,   \* DOCUMENT_STORAGE_BACKEND of the running service
          task,      \* task[s]: the request of s and what it has loaded
          deploys,   \* deployments so far
          lost,      \* documents whose file a deployment has wiped
          printed    \* printed[i]: the paper that was last issued or generated for i

masters == <<mill, buyer>>
stored  == <<document, file>>
host    == <<backend, deploys, lost>>
printingVars == <<masters, invoice, stored, host, task, printed>>

Code     == {NoCode} \cup StateCodes
Paper    == [seller : Code, buyer : Code]
Bytes    == {UPLOAD} \cup Paper
Invoice  == [status : {"DRAFT", "ISSUED"}, buyer : Buyers \cup {NoBuyer}, party : Code,
             pdf : Docs \cup {NoDoc}, eway : Docs \cup {NoDoc}]
Kinds    == {"issue", "pdf", "eway", "claim"}
Task     == [kind : Kinds, step : {"store", "commit"}, on : Invoices \cup {NoInvoice},
             party : Code, doc : Docs \cup {NoDoc}, bytes : {EMPTY} \cup Bytes]

DocumentRow == [key : {"db", "local"}, content : {EMPTY} \cup Bytes]

\* The values that stand for no row, no bytes and the bytes of an upload are none of the rows.
ASSUME RowsAssumption ==
  /\ ABSENT \notin Code /\ DELETED \notin Code
  /\ ABSENT \notin Invoice /\ ABSENT \notin DocumentRow /\ ABSENT \notin Task
  /\ EMPTY # UPLOAD /\ EMPTY \notin Paper /\ UPLOAD \notin Paper

PrintingTypeOK == /\ mill     \in Code
                  /\ buyer    \in [Buyers -> {ABSENT, DELETED} \cup Code]
                  /\ invoice  \in [Invoices -> {ABSENT} \cup Invoice]
                  /\ document \in [Docs -> {ABSENT} \cup DocumentRow]
                  /\ file     \in [Docs -> {EMPTY} \cup Bytes]
                  /\ backend  \in {"db", "local"}
                  /\ task     \in [Sessions -> {ABSENT} \cup Task]
                  /\ deploys  \in 0 .. MaxDeploys
                  /\ lost     \in SUBSET Docs
                  /\ printed  \in [Invoices -> {EMPTY} \cup Paper]
                  /\ \A i \in Invoices : invoice[i] # ABSENT =>   \* the foreign keys
                       /\ invoice[i].buyer # NoBuyer => buyer[invoice[i].buyer] \in Code
                       /\ \A d \in {invoice[i].pdf, invoice[i].eway} \ {NoDoc} : document[d] # ABSENT

PrintingInit == /\ mill     \in Code
                /\ buyer    = [b \in Buyers |-> ABSENT]
                /\ invoice  = [i \in Invoices |-> ABSENT]
                /\ document = [d \in Docs |-> ABSENT]
                /\ file     = [d \in Docs |-> EMPTY]
                /\ backend  \in {"db", "local"}
                /\ task     = [s \in Sessions |-> ABSENT]
                /\ deploys  = 0
                /\ lost     = {}
                /\ printed  = [i \in Invoices |-> EMPTY]

-----------------------------------------------------------------------------
(* Masters                                                                  *)

UpdateMillSettings(c) == /\ mill' = c
                         /\ UNCHANGED <<buyer, invoice, stored, host, task, printed>>

IsRow(b) == buyer[b] \in Code

CreateBuyer(b, c) == /\ buyer[b] = ABSENT
                     /\ buyer' = [buyer EXCEPT ![b] = c]
                     /\ UNCHANGED <<mill, invoice, stored, host, task, printed>>

UpdateBuyer(b, c) == /\ IsRow(b)
                     /\ buyer' = [buyer EXCEPT ![b] = c]
                     /\ UNCHANGED <<mill, invoice, stored, host, task, printed>>

\* The links of the invoices are cut first; ON DELETE SET NULL cuts those of invoices
\* committed since.
DeleteBuyer(b) ==
  /\ IsRow(b)
  /\ buyer'   = [buyer EXCEPT ![b] = DELETED]
  /\ invoice' = [i \in Invoices |->
                   IF invoice[i] # ABSENT /\ invoice[i].buyer = b
                   THEN [invoice[i] EXCEPT !.buyer = NoBuyer] ELSE invoice[i]]
  /\ UNCHANGED <<mill, stored, host, task, printed>>

-----------------------------------------------------------------------------
(* Invoices.  How edits overlap with each other and with issue is Invoicing. *)

\* A code in a request: ABSENT if it gives none, NoCode if it gives an empty one.
Given == {ABSENT} \cup Code

\* _resolve_buyer_snapshot: the code that the request gives, an empty one too, or else
\* the buyer's.
Snapshot(b, g) == CASE g # ABSENT                 -> g
                    [] g = ABSENT /\ b # NoBuyer -> buyer[b]
                    [] g = ABSENT /\ b = NoBuyer -> NoCode

\* Mutant of Found: the buyer is not missed.
FoundWithoutLooking(b) == TRUE

\* "Buyer not found"
Found(b) == b # NoBuyer => IsRow(b)

CreateDraft(i, b, g) ==
  /\ invoice[i] = ABSENT
  /\ Found(b)
  /\ invoice' = [invoice EXCEPT ![i] =
       [status |-> "DRAFT", buyer |-> b, party |-> Snapshot(b, g), pdf |-> NoDoc, eway |-> NoDoc]]
  /\ UNCHANGED <<masters, stored, host, task, printed>>

Edit(i, b, g) ==
  /\ invoice[i] # ABSENT /\ invoice[i].status = "DRAFT"
  /\ Found(b)
  /\ invoice' = [invoice EXCEPT ![i].buyer = b, ![i].party = Snapshot(b, g)]
  /\ UNCHANGED <<masters, stored, host, task, printed>>

-----------------------------------------------------------------------------
(* Requests that store a document                                           *)

BeginTask(s, kind, i, party) ==
  /\ task[s] = ABSENT
  /\ task' = [task EXCEPT ![s] = [kind |-> kind, step |-> "store", on |-> i,
                                  party |-> party, doc |-> NoDoc, bytes |-> EMPTY]]
  /\ UNCHANGED <<masters, invoice, stored, host, printed>>

\* issue_invoice, generate_pdf and attach_eway_bill
PaperRequest(s, kind, i) ==
  /\ invoice[i] # ABSENT
  /\ kind = "issue" => invoice[i].status = "DRAFT"
  /\ BeginTask(s, kind, i, invoice[i].party)

\* generate_invoice, of a claim
ClaimRequest(s) == BeginTask(s, "claim", NoInvoice, NoCode)

End(s) == task' = [task EXCEPT ![s] = ABSENT]

\* Any answer but success: the transaction is rolled back, the files stay.
Fail(s) == /\ task[s] # ABSENT
           /\ End(s)
           /\ UNCHANGED <<masters, invoice, stored, host, printed>>

-----------------------------------------------------------------------------
(* store_document                                                           *)

FreshDoc(d) == /\ document[d] = ABSENT /\ file[d] = EMPTY /\ d \notin lost
               /\ \A s \in Sessions : task[s] # ABSENT => task[s].doc # d

\* _render_pdf_bytes reads the profile of now, and the row as it was loaded.
Rendered(party) == [seller |-> mill, buyer |-> party]

BytesOf(t) == IF t.kind \in {"issue", "pdf"} THEN Rendered(t.party) ELSE UPLOAD

\* Mutant of Put: the file is left to be written after the commit.
PutLater(d, bytes) == file' = file

\* LocalDiskStorage.put, at once and outside the transaction.
Put(d, bytes) == file' = IF backend = "local" THEN [file EXCEPT ![d] = bytes] ELSE file

Store(s, d) ==
  LET bytes == BytesOf(task[s]) IN
  /\ task[s] # ABSENT /\ task[s].step = "store"
  /\ FreshDoc(d)
  /\ task' = [task EXCEPT ![s].step = "commit", ![s].doc = d, ![s].bytes = bytes]
  /\ Put(d, bytes)
  /\ UNCHANGED <<masters, invoice, document, host, printed>>

\* Mutant of BytesIn: the configuration of now decides.
BytesInBackend(d) == IF backend = "db" THEN document[d].content ELSE file[d]

\* read_document_bytes: what the row holds, or else the file; EMPTY: an exception.
BytesIn(d) == IF document[d].content # EMPTY THEN document[d].content ELSE file[d]

Row(t) == IF backend = "db" THEN [key |-> "db", content |-> t.bytes]
                            ELSE [key |-> "local", content |-> EMPTY]

-----------------------------------------------------------------------------
(* COMMIT                                                                   *)

Committing(s, kinds) == /\ task[s] # ABSENT
                        /\ task[s].step = "commit" /\ task[s].kind \in kinds
                        /\ End(s)

InsertDocument(t) == /\ document' = [document EXCEPT ![t.doc] = Row(t)]
                     /\ UNCHANGED <<masters, file, host>>

\* issue_invoice and generate_pdf: the paper replaces an earlier one.
CommitPaper(s) ==
  LET t == task[s] IN
  /\ Committing(s, {"issue", "pdf"})
  /\ InsertDocument(t)
  /\ invoice' = [invoice EXCEPT ![t.on].pdf = t.doc,
                                ![t.on].status = IF t.kind = "issue" THEN "ISSUED" ELSE @]
  /\ printed' = [printed EXCEPT ![t.on] = t.bytes]

CommitEway(s) ==
  LET t == task[s] IN
  /\ Committing(s, {"eway"})
  /\ InsertDocument(t)
  /\ invoice' = [invoice EXCEPT ![t.on].eway = t.doc]
  /\ UNCHANGED printed

\* generate_invoice: the document is linked nowhere, its answer names it.
CommitClaim(s) == /\ Committing(s, {"claim"})
                  /\ InsertDocument(task[s])
                  /\ UNCHANGED <<invoice, printed>>

-----------------------------------------------------------------------------
(* download_invoice_pdf                                                     *)

\* Mutant of Delivered: the page is rendered with the buyer of the master.
DeliveredFromMaster(i) ==
  LET d == invoice[i].pdf
      b == invoice[i].buyer IN
  IF d # NoDoc /\ BytesIn(d) # EMPTY THEN BytesIn(d)
  ELSE Rendered(IF b = NoBuyer THEN invoice[i].party ELSE buyer[b])

\* The stored bytes or, if they cannot be read, the page rendered anew.
Delivered(i) ==
  LET d == invoice[i].pdf IN
  IF d # NoDoc /\ BytesIn(d) # EMPTY THEN BytesIn(d) ELSE Rendered(invoice[i].party)

-----------------------------------------------------------------------------
\* A deployment ends every request; the service comes back with another configuration
\* or, where the disk is ephemeral, without its files.
Deploy(setting, wiped) ==
  /\ deploys < MaxDeploys
  /\ deploys' = deploys + 1
  /\ backend' = setting
  /\ file'    = IF wiped THEN [d \in Docs |-> EMPTY] ELSE file
  /\ lost'    = IF wiped THEN lost \cup {d \in Docs : file[d] # EMPTY} ELSE lost
  /\ task'    = [s \in Sessions |-> ABSENT]
  /\ UNCHANGED <<masters, invoice, document, printed>>

Masters == \/ \E c \in Code : UpdateMillSettings(c)
           \/ \E b \in Buyers : \/ \E c \in Code : CreateBuyer(b, c) \/ UpdateBuyer(b, c)
                                \/ DeleteBuyer(b)

DocumentRequest(s) ==
  \/ \E i \in Invoices, kind \in Kinds \ {"claim"} : PaperRequest(s, kind, i)
  \/ ClaimRequest(s)

Serve(s) == \/ \E d \in Docs : Store(s, d)
            \/ CommitPaper(s)
            \/ CommitEway(s)
            \/ CommitClaim(s)
            \/ Fail(s)

PrintingNext == \/ Masters
                \/ \E i \in Invoices, b \in Buyers \cup {NoBuyer}, g \in Given :
                     CreateDraft(i, b, g) \/ Edit(i, b, g)
                \/ \E s \in Sessions : DocumentRequest(s) \/ Serve(s)
                \/ \E setting \in {"db", "local"}, wiped \in BOOLEAN : Deploy(setting, wiped)

PrintingSpec == PrintingInit /\ [][PrintingNext]_printingVars

-----------------------------------------------------------------------------
(* Properties                                                               *)

\* However requests overlap and whatever fails or is deployed in between, a committed
\* document keeps its bytes, in the database or on disk and never in both, until the disk
\* is wiped: the file is there before the row, and a failure leaves at most a file that
\* nothing refers to (documents/models.py:3-6).
DocumentsHaveBytes ==
  \A d \in Docs : document[d] # ABSENT /\ d \notin lost =>
    (document[d].content = EMPTY) # (file[d] = EMPTY)

\* What a download gives is the last paper that was issued or generated, whatever backend
\* the service is running with by now, unless its file is lost.
StoredPaperSurvives ==
  \A i \in Invoices : printed[i] # EMPTY /\ invoice[i].pdf \notin lost =>
    Delivered(i) = printed[i]

\* Past invoices and their papers are unaffected by what happens to the buyer master
\* (invoicing/service.py:135-137), papers that have to be rendered anew included.
BuyersLeavePapers ==
  [][buyer' # buyer =>
       \A i \in Invoices : invoice[i] # ABSENT => Delivered(i)' = Delivered(i)]_printingVars

\* Whatever its lines, the figures of a paper agree: the splits sum back, the summary has
\* each HSN and rate once and sums to the totals of the invoice; and, to a hundred crore
\* rupees, it has its amounts right in words.
FiguresAgree == \A i \in Invoices : printed[i] # EMPTY => PagesAgree /\ WordsAgree

\* "The invoice is immutable once issued" (invoicing/router.py:293): while its paper has
\* the buyer of its row, its GST does not turn from CGST and SGST into IGST.
IssuedSplitStays ==
  [][\A i \in Invoices :
       /\ invoice[i] # ABSENT /\ invoice[i].status = "ISSUED"
       /\ Delivered(i).buyer = invoice[i].party
       => IsInterstate(Delivered(i).seller, Delivered(i).buyer)'
            = IsInterstate(Delivered(i).seller, Delivered(i).buyer)]_printingVars
=============================================================================
