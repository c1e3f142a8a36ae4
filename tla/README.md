# TLA+ project for the rice mill ERP

The backend is a FastAPI application over SQLAlchemy 2 and PostgreSQL
(`src/backend/app`). A request runs one service function in a database session
of its own; functions of different requests meet only in the database. What is
hard about the program is therefore what happens when their transactions
interleave, fail half way, or are ended by a crash or by PostgreSQL's deadlock
detector. The modules here model the service functions at the granularity of
their SQL statements and check, and partly prove, what their documentation
promises.

Every number of a line below refers to a file under `src/backend/app` unless a
path says otherwise.

## 1. What the code relies on

`core/database.py` sets up the sessions (lines 43-69). Its choices shape every
module:

* READ COMMITTED, the default of PostgreSQL: each statement sees what is
  committed when it starts, and the session's own writes.
* `get_db` opens a session per request and always closes it; an exception, a
  crash or a dropped connection rolls the transaction back as a whole.
* `autoflush=False`, `expire_on_commit=False`, no version column: an object once
  loaded is a snapshot. A guard such as `if batch.status != DRAFT` is evaluated
  on that snapshot, and the later UPDATE writes the attributes that differ from
  it over whatever has been committed meanwhile.
* `SELECT ... FOR UPDATE` is used on two kinds of rows only: lots
  (`milling/service.py:138`, `delivery/service.py:188`) and reference counters
  (`shared/reference.py:51`). Inserting an input or item row locks its lot
  FOR KEY SHARE. UPDATE and DELETE lock the rows they change to the end of the
  transaction.
* Unique keys turn the second of two racing inserts into an error, which rolls
  its request back.

A statement that only reads, or only writes rows nobody else can see yet, is
merged with the statement after it. A flush and the COMMIT that follows it are
one step when the handler waits for nothing in between.

## 2. Inventory of the system

| Component | State | Operations | Hard behaviour | What makes it correct |
|---|---|---|---|---|
| inventory (`modules/inventory`) | append-only stock movements | `available_quantity`, `post_transaction` | check-then-append under concurrency | no lot sums below zero; a movement is covered when it commits |
| government (`modules/government`) | agencies, allocations, delivery orders, loads | create each, `mark_load_arrived` | unique codes, stale status | load states in order |
| receiving (`modules/receiving`) | weighments, paddy quality, paddy lots | `record_weighment`, `record_paddy_quality`, `accept_load`, `reject_load` | no row locks at all; two-row invariants; unique keys | a load enters stock once, with a measured weight; one final weighment |
| milling (`modules/milling`) | batches, inputs, productions, outputs | `create_batch`, `start_batch`, `record_production`, `complete_batch` | lots locked one by one, in no order; stale status | inputs consumed whole and once; rice only from consumed paddy |
| rice (`modules/rice`) | quality decisions, rice lots | `pass_quality`, `fail_quality` | pass racing fail | an output that failed has no stock, one that passed has its stock once |
| delivery (`modules/delivery`) | dispatches, items, receipts | `create_dispatch`, `prepare_dispatch`, `dispatch_dispatch`, `create_delivery_receipt` | as milling, with one more state and a receipt | stock leaves once; a receipt is final and balances |
| billing (`modules/billing`) | claims, claim lines, payments | create, replace lines, submit, approve, pay, invoice | payments racing, retries, a commit inside `create_claim` | paid never exceeds net; a receipt claimed once |
| invoicing (`modules/invoicing`) | buyers, products, tax invoices and lines | create, update, issue, generate PDF, e-way bill, download | line sets replaced concurrently; issue racing edit | totals are those of the lines; ISSUED is locked; the PDF shows the invoice |
| references (`shared/reference.py`) | a counter row per prefix | `generate_reference` | first use, rollback, explicit numbers | unique, without gaps |
| settings (`modules/settings`) | mill profile, charge rates | get or create, update | singleton created on first use by a commit of its own | one profile |
| documents (`modules/documents`) | stored bytes and their rows | `store_document`, read | disk write before the row is committed | no row without bytes; stored papers survive a change of backend |
| roles and accounts (`modules/auth/bootstrap.py`, `cli.py`) | roles, grants, users | `seed_system_roles`, `create_user`, `create-admin` | two commits, stopped in between; racing commands | roles seeded as a whole; a second run completes the first |
| sessions and permissions (`modules/auth`) | session rows | login, logout, `resolve_session`, `require_permission` | rows read one after the other while they change | nobody acts after a revocation that came before the request |
| amounts (`shared/numbers.py`) | none | GST split, amount in words, rounding | odd paisa, zero | parts add up, on the page and in the API; the words say the amount |
| audit (`shared/audit.py`) | append-only log | `record_audit` | none of its own: in the transaction of the mutation | committed with it |
| reports, system, core, frontend, migrations, e2e | read-only or wiring | - | - | - |

`api/v1/router.py` currently registers auth, settings, invoicing and documents;
the mill modules are kept and tested as services but their routers are not
mounted. They are modelled as they would run once mounted.

Interactions: receiving, milling, rice and delivery append to the ledger;
milling draws on the lots that acceptance made, delivery on those that quality
made; billing reads receipts; invoicing and billing read settings and store
documents; all mutations take reference numbers and append to the audit log.

## 3. Modules

```
LotLocks            row locks of lots                       (external: PostgreSQL)
  Inventory         the ledger: stock, uncommitted movements
    LotRequests     sessions that lock lots one by one and post on each
      Milling       batches            -> AtomicMilling,  StockLedger
      RiceQuality   quality decisions on milled outputs
        Delivery    dispatches         -> AtomicDelivery, StockLedger
Receiving           loads              -> AtomicReceiving
DatabaseSessions    the sessions that requests run in
  Billing           claims, payments   -> AtomicBilling
  References        counters, settings -> Numbering
  TaxInvoices       the identities of tax invoices
    Invoicing       tax invoices       -> AtomicInvoicing
    Printing        papers, stored documents, buyer master, mill profile
      Amounts       arithmetic and words of an invoice (extended by Printing)
Accounts            accounts and the grants of roles
  Bootstrap         roles and accounts, seeded from the command line
  Sessions          login sessions and permission checks

SumTheorems         what MapThenSumSet computes on a finite set
LotRequestsProofs   steps and stock of LotRequests
MillingProofs, DeliveryProofs, ReceivingProofs
ClaimsProofs        Billing and References
InvoicesProofs      Invoicing, Printing and Amounts
AuthProofs          Bootstrap and Sessions
MCMilling, ...      symmetry, and the constants that are functions, for TLC
```

Two components whose theorems share a proof module extend the module that
declares what they have in common in the program: claims and counters are used
in the same database sessions, an invoice and its papers are rows of the same
invoices, the accounts that the commands write are those that requests read. One
of each pair has its type invariant, Init, Next and Spec under a name of its
own (`NumbersTypeOK`, `NumbersSpec`; `PrintingTypeOK`, `PrintingSpec`;
`BootstrapTypeOK`, `BootstrapSpec`).

**LotLocks** keeps who holds a lot FOR UPDATE (`xlock`), FOR KEY SHARE (`share`)
and which lot a session locks next (`want`). A session asks for the lots of its
document in any order, because the queries have no ORDER BY.

**Inventory** keeps the committed sum per lot (`stock`) and what each open
transaction has appended (`posted`). `PostIssue` is `post_transaction` with a
negative quantity: it decides on `Available`, the sum the session sees.
`CommitPosted` and `DiscardPosted` are COMMIT and ROLLBACK.

**LotRequests** is the part `start_batch` and `dispatch_dispatch` have in
common: a request reads its document without a lock (`Begin`), then per lot
locks (`LockNext`) and checks and posts (`PostNext`, or `RefuseNext` with the
409), and publishes all at its commit. `CrashNext` ends it anywhere,
`DeadlockNext` when it is on a cycle of waiting sessions.
`SerialDocuments`, the serial documents, are those on which no two requests overlap; on all others
any number does. The code does nothing to enforce it: it is the environment in
which the status guards of the code, read without a lock, are sound. The runs put
one document of each kind next to each other on the same lots.

**Milling** and **Delivery** add the documents. Each request of
`milling/service.py` and `delivery/service.py` is a `...Request` action (the
reads and guards), the loop, and a `Commit...` action (the assignments). The
status is written unconditionally at the commit because the handler always
changes it. `consumed` and `issued` are the sums of the ledger movements with
the document as source. `AcceptLoad` is the arrival of paddy lots from Receiving.

**RiceQuality** keeps each milled output and the status of its quality decision.
A request reads the status (`PassRequest`, `FailRequest`) and writes it at its
commit, a pass with the rice lot and its receipt movement. An output has at most one lot
(`rice_lots.output_id` is unique): the second of two passes is refused. It is
extended by Delivery, so rice is followed from the output to the road.

**Receiving** has no lot locks. `view` is what the handler has read; `final` is
the set of weighments whose `is_final` is set, so superseding is by the rows
read, as in the code. `WriteStatus` writes only a status that differs from the
loaded one (SQLAlchemy emits no UPDATE for an unchanged attribute):
re-weighing a WEIGHED load does not write it. The unique keys of
`paddy_quality.load_id` and `paddy_lots.load_id` are `InsertsTwice` and the
guard of `CommitAccept`; `Refuse` is the error answer.

**Invoicing** has row identities for lines. Amounts are abstracted to the set of
lines that were summed, so totals are right when `totals[i] = lines[i]`; a PDF
is the lines and totals that it prints. `update_invoice` is: load the row, load
the lines, UPDATE the header if any field changes (which takes the row lock),
DELETE the loaded lines and flush the new ones, refresh, sum the lines it sees,
UPDATE the totals if they differ from the refreshed ones, COMMIT. Deleting waits
for a session that has deleted the same row; a row already gone is ignored. A
request carries one new line; the schemas require at least one
(`invoicing/schemas.py:108,112`). The rows of one DELETE are taken in one step:
the code deletes them in primary key order, so two edits cannot wait for each
other inside it.

**Billing** edits lines as Invoicing does, without a header of its own to write.
A line row has a fixed amount (`Amount`, negative for a deduction); of the three
totals the net is kept, the one payments are measured against. `record_payment`
is four steps: the status and the net with the claim, the reference number, the
sum of the committed payments, and the commit of the payment with the status
(`WriteStatus`, as in Receiving). Before the commit it waits for the PAY counter,
which only queues the commits: nothing about the claim is read under it. `paid`
is the sum of the payments, `used` counts them by the client's reference number.
`CreateRequest` is the search for each receipt among the claimed ones, `Claimed`
at the commit the unique key of `claim_deliveries`. A claim may get no line (no
active charge rate; an edit with an empty list, which the schema allows).

**References** has the counter rows and what the callers do between taking a
number and their commit. There are three kinds: plain prefixes; CLM, which asks
for the settings after taking its number; INV, which asks before, and may carry a
number that the client chose. `next` is the committed value (0: no row), `holder`
the session with the row locked or inserted. `MissCounter` and `InsertCounter`
are first use: an INSERT waits for another one of the same key and then either
fails on it (`Refuse`) or goes on. `InsertProfile` is the COMMIT inside
`get_or_create_mill_settings`, which publishes and unlocks whatever counter its
session holds. Invoice numbers are those that look like a padded counter value.

**Amounts** is arithmetic, without state: `Line`, `Totals`, `TaxSummary` as
`invoicing/service.py` computes them, `Figures` as the API answers them, `Page`
and `TotalRow` as `invoicing/pdf.py` prints them, `NumberWords` as
`shared/numbers.py` writes them. Numbers have the scales of the columns, and
each rounding is the one the code asks for: `HalfUp` where it says so, `HalfEven`
where it calls `quantize` with the default of the decimal context. A word is the number it
says; `Reading` is what a reader makes of the words.

**Printing** is where an invoice meets the documents. The state is the mill
profile and the buyers (of each its state code, which decides how GST is split),
the invoice rows (their snapshot of the buyer's code, or of the code a request gives
in its place, their paper, their e-way bill),
document rows, files on disk, and the configured backend. A request that stores
bytes is `Store`, which with the local backend writes the file at once, and a
`Commit...`, which inserts the row; `Fail` is any other end. `Deploy` ends all
requests, may change `DOCUMENT_STORAGE_BACKEND` and may come back with an empty
disk. `Delivered` is what a download answers: the stored bytes, or the page
rendered anew when they cannot be read.

**Bootstrap** has the commands as processes. A seed looks at one role after the
other (`ReadRole`), plans what to add and drop, and commits all roles at once;
`Collides` is the unique `roles.code` or the primary key of `role_permissions`
meeting a row committed since it looked. `create-admin` seeds, commits, and then
makes the account in a second commit; `Stop` ends a command anywhere. `Adjust`
stands for a grant changed by other means than the seed.

**Sessions** has one request take the steps of `require_permission`: load the
session row, load the user, decide on both and on the time it is, load the
grants, run. `held` records, beside the state of the code, which of the three
conditions were true at some instant since the request came in.

**StockLedger** says what stock is: a lot receives, and issues what it has.
**AtomicMilling**, **AtomicDelivery**, **AtomicReceiving**, **AtomicInvoicing**,
**AtomicBilling** say what the documentation promises: every request takes effect at one instant.
They are instantiated for the serial documents (`OnSerial` restricts the state
to them; likewise `SerialLoads`, `SerialInvoices`,
`SerialClaims`). Documents that share lots with
them appear there only by `Withdraw`: their commits take covered stock and are
recorded as having taken just that. **Numbering** says that the records of a
prefix are numbered 1, 2, 3, ... in the order of their commits; it needs no
assumption about overlapping requests.

## 4. Runs

All runs set CHECK_DEADLOCK FALSE: the system may stop, because the documents,
lots or row identities of an instance are used up and every document is in its
final state.

| Run | Instance | Shows |
|---|---|---|
| `milling` | 2 sessions, 2 lots, 2 batches, one of them serial | stock never negative; rice only from paddy consumed as a whole batch; the ledger is implemented; the serial batch is atomic |
| `delivery` | 2 sessions, 2 lots, 2 dispatches and 2 outputs, one serial of each, fair | every request is answered; rice leaves as whole dispatches and is conserved from quality check to road; decisions on the serial output exclude each other; receipts final; the serial dispatch is atomic and its receipt balances |
| `receiving` | 2 sessions, 2 loads, one of them serial | received once; weighed and graded; a final weighment is never lost; the serial load goes through the documented states |
| `invoicing` | 2 sessions, 2 invoices, one of them serial, 6 row identities | never without lines; the serial invoice has the totals of its lines, is locked when issued, and prints what it holds |
| `invoicing_live` | 2 sessions, 1 invoice, 3 row identities, fair | every request ends |
| `billing` | 2 sessions, 2 claims, one of them serial, 1 receipt, 3 line rows worth 1, 2 and -1 | a receipt on one claim; nothing paid that was never approved; the serial claim is paid within its net and PAID by the last payment |
| `references` | 2 sessions, CLM, INV and one plain prefix | numbers unique; consecutive but for claims; a gap in the claims costs a settings row; a checked invoice number stays free |
| `bootstrap` | 2 operators, 2 accounts, 2 roles, one of them adjusted, 2 codes, 2 incidents, fair | roles seeded as a whole or not at all; re-running `create-admin` ends with an admin |
| `sessions` | 2 requests, 1 token, 1 user, 2 roles, 1 code, 2 instants | a handler runs only for what was valid after its request came in |
| `printing` | 2 sessions, 1 buyer, 1 invoice, 2 documents, 1 state, 1 deployment; invoices of up to 3 lines and a list of amounts | a document keeps its bytes; a download gives the last paper; the buyer master leaves papers alone; the figures and words of a paper agree |
| `milling_double`, `billing_overpaid` | overlapping requests on one document | a documented promise that the code does not keep (section 6) |

Bounds. Two sessions on one document are enough for every stale read, because a
stale read has one reader and one writer. Two lots are enough for a half
finished loop and for locking in opposite orders, two documents for two
different documents on the same lots. Quantities go up to `MaxKg`, so that a lot
can cover one document and not two. `MaxOutputs` counts outputs up to the first
values that the guards distinguish, `MaxReceived` lets a receipt be short, equal
and in excess, `MaxWeighments` allows a load to be weighed twice. `Rows` are
enough for the lines, the old totals, a PDF and two requests; identities nobody
refers to are used again. In `delivery` the fair specification is checked, so
`MaxKg` is 1 and `MaxReceived` 2. One receipt makes two creations compete for
it; claims have nothing else in common. `MaxPaid` lets a claim of net 1 be paid
twice; payments that overlap may pass it. `MaxValue` stops requests for a
counter once it passed 2, which is after first use, a second number and one the
client chose. Two incidents stop a command at both of its commits, or stop one
and change a grant. One token is enough for sessions because the conditions of
a request are about its own token only; the second request is its logout, or a
login. In `printing` a missing code and one
state are the two kinds of a code, and one deployment separates storing from
reading. The lines of `MCPrinting` give odd and even paisa, halves to round and
equal and different rates; the amounts in words
cover each group of digits empty, small and large. Sessions, lots and row identities are symmetric except in the
liveness runs; documents are not, because one is serial.

Fairness (`Fairness` in Delivery, Invoicing and Bootstrap): a handler that can go on does (weak, per
session); a session that waits for a row gets it if it becomes free again and
again (strong), because PostgreSQL queues the waiters; a cycle of waiting
sessions is found (weak), because the deadlock detector runs. No request has to
be sent, and no crash has to happen. In Bootstrap a command runs on unless it is
stopped (weak), and an operator who finds no admin account runs `create-admin`
again (strong, because other commands may be running whenever they look): nothing
in the code makes them, it is what somebody who needs an account does.

## 5. Proofs

TLAPS proves, for every number of sessions, lots, documents and the like, and
every bound:

| Module | Theorem | Property |
|---|---|---|
| `MillingProofs` | `TypeCorrect` | `TypeOK` |
| | `NeverOverdrawn` | `NonNegativeStock` |
| | `PostedStaysReserved` | `PostedIsReserved` (of Inventory, in no run) |
| | `MillingImplementsLedger` | `ImplementsLedger` |
| | `RiceComesFromConsumedPaddy` | `RiceFromConsumedPaddy` |
| | `ConsumesOnce` | `SerialConsumedOnce` (in no run) |
| | `MillingIsAtomic` | `ImplementsAtomic` |
| `DeliveryProofs` | `DeliveryTypesCorrect` | `TypeOK` |
| | `NeverOverdrawn` | `NonNegativeStock` (of Inventory, in no run of Delivery) |
| | `DeliveryImplementsLedger` | `ImplementsLedger` |
| | `ReceiptsAreFinal` | `ReceiptIsFinal` |
| | `DecisionsAreInStock` | `QualityDecides` |
| | `RiceLeavesWhole` | `WholeDispatchIssued` |
| | `DeliveryIsAtomic` | `ImplementsAtomic` |
| | `RiceIsConserved` | `RiceConserved` |
| `ReceivingProofs` | `TypeCorrect` | `TypeOK` |
| | `EntersStockOnce` | `ReceivedOnce` |
| | `LotsAreWeighedAndGraded` | `LotWasWeighedAndGraded` |
| | `FinalWeighmentStays` | `SomeFinalWeighment` |
| | `ReceivingIsAtomic` | `ImplementsAtomic` |
| `ClaimsProofs` | `ClaimsTypeCorrect` | `TypeOK` of Billing |
| | `ReceiptsAreClaimedOnce` | `ClaimedOnce` |
| | `PaidClaimsWereApproved` | `PaidAfterApproval` |
| | `ClaimsAreAtomic` | `ImplementsAtomic` |
| | `NumbersTypeCorrect` | `NumbersTypeOK` |
| | `ReferencesAreUnique` | `NumbersAreUnique` |
| | `CheckIsSound` | `CheckedNumberStaysFree` |
| | `GapsCostASettingsRow` | `GapsCostProfiles` |
| | `RecordsAreNumberedInOrder` | `ImplementsNumbering` |
| `InvoicesProofs` | `InvoicesTypeCorrect` | `TypeOK` of Invoicing |
| | `InvoicesKeepLines` | `NeverWithoutLines` |
| | `InvoicesAreAtomic` | `ImplementsAtomic` |
| | `PapersTypeCorrect` | `PrintingTypeOK` |
| | `DocumentsKeepBytes` | `DocumentsHaveBytes` |
| | `DownloadGivesLastPaper` | `StoredPaperSurvives` |
| | `PapersIgnoreTheBuyerMaster` | `BuyersLeavePapers` |
| | `FiguresAlwaysAgree` | `FiguresAgree` |
| | `HalvesSumBack`, `PagesAreRight`, `NumberIsRead` | none: facts about `Amounts` |
| `AuthProofs` | `AccountsTypeCorrect` | `BootstrapTypeOK` |
| | `RolesAreSeededWhole` | `NeverHalfSeeded` |
| | `TypeCorrect` | `TypeOK` of Sessions |
| | `ActsOnlyWhileAllowed` | `ActsWhileAllowed` |

Every invariant, action property and refinement of the passing runs is the
property of one of these theorems; what only TLC checks is named at the end of
this section.

Assumptions: the named ASSUMEs of the modules, and nothing else. They say that
null values are not members of the sets they are null for (`NullAssumption`,
`DocumentAssumption`, `LoadAssumption`, `MissingAssumption`, `NoAccountAssumption`,
`RowsAssumption` of Printing and their like), that the lots and documents of
Delivery and the line rows of Billing, whose quantities and amounts are summed, are
finitely many (`FiniteAssumption`, `RowsAssumption` of Billing: they are uuids),
that bounds are natural numbers, positive where
a first value must exist, and that the serial documents are documents. The
atomic refinements and `ConsumesOnce` hold for any choice of serial documents,
next to any others. For the others `ConsumedExactlyOnce` fails (`milling_double`);
what is proved of them is that they consume whole (`RiceComesFromConsumedPaddy`).

The arguments, each with the inductive invariant it needs:

**Stock** (`Safe` in MillingProofs and DeliveryProofs). `NonNegativeStock` is not
inductive: that a commit leaves stock non-negative depends on what the
transaction posted. `Reservation` adds that a posted movement is covered by
committed stock and that its session holds the lot FOR UPDATE, and that a session
holds the lot it is about to post on. Since a lot has one exclusive holder, no
other commit can take the cover away. The generic steps are lemmas of
`LotRequestsProofs`, shared by both components; each component's proof has one
step per action. In Delivery the same invariant carries the quality decisions:
a decision under way has the quantity of its output, and of a serial output at
most one is under way.

**Whole documents** (`Whole`). A handler reads the items before its loop and acts
on them at the commit. `AsRead` says that what it read stays so, although nothing
is locked: items are written only by the creation of their document, and no
request is about a document that is being created. Hence what a session has
posted is what its plan says of the lots it has worked off, and each commit adds
the plan once, as a whole. A batch has then consumed its inputs n times, and n
is positive once it runs, is done or has rice, however stale the status was that
was overwritten. For a dispatch that left it is the same with its items.

**Atomic refinement** (`Serial`). For sessions on a serial document, what they
read is still so: no other session has the same document, the status read is the
status, the lots worked off carry exactly the planned movements. The commit of a
request is then its atomic action and all steps before it stutter; the commit of
a start or a dispatch of any other document is a `Withdraw`, because what a
session posted is covered. In Delivery and Milling lots do not shrink and stock
never exceeds what the lot received. In Receiving there is no stock to share, but
the acceptance must carry the weight measured last: of a serial load only the last
weighment is final, so the final one that the handler reads is that one.

**Numbers** (`NumberInvariant`). A session that holds the counter has a number the
counter is not beyond; every number that was committed, with its record or by the
commit of first use, is one the counter has passed. So a number taken from a free
counter is new. `CheckedNumberStaysFree` rests on the INV counter being held from
the check on by the checking session, and by whoever inserts an invoice.

**Loads** (`Weighed`). The properties of Receiving hold although no row is locked,
because what a handler acts on later (`Relies`) is never made false by another
session. A load found QC_PENDING is graded and stays so, a weighment is never
deleted, so the weight an acceptance carries remains one that was measured, and
the unique key decides between two acceptances at the commit.

**Numbers in order** (`InTurn`). The number a session takes is the one the counter
stands at (`AtCounter`), and no session but one that makes a claim lets go of the
counter before its commit (`HeldToCommit`). So the records of every other prefix
have exactly the numbers the counter has passed (`Recorded`), and each commit
appends the next one to what `Numbering` has counted. For claims the numbers
without a record are counted: one is added only together with a settings row
(`GapsPaid`).

**Claims and invoices** (`Sound`, `SerialSound`). Billing and Invoicing lock no row
before they read. What holds however requests overlap rests on the little that a
handler relies on and that no other request undoes (`Relies`): the row it is about
is there, an edit of an invoice carries a line of its own, a payment is of a claim
that was approved; and who has claimed a receipt is decided by a unique key at the
commit. For the refinement, `Alone` says that two requests never are on the same
serial claim or invoice, and `Current` what of the rows read at each step is then
still so: the status read is the status, the lines deleted are all the lines, the
sum saved is that of the new lines, the payments read are those committed. `NewLines`
keeps the rows of an edit apart from all others, so replacing the lines replaces
all of them. The commit is then the atomic action and every other step stutters.

**Sums** (`SumTheorems`). `MapThenSumSet` is a CHOOSE of a recursive function and
takes elements in an order nobody knows. That the function exists and is unique is
proved by well-founded induction on the strict subsets of a finite set; then any
element may be taken out first, a change of one summand changes the sum by as
much, and the sum over a set is that of the sums over its parts. `RiceConserved`
follows step by step: a dispatch moves to `issued` what it takes from stock.

**Figures** (`PagesAreRight`, `NumberIsRead`). Rows of the tax summary and keys
correspond one to one, because the first line of a row is one of its lines; so the
rows part the lines and their sums are those of the invoice. A CGST that is rounded
up row by row is above half the tax by at most half a paisa for each row
(`SumOfHalves`). The words are taken group by group: a group adds its number times
its unit to what a reader has understood, whatever came before (`GroupAdds`), and
the five groups make up the number. Both hold for every input: any number of lines
of any quantities, prices and rates, and any amount below a hundred crore rupees.

**Roles** (`Seeding`). What a seeding command has seen of the roles
may be old by its commit, in one way only: roles are never deleted, so a role seen
is there, and a role nobody adjusts is as the catalogue has it or absent. What the
command did not see, and another one has inserted since, collides with the key.

**Sessions** (`Safe` in AuthProofs). The rows a request has loaded agree with
the tables but for revocation and deactivation, and each condition it goes by was
true at some instant since it came in. Expiry is judged last, on a row loaded
earlier; the expiry of a row never changes and time does not go back.

**Papers** (`Safe` in InvoicesProofs). Between storing and committing, a request
owns its document identity, and its bytes are on the disk if the disk is where
the service stores now. So the row inserted has its bytes whichever backend reads
it, and the paper an invoice refers to is the last one printed for it.

Left to TLC: liveness (`RequestsEnd` of Delivery and Invoicing,
`BootstrapCompletes`), because fairness and ENABLED are beyond the prover; and the
properties of the runs that end with a counterexample, which are false.

## 6. Where the code departs from what it says

Two departures are runs that TLC ends with a counterexample; PROJECT.json quotes
the line.

1. Overlapping starts consume a batch twice (`milling_double`): the lot locks
   protect the balance, not the status guard. `dispatch_dispatch` is written the
   same way.
2. Overlapping payments exceed the claim (`billing_overpaid`).

### Departures

Five more are definitions of the models, kept there with the line they are about
and checked by no run. TLC refutes each when it replaces the properties of the
configuration named here, in less than a minute.

| Definition | Configuration | What happens |
|---|---|---|
| `ExactlyOneFinal` (`receiving/models.py:53-54`) | `MCReceiving.cfg`, INVARIANT | two overlapping weighments are both final, and the load can then not be accepted |
| `IssuedIsLocked` (`invoicing/service.py:7`) | `MCInvoicing.cfg`, PROPERTY | an edit that found the invoice DRAFT commits after it was issued |
| `NoGaps` (`shared/reference.py:6-7`) | `MCReferences.cfg`, INVARIANT | a claim that fails after it caused the settings row to be created leaves a gap in the claim numbers |
| `FailedNeverDispatched` (`rice/service.py:3-6`) | `MCDelivery.cfg`, INVARIANT, with `SPECIFICATION Spec` and `SerialOutputs = {}` | a failure decided on PENDING is written over a pass whose rice has left |
| `IssuedSplitStays` (`invoicing/router.py:293`) | `MCPrinting.cfg`, PROPERTY, with `StateCodes = {tamilnadu, kerala}`, one session, one document | the file of an issued invoice is lost, the mill's state was changed: the download is rendered anew with IGST for CGST and SGST |

`ExactlyOneFinal`, `IssuedIsLocked` and `FailedNeverDispatched`, like the two runs,
need two requests on one document at the same time; `ImplementsAtomic`,
`SerialConsumedOnce` and `QualityDecides` show that without it the same promises
hold. `NoGaps` needs one request, the first of a mill that has no settings yet;
`GapsCostProfiles` shows that it has no other cause. `IssuedSplitStays` needs a lost file;
`StoredPaperSurvives` shows that a paper that is not lost does not change.

The same models reach other departures of this kind: production committed on a
batch completed meanwhile; a DELIVERED dispatch or an ACCEPTED load taken back by
a write decided on an older status; a REJECTED load with stock; overlapping edits
that leave lines of both and totals of neither; two payments under one reference
number; two payments that settle a claim and leave it PARTIALLY_PAID; a submitted
claim without lines; two rows of the settings singleton; automatic invoice
numbers that fail one after the other on a number a client chose. An amount of a
hundred crore rupees or more has no words (`shared/numbers.py:59`): `NumberWords`
is stated below it.

## 7. Not modelled

* Reference numbers inside the handlers: each creating handler also holds its
  counter row to the commit. Only handlers that create take it, one counter
  each, and they wait for lots afterwards but no lot holder waits for a counter,
  so it adds order between them and no cycle.
* The audit row, actor and timestamps: written with the mutation, read by none.
* Agencies, allocations and delivery orders: inserted once, never changed; their
  numbers are the plain prefixes of References.
* Products and charge rates: rows a client changes one at a time, copied into the
  lines of an invoice or claim when they are made. Bag counts: arithmetic on one
  output.
* Passwords, tokens and hashes are model values; wording, fonts and the layout of
  a page are left out, its figures are not.
* Configuration, health probes, logging, and the pagination and error classes:
  no state that requests share.
* Reports, frontend, deployment: read-only, or clients of the API. Migrations:
  the constraints of the schema are taken from the model classes.

## 8. Plan

In order of importance:

1. Proofs that lead towards liveness: that a session of Delivery, Invoicing or
   Bootstrap which cannot go on waits for another one (an invariant), so that only
   the fairness argument itself is left to TLC.
2. **MillFlow**: receiving and milling composed as quality and delivery are, with
   conservation of paddy along the chain.
3. Charge rates and products: which row a line is a copy of when both change.
4. Migrations: that each step keeps the constraints the models rely on.
