------------------------------- MODULE Billing ------------------------------
(***************************************************************************)
(* modules/billing/service.py: a claim bills delivered receipts, its lines *)
(* are edited while DRAFT, it is submitted, approved and paid.             *)
(*                                                                         *)
(* A handler loads the claim and then its lines, two statements, and locks *)
(* nothing but the rows it deletes and the counter of the reference it     *)
(* takes.  Both are held to its COMMIT; under the counter it reads no      *)
(* claim any more, so the counter only queues the commits.                 *)
(*                                                                         *)
(* A line row has a fixed amount, negative for a deduction.  Of the totals *)
(* the net is kept, the one that payments are measured against.            *)
(***************************************************************************)
EXTENDS DatabaseSessions, Integers, FiniteSets, FiniteSetsExt

CONSTANTS Claims, NoClaim,
          Receipts,           \* receipts of DELIVERED dispatches
          Rows, Amount,       \* identities of claim lines and their amounts
          References,         \* reference numbers that clients put on payments
          NoReference,
          MaxLines,           \* lines of a claim in one request
          MaxAmount,          \* the largest payment
          MaxPaid,            \* a claim that was paid this much is paid no more
          SerialClaims        \* claims on which no two requests overlap

ASSUME NullAssumption   == NoClaim \notin Claims /\ NoReference \notin References
ASSUME RowsAssumption   == IsFiniteSet(Rows)   \* they are uuids
ASSUME AmountAssumption == Amount \in [Rows -> Int]
ASSUME BoundsAssumption == {MaxLines, MaxAmount, MaxPaid} \subseteq Nat \ {0}
ASSUME SerialAssumption == SerialClaims \subseteq Claims

VARIABLES status,   \* GovernmentClaim.status; ABSENT: no such claim yet
          approved, \* GovernmentClaim.approved_at is set
          lines,    \* lines[c]: the committed ClaimLine rows of c
          net,      \* GovernmentClaim.net_amount
          links,    \* links[c]: the receipts of the ClaimDelivery rows of c
          paid,     \* sum of the Payment rows of c
          used,     \* used[c][r]: the Payment rows of c with reference_no r
          pc, target,
          input,    \* input[s]: the body of the request
          read,     \* read[s]: what the handler of s has loaded
          dels      \* dels[s]: line rows that s has deleted and not committed

claimVars   == <<status, approved, lines, net, links, paid, used>>
sessionVars == <<pc, target, input, read, dels>>
vars        == <<claimVars, sessionVars>>

Statuses == {"ABSENT", "DRAFT", "SUBMITTED", "APPROVED", "PARTIALLY_PAID", "PAID"}
Payable  == {"APPROVED", "PARTIALLY_PAID"}
Steps    == {"idle", "claim", "editLines", "delete", "refresh", "sum", "saveNet",
             "submitLines", "submit", "approve", "reference", "outstanding", "pay"}
LineSets == {L \in SUBSET Rows : Cardinality(L) <= MaxLines}
Input    == [receipts : SUBSET Receipts, lines : LineSets,
             amount : 0 .. MaxAmount, reference : References \cup {NoReference}]
NoInput  == [receipts |-> {}, lines |-> {}, amount |-> 0, reference |-> NoReference]
Read     == [status : Statuses, lines : SUBSET Rows, net : Nat, paid : Nat]
NoRead   == [status |-> "ABSENT", lines |-> {}, net |-> 0, paid |-> 0]

TypeOK == /\ status   \in [Claims -> Statuses]
          /\ approved \in [Claims -> BOOLEAN]
          /\ lines    \in [Claims -> SUBSET Rows]
          /\ net      \in [Claims -> Nat]
          /\ links    \in [Claims -> SUBSET Receipts]
          /\ paid     \in [Claims -> Nat]
          /\ used     \in [Claims -> [References -> Nat]]
          /\ pc       \in [Sessions -> Steps]
          /\ target   \in [Sessions -> Claims \cup {NoClaim}]
          /\ input    \in [Sessions -> Input]
          /\ read     \in [Sessions -> Read]
          /\ dels     \in [Sessions -> SUBSET Rows]
          /\ \A s \in Sessions : pc[s] = "idle" => target[s] = NoClaim /\ dels[s] = {}

Init == /\ status   = [c \in Claims |-> "ABSENT"]
        /\ approved = [c \in Claims |-> FALSE]
        /\ lines    = [c \in Claims |-> {}]
        /\ net      = [c \in Claims |-> 0]
        /\ links    = [c \in Claims |-> {}]
        /\ paid     = [c \in Claims |-> 0]
        /\ used     = [c \in Claims |-> [r \in References |-> 0]]
        /\ pc       = [s \in Sessions |-> "idle"]
        /\ target   = [s \in Sessions |-> NoClaim]
        /\ input    = [s \in Sessions |-> NoInput]
        /\ read     = [s \in Sessions |-> NoRead]
        /\ dels     = [s \in Sessions |-> {}]

-----------------------------------------------------------------------------
\* Mutant of NetOf: a claim may be negative.
NetBelowZero(L) == MapThenSumSet(LAMBDA r : Amount[r], L)

\* _recompute_totals: charges minus deductions, never negative.
NetOf(L) == Max({0, MapThenSumSet(LAMBDA r : Amount[r], L)})

\* Row r is a fresh uuid: no table and no handler knows it.
Fresh(r) == /\ \A c \in Claims : r \notin lines[c]
            /\ \A s \in Sessions : r \notin input[s].lines \cup read[s].lines \cup dels[s]

FreshLines == {L \in LineSets : \A r \in L : Fresh(r)}

\* _load_claim: the row; its lines are the next statement.
Begin(s, c, step, body) ==
  /\ pc[s] = "idle"
  /\ c \in SerialClaims => \A t \in Sessions : target[t] # c
  /\ pc'     = [pc EXCEPT ![s] = step]
  /\ target' = [target EXCEPT ![s] = c]
  /\ input'  = [input EXCEPT ![s] = body]
  /\ read'   = [read EXCEPT ![s] = [NoRead EXCEPT !.status = status[c], !.net = net[c]]]
  /\ UNCHANGED <<claimVars, dels>>

Goto(s, step) == pc' = [pc EXCEPT ![s] = step] /\ UNCHANGED <<claimVars, target, input>>

\* selectinload(GovernmentClaim.lines)
LoadLines(s, step) == /\ read' = [read EXCEPT ![s].lines = lines[target[s]]]
                      /\ Goto(s, step)
                      /\ UNCHANGED dels

\* COMMIT and ROLLBACK: the session is closed.
EndRequest(s) == /\ pc'     = [pc EXCEPT ![s] = "idle"]
                 /\ target' = [target EXCEPT ![s] = NoClaim]
                 /\ input'  = [input EXCEPT ![s] = NoInput]
                 /\ read'   = [read EXCEPT ![s] = NoRead]
                 /\ dels'   = [dels EXCEPT ![s] = {}]

Abandon(s) == EndRequest(s) /\ UNCHANGED claimVars

\* The UPDATE of a handler that leaves the claim in status st: SQLAlchemy writes the
\* column only if it differs from the loaded one.
WriteStatus(s, st) ==
  status' = IF read[s].status = st THEN status ELSE [status EXCEPT ![target[s]] = st]

-----------------------------------------------------------------------------
(* create_claim: no receipt of the request is claimed; then the claim, its   *)
(* links and the lines of the active charge rates in one commit.            *)

Claimed(r) == \E c \in Claims : r \in links[c]

CreateRequest(s, R) ==
  /\ pc[s] = "idle"
  /\ R # {} /\ \A r \in R : ~ Claimed(r)
  /\ pc'    = [pc EXCEPT ![s] = "claim"]
  /\ input' = [input EXCEPT ![s].receipts = R]
  /\ UNCHANGED <<claimVars, target, read, dels>>

\* Mutant of CommitCreate: no unique key on delivery_receipt_id.
CommitCreateAgain(s, c, L) ==
  /\ pc[s] = "claim"
  /\ status[c] = "ABSENT"
  /\ status' = [status EXCEPT ![c] = "DRAFT"]
  /\ links'  = [links EXCEPT ![c] = input[s].receipts]
  /\ lines'  = [lines EXCEPT ![c] = L]
  /\ net'    = [net EXCEPT ![c] = NetOf(L)]
  /\ EndRequest(s)
  /\ UNCHANGED <<approved, paid, used>>

CommitCreate(s, c, L) ==
  /\ pc[s] = "claim"
  /\ status[c] = "ABSENT"
  /\ \A r \in input[s].receipts : ~ Claimed(r)
  /\ status' = [status EXCEPT ![c] = "DRAFT"]
  /\ links'  = [links EXCEPT ![c] = input[s].receipts]
  /\ lines'  = [lines EXCEPT ![c] = L]
  /\ net'    = [net EXCEPT ![c] = NetOf(L)]
  /\ EndRequest(s)
  /\ UNCHANGED <<approved, paid, used>>

-----------------------------------------------------------------------------
(* replace_lines: DELETE the loaded lines, INSERT the new ones; refresh; sum *)
(* the lines; UPDATE the net if it differs from the refreshed one.          *)

EditRequest(s, c, L) == /\ status[c] = "DRAFT"
                        /\ Begin(s, c, "editLines", [NoInput EXCEPT !.lines = L])

LoadEditedLines(s) == pc[s] = "editLines" /\ LoadLines(s, "delete")

\* A row that another session is deleting is waited for; one that is gone is not missed.
ReplaceLines(s) ==
  /\ pc[s] = "delete"
  /\ \A t \in Sessions \ {s} : dels[t] \cap read[s].lines = {}
  /\ dels' = [dels EXCEPT ![s] = read[s].lines \cap lines[target[s]]]
  /\ Goto(s, "refresh")
  /\ UNCHANGED read

RefreshNet(s) == /\ pc[s] = "refresh"
                 /\ read' = [read EXCEPT ![s].net = net[target[s]]]
                 /\ Goto(s, "sum")
                 /\ UNCHANGED dels

\* The lines as s sees them: READ COMMITTED and its own changes.
SumLines(s) ==
  /\ pc[s] = "sum"
  /\ read' = [read EXCEPT ![s].lines = (lines[target[s]] \ dels[s]) \cup input[s].lines]
  /\ Goto(s, "saveNet")
  /\ UNCHANGED dels

CommitEdit(s) ==
  LET c == target[s]  sum == NetOf(read[s].lines) IN
  /\ pc[s] = "saveNet"
  /\ lines' = [lines EXCEPT ![c] = (@ \ dels[s]) \cup input[s].lines]
  /\ net'   = IF sum = read[s].net THEN net ELSE [net EXCEPT ![c] = sum]
  /\ EndRequest(s)
  /\ UNCHANGED <<status, approved, links, paid, used>>

-----------------------------------------------------------------------------
(* submit_claim, approve_claim                                              *)

SubmitRequest(s, c) == status[c] = "DRAFT" /\ Begin(s, c, "submitLines", NoInput)

LoadSubmittedLines(s) == pc[s] = "submitLines" /\ LoadLines(s, "submit")

CommitSubmit(s) == /\ pc[s] = "submit"
                   /\ read[s].lines # {}
                   /\ WriteStatus(s, "SUBMITTED")
                   /\ EndRequest(s)
                   /\ UNCHANGED <<approved, lines, net, links, paid, used>>

ApproveRequest(s, c) == status[c] = "SUBMITTED" /\ Begin(s, c, "approve", NoInput)

CommitApprove(s) == /\ pc[s] = "approve"
                    /\ WriteStatus(s, "APPROVED")
                    /\ approved' = [approved EXCEPT ![target[s]] = TRUE]
                    /\ EndRequest(s)
                    /\ UNCHANGED <<lines, net, links, paid, used>>

-----------------------------------------------------------------------------
(* record_payment: the status, the reference number, the sum of the payments *)
(* are three reads; then the payment and the status in one commit.          *)

\* Mutant of PayRequest: a claim may be paid as soon as it is submitted.
PaySubmitted(s, c, amount, r) ==
  /\ status[c] \in Payable \cup {"SUBMITTED"}
  /\ paid[c] + amount <= MaxPaid
  /\ Begin(s, c, IF r = NoReference THEN "outstanding" ELSE "reference",
           [NoInput EXCEPT !.amount = amount, !.reference = r])

PayRequest(s, c, amount, r) ==
  /\ status[c] \in Payable
  /\ paid[c] + amount <= MaxPaid
  /\ Begin(s, c, IF r = NoReference THEN "outstanding" ELSE "reference",
           [NoInput EXCEPT !.amount = amount, !.reference = r])

ReferenceUsed(s) == used[target[s]][input[s].reference] # 0

ReadReference(s) == /\ pc[s] = "reference"
                    /\ ~ ReferenceUsed(s)
                    /\ Goto(s, "outstanding")
                    /\ UNCHANGED <<read, dels>>

\* What the claim has outstanding, by the net loaded and the payments committed now.
Exceeds(s) == input[s].amount > read[s].net - paid[target[s]]

ReadPaid(s) == /\ pc[s] = "outstanding"
               /\ ~ Exceeds(s)
               /\ read' = [read EXCEPT ![s].paid = paid[target[s]]]
               /\ Goto(s, "pay")
               /\ UNCHANGED dels

InsertPayment(s) ==
  LET c == target[s] IN
  /\ paid' = [paid EXCEPT ![c] = @ + input[s].amount]
  /\ used' = IF input[s].reference = NoReference THEN used
             ELSE [used EXCEPT ![c][input[s].reference] = @ + 1]

\* Mutant of CommitPayment: the payment that leaves nothing outstanding is partial.
CommitPaymentNeverLast(s) ==
  /\ pc[s] = "pay"
  /\ InsertPayment(s)
  /\ WriteStatus(s, IF read[s].net - read[s].paid - input[s].amount < 0
                    THEN "PAID" ELSE "PARTIALLY_PAID")
  /\ EndRequest(s)
  /\ UNCHANGED <<approved, lines, net, links>>

CommitPayment(s) ==
  /\ pc[s] = "pay"
  /\ InsertPayment(s)
  /\ WriteStatus(s, IF read[s].net - read[s].paid - input[s].amount <= 0
                    THEN "PAID" ELSE "PARTIALLY_PAID")
  /\ EndRequest(s)
  /\ UNCHANGED <<approved, lines, net, links>>

-----------------------------------------------------------------------------
\* The statements that end a request with an error answer.
Refuse(s) == /\ \/ pc[s] = "claim" /\ \E r \in input[s].receipts : Claimed(r)
                \/ pc[s] = "submit" /\ read[s].lines = {}
                \/ pc[s] = "reference" /\ ReferenceUsed(s)
                \/ pc[s] = "outstanding" /\ Exceeds(s)
             /\ Abandon(s)

Crash(s) == pc[s] # "idle" /\ Abandon(s)

Request(s, c) ==
  \/ \E L \in FreshLines : EditRequest(s, c, L)
  \/ SubmitRequest(s, c)
  \/ ApproveRequest(s, c)
  \/ \E amount \in 1 .. MaxAmount, r \in References \cup {NoReference} :
       PayRequest(s, c, amount, r)

Progress(s) == \/ \E c \in Claims, L \in FreshLines : CommitCreate(s, c, L)
               \/ LoadEditedLines(s)
               \/ ReplaceLines(s)
               \/ RefreshNet(s)
               \/ SumLines(s)
               \/ CommitEdit(s)
               \/ LoadSubmittedLines(s)
               \/ CommitSubmit(s)
               \/ CommitApprove(s)
               \/ ReadReference(s)
               \/ ReadPaid(s)
               \/ CommitPayment(s)
               \/ Refuse(s)

Next == \/ \E s \in Sessions, R \in SUBSET Receipts : CreateRequest(s, R)
        \/ \E s \in Sessions, c \in Claims : Request(s, c)
        \/ \E s \in Sessions : Progress(s) \/ Crash(s)

Spec == Init /\ [][Next]_vars

-----------------------------------------------------------------------------
(* Properties                                                               *)

\* However creations race, a receipt is on one claim only (billing/service.py:4-5).
ClaimedOnce == \A c, d \in Claims : c # d => links[c] \cap links[d] = {}

\* Whatever stale status is written back, money is only recorded on a claim that was
\* approved at some time, and a claim that counts as paid has a payment.
PaidAfterApproval ==
  \A c \in Claims : /\ paid[c] > 0 => approved[c]
                    /\ status[c] \in {"PARTIALLY_PAID", "PAID"} => paid[c] > 0

\* Payments cannot exceed the outstanding balance (billing/service.py:7).
PaidWithinNet == \A c \in Claims : paid[c] <= net[c]

OnSerial(f) == [c \in SerialClaims |-> f[c]]

Atomic == INSTANCE AtomicBilling
            WITH Claims <- SerialClaims, status <- OnSerial(status),
                 lines <- OnSerial(lines), net <- OnSerial(net), links <- OnSerial(links),
                 paid <- OnSerial(paid), used <- OnSerial(used)

\* Requests on one claim that do not overlap take effect atomically: the net is that of
\* the lines, payments stay within it, the last one makes the claim PAID, and a
\* reference number is used once.
ImplementsAtomic == Atomic!Spec
=============================================================================
