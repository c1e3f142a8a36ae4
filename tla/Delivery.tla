------------------------------ MODULE Delivery ------------------------------
(***************************************************************************)
(* modules/delivery/service.py: dispatches that take rice out of stock and *)
(* the receipts that close them, composed with the quality decisions that  *)
(* bring rice into stock.  The documents are dispatches; the loop over the *)
(* lots is that of LotRequests.                                            *)
(***************************************************************************)
EXTENDS RiceQuality, FiniteSetsExt

CONSTANTS MaxReceived,  \* largest quantity a receipt reports
          NoReceipt     \* a dispatch without a receipt

ASSUME MaxReceivedAssumption == MaxReceived \in Nat
ASSUME FiniteAssumption      == IsFiniteSet(Lots) /\ IsFiniteSet(Documents)  \* uuids

VARIABLES status,   \* Dispatch.status; ABSENT: no such dispatch yet
          items,    \* items[d][l]: kilograms of lot l on dispatch d; 0: no item row
          issued,   \* issued[d][l]: sum of the RICE_DISPATCH movements with source d
          receipt,  \* receipt[d]: the DeliveryReceipt row of d
          pending   \* pending[s]: the quantity the receipt request of s reports

dispatchVars == <<status, items, issued, receipt>>
deliveryVars == <<dispatchVars, pending>>
vars         == <<lotVars, riceVars, deliveryVars>>

Statuses == {"ABSENT", "DRAFT", "PREPARED", "DISPATCHED", "DELIVERED"}
Steps    == {"idle", "pass", "fail", "share", "prepare", "lock", "post", "commit", "receipt"}

Total(p) == MapThenSumSet(LAMBDA l : p[l], Lots)

\* A receipt computes shortage and excess against the items of the dispatch.
ReceiptFor(p, received) ==
  LET sent == Total(p) IN
  [received |-> received,
   shortage |-> IF sent > received THEN sent - received ELSE 0,
   excess   |-> IF received > sent THEN received - sent ELSE 0]

ReceiptRows == [received : 0 .. MaxReceived, shortage : Nat, excess : Nat]

TypeOK == /\ RequestTypeOK(Steps)
          /\ RiceTypeOK
          /\ status  \in [Documents -> Statuses]
          /\ items   \in [Documents -> Recipe]
          /\ issued  \in [Documents -> [Lots -> Nat]]
          /\ receipt \in [Documents -> ReceiptRows \cup {NoReceipt}]
          /\ pending \in [Sessions -> 0 .. MaxReceived]

Init == /\ RequestInit
        /\ RiceInit
        /\ status  = [d \in Documents |-> "ABSENT"]
        /\ items   = [d \in Documents |-> NoItems]
        /\ issued  = [d \in Documents |-> NoItems]
        /\ receipt = [d \in Documents |-> NoReceipt]
        /\ pending = [s \in Sessions |-> 0]

-----------------------------------------------------------------------------
(* create_dispatch: each lot exists and its balance covers the request, read *)
(* without a lock; then the dispatch and its items are inserted.  The reads  *)
(* are one step: a request names lots its client has seen, and a balance     *)
(* only falls, so what passes the reads one by one passes them at the first. *)

CreateRequest(s, d, p) ==
  /\ status[d] = "ABSENT"
  /\ \A t \in Sessions : target[t] # d   \* a fresh uuid
  /\ \A l \in Used(p) : lotQty[l] > 0 /\ Covers(s, l, p[l])
  /\ Begin(s, d, "share", p, Used(p))
  /\ UNCHANGED <<riceVars, deliveryVars>>

ShareLot(s) == ShareNext(s) /\ UNCHANGED <<riceVars, deliveryVars>>

CommitCreate(s) ==
  /\ pc[s] = "share" /\ todo[s] = {}
  /\ status' = [status EXCEPT ![target[s]] = "DRAFT"]
  /\ items'  = [items EXCEPT ![target[s]] = plan[s]]
  /\ Finish(s)
  /\ UNCHANGED <<riceVars, issued, receipt, pending>>

-----------------------------------------------------------------------------
(* prepare_dispatch                                                         *)

PrepareRequest(s, d) ==
  /\ status[d] = "DRAFT"
  /\ Used(items[d]) # {}
  /\ Begin(s, d, "prepare", NoItems, {})
  /\ UNCHANGED <<riceVars, deliveryVars>>

CommitPrepare(s) ==
  /\ pc[s] = "prepare"
  /\ status' = [status EXCEPT ![target[s]] = "PREPARED"]
  /\ Finish(s)
  /\ UNCHANGED <<riceVars, items, issued, receipt, pending>>

-----------------------------------------------------------------------------
(* dispatch_dispatch: read the status, then lock and post each item.        *)

DispatchRequest(s, d) ==
  /\ status[d] = "PREPARED"
  /\ Begin(s, d, "lock", items[d], Used(items[d]))
  /\ UNCHANGED <<riceVars, deliveryVars>>

LockLot(s) == LockNext(s) /\ UNCHANGED <<riceVars, deliveryVars>>

PostStockOut(s) == PostNext(s) /\ UNCHANGED <<riceVars, deliveryVars>>

RefuseStockOut(s) == RefuseNext(s) /\ UNCHANGED <<riceVars, deliveryVars>>

CommitDispatch(s) ==
  /\ pc[s] = "commit"
  /\ status' = [status EXCEPT ![target[s]] = "DISPATCHED"]
  /\ issued' = [issued EXCEPT ![target[s]] = [l \in Lots |-> @[l] + posted[s][l]]]
  /\ CommitPosted(s)
  /\ EndRequest(s)
  /\ UNCHANGED <<riceVars, items, receipt, pending>>

-----------------------------------------------------------------------------
(* create_delivery_receipt: the status and that no receipt exists are read;  *)
(* the unique dispatch_id decides between two receipts at the commit.        *)

ReceiptRequest(s, d, received) ==
  /\ status[d] = "DISPATCHED"
  /\ receipt[d] = NoReceipt
  /\ Begin(s, d, "receipt", items[d], {})
  /\ pending' = [pending EXCEPT ![s] = received]
  /\ UNCHANGED <<riceVars, dispatchVars>>

\* Mutant of CommitReceipt: no unique constraint on dispatch_id.
CommitReceiptAgain(s) ==
  /\ pc[s] = "receipt"
  /\ receipt' = [receipt EXCEPT ![target[s]] = ReceiptFor(plan[s], pending[s])]
  /\ status'  = [status EXCEPT ![target[s]] = "DELIVERED"]
  /\ pending' = [pending EXCEPT ![s] = 0]
  /\ Finish(s)
  /\ UNCHANGED <<riceVars, items, issued>>

\* Mutant of CommitReceipt: the dispatch is left DISPATCHED.
CommitReceiptWithoutStatus(s) ==
  /\ pc[s] = "receipt"
  /\ receipt[target[s]] = NoReceipt
  /\ receipt' = [receipt EXCEPT ![target[s]] = ReceiptFor(plan[s], pending[s])]
  /\ pending' = [pending EXCEPT ![s] = 0]
  /\ Finish(s)
  /\ UNCHANGED <<riceVars, status, items, issued>>

CommitReceipt(s) ==
  /\ pc[s] = "receipt"
  /\ receipt[target[s]] = NoReceipt
  /\ receipt' = [receipt EXCEPT ![target[s]] = ReceiptFor(plan[s], pending[s])]
  /\ status'  = [status EXCEPT ![target[s]] = "DELIVERED"]
  /\ pending' = [pending EXCEPT ![s] = 0]
  /\ Finish(s)
  /\ UNCHANGED <<riceVars, items, issued>>

\* The second of two receipts fails on the unique constraint.
RefuseReceipt(s) == /\ pc[s] = "receipt"
                    /\ receipt[target[s]] # NoReceipt
                    /\ pending' = [pending EXCEPT ![s] = 0]
                    /\ Abandon(s)
                    /\ UNCHANGED <<riceVars, dispatchVars>>

-----------------------------------------------------------------------------
\* Mutant of Crash: the handler has committed after every lot it posted.
CrashKeepingPosted(s) ==
  /\ pc[s] # "idle"
  /\ issued'  = [issued EXCEPT ![target[s]] = [l \in Lots |-> @[l] + posted[s][l]]]
  /\ pending' = [pending EXCEPT ![s] = 0]
  /\ EndRequest(s) /\ CommitPosted(s)
  /\ UNCHANGED <<riceVars, status, items, receipt>>

Crash(s) == /\ CrashNext(s)
            /\ pending' = [pending EXCEPT ![s] = 0]
            /\ UNCHANGED <<riceVars, dispatchVars>>

DeadlockVictim(s) == DeadlockNext(s) /\ UNCHANGED <<riceVars, deliveryVars>>

Decide(s) == CommitPass(s) \/ RefusePass(s) \/ CommitFail(s)

\* A statement of s that does not wait for a lock.
Progress(s) == \/ CommitCreate(s)
               \/ CommitPrepare(s)
               \/ PostStockOut(s)
               \/ RefuseStockOut(s)
               \/ CommitDispatch(s)
               \/ CommitReceipt(s)
               \/ RefuseReceipt(s)
               \/ Decide(s) /\ UNCHANGED deliveryVars

Request(s, d) == \/ \E p \in Plans : CreateRequest(s, d, p)
                 \/ PrepareRequest(s, d)
                 \/ DispatchRequest(s, d)
                 \/ \E received \in 0 .. MaxReceived : ReceiptRequest(s, d, received)

\* The rest of the mill, seen from delivery: outputs and the decisions on them.
Produce(l) == \E q \in 1 .. MaxKg : ProduceOutput(l, q)

Rice == \E l \in Lots : \/ Produce(l)
                       \/ \E s \in Sessions : PassRequest(s, l) \/ FailRequest(s, l)

Next == \/ Rice /\ UNCHANGED deliveryVars
        \/ \E s \in Sessions, d \in Documents : Request(s, d)
        \/ \E s \in Sessions : \/ ShareLot(s)
                               \/ LockLot(s)
                               \/ Progress(s)
                               \/ Crash(s)
                               \/ DeadlockVictim(s)

Spec == Init /\ [][Next]_vars

(* As in Milling: handlers run to their end, lock waiters are served in      *)
(* turn, the deadlock detector finds every cycle.                           *)
Fairness == /\ \A s \in Sessions : /\ WF_vars(Progress(s))
                                   /\ SF_vars(LockLot(s))
                                   /\ SF_vars(ShareLot(s))
            /\ WF_vars(\E s \in Sessions : DeadlockVictim(s))

FairSpec == Spec /\ Fairness

-----------------------------------------------------------------------------
(* Properties                                                               *)

\* A dispatch takes rice whole: each item equally often, and at least once if it is on the
\* road or has a receipt.  Neither a crash half way through the item loop of
\* dispatch_dispatch nor a status written over a newer one sends rice that stayed in stock.
WholeDispatchIssued ==
  \A d \in Documents :
    LET Sent == status[d] \in {"DISPATCHED", "DELIVERED"} \/ receipt[d] # NoReceipt
    IN  \E n \in {0} \cup UNION {0 .. issued[d][l] : l \in Lots} :
          /\ Sent => n > 0
          /\ \A l \in Lots : issued[d][l] = n * items[d][l]

\* Rice is conserved from quality check to road: what is on hand of a lot and what all
\* the dispatches took of it, however their requests raced, add up to what passed.
RiceConserved ==
  \A l \in Lots :
    LET sent == MapThenSumSet(LAMBDA d : issued[d][l], Documents) IN
    stock[l] + sent = lotQty[l]

\* Rice that failed its quality check can never be dispatched (rice/service.py:3-6).
FailedNeverDispatched ==
  \A l \in Lots : quality[l] = "FAILED" => \A d \in Documents : issued[d][l] = 0

\* A receipt, once recorded, is the only one: racing receipts do not replace it.
ReceiptIsFinal ==
  [][\A d \in Documents : receipt[d] # NoReceipt => receipt'[d] = receipt[d]]_vars

ReceiptsOf(p) == {ReceiptFor(p, received) : received \in 0 .. MaxReceived}

Atomic == INSTANCE AtomicDelivery
            WITH Documents <- SerialDocuments, Others <- Documents \ SerialDocuments,
                 Receipts <- ReceiptsOf, status <- OnSerial(status),
                 items <- OnSerial(items), receipt <- OnSerial(receipt)

\* A dispatch whose requests do not overlap is atomic: its rice leaves stock once and
\* whole, and its receipt accounts for just that, however its requests interleave with
\* those on other dispatches of the same lots, also when these overlap.
ImplementsAtomic == Atomic!Spec
=============================================================================
