---------------------------- MODULE LotRequests -----------------------------
(***************************************************************************)
(* What start_batch (milling) and dispatch_dispatch (delivery) share.      *)
(*                                                                         *)
(* A request runs in a database session of its own.  It reads its document *)
(* (a batch, a dispatch) without a lock, decides on what it read, locks    *)
(* the lots of the document one by one and posts a movement on each, and   *)
(* publishes all its writes in one COMMIT.  Between two statements any     *)
(* other session may commit (READ COMMITTED, core/database.py).            *)
(***************************************************************************)
EXTENDS Inventory

CONSTANTS Documents,        \* identities of documents, existing or not yet
          SerialDocuments,  \* documents on which no two requests overlap
          NoDocument        \* target of an idle session

ASSUME DocumentAssumption == NoDocument \notin Documents
ASSUME SerialAssumption   == SerialDocuments \subseteq Documents

VARIABLES pc,      \* pc[s]: the next statement of session s
          target,  \* target[s]: the document the request is about
          plan,    \* plan[s]: kilograms of each lot the request carries or has read
          todo     \* todo[s]: lots of the plan the loop has not worked off

requestVars == <<pc, target, plan, todo>>
lotVars     == <<lockVars, inventoryVars, requestVars>>

Recipe   == [Lots -> Kg]
NoItems  == [l \in Lots |-> 0]
Used(p)  == {l \in Lots : p[l] > 0}
Plans    == {p \in Recipe : Used(p) # {}}

RequestTypeOK(steps) == /\ LockTypeOK
                        /\ InventoryTypeOK
                        /\ pc     \in [Sessions -> steps]
                        /\ target \in [Sessions -> Documents \cup {NoDocument}]
                        /\ plan   \in [Sessions -> Recipe]
                        /\ todo   \in [Sessions -> SUBSET Lots]

RequestInit == /\ LockInit
               /\ InventoryInit
               /\ pc     = [s \in Sessions |-> "idle"]
               /\ target = [s \in Sessions |-> NoDocument]
               /\ plan   = [s \in Sessions |-> NoItems]
               /\ todo   = [s \in Sessions |-> {}]

-----------------------------------------------------------------------------
(* A request begins with the reads it decides on, and ends.                 *)

Begin(s, d, step, p, rest) ==
  /\ pc[s] = "idle"
  /\ d \in SerialDocuments => \A t \in Sessions : target[t] # d
  /\ pc'     = [pc EXCEPT ![s] = step]
  /\ target' = [target EXCEPT ![s] = d]
  /\ plan'   = [plan EXCEPT ![s] = p]
  /\ todo'   = [todo EXCEPT ![s] = rest]
  /\ WantNext(s, rest)
  /\ UNCHANGED <<xlock, share, inventoryVars>>

EndRequest(s) ==
  /\ pc'     = [pc EXCEPT ![s] = "idle"]
  /\ target' = [target EXCEPT ![s] = NoDocument]
  /\ plan'   = [plan EXCEPT ![s] = NoItems]
  /\ todo'   = [todo EXCEPT ![s] = {}]
  /\ ReleaseLocks(s)

\* Mutant of Abandon: the session of a failed request is not closed.
AbandonWithoutClose(s) ==
  /\ pc'     = [pc EXCEPT ![s] = "idle"]
  /\ target' = [target EXCEPT ![s] = NoDocument]
  /\ plan'   = [plan EXCEPT ![s] = NoItems]
  /\ todo'   = [todo EXCEPT ![s] = {}]
  /\ want'   = [want EXCEPT ![s] = NoLot]
  /\ DiscardPosted(s)
  /\ UNCHANGED <<xlock, share>>

\* get_db closes the session: the transaction is rolled back as a whole.
Abandon(s) == EndRequest(s) /\ DiscardPosted(s)

\* A commit of a request that moves no stock.
Finish(s) == EndRequest(s) /\ UNCHANGED inventoryVars

-----------------------------------------------------------------------------
(* Creating a document: the foreign key of each new item row locks the lot   *)
(* it names FOR KEY SHARE.                                                   *)

ShareNext(s) ==
  /\ pc[s] = "share" /\ want[s] # NoLot
  /\ AcquireShared(s, want[s])
  /\ todo' = [todo EXCEPT ![s] = @ \ {want[s]}]
  /\ WantNext(s, todo[s] \ {want[s]})
  /\ UNCHANGED <<xlock, inventoryVars, pc, target, plan>>

-----------------------------------------------------------------------------
(* The loop over the items: lock the lot, check and post, next lot.          *)

LockNext(s) ==
  /\ pc[s] = "lock" /\ want[s] # NoLot
  /\ AcquireExclusive(s, want[s])
  /\ pc' = [pc EXCEPT ![s] = "post"]
  /\ UNCHANGED <<share, want, inventoryVars, target, plan, todo>>

\* Mutant of PostNext: the loop ends after its first lot.
PostFirst(s) ==
  /\ pc[s] = "post"
  /\ PostIssue(s, want[s], plan[s][want[s]])
  /\ todo' = [todo EXCEPT ![s] = {}]
  /\ WantNext(s, {})
  /\ pc' = [pc EXCEPT ![s] = "commit"]
  /\ UNCHANGED <<xlock, share, lotQty, stock, target, plan>>

PostNext(s) ==
  LET rest == todo[s] \ {want[s]} IN
  /\ pc[s] = "post"
  /\ PostIssue(s, want[s], plan[s][want[s]])
  /\ todo' = [todo EXCEPT ![s] = rest]
  /\ WantNext(s, rest)
  /\ pc' = [pc EXCEPT ![s] = IF rest = {} THEN "commit" ELSE "lock"]
  /\ UNCHANGED <<xlock, share, lotQty, stock, target, plan>>

\* InsufficientStockError ends the request with 409.
RefuseNext(s) == /\ pc[s] = "post"
                 /\ ~ Covers(s, want[s], plan[s][want[s]])
                 /\ Abandon(s)

-----------------------------------------------------------------------------
(* A crash, a dropped connection, or PostgreSQL's deadlock detector ends a   *)
(* request at any statement.                                                *)

CrashNext(s) == pc[s] # "idle" /\ Abandon(s)

\* The sessions a waiting session waits for.
WaitsFor(s) == CASE pc[s] = "lock"  -> ExclusiveBlockers(s, want[s])
                 [] pc[s] = "share" -> IF want[s] = NoLot THEN {}
                                       ELSE SharedBlockers(s, want[s])
                 [] OTHER           -> {}

\* s is on, or behind, a cycle of waiting sessions.
Deadlocked(s) == \E D \in SUBSET Sessions :
                    s \in D /\ \A t \in D : WaitsFor(t) \cap D # {}

DeadlockNext(s) == Deadlocked(s) /\ Abandon(s)

-----------------------------------------------------------------------------
(* Properties of stock under any requests built from these steps             *)

\* However many requests draw on a lot at once, its ledger never sums to less than
\* zero: post_transaction decides under the row lock that the loop takes.
NonNegativeStock == \A l \in Lots : stock[l] >= 0

\* An uncommitted movement is covered by committed stock that no other session can
\* take away first: the session holds the lot's row lock to its commit.
PostedIsReserved ==
  \A s \in Sessions, l \in Lots :
    posted[s][l] > 0 => xlock[l] = s /\ posted[s][l] <= stock[l]

\* Every request is answered: a wait for a lot ends with the lock, or the deadlock
\* detector ends the request.
RequestsEnd == \A s \in Sessions : pc[s] # "idle" ~> pc[s] = "idle"

\* What the atomic specifications see of a function of documents.
OnSerial(f) == [d \in SerialDocuments |-> f[d]]

Ledger == INSTANCE StockLedger WITH onHand <- stock

\* Whatever the requests do to each other, the stock is a ledger that no document
\* overdraws.
ImplementsLedger == Ledger!Spec
=============================================================================
