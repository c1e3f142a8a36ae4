------------------------- MODULE LotRequestsProofs --------------------------
(***************************************************************************)
(* No overdraft.  post_transaction compares one SUM with one quantity, and  *)
(* stock changes only at commits; what carries the comparison from the SUM  *)
(* to the commit is that nobody else can post on the lot in between.  The   *)
(* lemmas say this of each step of LotRequests, for any set of statements   *)
(* pc ranges over; the proofs about Milling and Delivery cite them.         *)
(***************************************************************************)
EXTENDS LotRequests, TLAPS

LoopSteps == {"idle", "share", "lock", "post", "commit"}

\* The statements of the loop over the items; only there is anything posted.
Looping == {"lock", "post", "commit"}

\* A session about to post holds the lot it posts on.
HoldsLot == \A s \in Sessions : pc[s] = "post" => want[s] \in Lots /\ xlock[want[s]] = s

PostedInLoop ==
  \A s \in Sessions, l \in Lots : posted[s][l] > 0 => pc[s] \in Looping

Reservation(steps) == /\ RequestTypeOK(steps)
                      /\ HoldsLot
                      /\ PostedInLoop
                      /\ PostedIsReserved
                      /\ NonNegativeStock

-----------------------------------------------------------------------------
(* Types                                                                    *)

LEMMA EndRequestType ==
  ASSUME NEW steps, LoopSteps \subseteq steps, RequestTypeOK(steps), NEW s \in Sessions,
         EndRequest(s)
  PROVE  /\ LockTypeOK'
         /\ pc'     \in [Sessions -> steps]
         /\ target' \in [Sessions -> Documents \cup {NoDocument}]
         /\ plan'   \in [Sessions -> Recipe]
         /\ todo'   \in [Sessions -> SUBSET Lots]
<1>1. NoItems \in Recipe
  BY MaxKgAssumption DEF NoItems, Recipe, Kg
<1>2. LockTypeOK'
  BY DEF RequestTypeOK, EndRequest, LockTypeOK, ReleaseLocks
<1> QED
  BY <1>1, <1>2 DEF RequestTypeOK, EndRequest, LoopSteps

LEMMA WantNextType ==
  ASSUME LockTypeOK, NEW s \in Sessions, NEW rest \in SUBSET Lots, WantNext(s, rest)
  PROVE  /\ want' \in [Sessions -> Lots \cup {NoLot}]
         /\ rest # {} => want'[s] \in rest
         /\ \A t \in Sessions \ {s} : want'[t] = want[t]
BY DEF LockTypeOK, WantNext

LEMMA CommitPostedType ==
  ASSUME InventoryTypeOK, NEW s \in Sessions, CommitPosted(s) \/ DiscardPosted(s)
  PROVE  InventoryTypeOK'
<1>1. NothingPosted \in [Lots -> Nat]
  BY DEF NothingPosted
<1>2. posted' \in [Sessions -> [Lots -> Nat]]
  BY <1>1 DEF InventoryTypeOK, CommitPosted, DiscardPosted
<1>3. \A l \in Lots : stock[l] - posted[s][l] \in Int
  BY DEF InventoryTypeOK
<1> QED
  BY <1>2, <1>3 DEF InventoryTypeOK, CommitPosted, DiscardPosted

-----------------------------------------------------------------------------
(* Each step keeps the reservation                                          *)

LEMMA InitReservation ==
  ASSUME NEW steps, LoopSteps \subseteq steps, RequestInit
  PROVE  Reservation(steps)
<1>1. RequestTypeOK(steps)
  BY MaxKgAssumption
     DEF RequestInit, RequestTypeOK, LockInit, LockTypeOK, InventoryInit, InventoryTypeOK,
         NothingPosted, NoItems, Recipe, Kg, LoopSteps
<1> QED
  BY <1>1 DEF RequestInit, Reservation, HoldsLot, PostedInLoop, PostedIsReserved,
     NonNegativeStock, InventoryInit, NothingPosted

\* The end of s, whichever way, takes no lock and no reservation from another session.
LEMMA EndReservation ==
  ASSUME NEW steps, LoopSteps \subseteq steps, Reservation(steps), NEW s \in Sessions,
         EndRequest(s), CommitPosted(s) \/ DiscardPosted(s)
  PROVE  Reservation(steps)'
<1>0. RequestTypeOK(steps)'
  BY EndRequestType, CommitPostedType DEF Reservation, RequestTypeOK
<1>1. ASSUME NEW t \in Sessions, NEW l \in Lots
      PROVE  /\ t # s => (xlock[l] = t => xlock'[l] = t) /\ posted'[t] = posted[t]
             /\ posted'[s][l] = 0
  BY NullAssumption
     DEF Reservation, RequestTypeOK, LockTypeOK, InventoryTypeOK, EndRequest, ReleaseLocks,
         CommitPosted, DiscardPosted, NothingPosted
<1>2. HoldsLot'
  BY <1>1 DEF Reservation, HoldsLot, EndRequest, ReleaseLocks, RequestTypeOK, LockTypeOK
<1>3. ASSUME NEW l \in Lots
      PROVE  /\ stock'[l] >= 0
             /\ posted[s][l] = 0 => stock'[l] = stock[l]
  BY DEF Reservation, RequestTypeOK, InventoryTypeOK, CommitPosted, DiscardPosted,
     PostedIsReserved, NonNegativeStock
<1>4. ASSUME NEW t \in Sessions, NEW l \in Lots, posted'[t][l] > 0
      PROVE  /\ xlock'[l] = t /\ posted'[t][l] <= stock'[l]
             /\ pc'[t] \in Looping
  <2>1. t # s /\ posted[t][l] > 0
    BY <1>1, <1>4
  <2>2. xlock[l] = t /\ posted[t][l] <= stock[l]
    BY <2>1 DEF Reservation, PostedIsReserved
  <2>3. posted[s][l] = 0
    BY <2>1, <2>2 DEF Reservation, PostedIsReserved, RequestTypeOK, InventoryTypeOK
  <2>4. pc'[t] \in Looping
    BY <2>1 DEF Reservation, PostedInLoop, EndRequest, RequestTypeOK
  <2> QED
    BY <1>1, <1>3, <2>1, <2>2, <2>3, <2>4
<1> QED
  BY <1>0, <1>2, <1>3, <1>4 DEF Reservation, PostedInLoop, PostedIsReserved, NonNegativeStock

LEMMA AbandonReservation ==
  ASSUME NEW steps, LoopSteps \subseteq steps, Reservation(steps), NEW s \in Sessions,
         Abandon(s)
  PROVE  Reservation(steps)'
BY EndReservation DEF Abandon

\* A session outside the loop has posted nothing.
LEMMA NothingToDiscard ==
  ASSUME NEW steps, Reservation(steps), NEW s \in Sessions, pc[s] \notin Looping,
         UNCHANGED inventoryVars
  PROVE  DiscardPosted(s)
<1>1. \A l \in Lots : posted[s][l] = 0
  BY DEF Reservation, PostedInLoop, RequestTypeOK, InventoryTypeOK
<1> QED
  BY <1>1 DEF DiscardPosted, NothingPosted, inventoryVars, Reservation, RequestTypeOK,
     InventoryTypeOK

LEMMA FinishReservation ==
  ASSUME NEW steps, LoopSteps \subseteq steps, Reservation(steps), NEW s \in Sessions,
         pc[s] \notin Looping, Finish(s)
  PROVE  Reservation(steps)'
BY NothingToDiscard, EndReservation DEF Finish

\* A step that posts nothing, moves no stock and releases no lock disturbs nothing, as
\* long as it brings no session to "post".
LEMMA QuietReservation ==
  ASSUME NEW steps, Reservation(steps), RequestTypeOK(steps)',
         UNCHANGED <<xlock, inventoryVars>>,
         \A t \in Sessions : /\ pc'[t] = "post" => pc[t] = "post" /\ want'[t] = want[t]
                             /\ pc[t] \in Looping => pc'[t] \in Looping
  PROVE  Reservation(steps)'
BY DEF Reservation, HoldsLot, PostedInLoop, PostedIsReserved, NonNegativeStock, inventoryVars

LEMMA BeginReservation ==
  ASSUME NEW steps, Reservation(steps), NEW s \in Sessions,
         NEW d \in Documents \cup {NoDocument}, NEW step \in steps \ {"post"}, NEW p \in Recipe,
         NEW rest \in SUBSET Lots, Begin(s, d, step, p, rest)
  PROVE  Reservation(steps)'
<1>1. want' \in [Sessions -> Lots \cup {NoLot}] /\ \A t \in Sessions \ {s} : want'[t] = want[t]
  BY WantNextType DEF Begin, Reservation, RequestTypeOK
<1>2. RequestTypeOK(steps)'
  BY <1>1 DEF Begin, Reservation, RequestTypeOK, LockTypeOK, InventoryTypeOK, inventoryVars
<1>3. \A t \in Sessions : /\ pc'[t] = "post" => pc[t] = "post" /\ want'[t] = want[t]
                          /\ pc[t] \in Looping => pc'[t] \in Looping
  BY <1>1 DEF Begin, Looping, Reservation, RequestTypeOK
<1>4. UNCHANGED <<xlock, inventoryVars>>
  BY DEF Begin
<1> QED
  BY <1>2, <1>3, <1>4, QuietReservation

LEMMA ShareReservation ==
  ASSUME NEW steps, Reservation(steps), NEW s \in Sessions, ShareNext(s)
  PROVE  Reservation(steps)'
<1>1. todo[s] \ {want[s]} \in SUBSET Lots /\ want[s] \in Lots
  BY DEF Reservation, RequestTypeOK, LockTypeOK, ShareNext
<1>2. want' \in [Sessions -> Lots \cup {NoLot}] /\ \A t \in Sessions \ {s} : want'[t] = want[t]
  BY <1>1, WantNextType DEF Reservation, RequestTypeOK, ShareNext
<1>3. RequestTypeOK(steps)'
  BY <1>1, <1>2
     DEF ShareNext, AcquireShared, Reservation, RequestTypeOK, LockTypeOK, InventoryTypeOK,
         inventoryVars
<1>4. \A t \in Sessions : /\ pc'[t] = "post" => pc[t] = "post" /\ want'[t] = want[t]
                          /\ pc[t] \in Looping => pc'[t] \in Looping
  BY <1>2 DEF ShareNext
<1>5. UNCHANGED <<xlock, inventoryVars>>
  BY DEF ShareNext
<1> QED
  BY <1>3, <1>4, <1>5, QuietReservation

\* A statement that only moves its own session on.
LEMMA MoveReservation ==
  ASSUME NEW steps, Reservation(steps), NEW s \in Sessions, pc[s] \notin Looping,
         NEW step \in steps \ {"post"}, pc' = [pc EXCEPT ![s] = step],
         UNCHANGED <<lockVars, inventoryVars, target, plan, todo>>
  PROVE  Reservation(steps)'
<1>1. RequestTypeOK(steps)'
  BY DEF Reservation, RequestTypeOK, LockTypeOK, InventoryTypeOK, lockVars, inventoryVars
<1>2. \A t \in Sessions : /\ pc'[t] = "post" => pc[t] = "post" /\ want'[t] = want[t]
                          /\ pc[t] \in Looping => pc'[t] \in Looping
  BY DEF Reservation, RequestTypeOK, lockVars
<1>3. UNCHANGED <<xlock, inventoryVars>>
  BY DEF lockVars
<1> QED
  BY <1>1, <1>2, <1>3, QuietReservation

LEMMA LockReservation ==
  ASSUME NEW steps, LoopSteps \subseteq steps, Reservation(steps), NEW s \in Sessions,
         LockNext(s)
  PROVE  Reservation(steps)'
<1>0. RequestTypeOK(steps)'
  BY DEF LockNext, AcquireExclusive, Reservation, RequestTypeOK, LockTypeOK,
     InventoryTypeOK, inventoryVars, LoopSteps
<1>1. want[s] \in Lots /\ xlock[want[s]] \in {s, NoSession}
  BY DEF LockNext, AcquireExclusive, ExclusiveBlockers, Reservation, RequestTypeOK, LockTypeOK
<1>2. \A t \in Sessions, l \in Lots : xlock[l] = t => xlock'[l] = t
  BY <1>1, NullAssumption
     DEF LockNext, AcquireExclusive, Reservation, RequestTypeOK, LockTypeOK
<1>3. xlock'[want[s]] = s
  BY <1>1 DEF LockNext, AcquireExclusive, Reservation, RequestTypeOK, LockTypeOK
<1>4. HoldsLot'
  BY <1>1, <1>2, <1>3 DEF LockNext, HoldsLot, Reservation, RequestTypeOK
<1>5. PostedInLoop'
  BY DEF LockNext, PostedInLoop, Looping, inventoryVars, Reservation, RequestTypeOK
<1> QED
  BY <1>0, <1>2, <1>4, <1>5
     DEF LockNext, inventoryVars, Reservation, PostedIsReserved, NonNegativeStock

LEMMA PostReservation ==
  ASSUME NEW steps, LoopSteps \subseteq steps, Reservation(steps), NEW s \in Sessions,
         PostNext(s)
  PROVE  Reservation(steps)'
<1> DEFINE l    == want[s]
           rest == todo[s] \ {l}
<1>1. l \in Lots /\ xlock[l] = s /\ rest \in SUBSET Lots
  BY DEF PostNext, Reservation, HoldsLot, RequestTypeOK
<1>2. plan[s][l] \in Nat /\ posted[s][l] \in Nat /\ stock[l] \in Int
  BY <1>1, MaxKgAssumption DEF Reservation, RequestTypeOK, InventoryTypeOK, Recipe, Kg
<1>3. want' \in [Sessions -> Lots \cup {NoLot}] /\ \A t \in Sessions \ {s} : want'[t] = want[t]
  BY <1>1, WantNextType DEF PostNext, Reservation, RequestTypeOK
<1>4. posted' \in [Sessions -> [Lots -> Nat]]
  <2>1. posted[s][l] + plan[s][l] \in Nat
    BY <1>2
  <2> QED
    BY <1>1, <2>1 DEF PostNext, PostIssue, Reservation, RequestTypeOK, InventoryTypeOK
<1>5. RequestTypeOK(steps)'
  <2>1. LockTypeOK' /\ InventoryTypeOK'
    BY <1>3, <1>4 DEF PostNext, Reservation, RequestTypeOK, LockTypeOK, InventoryTypeOK
  <2>2. todo' \in [Sessions -> SUBSET Lots]
    BY <1>1 DEF PostNext, Reservation, RequestTypeOK
  <2>3. pc' \in [Sessions -> steps]
    BY DEF PostNext, Reservation, RequestTypeOK, LoopSteps
  <2> QED
    BY <2>1, <2>2, <2>3 DEF PostNext, Reservation, RequestTypeOK
<1>6. /\ posted'[s][l] = posted[s][l] + plan[s][l]
      /\ posted'[s][l] <= stock[l]
      /\ \A t \in Sessions, k \in Lots : t # s \/ k # l => posted'[t][k] = posted[t][k]
  BY <1>1, <1>2
     DEF PostNext, PostIssue, Covers, Available, Reservation, RequestTypeOK, InventoryTypeOK
<1>7. PostedIsReserved'
  BY <1>1, <1>6 DEF PostNext, Reservation, PostedIsReserved
<1>8. HoldsLot'
  BY <1>3 DEF PostNext, Reservation, HoldsLot, RequestTypeOK
<1>9. PostedInLoop'
  BY <1>6 DEF PostNext, Reservation, PostedInLoop, Looping, RequestTypeOK
<1> QED
  BY <1>5, <1>7, <1>8, <1>9 DEF PostNext, Reservation, NonNegativeStock

LEMMA ReceiveReservation ==
  ASSUME NEW steps, Reservation(steps), NEW l \in Lots, NEW q \in 1 .. MaxKg,
         ReceiveLot(l, q), UNCHANGED <<lockVars, requestVars>>
  PROVE  Reservation(steps)'
<1>1. /\ stock' \in [Lots -> Int] /\ lotQty' \in [Lots -> Kg]
      /\ \A k \in Lots : stock'[k] >= stock[k]
  BY MaxKgAssumption DEF ReceiveLot, Kg, Reservation, RequestTypeOK, InventoryTypeOK
<1>2. RequestTypeOK(steps)'
  BY <1>1 DEF ReceiveLot, Reservation, RequestTypeOK, InventoryTypeOK, LockTypeOK, lockVars,
     requestVars
<1> QED
  BY <1>1, <1>2
     DEF ReceiveLot, Reservation, HoldsLot, PostedInLoop, PostedIsReserved, NonNegativeStock,
         RequestTypeOK, InventoryTypeOK, lockVars, requestVars

\* A request outside the loop that ends with a new lot.
LEMMA ReceiveEndReservation ==
  ASSUME NEW steps, LoopSteps \subseteq steps, Reservation(steps), NEW s \in Sessions,
         pc[s] \notin Looping, NEW l \in Lots, NEW q \in 1 .. MaxKg,
         ReceiveLot(l, q), EndRequest(s)
  PROVE  Reservation(steps)'
<1>1. /\ stock' \in [Lots -> Int] /\ lotQty' \in [Lots -> Kg]
      /\ \A k \in Lots : stock'[k] >= stock[k]
  BY MaxKgAssumption DEF ReceiveLot, Kg, Reservation, RequestTypeOK, InventoryTypeOK
<1>2. RequestTypeOK(steps)'
  BY <1>1, EndRequestType DEF ReceiveLot, Reservation, RequestTypeOK, InventoryTypeOK
<1>3. ASSUME NEW t \in Sessions, NEW k \in Lots
      PROVE  t # s => (xlock[k] = t => xlock'[k] = t)
  BY NullAssumption DEF Reservation, RequestTypeOK, LockTypeOK, EndRequest, ReleaseLocks
<1>4. HoldsLot'
  BY <1>3 DEF Reservation, HoldsLot, EndRequest, ReleaseLocks, RequestTypeOK, LockTypeOK
<1>5. ASSUME NEW t \in Sessions, NEW k \in Lots, posted'[t][k] > 0
      PROVE  xlock'[k] = t /\ posted'[t][k] <= stock'[k] /\ pc'[t] \in Looping
  <2>1. t # s /\ posted[t][k] > 0 /\ pc[t] \in Looping
    BY <1>5 DEF ReceiveLot, Reservation, PostedInLoop
  <2>2. xlock[k] = t /\ posted[t][k] <= stock[k] /\ posted[t][k] \in Nat /\ stock[k] \in Int
    BY <2>1 DEF Reservation, PostedIsReserved, RequestTypeOK, InventoryTypeOK
  <2>3. pc'[t] \in Looping
    BY <2>1 DEF EndRequest, Reservation, RequestTypeOK
  <2>4. stock'[k] \in Int /\ stock'[k] >= stock[k]
    BY <1>1
  <2> QED
    BY <1>3, <2>1, <2>2, <2>3, <2>4 DEF ReceiveLot
<1>6. NonNegativeStock'
  BY <1>1 DEF Reservation, NonNegativeStock, RequestTypeOK, InventoryTypeOK
<1> QED
  BY <1>2, <1>4, <1>5, <1>6 DEF Reservation, PostedInLoop, PostedIsReserved

LEMMA StutterReservation ==
  ASSUME NEW steps, Reservation(steps), UNCHANGED lotVars
  PROVE  Reservation(steps)'
<1>1. RequestTypeOK(steps)'
  BY DEF Reservation, RequestTypeOK, InventoryTypeOK, LockTypeOK, lotVars, lockVars,
     inventoryVars, requestVars
<1> QED
  BY <1>1 DEF Reservation, HoldsLot, PostedInLoop, PostedIsReserved, NonNegativeStock,
     lotVars, lockVars, inventoryVars, requestVars

-----------------------------------------------------------------------------
(* Each step is a step of the ledger                                        *)

LEMMA ReceiveIsLedgerStep ==
  ASSUME NEW steps, Reservation(steps), NEW l \in Lots, NEW q \in 1 .. MaxKg, ReceiveLot(l, q)
  PROVE  Ledger!Next
<1>1. stock'[l] - stock[l] = q /\ q > 0
  BY MaxKgAssumption DEF ReceiveLot, Reservation, RequestTypeOK, InventoryTypeOK
<1>2. Ledger!Receive(l, stock'[l] - stock[l])
  BY <1>1 DEF ReceiveLot, Ledger!Receive
<1> QED
  BY <1>2 DEF Ledger!Next

LEMMA CommitIsLedgerStep ==
  ASSUME NEW steps, Reservation(steps), NEW s \in Sessions, CommitPosted(s)
  PROVE  Ledger!Next
<1>1. \A l \in Lots : /\ Ledger!Issued[l] = posted[s][l]
                      /\ posted[s][l] >= 0
                      /\ posted[s][l] <= stock[l]
  BY DEF CommitPosted, Ledger!Issued, Reservation, PostedIsReserved, NonNegativeStock,
     RequestTypeOK, InventoryTypeOK
<1>2. stock' = [l \in Lots |-> stock[l] - Ledger!Issued[l]]
  BY <1>1 DEF CommitPosted
<1> QED
  BY <1>1, <1>2 DEF Ledger!Next, Ledger!Issue
=============================================================================
