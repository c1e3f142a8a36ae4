---------------------------- MODULE MillingProofs ---------------------------
(***************************************************************************)
(* Milling, for any number of sessions, lots and batches and any size of   *)
(* lot: its types, its stock and the ledger it implements; that batches    *)
(* take their paddy whole; and that batches in SerialDocuments are atomic. *)
(***************************************************************************)
EXTENDS Milling, LotRequestsProofs

BatchTypeOK == /\ status   \in [Documents -> Statuses]
               /\ inputs   \in [Documents -> Recipe]
               /\ consumed \in [Documents -> [Lots -> Nat]]
               /\ outputs  \in [Documents -> 0 .. MaxOutputs]

\* The inductive invariant: the types, and what LotRequestsProofs says of stock.
Safe == Reservation(Steps) /\ BatchTypeOK

LEMMA StepsOK == LoopSteps \subseteq Steps
BY DEF LoopSteps, Steps

LEMMA SafeTypes == Safe => TypeOK
BY DEF Safe, Reservation, TypeOK, BatchTypeOK

LEMMA InitSafe == Init => Safe
<1> SUFFICES ASSUME Init PROVE Safe
  OBVIOUS
<1>1. Reservation(Steps)
  BY InitReservation, StepsOK DEF Init
<1>2. NoItems \in Recipe /\ NoItems \in [Lots -> Nat]
  BY MaxKgAssumption DEF NoItems, Recipe, Kg
<1>3. BatchTypeOK
  BY <1>2, MaxOutputsAssumption DEF Init, BatchTypeOK, Statuses
<1> QED
  BY <1>1, <1>3 DEF Safe

-----------------------------------------------------------------------------
(* The stock part, by kind of step                                          *)

LEMMA RequestReservation ==
  ASSUME Safe, NEW s \in Sessions, NEW b \in Documents, Request(s, b)
  PROVE  Reservation(Steps)' /\ UNCHANGED batchVars
<1>1. ASSUME NEW p \in Plans, CreateRequest(s, b, p)
      PROVE  Reservation(Steps)' /\ UNCHANGED batchVars
  <2>1. p \in Recipe /\ Used(p) \in SUBSET Lots /\ "share" \in Steps \ {"post"}
    BY DEF Plans, Used, Steps
  <2> QED
    BY <1>1, <2>1, BeginReservation DEF CreateRequest, Safe
<1>2. ASSUME StartRequest(s, b)
      PROVE  Reservation(Steps)' /\ UNCHANGED batchVars
  <2>1. inputs[b] \in Recipe /\ Used(inputs[b]) \in SUBSET Lots /\ "lock" \in Steps \ {"post"}
    BY DEF Safe, BatchTypeOK, Used, Steps
  <2> QED
    BY <1>2, <2>1, BeginReservation DEF StartRequest, Safe
<1>3. NoItems \in Recipe /\ {} \in SUBSET Lots
  BY MaxKgAssumption DEF NoItems, Recipe, Kg
<1>4. ASSUME ProduceRequest(s, b)
      PROVE  Reservation(Steps)' /\ UNCHANGED batchVars
  <2>1. "produce" \in Steps \ {"post"}
    BY DEF Steps
  <2> QED
    BY <1>3, <1>4, <2>1, BeginReservation DEF ProduceRequest, Safe
<1>5. ASSUME CompleteRequest(s, b)
      PROVE  Reservation(Steps)' /\ UNCHANGED batchVars
  <2>1. "count" \in Steps \ {"post"}
    BY DEF Steps
  <2> QED
    BY <1>3, <1>5, <2>1, BeginReservation DEF CompleteRequest, Safe
<1> QED
  BY <1>1, <1>2, <1>4, <1>5 DEF Request

LEMMA ProgressReservation ==
  ASSUME Safe, NEW s \in Sessions, Progress(s)
  PROVE  Reservation(Steps)'
<1> USE StepsOK DEF Safe
<1>1. CASE CommitCreate(s) \/ CommitProduce(s) \/ CommitComplete(s)
  <2>1. pc[s] \notin Looping /\ Finish(s)
    BY <1>1 DEF CommitCreate, CommitProduce, CommitComplete, Looping
  <2> QED
    BY <2>1, FinishReservation
<1>2. CASE PostConsumption(s)
  BY <1>2, PostReservation DEF PostConsumption
<1>3. CASE RefuseConsumption(s) \/ RefuseComplete(s)
  BY <1>3, AbandonReservation DEF RefuseConsumption, RefuseNext, RefuseComplete
<1>4. CASE CommitStart(s)
  BY <1>4, EndReservation DEF CommitStart
<1>5. CASE CountOutputs(s)
  <2>1. pc[s] \notin Looping /\ "complete" \in Steps \ {"post"}
    BY <1>5 DEF CountOutputs, Looping, Steps
  <2> QED
    BY <1>5, <2>1, MoveReservation DEF CountOutputs
<1> QED
  BY <1>1, <1>2, <1>3, <1>4, <1>5 DEF Progress

LEMMA OtherReservation ==
  ASSUME Safe, NEW s \in Sessions,
         ShareLot(s) \/ LockLot(s) \/ Crash(s) \/ DeadlockVictim(s)
  PROVE  Reservation(Steps)' /\ UNCHANGED batchVars
<1> USE StepsOK DEF Safe
<1>1. CASE ShareLot(s)
  BY <1>1, ShareReservation DEF ShareLot
<1>2. CASE LockLot(s)
  BY <1>2, LockReservation DEF LockLot
<1>3. CASE Crash(s) \/ DeadlockVictim(s)
  BY <1>3, AbandonReservation DEF Crash, CrashNext, DeadlockVictim, DeadlockNext
<1> QED
  BY <1>1, <1>2, <1>3

-----------------------------------------------------------------------------
(* The types of the batches                                                 *)

LEMMA ProgressBatchType ==
  ASSUME Safe, NEW s \in Sessions, Progress(s)
  PROVE  BatchTypeOK'
<1> USE DEF Safe
<1>1. CASE CommitCreate(s)
  BY <1>1 DEF CommitCreate, BatchTypeOK, Statuses, Reservation, RequestTypeOK
<1>2. CASE PostConsumption(s) \/ RefuseConsumption(s) \/ CountOutputs(s) \/ RefuseComplete(s)
  BY <1>2
     DEF PostConsumption, RefuseConsumption, CountOutputs, RefuseComplete, batchVars, BatchTypeOK
<1>3. CASE CommitStart(s)
  <2>1. \A b \in Documents : [l \in Lots |-> consumed[b][l] + posted[s][l]] \in [Lots -> Nat]
    BY DEF BatchTypeOK, Reservation, RequestTypeOK, InventoryTypeOK
  <2>2. consumed' \in [Documents -> [Lots -> Nat]]
    BY <1>3, <2>1 DEF CommitStart, BatchTypeOK
  <2> QED
    BY <1>3, <2>2 DEF CommitStart, BatchTypeOK, Statuses
<1>4. CASE CommitProduce(s)
  <2>1. \A b \in Documents : (IF outputs[b] < MaxOutputs THEN outputs[b] + 1 ELSE outputs[b])
                               \in 0 .. MaxOutputs
    BY MaxOutputsAssumption DEF BatchTypeOK
  <2>2. outputs' \in [Documents -> 0 .. MaxOutputs]
    <3>1. CASE target[s] \in Documents
      BY <1>4, <2>1, <3>1 DEF CommitProduce, BatchTypeOK
    <3>2. CASE target[s] \notin Documents
      BY <1>4, <3>2 DEF CommitProduce, BatchTypeOK
    <3> QED
      BY <3>1, <3>2
  <2> QED
    BY <1>4, <2>2 DEF CommitProduce, BatchTypeOK
<1>5. CASE CommitComplete(s)
  BY <1>5 DEF CommitComplete, BatchTypeOK, Statuses
<1> QED
  BY <1>1, <1>2, <1>3, <1>4, <1>5 DEF Progress

LEMMA StepSafe ==
  ASSUME Safe, Next
  PROVE  Safe'
<1>1. ASSUME NEW l \in Lots, NEW q \in 1 .. MaxKg, AcceptLoad(l, q)
      PROVE  Safe'
  <2>1. Reservation(Steps)'
    BY <1>1, ReceiveReservation DEF AcceptLoad, Safe
  <2> QED
    BY <1>1, <2>1 DEF AcceptLoad, Safe, BatchTypeOK, batchVars
<1>2. ASSUME NEW s \in Sessions, NEW b \in Documents, Request(s, b)
      PROVE  Safe'
  BY <1>2, RequestReservation DEF Safe, BatchTypeOK, batchVars
<1>3. ASSUME NEW s \in Sessions, ShareLot(s) \/ LockLot(s) \/ Crash(s) \/ DeadlockVictim(s)
      PROVE  Safe'
  BY <1>3, OtherReservation DEF Safe, BatchTypeOK, batchVars
<1>4. ASSUME NEW s \in Sessions, Progress(s)
      PROVE  Safe'
  BY <1>4, ProgressReservation, ProgressBatchType DEF Safe
<1> QED
  BY <1>1, <1>2, <1>3, <1>4 DEF Next

LEMMA StutterSafe ==
  ASSUME Safe, UNCHANGED vars
  PROVE  Safe'
<1>1. UNCHANGED <<lotVars, batchVars>>
  BY DEF vars
<1>2. Reservation(Steps)'
  BY <1>1, StutterReservation DEF Safe
<1> QED
  BY <1>1, <1>2 DEF Safe, BatchTypeOK, batchVars

\* Safe is inductive: it holds initially and every step of milling keeps it.
THEOREM SafeInvariant == Spec => []Safe
<1>1. Safe /\ [Next]_vars => Safe'
  BY StepSafe, StutterSafe
<1> QED
  BY <1>1, InitSafe, PTL DEF Spec

\* Every reachable state of milling is well typed, whatever the requests do.
THEOREM TypeCorrect == Spec => []TypeOK
BY SafeInvariant, SafeTypes, PTL

\* No interleaving of milling requests overdraws a lot: post_transaction's check of the
\* balance, made under the row lock, still holds when its movement is committed.
THEOREM NeverOverdrawn == Spec => []NonNegativeStock
<1>1. Safe => NonNegativeStock
  BY DEF Safe, Reservation
<1> QED
  BY <1>1, SafeInvariant, PTL

\* What start_batch has posted stays covered, and its lot locked, until it commits.
THEOREM PostedStaysReserved == Spec => []PostedIsReserved
<1>1. Safe => PostedIsReserved
  BY DEF Safe, Reservation
<1> QED
  BY <1>1, SafeInvariant, PTL

-----------------------------------------------------------------------------
(* Milling implements the ledger: every step receives a lot, issues what one *)
(* session has posted, or leaves the stock alone.                            *)

LEMMA StepLedger ==
  ASSUME Safe, [Next]_vars
  PROVE  [Ledger!Next]_stock
<1>1. ASSUME NEW l \in Lots, NEW q \in 1 .. MaxKg, AcceptLoad(l, q)
      PROVE  Ledger!Next
  BY <1>1, ReceiveIsLedgerStep DEF AcceptLoad, Safe
<1>2. ASSUME NEW s \in Sessions, NEW b \in Documents, Request(s, b)
      PROVE  UNCHANGED stock
  BY <1>2 DEF Request, CreateRequest, StartRequest, ProduceRequest, CompleteRequest, Begin,
     inventoryVars
<1>3. ASSUME NEW s \in Sessions, ShareLot(s) \/ LockLot(s)
      PROVE  UNCHANGED stock
  BY <1>3 DEF ShareLot, ShareNext, LockLot, LockNext, inventoryVars
<1>4. ASSUME NEW s \in Sessions, CommitStart(s)
      PROVE  Ledger!Next
  BY <1>4, CommitIsLedgerStep DEF CommitStart, Safe
<1>5. ASSUME NEW s \in Sessions, Progress(s), ~ CommitStart(s)
      PROVE  UNCHANGED stock
  BY <1>5 DEF Progress, CommitCreate, PostConsumption, PostNext, RefuseConsumption,
     RefuseNext, CommitProduce, CountOutputs, RefuseComplete, CommitComplete, Finish,
     Abandon, DiscardPosted, inventoryVars
<1>6. ASSUME NEW s \in Sessions, Crash(s) \/ DeadlockVictim(s)
      PROVE  UNCHANGED stock
  BY <1>6 DEF Crash, CrashNext, DeadlockVictim, DeadlockNext, Abandon, DiscardPosted
<1>7. CASE UNCHANGED vars
  BY <1>7 DEF vars, lotVars, inventoryVars
<1> QED
  BY <1>1, <1>2, <1>3, <1>4, <1>5, <1>6, <1>7 DEF Next

\* The stock that milling draws on is a ledger no batch overdraws.
THEOREM MillingImplementsLedger == Spec => ImplementsLedger
<1>1. Init => Ledger!Init
  BY DEF Init, RequestInit, InventoryInit, NothingPosted, Ledger!Init
<1>2. Safe /\ [Next]_vars => [Ledger!Next]_stock
  BY StepLedger
<1> QED
  BY <1>1, <1>2, SafeInvariant, PTL DEF Spec, ImplementsLedger, Ledger!Spec

-----------------------------------------------------------------------------
(* Batches take their paddy whole, whatever requests on them overlap         *)

Running == {"IN_PROGRESS", "COMPLETED"}

\* What a session works with: the batch it creates is nobody else's, the inputs it has
\* read are still those of its batch, what it has posted is what it has worked off, and
\* a batch once found running still is.
AsRead(s) ==
  /\ pc[s] = "share" => /\ target[s] \in Documents /\ status[target[s]] = "ABSENT"
                        /\ plan[s] \in Plans
                        /\ \A t \in Sessions \ {s} : target[t] # target[s]
  /\ pc[s] \in Looping => /\ target[s] \in Documents /\ status[target[s]] # "ABSENT"
                          /\ plan[s] = inputs[target[s]]
                          /\ \A l \in Lots : posted[s][l] = IF l \in todo[s] THEN 0
                                                            ELSE plan[s][l]
  /\ pc[s] \in {"lock", "post"} => want[s] \in todo[s]
  /\ pc[s] = "commit" => todo[s] = {}
  /\ pc[s] \in {"produce", "count", "complete"} =>
       target[s] \in Documents /\ status[target[s]] \in Running
  /\ pc[s] = "complete" => outputs[target[s]] > 0

\* Its inputs n times: what a batch has consumed.
Consumed(b, n) == \A l \in Lots : consumed[b][l] = n * inputs[b][l]

BatchOK(b) ==
  /\ status[b] = "ABSENT"    => inputs[b] = NoItems
  /\ status[b] = "ABSENT"    => \A l \in Lots : consumed[b][l] = 0
  /\ status[b] # "ABSENT"    => inputs[b] \in Plans
  /\ outputs[b] > 0          => status[b] \in Running
  /\ status[b] = "COMPLETED" => outputs[b] > 0
  /\ \E n \in Nat : (status[b] \in Running => n > 0) /\ Consumed(b, n)

Whole == /\ Safe
         /\ \A s \in Sessions : AsRead(s)
         /\ \A b \in Documents : BatchOK(b)

LEMMA InitWhole == Init => Whole
<1> SUFFICES ASSUME Init PROVE Whole
  OBVIOUS
<1>1. Safe
  BY InitSafe
<1>2. \A s \in Sessions : AsRead(s)
  BY DEF Init, RequestInit, AsRead, Looping
<1>3. ASSUME NEW b \in Documents
      PROVE  BatchOK(b)
  <2>1. status[b] = "ABSENT" /\ outputs[b] = 0 /\ inputs[b] = NoItems /\ consumed[b] = NoItems
    BY DEF Init
  <2>2. Consumed(b, 0)
    BY <2>1 DEF Consumed, NoItems
  <2> QED
    BY <2>1, <2>2 DEF BatchOK, NoItems, Running
<1> QED
  BY <1>1, <1>2, <1>3 DEF Whole

\* What no step takes back of a batch.
Advances == \A b \in Documents :
  /\ status[b] # "ABSENT" => status'[b] # "ABSENT" /\ inputs'[b] = inputs[b]
  /\ status[b] \in Running => status'[b] \in Running
  /\ outputs[b] > 0 => outputs'[b] > 0

\* What session t works with is left alone.
Kept(t) ==
  /\ pc'[t] = pc[t] /\ target'[t] = target[t] /\ plan'[t] = plan[t]
  /\ todo'[t] = todo[t] /\ want'[t] = want[t] /\ posted'[t] = posted[t]
  /\ pc[t] = "share" => /\ status'[target[t]] = status[target[t]]
                        /\ \A r \in Sessions \ {t} : target'[r] # target[t]

LEMMA KeptAsRead ==
  ASSUME Whole, Advances, NEW t \in Sessions, Kept(t)
  PROVE  AsRead(t)'
<1>1. AsRead(t)
  BY DEF Whole
<1> QED
  BY <1>1 DEF AsRead, Kept, Advances, Looping

LEMMA IdleAsRead == ASSUME NEW s \in Sessions, pc'[s] = "idle" PROVE AsRead(s)'
BY DEF AsRead, Looping

LEMMA SameBatches ==
  ASSUME Whole, UNCHANGED batchVars
  PROVE  Advances /\ \A b \in Documents : BatchOK(b)'
<1>1. Advances
  BY MaxOutputsAssumption DEF Advances, batchVars, Whole, Safe, BatchTypeOK
<1>2. \A b \in Documents : BatchOK(b)'
  BY DEF batchVars, Whole, BatchOK, Consumed
<1> QED
  BY <1>1, <1>2

-----------------------------------------------------------------------------
\* A request begins on what it has just read.
LEMMA BeginWhole ==
  ASSUME Whole, Next, NEW s \in Sessions, NEW b \in Documents, Request(s, b)
  PROVE  Whole'
<1>0. Safe' /\ UNCHANGED batchVars
  BY StepSafe, RequestReservation DEF Whole
<1>1. PICK step \in Steps \ {"idle"}, p \in Recipe, rest \in SUBSET Lots :
        Begin(s, b, step, p, rest)
  <2>1. NoItems \in Recipe /\ {} \in SUBSET Lots
    BY MaxKgAssumption DEF NoItems, Recipe, Kg
  <2>2. inputs[b] \in Recipe /\ Used(inputs[b]) \in SUBSET Lots
    BY DEF Whole, Safe, BatchTypeOK, Used
  <2>3. \A p \in Plans : p \in Recipe /\ Used(p) \in SUBSET Lots
    BY DEF Plans, Used
  <2>4. {"share", "lock", "produce", "count"} \subseteq Steps \ {"idle"}
    BY DEF Steps
  <2> QED
    BY <2>1, <2>2, <2>3, <2>4
       DEF Request, CreateRequest, StartRequest, ProduceRequest, CompleteRequest
<1>2. /\ UNCHANGED <<stock, posted, lotQty, status, inputs, consumed, outputs>>
      /\ pc[s] = "idle" /\ target'[s] = b /\ pc'[s] = step
      /\ plan'[s] = p /\ todo'[s] = rest
      /\ \A t \in Sessions \ {s} : /\ target'[t] = target[t] /\ pc'[t] = pc[t]
                                   /\ plan'[t] = plan[t] /\ todo'[t] = todo[t]
  BY <1>0, <1>1 DEF Begin, inventoryVars, batchVars, Whole, Safe, Reservation, RequestTypeOK
<1>3. (\A t \in Sessions \ {s} : want'[t] = want[t]) /\ (rest # {} => want'[s] \in rest)
  BY <1>1, WantNextType DEF Begin, Whole, Safe, Reservation, RequestTypeOK
<1>4. Advances /\ \A c \in Documents : BatchOK(c)'
  BY <1>0, SameBatches
<1>5. ASSUME NEW t \in Sessions \ {s}
      PROVE  AsRead(t)'
  <2>1. pc[t] = "share" => target[t] # b
    BY DEF Whole, AsRead, Request, CreateRequest, StartRequest, ProduceRequest, CompleteRequest
  <2>2. Kept(t)
    BY <1>2, <1>3, <2>1 DEF Kept, Whole, AsRead
  <2> QED
    BY <1>4, <2>2, KeptAsRead
<1>6. AsRead(s)'
  <2>1. ASSUME NEW q \in Plans, CreateRequest(s, b, q)
        PROVE  AsRead(s)'
    <3>1. pc'[s] = "share" /\ plan'[s] = q
      BY <1>2, <2>1 DEF CreateRequest, Begin, Whole, Safe, Reservation, RequestTypeOK
    <3> QED
      BY <1>2, <2>1, <3>1 DEF CreateRequest, AsRead, Looping
  <2>2. CASE StartRequest(s, b)
    <3>0. pc[s] \notin Looping
      BY <1>2 DEF Looping
    <3>1. \A l \in Lots : posted[s][l] = 0
      BY <3>0 DEF Whole, Safe, Reservation, PostedInLoop, RequestTypeOK, InventoryTypeOK
    <3>2. \A l \in Lots : l \notin Used(inputs[b]) => inputs[b][l] = 0
      BY MaxKgAssumption DEF Used, Whole, Safe, BatchTypeOK, Recipe, Kg
    <3>3. pc'[s] = "lock" /\ plan'[s] = inputs[b] /\ todo'[s] = Used(inputs[b])
      BY <2>2 DEF StartRequest, Begin, Whole, Safe, Reservation, RequestTypeOK
    <3>4. want'[s] \in Used(inputs[b])
      BY <1>2, <1>3, <2>2, <3>3 DEF StartRequest
    <3> QED
      BY <1>2, <2>2, <3>1, <3>2, <3>3, <3>4 DEF StartRequest, AsRead, Looping
  <2>3. CASE ProduceRequest(s, b) \/ CompleteRequest(s, b)
    <3>1. pc'[s] \in {"produce", "count"} /\ status[b] = "IN_PROGRESS"
      BY <2>3 DEF ProduceRequest, CompleteRequest, Begin, Whole, Safe, Reservation, RequestTypeOK
    <3> QED
      BY <1>2, <3>1 DEF AsRead, Looping, Running
  <2> QED
    BY <2>1, <2>2, <2>3 DEF Request
<1> QED
  BY <1>0, <1>4, <1>5, <1>6 DEF Whole

\* The steps in the middle of a request, which write no batch.
LEMMA MiddleWhole ==
  ASSUME Whole, Next, NEW s \in Sessions,
         ShareLot(s) \/ LockLot(s) \/ PostConsumption(s) \/ CountOutputs(s)
  PROVE  Whole'
<1>0. Safe'
  BY StepSafe DEF Whole
<1>1. /\ UNCHANGED <<target, plan>> /\ UNCHANGED batchVars
      /\ \A t \in Sessions \ {s} : /\ pc'[t] = pc[t] /\ todo'[t] = todo[t]
                                   /\ want'[t] = want[t] /\ posted'[t] = posted[t]
  <2>1. CASE ShareLot(s)
    BY <2>1 DEF ShareLot, ShareNext, WantNext, inventoryVars, Whole,
       Safe, Reservation, RequestTypeOK, LockTypeOK
  <2>2. CASE LockLot(s)
    BY <2>2 DEF LockLot, LockNext, inventoryVars, Whole, Safe, Reservation, RequestTypeOK
  <2>3. CASE PostConsumption(s)
    BY <2>3 DEF PostConsumption, PostNext, PostIssue, WantNext, Whole,
       Safe, Reservation, RequestTypeOK, LockTypeOK, InventoryTypeOK
  <2>4. CASE CountOutputs(s)
    BY <2>4 DEF CountOutputs, lockVars, inventoryVars, Whole, Safe, Reservation, RequestTypeOK
  <2> QED
    BY <2>1, <2>2, <2>3, <2>4
<1>2. Advances /\ \A c \in Documents : BatchOK(c)'
  BY <1>1, SameBatches
<1>3. ASSUME NEW t \in Sessions \ {s}
      PROVE  AsRead(t)'
  <2>1. Kept(t)
    BY <1>1 DEF Kept, Whole, AsRead, batchVars
  <2> QED
    BY <1>2, <2>1, KeptAsRead
<1>4. AsRead(s)'
  <2>0. AsRead(s)
    BY DEF Whole
  <2>1. CASE ShareLot(s)
    <3>1. pc[s] = "share" /\ pc'[s] = "share"
      BY <2>1 DEF ShareLot, ShareNext
    <3> QED
      BY <1>1, <2>0, <3>1 DEF AsRead, Looping, batchVars
  <2>2. CASE LockLot(s)
    <3>1. pc[s] = "lock" /\ pc'[s] = "post" /\ UNCHANGED <<want, todo, posted>>
      BY <2>2 DEF LockLot, LockNext, inventoryVars, Whole, Safe, Reservation, RequestTypeOK
    <3> QED
      BY <1>1, <2>0, <3>1 DEF AsRead, Looping, batchVars
  <2>3. CASE PostConsumption(s)
    <3> DEFINE l == want[s]
               rest == todo[s] \ {l}
    <3>1. l \in Lots /\ l \in todo[s] /\ posted[s][l] = 0 /\ plan[s][l] \in Nat
      BY <2>0, <2>3, MaxKgAssumption
         DEF PostConsumption, PostNext, AsRead, Looping, Whole, Safe, Reservation,
             HoldsLot, RequestTypeOK, Recipe, Kg
    <3>2. /\ posted'[s][l] = plan[s][l]
          /\ \A k \in Lots \ {l} : posted'[s][k] = posted[s][k]
          /\ todo'[s] = rest
      BY <2>3, <3>1
         DEF PostConsumption, PostNext, PostIssue, Whole, Safe,
             Reservation, RequestTypeOK, InventoryTypeOK
    <3>3. pc'[s] = (IF rest = {} THEN "commit" ELSE "lock") /\ (rest # {} => want'[s] \in rest)
      BY <2>3
         DEF PostConsumption, PostNext, WantNext, Whole, Safe, Reservation, RequestTypeOK,
             LockTypeOK
    <3>4. /\ pc[s] = "post" /\ target[s] \in Documents /\ status[target[s]] # "ABSENT"
          /\ plan[s] = inputs[target[s]]
          /\ \A k \in Lots : posted[s][k] = IF k \in todo[s] THEN 0 ELSE plan[s][k]
      BY <2>0, <2>3 DEF PostConsumption, PostNext, AsRead, Looping
    <3>5. \A k \in Lots : posted'[s][k] = IF k \in rest THEN 0 ELSE plan[s][k]
      BY <3>1, <3>2, <3>4
    <3> QED
      BY <1>1, <3>2, <3>3, <3>4, <3>5 DEF AsRead, Looping, batchVars
  <2>4. CASE CountOutputs(s)
    <3>1. pc[s] = "count" /\ pc'[s] = "complete" /\ outputs[target[s]] > 0
      BY <2>4 DEF CountOutputs, Whole, Safe, Reservation, RequestTypeOK
    <3> QED
      BY <1>1, <2>0, <3>1 DEF AsRead, Looping, batchVars
  <2> QED
    BY <2>1, <2>2, <2>3, <2>4
<1> QED
  BY <1>0, <1>2, <1>3, <1>4 DEF Whole

\* A request that ends, with or without writing its batch.
LEMMA EndWhole ==
  ASSUME Whole, Next, NEW s \in Sessions, EndRequest(s),
         CommitPosted(s) \/ DiscardPosted(s) \/ UNCHANGED posted,
         Advances, \A b \in Documents : BatchOK(b)',
         \A b \in Documents \ {target[s]} : status'[b] = status[b]
  PROVE  Whole'
<1>0. Safe'
  BY StepSafe DEF Whole
<1>1. \A t \in Sessions \ {s} : /\ pc'[t] = pc[t] /\ target'[t] = target[t]
                                /\ plan'[t] = plan[t] /\ todo'[t] = todo[t]
                                /\ want'[t] = want[t] /\ posted'[t] = posted[t]
  BY DEF EndRequest, ReleaseLocks, CommitPosted, DiscardPosted, Whole, Safe,
     Reservation, RequestTypeOK, LockTypeOK, InventoryTypeOK
<1>2. target'[s] = NoDocument /\ pc'[s] = "idle"
  BY DEF EndRequest, Whole, Safe, Reservation, RequestTypeOK
<1>3. ASSUME NEW t \in Sessions \ {s}
      PROVE  AsRead(t)'
  <2>1. pc[t] = "share" => target[t] \in Documents \ {target[s]}
    BY DEF Whole, AsRead
  <2>2. Kept(t)
    BY <1>1, <1>2, <2>1, DocumentAssumption DEF Kept, Whole, AsRead
  <2> QED
    BY <2>2, KeptAsRead
<1>4. AsRead(s)'
  BY <1>2, IdleAsRead
<1> QED
  BY <1>0, <1>3, <1>4 DEF Whole

\* A batch that a step leaves alone stays as it should be.
LEMMA OtherBatches ==
  ASSUME Whole, NEW b \in Documents,
         status'[b] = status[b], inputs'[b] = inputs[b], consumed'[b] = consumed[b],
         outputs'[b] = outputs[b]
  PROVE  BatchOK(b)'
BY DEF Whole, BatchOK, Consumed

LEMMA CreateWhole ==
  ASSUME Whole, Next, NEW s \in Sessions, CommitCreate(s)
  PROVE  Whole'
<1> DEFINE b == target[s]
<1>1. /\ b \in Documents /\ status[b] = "ABSENT" /\ plan[s] \in Plans
      /\ EndRequest(s) /\ UNCHANGED inventoryVars
  BY DEF CommitCreate, Finish, Whole, AsRead
<1>2. /\ status'[b] = "DRAFT" /\ inputs'[b] = plan[s]
      /\ UNCHANGED <<consumed, outputs>>
      /\ \A c \in Documents \ {b} : status'[c] = status[c] /\ inputs'[c] = inputs[c]
  BY <1>1 DEF CommitCreate, Whole, Safe, BatchTypeOK
<1>3. Advances
  BY <1>1, <1>2 DEF Advances, Running
<1>4. outputs[b] = 0 /\ \A l \in Lots : consumed[b][l] = 0
  BY <1>1, MaxOutputsAssumption DEF Whole, BatchOK, Running, Safe, BatchTypeOK
<1>5. ASSUME NEW c \in Documents
      PROVE  BatchOK(c)'
  <2>1. CASE c = b
    <3>1. \A l \in Lots : inputs'[c][l] \in Nat
      BY <1>1, <1>2, <2>1, MaxKgAssumption DEF Plans, Recipe, Kg
    <3>2. \A l \in Lots : consumed'[c][l] = 0 * inputs'[c][l]
      BY <1>2, <1>4, <2>1, <3>1
    <3> QED
      BY <1>1, <1>2, <1>4, <2>1, <3>2 DEF BatchOK, Consumed, Running
  <2>2. CASE c # b
    BY <1>2, <2>2, OtherBatches
  <2> QED
    BY <2>1, <2>2
<1> QED
  BY <1>1, <1>2, <1>3, <1>5, EndWhole DEF inventoryVars

\* The commit of start_batch adds the inputs of its batch once more to what it consumed.
LEMMA StartWhole ==
  ASSUME Whole, Next, NEW s \in Sessions, CommitStart(s)
  PROVE  Whole'
<1> DEFINE b == target[s]
<1>1. /\ b \in Documents /\ status[b] # "ABSENT"
      /\ \A l \in Lots : posted[s][l] = inputs[b][l]
      /\ EndRequest(s) /\ CommitPosted(s)
  BY DEF CommitStart, Whole, AsRead, Looping
<1>2. /\ status'[b] = "IN_PROGRESS"
      /\ \A l \in Lots : consumed'[b][l] = consumed[b][l] + posted[s][l]
      /\ UNCHANGED <<inputs, outputs>>
      /\ \A c \in Documents \ {b} : status'[c] = status[c] /\ consumed'[c] = consumed[c]
  BY <1>1 DEF CommitStart, Whole, Safe, BatchTypeOK
<1>3. Advances
  BY <1>1, <1>2 DEF Advances, Running
<1>4. ASSUME NEW c \in Documents
      PROVE  BatchOK(c)'
  <2>1. CASE c = b
    <3>1. PICK n \in Nat : Consumed(b, n)
      BY <1>1 DEF Whole, BatchOK
    <3>2. \A l \in Lots : inputs[b][l] \in Nat
      BY <1>1, MaxKgAssumption DEF Whole, Safe, BatchTypeOK, Recipe, Kg
    <3>3. \A l \in Lots : consumed'[b][l] = (n + 1) * inputs'[b][l]
      BY <1>1, <1>2, <3>1, <3>2 DEF Consumed
    <3>4. n + 1 \in Nat /\ n + 1 > 0 /\ Consumed(c, n + 1)'
      BY <2>1, <3>3 DEF Consumed
    <3>5. inputs'[c] \in Plans
      BY <1>1, <1>2, <2>1 DEF Whole, BatchOK
    <3> QED
      BY <1>2, <2>1, <3>3, <3>4, <3>5 DEF BatchOK, Consumed, Running
  <2>2. CASE c # b
    BY <1>2, <2>2, OtherBatches
  <2> QED
    BY <2>1, <2>2
<1> QED
  BY <1>1, <1>2, <1>3, <1>4, EndWhole

LEMMA RiceWhole ==
  ASSUME Whole, Next, NEW s \in Sessions, CommitProduce(s) \/ CommitComplete(s)
  PROVE  Whole'
<1> DEFINE b == target[s]
<1>1. /\ b \in Documents /\ status[b] \in Running
      /\ EndRequest(s) /\ UNCHANGED <<inventoryVars, inputs, consumed>>
  BY DEF CommitProduce, CommitComplete, Finish, Whole, AsRead
<1>2. /\ status'[b] \in Running
      /\ outputs'[b] > 0 \/ (outputs'[b] = outputs[b] /\ status'[b] = status[b])
      /\ \A c \in Documents \ {b} : status'[c] = status[c] /\ outputs'[c] = outputs[c]
  <2>1. CASE CommitProduce(s)
    BY <1>1, <2>1, MaxOutputsAssumption DEF CommitProduce, Whole, Safe, BatchTypeOK
  <2>2. CASE CommitComplete(s)
    BY <1>1, <2>2 DEF CommitComplete, Whole, Safe, BatchTypeOK, AsRead, Running
  <2> QED
    BY <2>1, <2>2
<1>3. Advances
  BY <1>1, <1>2 DEF Advances, Running
<1>4. ASSUME NEW c \in Documents
      PROVE  BatchOK(c)'
  <2>1. CASE c = b
    <3>1. BatchOK(b)
      BY <1>1 DEF Whole
    <3> QED
      BY <1>1, <1>2, <2>1, <3>1 DEF BatchOK, Consumed, Running
  <2>2. CASE c # b
    BY <1>1, <1>2, <2>2, OtherBatches
  <2> QED
    BY <2>1, <2>2
<1> QED
  BY <1>1, <1>2, <1>3, <1>4, EndWhole DEF inventoryVars

LEMMA AbandonWhole ==
  ASSUME Whole, Next, NEW s \in Sessions, Abandon(s), UNCHANGED batchVars
  PROVE  Whole'
<1>1. Advances /\ \A b \in Documents : BatchOK(b)'
  BY SameBatches
<1> QED
  BY <1>1, EndWhole DEF Abandon, batchVars

LEMMA StepWhole == Whole /\ [Next]_vars => Whole'
<1> SUFFICES ASSUME Whole, [Next]_vars PROVE Whole'
  OBVIOUS
<1>1. ASSUME Next, NEW l \in Lots, NEW q \in 1 .. MaxKg, AcceptLoad(l, q)
      PROVE  Whole'
  <2>1. UNCHANGED <<lockVars, requestVars, posted>> /\ UNCHANGED batchVars
    BY <1>1 DEF AcceptLoad, ReceiveLot
  <2>2. Advances /\ \A b \in Documents : BatchOK(b)'
    BY <2>1, SameBatches
  <2>3. \A t \in Sessions : Kept(t)
    BY <2>1 DEF Kept, lockVars, requestVars, batchVars, Whole, AsRead
  <2>4. \A t \in Sessions : AsRead(t)'
    BY <2>2, <2>3, KeptAsRead
  <2> QED
    BY <1>1, <2>2, <2>4, StepSafe DEF Whole
<1>2. ASSUME Next, NEW s \in Sessions, NEW b \in Documents, Request(s, b)
      PROVE  Whole'
  BY <1>2, BeginWhole
<1>3. ASSUME Next, NEW s \in Sessions, Progress(s)
      PROVE  Whole'
  <2>1. CASE RefuseConsumption(s) \/ RefuseComplete(s)
    BY <1>3, <2>1, AbandonWhole DEF RefuseConsumption, RefuseNext, RefuseComplete
  <2> QED
    BY <1>3, <2>1, CreateWhole, StartWhole, RiceWhole, MiddleWhole DEF Progress
<1>4. ASSUME Next, NEW s \in Sessions, Crash(s) \/ DeadlockVictim(s)
      PROVE  Whole'
  BY <1>4, AbandonWhole DEF Crash, CrashNext, DeadlockVictim, DeadlockNext
<1>5. ASSUME Next, NEW s \in Sessions, ShareLot(s) \/ LockLot(s)
      PROVE  Whole'
  BY <1>5, MiddleWhole
<1>6. CASE UNCHANGED vars
  <2>1. UNCHANGED <<lotVars, batchVars>>
    BY <1>6 DEF vars
  <2>2. UNCHANGED <<pc, target, plan, todo, want, posted>> /\ UNCHANGED batchVars
    BY <2>1 DEF lotVars, lockVars, requestVars, inventoryVars
  <2>3. Advances /\ \A b \in Documents : BatchOK(b)'
    BY <2>2, SameBatches
  <2>4. \A t \in Sessions : Kept(t)
    BY <2>2 DEF Kept, batchVars, Whole, AsRead
  <2>5. \A t \in Sessions : AsRead(t)'
    BY <2>3, <2>4, KeptAsRead
  <2> QED
    BY <1>6, <2>3, <2>5, StutterSafe DEF Whole
<1> QED
  BY <1>1, <1>2, <1>3, <1>4, <1>5, <1>6 DEF Next

LEMMA WholeInvariant == Spec => []Whole
BY InitWhole, StepWhole, PTL DEF Spec

\* A batch takes paddy whole, and at least once before it runs, is done or has rice,
\* whatever requests overlap on it and wherever they are stopped.
THEOREM RiceComesFromConsumedPaddy == Spec => []RiceFromConsumedPaddy
<1>1. ASSUME Whole, NEW b \in Documents
      PROVE  LET Started == outputs[b] > 0 \/ status[b] \in {"IN_PROGRESS", "COMPLETED"}
             IN  /\ \E n \in {0} \cup UNION {0 .. consumed[b][l] : l \in Lots} :
                      /\ Started => n > 0
                      /\ \A l \in Lots : consumed[b][l] = n * inputs[b][l]
                 /\ status[b] = "COMPLETED" => outputs[b] > 0
  <2>1. BatchOK(b)
    BY <1>1 DEF Whole
  <2>2. PICK n \in Nat : (status[b] \in Running => n > 0) /\ Consumed(b, n)
    BY <2>1 DEF BatchOK
  <2>3. CASE status[b] # "ABSENT"
    <3>1. PICK l \in Lots : inputs[b][l] > 0
      BY <2>1, <2>3 DEF BatchOK, Running, Plans, Used
    <3>2. inputs[b][l] \in Nat /\ consumed[b][l] \in Nat /\ consumed[b][l] = n * inputs[b][l]
      BY <1>1, <2>2, MaxKgAssumption DEF Whole, Safe, BatchTypeOK, Recipe, Kg, Consumed
    <3>3. n <= n * inputs[b][l]
      <4>1. \A m \in Nat \ {0} : n <= n * m
        BY SMT
      <4> QED
        BY <3>1, <3>2, <4>1
    <3>4. n \in 0 .. consumed[b][l]
      BY <3>2, <3>3
    <3> QED
      BY <2>1, <2>2, <2>3, <3>4 DEF Running, Consumed, BatchOK
  <2>4. CASE status[b] = "ABSENT"
    <3>1. ~ (outputs[b] > 0 \/ status[b] \in {"IN_PROGRESS", "COMPLETED"})
      BY <2>1, <2>4 DEF BatchOK, Running
    <3>2. \A l \in Lots : consumed[b][l] = 0 /\ inputs[b][l] = 0
      BY <2>1, <2>4 DEF BatchOK, NoItems
    <3> QED
      BY <2>4, <3>1, <3>2
  <2> QED
    BY <2>3, <2>4
<1>2. Whole => RiceFromConsumedPaddy
  BY <1>1 DEF RiceFromConsumedPaddy
<1> QED
  BY <1>2, WholeInvariant, PTL

-----------------------------------------------------------------------------
(* A batch in SerialDocuments is atomic: it consumes its inputs exactly     *)
(* once, and Milling implements AtomicMilling.  Requests on different       *)
(* batches overlap freely and share lots, and so do several requests on     *)
(* one batch that is not in SerialDocuments.                                *)

\* Two requests never have the same serial batch as their target.
Alone == \A s, t \in Sessions :
           target[s] = target[t] /\ target[s] \in SerialDocuments => s = t

\* What a request read is still so, and what it has posted is what it has worked off.
ReadsHold(s) ==
  /\ pc[s] = "share" => /\ status[target[s]] = "ABSENT"
                        /\ plan[s] \in Plans
                        /\ \A l \in Lots : plan[s][l] > 0 => lotQty[l] > 0
  /\ pc[s] \in Looping => /\ status[target[s]] = "DRAFT"
                          /\ plan[s] = inputs[target[s]]
                          /\ \A l \in Lots : posted[s][l] = IF l \in todo[s] THEN 0
                                                            ELSE plan[s][l]
  /\ pc[s] \in {"lock", "post"} => want[s] \in todo[s]
  /\ pc[s] = "commit" => todo[s] = {}
  /\ pc[s] \in {"produce", "count", "complete"} => status[target[s]] = "IN_PROGRESS"
  /\ pc[s] = "complete" => outputs[target[s]] > 0

SessionOK(s) == /\ pc[s] = "idle" <=> target[s] = NoDocument
                /\ target[s] \in SerialDocuments => ReadsHold(s)

\* A lot that was not received has no stock.
NewLots == \A l \in Lots : lotQty[l] = 0 => stock[l] = 0

Serial == /\ Safe
          /\ Alone
          /\ \A s \in Sessions : SessionOK(s)
          /\ NewLots
          /\ SerialConsumedOnce

LEMMA NullIsNotSerial == NoDocument \notin SerialDocuments
BY DocumentAssumption, SerialAssumption

LEMMA SerialTypes == Serial => TypeOK
BY SafeTypes DEF Serial

LEMMA InitSerial == Init => Serial
<1> SUFFICES ASSUME Init PROVE Serial
  OBVIOUS
<1>1. Safe
  BY InitSafe
<1>2. Alone /\ (\A s \in Sessions : SessionOK(s)) /\ NewLots /\ SerialConsumedOnce
  BY NullIsNotSerial, SerialAssumption
     DEF Init, RequestInit, Alone, SessionOK, NewLots, SerialConsumedOnce, ConsumedOnce, InventoryInit,
     NothingPosted,
     Looping
<1> QED
  BY <1>1, <1>2 DEF Serial

-----------------------------------------------------------------------------
(* What a step of one session leaves alone                                  *)

\* Nothing of session t, and nothing t has read, has changed.
Untouched(t) ==
  /\ pc'[t] = pc[t] /\ target'[t] = target[t] /\ plan'[t] = plan[t]
  /\ todo'[t] = todo[t] /\ want'[t] = want[t] /\ posted'[t] = posted[t]
  /\ target[t] \in SerialDocuments => /\ status'[target[t]]  = status[target[t]]
                                      /\ inputs'[target[t]]  = inputs[target[t]]
                                      /\ outputs'[target[t]] = outputs[target[t]]
  /\ \A l \in Lots : lotQty[l] > 0 => lotQty'[l] > 0

LEMMA UntouchedOK ==
  ASSUME NEW t \in Sessions, SessionOK(t), Untouched(t)
  PROVE  SessionOK(t)'
<1>1. CASE target[t] \notin SerialDocuments
  BY <1>1 DEF SessionOK, Untouched
<1>2. CASE target[t] \in SerialDocuments
  BY <1>2 DEF SessionOK, ReadsHold, Untouched, Looping
<1> QED
  BY <1>1, <1>2

\* The session of a step that ends is idle again.
LEMMA EndedOK ==
  ASSUME TypeOK, NEW s \in Sessions, EndRequest(s)
  PROVE  SessionOK(s)'
BY NullIsNotSerial DEF TypeOK, RequestTypeOK, EndRequest, SessionOK

\* A step whose targets are those of before, or NoDocument, leaves every session alone.
LEMMA SameTargets ==
  ASSUME TypeOK, Alone,
         \A s \in Sessions : target'[s] \in {target[s], NoDocument}
  PROVE  Alone'
BY NullIsNotSerial DEF Alone

-----------------------------------------------------------------------------
LEMMA BeginSerial ==
  ASSUME Serial, Next, NEW s \in Sessions, NEW b \in Documents, Request(s, b)
  PROVE  Serial'
<1>0. Safe' /\ UNCHANGED batchVars
  BY StepSafe, RequestReservation DEF Serial
<1>1. PICK step \in Steps \ {"idle"}, p \in Recipe, rest \in SUBSET Lots :
        Begin(s, b, step, p, rest)
  <2>1. NoItems \in Recipe /\ {} \in SUBSET Lots
    BY MaxKgAssumption DEF NoItems, Recipe, Kg
  <2>2. inputs[b] \in Recipe /\ Used(inputs[b]) \in SUBSET Lots
    BY DEF Serial, Safe, BatchTypeOK, Used
  <2>3. \A p \in Plans : p \in Recipe /\ Used(p) \in SUBSET Lots
    BY DEF Plans, Used
  <2>4. {"share", "lock", "produce", "count"} \subseteq Steps \ {"idle"}
    BY DEF Steps
  <2> QED
    BY <2>1, <2>2, <2>3, <2>4
       DEF Request, CreateRequest, StartRequest, ProduceRequest, CompleteRequest
<1>2. /\ UNCHANGED <<stock, posted, lotQty, status, inputs, consumed, outputs>>
      /\ pc[s] = "idle" /\ target'[s] = b
      /\ pc'[s] # "idle"
      /\ \A t \in Sessions \ {s} : /\ target'[t] = target[t]
                                   /\ b \in SerialDocuments => target[t] # b
  BY <1>0, <1>1 DEF Begin, inventoryVars, batchVars, Serial, Safe, Reservation,
     RequestTypeOK
<1>3. \A t \in Sessions \ {s} : want'[t] = want[t]
  BY <1>1, WantNextType DEF Begin, Serial, Safe, Reservation, RequestTypeOK
<1>4. Alone'
  BY <1>2 DEF Serial, Alone
<1>5. ASSUME NEW t \in Sessions \ {s}
      PROVE  SessionOK(t)'
  <2>1. Untouched(t)
    BY <1>1, <1>2, <1>3 DEF Untouched, Begin, Serial, Safe, Reservation, RequestTypeOK
  <2> QED
    BY <2>1, UntouchedOK DEF Serial
<1>6. ReadsHold(s)'
  <2>1. ASSUME NEW q \in Plans, CreateRequest(s, b, q)
        PROVE  ReadsHold(s)'
    <3>1. pc'[s] = "share" /\ target'[s] = b /\ plan'[s] = q
      BY <2>1 DEF CreateRequest, Begin, Serial, Safe, Reservation, RequestTypeOK
    <3>2. \A l \in Lots : q[l] > 0 => lotQty'[l] > 0
      BY <1>2, <2>1 DEF CreateRequest, Used
    <3> QED
      BY <1>2, <2>1, <3>1, <3>2 DEF CreateRequest, ReadsHold, Looping
  <2>2. CASE StartRequest(s, b)
    <3>0. pc[s] \notin Looping
      BY <1>2 DEF Looping
    <3>1. \A l \in Lots : posted[s][l] = 0
      BY <3>0 DEF Serial, Safe, Reservation, PostedInLoop, RequestTypeOK, InventoryTypeOK
    <3>2. \A l \in Lots : l \notin Used(inputs[b]) => inputs[b][l] = 0
      BY MaxKgAssumption DEF Used, Serial, Safe, BatchTypeOK, Recipe, Kg
    <3>3. want'[s] \in Used(inputs[b])
      <4>1. Used(inputs[b]) \in SUBSET Lots
        BY DEF Used
      <4> QED
        BY <2>2, <4>1, WantNextType
           DEF StartRequest, Begin, Serial, Safe, Reservation, RequestTypeOK
    <3>4. pc'[s] = "lock" /\ plan'[s] = inputs[b] /\ todo'[s] = Used(inputs[b])
      BY <2>2 DEF StartRequest, Begin, Serial, Safe, Reservation, RequestTypeOK
    <3> QED
      BY <1>2, <2>2, <3>1, <3>2, <3>3, <3>4 DEF StartRequest, ReadsHold, Looping
  <2>3. CASE ProduceRequest(s, b) \/ CompleteRequest(s, b)
    <3>1. pc'[s] \in {"produce", "count"} /\ status[b] = "IN_PROGRESS"
      BY <2>3 DEF ProduceRequest, CompleteRequest, Begin, Serial, Safe, Reservation,
         RequestTypeOK
    <3> QED
      BY <1>2, <3>1 DEF ReadsHold, Looping
  <2> QED
    BY <2>1, <2>2, <2>3 DEF Request
<1>7. SessionOK(s)'
  BY <1>2, <1>6, DocumentAssumption DEF SessionOK
<1>8. NewLots' /\ SerialConsumedOnce'
  BY <1>2 DEF Serial, NewLots, SerialConsumedOnce, ConsumedOnce
<1> QED
  BY <1>0, <1>4, <1>5, <1>7, <1>8 DEF Serial

-----------------------------------------------------------------------------
(* Steps of a running request.  Each leaves every other session untouched.   *)

\* The writes of s reach the batch it works on and nothing another request works on.
OnlyTarget(s) ==
  \A b \in Documents \ {target[s]} :
    status'[b] = status[b] /\ inputs'[b] = inputs[b] /\ outputs'[b] = outputs[b]

LEMMA OthersOK ==
  ASSUME Serial, NEW s \in Sessions, pc[s] # "idle", OnlyTarget(s), UNCHANGED lotQty,
         \A t \in Sessions \ {s} : /\ pc'[t] = pc[t] /\ target'[t] = target[t]
                                   /\ plan'[t] = plan[t] /\ todo'[t] = todo[t]
                                   /\ want'[t] = want[t] /\ posted'[t] = posted[t]
  PROVE  \A t \in Sessions \ {s} : SessionOK(t)'
<1> TAKE t \in Sessions \ {s}
<1>1. target[t] \in SerialDocuments => target[t] \in Documents \ {target[s]}
  BY SerialAssumption DEF Serial, Safe, BatchTypeOK, Reservation, RequestTypeOK, Alone
<1>2. Untouched(t)
  BY <1>1 DEF Untouched, OnlyTarget
<1> QED
  BY <1>2, UntouchedOK DEF Serial

\* A request that ends after writing its batch, or nothing.
LEMMA EndSerial ==
  ASSUME Serial, Next, NEW s \in Sessions, pc[s] # "idle", EndRequest(s),
         CommitPosted(s) \/ DiscardPosted(s), OnlyTarget(s), UNCHANGED lotQty,
         SerialConsumedOnce'
  PROVE  Serial'
<1>0. Safe'
  BY StepSafe DEF Serial
<1>1. \A t \in Sessions \ {s} : /\ pc'[t] = pc[t] /\ target'[t] = target[t]
                                /\ plan'[t] = plan[t] /\ todo'[t] = todo[t]
                                /\ want'[t] = want[t] /\ posted'[t] = posted[t]
  BY DEF EndRequest, ReleaseLocks, CommitPosted, DiscardPosted, Serial, Safe, BatchTypeOK,
     Reservation, RequestTypeOK,
     LockTypeOK, InventoryTypeOK
<1>2. \A t \in Sessions \ {s} : SessionOK(t)'
  BY <1>1, OthersOK
<1>3. SessionOK(s)'
  BY EndedOK, SerialTypes
<1>4. Alone'
  <2>1. \A t \in Sessions : target'[t] \in {target[t], NoDocument}
    BY SerialTypes DEF EndRequest, TypeOK, RequestTypeOK
  <2> QED
    BY <2>1, SameTargets, SerialTypes DEF Serial
<1>5. ASSUME NEW l \in Lots, lotQty'[l] = 0
      PROVE  stock'[l] = 0
  <2>1. stock[l] = 0
    BY <1>5 DEF Serial, NewLots
  <2>2. CASE CommitPosted(s)
    <3>0. posted[s][l] \in Nat
      BY DEF Serial, Safe, BatchTypeOK, Reservation, RequestTypeOK, InventoryTypeOK
    <3>1. posted[s][l] = 0
      BY <2>1, <3>0 DEF Serial, Safe, Reservation, PostedIsReserved
    <3> QED
      BY <2>1, <2>2, <3>1 DEF CommitPosted
  <2>3. CASE DiscardPosted(s)
    BY <2>1, <2>3 DEF DiscardPosted
  <2> QED
    BY <2>2, <2>3
<1> QED
  BY <1>0, <1>2, <1>3, <1>4, <1>5 DEF Serial, NewLots

\* At the commit of start_batch the session has posted exactly the inputs of its batch.
LEMMA PostedAllInputs ==
  ASSUME Serial, NEW s \in Sessions, pc[s] = "commit", target[s] \in SerialDocuments
  PROVE  /\ target[s] \in Documents
         /\ status[target[s]] = "DRAFT"
         /\ posted[s] = inputs[target[s]]
         /\ consumed[target[s]] = NoItems
<1>1. target[s] \in Documents /\ status[target[s]] = "DRAFT"
  BY SerialAssumption DEF Serial, SessionOK, ReadsHold, Looping
<1>2. \A l \in Lots : posted[s][l] = inputs[target[s]][l]
  BY DEF Serial, SessionOK, ReadsHold, Looping
<1>3. posted[s] = inputs[target[s]]
  BY <1>1, <1>2 DEF Serial, Safe, BatchTypeOK, Reservation, RequestTypeOK,
     InventoryTypeOK, Recipe
<1>4. consumed[target[s]] = NoItems
  BY <1>1 DEF Serial, SerialConsumedOnce, ConsumedOnce
<1> QED
  BY <1>1, <1>3, <1>4

LEMMA StartConsumes ==
  ASSUME Serial, NEW s \in Sessions, CommitStart(s), target[s] \in SerialDocuments
  PROVE  consumed' = [consumed EXCEPT ![target[s]] = inputs[target[s]]]
<1>1. \A l \in Lots : consumed[target[s]][l] + posted[s][l] = inputs[target[s]][l]
  BY PostedAllInputs, MaxKgAssumption
     DEF CommitStart, NoItems, Serial, Safe, BatchTypeOK, Reservation, RequestTypeOK,
         Recipe, Kg
<1>2. [l \in Lots |-> consumed[target[s]][l] + posted[s][l]] = inputs[target[s]]
  BY <1>1, PostedAllInputs DEF CommitStart, Serial, Safe, BatchTypeOK, Reservation,
     RequestTypeOK, Recipe
<1> QED
  BY <1>2 DEF CommitStart

LEMMA StepSerial ==
  ASSUME Serial, Next
  PROVE  Serial'
<1>0. Safe'
  BY StepSafe DEF Serial
<1>1. ASSUME NEW l \in Lots, NEW q \in 1 .. MaxKg, AcceptLoad(l, q)
      PROVE  Serial'
  <2>1. /\ \A k \in Lots : lotQty[k] > 0 => lotQty'[k] > 0
        /\ \A k \in Lots : lotQty'[k] = 0 => stock'[k] = stock[k] /\ lotQty[k] = 0
    BY <1>1, MaxKgAssumption
       DEF AcceptLoad, ReceiveLot, Serial, Safe, BatchTypeOK, Reservation, RequestTypeOK,
           InventoryTypeOK, Kg
  <2>2. NewLots'
    BY <2>1 DEF Serial, NewLots
  <2>3. \A t \in Sessions : SessionOK(t)'
    <3>1. \A t \in Sessions : Untouched(t)
      BY <1>1, <2>1 DEF AcceptLoad, ReceiveLot, Untouched, lockVars, requestVars, batchVars
    <3> QED
      BY <3>1, UntouchedOK DEF Serial
  <2>4. Alone' /\ SerialConsumedOnce'
    BY <1>1 DEF AcceptLoad, requestVars, batchVars, Serial, Alone, SerialConsumedOnce,
       ConsumedOnce
  <2> QED
    BY <1>0, <2>2, <2>3, <2>4 DEF Serial
<1>2. ASSUME NEW s \in Sessions, NEW b \in Documents, Request(s, b)
      PROVE  Serial'
  BY <1>2, BeginSerial
<1>3. ASSUME NEW s \in Sessions,
             ShareLot(s) \/ LockLot(s) \/ PostConsumption(s) \/ CountOutputs(s)
      PROVE  Serial'
  <2>1. /\ pc[s] # "idle" /\ OnlyTarget(s) /\ UNCHANGED <<lotQty, stock, target, plan>>
        /\ UNCHANGED batchVars
        /\ \A t \in Sessions \ {s} : /\ pc'[t] = pc[t] /\ target'[t] = target[t]
                                     /\ plan'[t] = plan[t] /\ todo'[t] = todo[t]
                                     /\ want'[t] = want[t] /\ posted'[t] = posted[t]
    <3>1. CASE ShareLot(s)
      BY <3>1 DEF ShareLot, ShareNext, WantNext, OnlyTarget, inventoryVars, batchVars,
         Serial,
         Safe, BatchTypeOK, Reservation, RequestTypeOK, LockTypeOK
    <3>2. CASE LockLot(s)
      BY <3>2 DEF LockLot, LockNext, OnlyTarget, inventoryVars, batchVars, Serial, Safe,
         BatchTypeOK, Reservation, RequestTypeOK
    <3>3. CASE PostConsumption(s)
      BY <3>3 DEF PostConsumption, PostNext, PostIssue, WantNext, OnlyTarget, batchVars,
         Serial,
         Safe, BatchTypeOK, Reservation, RequestTypeOK, LockTypeOK, InventoryTypeOK
    <3>4. CASE CountOutputs(s)
      BY <3>4 DEF CountOutputs, OnlyTarget, lockVars, inventoryVars, batchVars, Serial,
         Safe, BatchTypeOK, Reservation, RequestTypeOK
    <3> QED
      BY <1>3, <3>1, <3>2, <3>3, <3>4
  <2>2. \A t \in Sessions \ {s} : SessionOK(t)'
    BY <2>1, OthersOK
  <2>3. ASSUME target[s] \in SerialDocuments
        PROVE  ReadsHold(s)'
    <3>0. ReadsHold(s)
      BY <2>3 DEF Serial, SessionOK
    <3>1. CASE ShareLot(s)
      BY <2>1, <3>0, <3>1 DEF ShareLot, ShareNext, ReadsHold, Looping, batchVars, Serial
    <3>2. CASE LockLot(s)
      BY <2>1, <3>0, <3>2
         DEF LockLot, LockNext, ReadsHold, Looping, inventoryVars, batchVars, Serial,
             Safe, BatchTypeOK, Reservation, RequestTypeOK
    <3>3. CASE PostConsumption(s)
      <4> DEFINE l == want[s]
                 rest == todo[s] \ {l}
      <4>1. l \in Lots /\ l \in todo[s] /\ posted[s][l] = 0 /\ plan[s][l] \in Nat
        BY <3>0, <3>3, MaxKgAssumption
           DEF PostConsumption, PostNext, ReadsHold, Looping, Serial, Safe, Reservation,
               HoldsLot,
               RequestTypeOK, Recipe, Kg
      <4>2. /\ posted'[s][l] = plan[s][l]
            /\ \A k \in Lots \ {l} : posted'[s][k] = posted[s][k]
            /\ todo'[s] = rest
        BY <3>3, <4>1
           DEF PostConsumption, PostNext, PostIssue, Serial, Safe, BatchTypeOK,
               Reservation, RequestTypeOK, InventoryTypeOK
      <4>3. pc'[s] = (IF rest = {} THEN "commit" ELSE "lock") /\ (rest # {} => want'[s] \in rest)
        BY <3>3
           DEF PostConsumption, PostNext, WantNext, Serial, Safe, BatchTypeOK,
               Reservation, RequestTypeOK, LockTypeOK
      <4>4. /\ pc[s] = "post" /\ status[target[s]] = "DRAFT"
            /\ plan[s] = inputs[target[s]]
            /\ \A k \in Lots : posted[s][k] = IF k \in todo[s] THEN 0 ELSE plan[s][k]
        BY <3>0, <3>3 DEF PostConsumption, PostNext, ReadsHold, Looping, Serial
      <4>5. \A k \in Lots : posted'[s][k] = IF k \in rest THEN 0 ELSE plan[s][k]
        BY <4>1, <4>2, <4>4
      <4> QED
        BY <2>1, <4>2, <4>3, <4>4, <4>5 DEF ReadsHold, Looping, batchVars
    <3>4. CASE CountOutputs(s)
      BY <2>1, <3>0, <3>4
         DEF CountOutputs, ReadsHold, Looping, batchVars, Serial, Safe, BatchTypeOK,
             Reservation, RequestTypeOK
    <3> QED
      BY <1>3, <3>1, <3>2, <3>3, <3>4
  <2>4. Alone' /\ NewLots' /\ SerialConsumedOnce'
    BY <2>1 DEF batchVars, Serial, Alone, NewLots, SerialConsumedOnce, ConsumedOnce
  <2>5. SessionOK(s)'
    <3>1. pc'[s] # "idle"
      BY <1>3 DEF ShareLot, ShareNext, LockLot, LockNext, PostConsumption, PostNext,
         CountOutputs, Serial, Safe, BatchTypeOK, Reservation, RequestTypeOK
    <3>2. target[s] # NoDocument
      BY <2>1 DEF Serial, SessionOK
    <3> QED
      BY <2>1, <2>3, <3>1, <3>2 DEF SessionOK
  <2> QED
    BY <1>0, <2>2, <2>4, <2>5 DEF Serial
<1>4. ASSUME NEW s \in Sessions,
             CommitCreate(s) \/ CommitProduce(s) \/ CommitComplete(s)
      PROVE  Serial'
  <2>1. /\ pc[s] \in {"share", "produce", "complete"} /\ target[s] \in Documents
        /\ OnlyTarget(s) /\ UNCHANGED <<lotQty, consumed, inventoryVars>>
        /\ EndRequest(s)
    BY <1>4 DEF CommitCreate, CommitProduce, CommitComplete, Finish, OnlyTarget, SessionOK,
       inventoryVars, Serial, Safe, BatchTypeOK, Reservation, RequestTypeOK
  <2>2. DiscardPosted(s)
    <3>1. pc[s] \notin Looping /\ Reservation(Steps)
      BY <2>1 DEF Looping, Serial, Safe
    <3> QED
      BY <2>1, <3>1, NothingToDiscard
  <2>3. SerialConsumedOnce'
    <3> SUFFICES ASSUME NEW b \in SerialDocuments
                 PROVE  ConsumedOnce(b)'
      BY DEF SerialConsumedOnce
    <3>1. b \in Documents /\ ConsumedOnce(b)
      BY SerialAssumption DEF Serial, SerialConsumedOnce
    <3>2. CASE target[s] # b
      BY <2>1, <3>1, <3>2 DEF OnlyTarget, ConsumedOnce
    <3>3. CASE target[s] = b
      <4>1. ReadsHold(s)
        BY <3>3 DEF Serial, SessionOK
      <4> QED
        BY <1>4, <2>1, <3>1, <3>3, <4>1
           DEF CommitCreate, CommitProduce, CommitComplete, ConsumedOnce, ReadsHold,
               Serial, Safe, BatchTypeOK, Reservation, RequestTypeOK
    <3> QED
      BY <3>2, <3>3
  <2> QED
    BY <2>1, <2>2, <2>3, EndSerial
<1>5. ASSUME NEW s \in Sessions, CommitStart(s)
      PROVE  Serial'
  <2>1. OnlyTarget(s)
    BY <1>5 DEF CommitStart, OnlyTarget, Serial, Safe, BatchTypeOK, Reservation,
       RequestTypeOK
  <2>2. SerialConsumedOnce'
    <3> SUFFICES ASSUME NEW b \in SerialDocuments
                 PROVE  ConsumedOnce(b)'
      BY DEF SerialConsumedOnce
    <3>1. b \in Documents /\ ConsumedOnce(b)
      BY SerialAssumption DEF Serial, SerialConsumedOnce
    <3>2. CASE target[s] # b
      BY <1>5, <3>1, <3>2 DEF CommitStart, ConsumedOnce, Serial, Safe, BatchTypeOK
    <3>3. CASE target[s] = b
      <4>1. /\ consumed'[b] = inputs[b] /\ inputs'[b] = inputs[b]
            /\ status'[b] = "IN_PROGRESS"
        BY <1>5, <3>1, <3>3, StartConsumes DEF CommitStart, Serial, Safe, BatchTypeOK
      <4> QED
        BY <4>1 DEF ConsumedOnce
    <3> QED
      BY <3>2, <3>3
  <2> QED
    BY <1>5, <2>1, <2>2, EndSerial DEF CommitStart, CommitPosted
<1>6. ASSUME NEW s \in Sessions, pc[s] # "idle", Abandon(s), UNCHANGED batchVars
      PROVE  Serial'
  <2>1. OnlyTarget(s) /\ SerialConsumedOnce'
    BY <1>6 DEF OnlyTarget, batchVars, Serial, SerialConsumedOnce, ConsumedOnce
  <2> QED
    BY <1>6, <2>1, EndSerial DEF Abandon, DiscardPosted
<1>7. ASSUME NEW s \in Sessions, DeadlockVictim(s)
      PROVE  pc[s] # "idle" /\ Abandon(s) /\ UNCHANGED batchVars
  <2>1. WaitsFor(s) # {}
    BY <1>7 DEF DeadlockVictim, DeadlockNext, Deadlocked
  <2>2. pc[s] = "idle" => WaitsFor(s) = {}
    BY DEF WaitsFor
  <2> QED
    BY <1>7, <2>1, <2>2 DEF DeadlockVictim, DeadlockNext
<1> QED
  BY <1>1, <1>2, <1>3, <1>4, <1>5, <1>6, <1>7
     DEF Next, Progress, RefuseConsumption, RefuseNext, RefuseComplete, Crash, CrashNext

LEMMA StutterSerial ==
  ASSUME Serial, UNCHANGED vars
  PROVE  Serial'
<1>1. Safe'
  BY StutterSafe DEF Serial
<1>2. \A t \in Sessions : SessionOK(t)'
  <2>1. \A t \in Sessions : Untouched(t)
    BY DEF Untouched, vars, lotVars, lockVars, inventoryVars, requestVars, batchVars
  <2> QED
    BY <2>1, UntouchedOK DEF Serial
<1> QED
  BY <1>1, <1>2 DEF Serial, Alone, NewLots, SerialConsumedOnce, ConsumedOnce, vars, lotVars,
     inventoryVars,
     requestVars, batchVars

\* Serial is inductive.
THEOREM SerialInvariant == Spec => []Serial
<1>1. Serial /\ [Next]_vars => Serial'
  BY StepSerial, StutterSerial
<1> QED
  BY <1>1, InitSerial, PTL DEF Spec

\* A batch on which no two requests overlap consumes its inputs exactly once, next to any
\* other batches, on which requests may overlap: the guard of start_batch and the lot locks
\* need one request at a time on the batch itself, and nothing of the others.
THEOREM ConsumesOnce == Spec => []SerialConsumedOnce
<1>1. Serial => SerialConsumedOnce
  BY DEF Serial
<1> QED
  BY <1>1, SerialInvariant, PTL

-----------------------------------------------------------------------------
(* Refinement of AtomicMilling: a commit on a serial batch is one atomic     *)
(* operation, the commit of a start on another batch a withdrawal.          *)

\* What the atomic specification sees of a write to one batch.
LEMMA SeenWrite ==
  ASSUME NEW f, f = [d \in Documents |-> f[d]], NEW b \in SerialDocuments, NEW v
  PROVE  OnSerial([f EXCEPT ![b] = v]) = [OnSerial(f) EXCEPT ![b] = v]
BY SerialAssumption DEF OnSerial

\* It sees no write to a batch that is not serial.
LEMMA UnseenWrite ==
  ASSUME NEW s \in Sessions, OnlyTarget(s), target[s] \notin SerialDocuments
  PROVE  UNCHANGED <<OnSerial(status), OnSerial(inputs), OnSerial(outputs)>>
BY SerialAssumption DEF OnlyTarget, OnSerial

LEMMA UnchangedUnseen ==
  ASSUME UNCHANGED <<status, inputs, outputs>>
  PROVE  UNCHANGED <<OnSerial(status), OnSerial(inputs), OnSerial(outputs)>>
BY DEF OnSerial

\* The commit of start_batch takes from each lot what it has posted, and no more than
\* the lot has.
LEMMA StartDraws ==
  ASSUME Serial, NEW s \in Sessions, CommitStart(s), NEW l \in Lots
  PROVE  /\ posted[s][l] \in 0 .. stock[l]
         /\ stock'[l] = stock[l] - posted[s][l]
<1>1. /\ posted[s][l] \in Nat /\ stock[l] \in Int /\ stock[l] >= 0
      /\ posted[s][l] > 0 => posted[s][l] <= stock[l]
  BY DEF Serial, Safe, Reservation, PostedIsReserved, NonNegativeStock, RequestTypeOK,
     InventoryTypeOK
<1> QED
  BY <1>1 DEF CommitStart, CommitPosted

LEMMA StartIsAtomic ==
  ASSUME Serial, NEW s \in Sessions, CommitStart(s), target[s] \in SerialDocuments
  PROVE  Atomic!Start(target[s])
<1>0. pc[s] = "commit"
  BY DEF CommitStart
<1>1. \A l \in Lots : inputs[target[s]][l] <= stock[l]
  BY <1>0, StartDraws, PostedAllInputs
     DEF Serial, Safe, Reservation, RequestTypeOK, InventoryTypeOK
<1>2. stock' = [l \in Lots |-> stock[l] - inputs[target[s]][l]]
  BY <1>0, PostedAllInputs DEF CommitStart, CommitPosted
<1>3. OnSerial(status)' = [OnSerial(status) EXCEPT ![target[s]] = "IN_PROGRESS"]
  BY SeenWrite DEF CommitStart, Serial, Safe, BatchTypeOK
<1>4. /\ OnSerial(status)[target[s]] = "DRAFT"
      /\ OnSerial(inputs)[target[s]] = inputs[target[s]]
  BY <1>0, PostedAllInputs DEF OnSerial
<1>5. UNCHANGED <<lotQty, OnSerial(inputs), OnSerial(outputs)>>
  BY DEF CommitStart, CommitPosted, OnSerial
<1> QED
  BY <1>1, <1>2, <1>3, <1>4, <1>5, StartConsumes DEF Atomic!Start

LEMMA StartIsWithdrawal ==
  ASSUME Serial, NEW s \in Sessions, CommitStart(s), target[s] \notin SerialDocuments
  PROVE  Atomic!Withdraw(target[s])
<1>1. stock' = [l \in Lots |-> stock'[l]]
  BY DEF CommitStart, CommitPosted
<1>2. \A l \in Lots : stock'[l] \in 0 .. stock[l] /\ stock[l] - stock'[l] = posted[s][l]
  BY StartDraws DEF Serial, Safe, Reservation, RequestTypeOK, InventoryTypeOK
<1>3. consumed' = [consumed EXCEPT ![target[s]] =
                     [l \in Lots |-> @[l] + (stock[l] - stock'[l])]]
  BY <1>2 DEF CommitStart
<1>4. OnlyTarget(s)
  BY DEF CommitStart, OnlyTarget, Serial, Safe, BatchTypeOK
<1>5. UNCHANGED <<lotQty, OnSerial(status), OnSerial(inputs), OnSerial(outputs)>>
  BY <1>4, UnseenWrite DEF CommitStart, CommitPosted
<1> QED
  BY <1>1, <1>2, <1>3, <1>5 DEF Atomic!Withdraw

LEMMA CreateIsAtomic ==
  ASSUME Serial, NEW s \in Sessions, CommitCreate(s), target[s] \in SerialDocuments
  PROVE  Atomic!Create(target[s], plan[s])
<1>1. /\ status[target[s]] = "ABSENT" /\ plan[s] \in Plans
      /\ \A l \in Lots : plan[s][l] > 0 => lotQty[l] > 0
  BY DEF CommitCreate, Serial, SessionOK, ReadsHold
<1>2. OnSerial(status)' = [OnSerial(status) EXCEPT ![target[s]] = "DRAFT"]
  BY SeenWrite DEF CommitCreate, Serial, Safe, BatchTypeOK
<1>3. OnSerial(inputs)' = [OnSerial(inputs) EXCEPT ![target[s]] = plan[s]]
  <2>1. inputs' = [inputs EXCEPT ![target[s]] = plan[s]]
    BY DEF CommitCreate
  <2>2. inputs = [d \in Documents |-> inputs[d]]
    BY DEF Serial, Safe, BatchTypeOK
  <2> QED
    BY <2>1, <2>2, SerialAssumption DEF OnSerial
<1>4. OnSerial(status)[target[s]] = "ABSENT" /\ UNCHANGED OnSerial(outputs)
  BY <1>1 DEF CommitCreate, OnSerial
<1> QED
  BY <1>1, <1>2, <1>3, <1>4 DEF CommitCreate, Finish, Atomic!Create, Plans, Used, inventoryVars

LEMMA ProduceIsAtomic ==
  ASSUME Serial, NEW s \in Sessions, CommitProduce(s), target[s] \in SerialDocuments
  PROVE  Atomic!Produce(target[s])
<1> DEFINE more(n) == IF n < MaxOutputs THEN n + 1 ELSE n
<1>1. status[target[s]] = "IN_PROGRESS"
  BY DEF CommitProduce, Serial, SessionOK, ReadsHold
<1>2. outputs' = [outputs EXCEPT ![target[s]] = more(outputs[target[s]])]
  BY SerialAssumption DEF CommitProduce
<1>3. OnSerial(outputs)' = [OnSerial(outputs) EXCEPT ![target[s]] = more(outputs[target[s]])]
  <2> HIDE DEF more
  <2> QED
    BY <1>2, SeenWrite DEF Serial, Safe, BatchTypeOK
<1>4. /\ OnSerial(status)[target[s]] = "IN_PROGRESS"
      /\ OnSerial(outputs)[target[s]] = outputs[target[s]]
      /\ UNCHANGED <<OnSerial(status), OnSerial(inputs)>>
  BY <1>1 DEF CommitProduce, OnSerial
<1> QED
  BY <1>3, <1>4 DEF CommitProduce, Finish, Atomic!Produce, inventoryVars

LEMMA CompleteIsAtomic ==
  ASSUME Serial, NEW s \in Sessions, CommitComplete(s), target[s] \in SerialDocuments
  PROVE  Atomic!Complete(target[s])
<1>1. status[target[s]] = "IN_PROGRESS" /\ outputs[target[s]] > 0
  BY DEF CommitComplete, Serial, SessionOK, ReadsHold
<1>2. OnSerial(status)' = [OnSerial(status) EXCEPT ![target[s]] = "COMPLETED"]
  BY SeenWrite DEF CommitComplete, Serial, Safe, BatchTypeOK
<1>3. /\ OnSerial(status)[target[s]] = "IN_PROGRESS" /\ OnSerial(outputs)[target[s]] > 0
      /\ UNCHANGED <<OnSerial(inputs), OnSerial(outputs)>>
  BY <1>1 DEF CommitComplete, OnSerial
<1> QED
  BY <1>2, <1>3 DEF CommitComplete, Finish, Atomic!Complete, inventoryVars

LEMMA ReceiptIsAtomic ==
  ASSUME Serial, NEW l \in Lots, NEW q \in 1 .. MaxKg, AcceptLoad(l, q)
  PROVE  Atomic!Receive(l, q)
<1>1. stock[l] + q = q
  BY MaxKgAssumption DEF AcceptLoad, ReceiveLot, Serial, NewLots
<1>2. UNCHANGED <<OnSerial(status), OnSerial(inputs), OnSerial(outputs)>>
  BY UnchangedUnseen DEF AcceptLoad, batchVars
<1> QED
  BY <1>1, <1>2 DEF AcceptLoad, ReceiveLot, Atomic!Receive, batchVars

LEMMA StepAtomic ==
  ASSUME Serial, [Next]_vars
  PROVE  [Atomic!Next]_(Atomic!vars)
<1> DEFINE Still == UNCHANGED <<lotQty, stock, batchVars>>
<1>1. CASE Still
  BY <1>1, UnchangedUnseen DEF Atomic!vars, batchVars
<1>2. CASE \E l \in Lots, q \in 1 .. MaxKg : AcceptLoad(l, q)
  BY <1>2, ReceiptIsAtomic DEF Atomic!Next
<1>3. ASSUME NEW s \in Sessions, target[s] \in Documents,
             CommitCreate(s) \/ CommitStart(s) \/ CommitProduce(s) \/ CommitComplete(s)
      PROVE  [Atomic!Next]_(Atomic!vars)
  <2>1. CASE target[s] \in SerialDocuments
    <3>1. CASE CommitCreate(s)
      <4>1. plan[s] \in [Lots -> 0 .. MaxKg]
        BY DEF Serial, Safe, Reservation, RequestTypeOK, Recipe, Kg
      <4> QED
        BY <2>1, <3>1, <4>1, CreateIsAtomic DEF Atomic!Next
    <3>2. CASE CommitStart(s)
      BY <2>1, <3>2, StartIsAtomic DEF Atomic!Next
    <3>3. CASE CommitProduce(s)
      BY <2>1, <3>3, ProduceIsAtomic DEF Atomic!Next
    <3>4. CASE CommitComplete(s)
      BY <2>1, <3>4, CompleteIsAtomic DEF Atomic!Next
    <3> QED
      BY <1>3, <3>1, <3>2, <3>3, <3>4
  <2>2. CASE target[s] \notin SerialDocuments /\ CommitStart(s)
    BY <1>3, <2>2, StartIsWithdrawal DEF Atomic!Next
  <2>3. CASE target[s] \notin SerialDocuments /\ ~ CommitStart(s)
    <3>1. OnlyTarget(s) /\ UNCHANGED <<lotQty, stock, consumed>>
      BY <1>3, <2>3 DEF CommitCreate, CommitProduce, CommitComplete, Finish, OnlyTarget,
         inventoryVars, Serial, Safe, BatchTypeOK
    <3> QED
      BY <2>3, <3>1, UnseenWrite DEF Atomic!vars
  <2> QED
    BY <2>1, <2>2, <2>3
<1>4. ASSUME NEW s \in Sessions, pc[s] # "idle"
      PROVE  target[s] \in Documents
  BY <1>4 DEF Serial, SessionOK, Safe, Reservation, RequestTypeOK
<1>5. CASE UNCHANGED vars
  BY <1>1, <1>5 DEF vars, lotVars, inventoryVars
<1>6. CASE \E s \in Sessions, b \in Documents : Request(s, b)
  <2>1. Still
    BY <1>6 DEF Request, CreateRequest, StartRequest, ProduceRequest, CompleteRequest,
       Begin, inventoryVars
  <2> QED
    BY <1>1, <2>1
<1>7. ASSUME NEW s \in Sessions,
             \/ ShareLot(s) \/ LockLot(s) \/ PostConsumption(s) \/ CountOutputs(s)
             \/ RefuseConsumption(s) \/ RefuseComplete(s) \/ Crash(s) \/ DeadlockVictim(s)
      PROVE  Still
  BY <1>7 DEF ShareLot, ShareNext, LockLot, LockNext, PostConsumption, PostNext,
     CountOutputs, RefuseConsumption, RefuseNext,
     RefuseComplete, Crash, CrashNext, DeadlockVictim, DeadlockNext, Abandon,
     DiscardPosted, inventoryVars
<1>8. ASSUME NEW s \in Sessions,
             CommitCreate(s) \/ CommitStart(s) \/ CommitProduce(s) \/ CommitComplete(s)
      PROVE  pc[s] # "idle"
  BY <1>8 DEF CommitCreate, CommitStart, CommitProduce, CommitComplete
<1> QED
  BY <1>1, <1>2, <1>3, <1>4, <1>5, <1>6, <1>7, <1>8 DEF Next, Progress

\* Every interleaving of milling requests has, for the batches whose requests do not
\* overlap, the effect of these requests taken one at a time.
THEOREM MillingIsAtomic == Spec => ImplementsAtomic
<1>1. Init => Atomic!Init
  BY SerialAssumption
     DEF Init, RequestInit, InventoryInit, NothingPosted, NoItems, OnSerial, Atomic!Init,
         Atomic!None
<1>2. Serial /\ [Next]_vars => [Atomic!Next]_(Atomic!vars)
  BY StepAtomic
<1> QED
  BY <1>1, <1>2, SerialInvariant, PTL DEF Spec, ImplementsAtomic, Atomic!Spec
=============================================================================
