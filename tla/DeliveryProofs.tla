--------------------------- MODULE DeliveryProofs ---------------------------
(***************************************************************************)
(* Delivery, for any number of sessions, lots and dispatches: its stock    *)
(* and the ledger it implements, its receipts, the quality decisions; that *)
(* dispatches take their rice whole; and that dispatches in                *)
(* SerialDocuments are atomic; and that no rice is lost between quality    *)
(* check and road.                                                         *)
(***************************************************************************)
EXTENDS Delivery, LotRequestsProofs, SumTheorems

DispatchTypeOK == /\ status  \in [Documents -> Statuses]
                  /\ items   \in [Documents -> Recipe]
                  /\ issued  \in [Documents -> [Lots -> Nat]]
                  /\ receipt = [d \in Documents |-> receipt[d]]

\* A decision carries the quantity of the output it is about; only milled outputs
\* have one.
DecisionReads ==
  /\ \A l \in Lots : quality[l] = "ABSENT" <=> output[l] = 0
  /\ \A s \in Sessions, l \in Lots :
       pc[s] \in {"pass", "fail"} => plan[s][l] \in {0, output[l]}

\* Of a serial output at most one decision is under way, and only while it is PENDING.
SerialDecisions ==
  \A l \in SerialOutputs :
    /\ quality[l] # "PASSED" => lotQty[l] = 0
    /\ \A s, t \in Deciding(l) : s = t /\ quality[l] = "PENDING"

RiceInv == RiceTypeOK /\ DecisionReads /\ PassedIsLot /\ SerialDecisions

\* The inductive invariant.
Safe == Reservation(Steps) /\ DispatchTypeOK /\ RiceInv

LEMMA StepsOK == LoopSteps \subseteq Steps
BY DEF LoopSteps, Steps

LEMMA NoItemsOK == NoItems \in Recipe /\ {} \in SUBSET Lots
BY MaxKgAssumption DEF NoItems, Recipe, Kg

LEMMA InitSafe == Init => Safe
<1> SUFFICES ASSUME Init PROVE Safe
  OBVIOUS
<1>1. Reservation(Steps)
  BY InitReservation, StepsOK DEF Init
<1>2. RiceInv
  <2>1. /\ output = NoItems /\ quality = [l \in Lots |-> "ABSENT"] /\ lotQty = NoItems
        /\ pc = [s \in Sessions |-> "idle"]
    BY DEF Init, RequestInit, InventoryInit, RiceInit, NoItems
  <2>2. RiceTypeOK
    BY <2>1, MaxKgAssumption DEF RiceTypeOK, QualityStatuses, NoItems, Kg
  <2>3. DecisionReads /\ PassedIsLot
    BY <2>1 DEF DecisionReads, PassedIsLot, NoItems
  <2>4. \A l \in Lots : Deciding(l) = {}
    BY <2>1 DEF Deciding
  <2>5. SerialDecisions
    BY <2>1, <2>4, SerialOutputsAssumption DEF SerialDecisions, NoItems
  <2> QED
    BY <2>2, <2>3, <2>5 DEF RiceInv
<1> QED
  BY <1>1, <1>2, NoItemsOK DEF Init, Safe, DispatchTypeOK, Statuses, NoItems

-----------------------------------------------------------------------------
LEMMA RequestReservation ==
  ASSUME Safe, NEW s \in Sessions, NEW d \in Documents, Request(s, d)
  PROVE  Reservation(Steps)' /\ UNCHANGED dispatchVars
<1>1. ASSUME NEW p \in Plans, CreateRequest(s, d, p)
      PROVE  Reservation(Steps)' /\ UNCHANGED dispatchVars
  <2>1. p \in Recipe /\ Used(p) \in SUBSET Lots /\ "share" \in Steps \ {"post"}
    BY DEF Plans, Used, Steps
  <2> QED
    BY <1>1, <2>1, BeginReservation DEF CreateRequest, deliveryVars, Safe
<1>2. ASSUME PrepareRequest(s, d)
      PROVE  Reservation(Steps)' /\ UNCHANGED dispatchVars
  <2>1. "prepare" \in Steps \ {"post"}
    BY DEF Steps
  <2> QED
    BY <1>2, <2>1, NoItemsOK, BeginReservation DEF PrepareRequest, deliveryVars, Safe
<1>3. items[d] \in Recipe /\ Used(items[d]) \in SUBSET Lots
  BY DEF Safe, DispatchTypeOK, Used
<1>4. ASSUME DispatchRequest(s, d)
      PROVE  Reservation(Steps)' /\ UNCHANGED dispatchVars
  <2>1. "lock" \in Steps \ {"post"}
    BY DEF Steps
  <2> QED
    BY <1>3, <1>4, <2>1, BeginReservation DEF DispatchRequest, deliveryVars, Safe
<1>5. ASSUME NEW received \in 0 .. MaxReceived, ReceiptRequest(s, d, received)
      PROVE  Reservation(Steps)' /\ UNCHANGED dispatchVars
  <2>1. "receipt" \in Steps \ {"post"}
    BY DEF Steps
  <2> QED
    BY <1>3, <1>5, <2>1, NoItemsOK, BeginReservation DEF ReceiptRequest, Safe
<1> QED
  BY <1>1, <1>2, <1>4, <1>5 DEF Request

LEMMA ProgressReservation ==
  ASSUME Safe, NEW s \in Sessions, Progress(s)
  PROVE  Reservation(Steps)'
<1> USE StepsOK DEF Safe
<1>1. CASE CommitCreate(s) \/ CommitPrepare(s) \/ CommitReceipt(s)
  <2>1. pc[s] \notin Looping /\ Finish(s)
    BY <1>1 DEF CommitCreate, CommitPrepare, CommitReceipt, Looping
  <2> QED
    BY <2>1, FinishReservation
<1>2. CASE PostStockOut(s)
  BY <1>2, PostReservation DEF PostStockOut
<1>3. CASE RefuseStockOut(s) \/ RefuseReceipt(s)
  BY <1>3, AbandonReservation DEF RefuseStockOut, RefuseNext, RefuseReceipt
<1>4. CASE CommitDispatch(s)
  BY <1>4, EndReservation DEF CommitDispatch
<1>5. CASE CommitPass(s)
  <2>1. PICK l \in Used(plan[s]) : ReceiveLot(l, plan[s][l])
    BY <1>5 DEF CommitPass
  <2>2. l \in Lots /\ plan[s][l] \in 1 .. MaxKg
    BY <2>1, MaxKgAssumption DEF Used, Reservation, RequestTypeOK, Recipe, Kg
  <2>3. pc[s] \notin Looping
    BY <1>5 DEF CommitPass, Looping
  <2> QED
    BY <1>5, <2>1, <2>2, <2>3, ReceiveEndReservation DEF CommitPass
<1>6. CASE RefusePass(s)
  BY <1>6, AbandonReservation DEF RefusePass
<1>7. CASE CommitFail(s)
  <2>1. pc[s] \notin Looping /\ Finish(s)
    BY <1>7 DEF CommitFail, Looping
  <2> QED
    BY <2>1, FinishReservation
<1> QED
  BY <1>1, <1>2, <1>3, <1>4, <1>5, <1>6, <1>7 DEF Progress, Decide

\* Milling an output and asking for a decision touch no stock and no dispatch.
LEMMA RiceReservation ==
  ASSUME Safe, Rice, UNCHANGED deliveryVars
  PROVE  Reservation(Steps)' /\ UNCHANGED <<stock, lotQty, dispatchVars>>
<1>1. UNCHANGED dispatchVars
  BY DEF deliveryVars
<1>2. ASSUME NEW l \in Lots, NEW q \in 1 .. MaxKg, ProduceOutput(l, q)
      PROVE  Reservation(Steps)' /\ UNCHANGED <<stock, lotQty>>
  BY <1>2, StutterReservation DEF ProduceOutput, Safe, lotVars, inventoryVars
<1>3. ASSUME NEW l \in Lots, NEW s \in Sessions, NEW step \in {"pass", "fail"},
             DecisionRequest(s, l, step)
      PROVE  Reservation(Steps)' /\ UNCHANGED <<stock, lotQty>>
  <2>1. Weighed(l) \in Recipe /\ {} \in SUBSET Lots /\ step \in Steps \ {"post"}
    BY NoItemsOK DEF Weighed, Recipe, Steps, Safe, RiceInv, RiceTypeOK
  <2>2. Begin(s, NoDocument, step, Weighed(l), {})
    BY <1>3 DEF DecisionRequest
  <2> QED
    BY <2>1, <2>2, BeginReservation DEF Safe, Begin, inventoryVars
<1> QED
  BY <1>1, <1>2, <1>3 DEF Rice, Produce, PassRequest, FailRequest

LEMMA OtherReservation ==
  ASSUME Safe, NEW s \in Sessions,
         ShareLot(s) \/ LockLot(s) \/ Crash(s) \/ DeadlockVictim(s)
  PROVE  Reservation(Steps)' /\ UNCHANGED dispatchVars
<1> USE StepsOK DEF Safe
<1>1. CASE ShareLot(s)
  BY <1>1, ShareReservation DEF ShareLot, deliveryVars
<1>2. CASE LockLot(s)
  BY <1>2, LockReservation DEF LockLot, deliveryVars
<1>3. CASE Crash(s) \/ DeadlockVictim(s)
  BY <1>3, AbandonReservation DEF Crash, CrashNext, DeadlockVictim, DeadlockNext, deliveryVars
<1> QED
  BY <1>1, <1>2, <1>3

LEMMA ProgressDispatchType ==
  ASSUME Safe, NEW s \in Sessions, Progress(s)
  PROVE  DispatchTypeOK'
<1>1. CASE CommitCreate(s)
  BY <1>1 DEF CommitCreate, DispatchTypeOK, Statuses, Safe, Reservation, RequestTypeOK
<1>2. CASE CommitReceipt(s)
  BY <1>2 DEF CommitReceipt, DispatchTypeOK, Statuses, Safe
<1>3. CASE CommitPrepare(s)
  BY <1>3 DEF CommitPrepare, DispatchTypeOK, Statuses, Safe
<1>4. CASE CommitDispatch(s)
  <2>1. \A d \in Documents, l \in Lots : issued[d][l] + posted[s][l] \in Nat
    BY DEF Safe, DispatchTypeOK, Reservation, RequestTypeOK, InventoryTypeOK
  <2>2. issued' \in [Documents -> [Lots -> Nat]]
    BY <1>4, <2>1 DEF CommitDispatch, Safe, DispatchTypeOK
  <2> QED
    BY <1>4, <2>2 DEF CommitDispatch, DispatchTypeOK, Statuses, Safe
<1>5. CASE PostStockOut(s) \/ RefuseStockOut(s) \/ RefuseReceipt(s) \/ UNCHANGED deliveryVars
  BY <1>5 DEF PostStockOut, RefuseStockOut, RefuseReceipt,
     deliveryVars, dispatchVars, DispatchTypeOK, Safe
<1> QED
  BY <1>1, <1>2, <1>3, <1>4, <1>5 DEF Progress

-----------------------------------------------------------------------------
(* The quality decisions                                                    *)

\* A step that touches neither outputs nor lots and brings no session to a decision.
LEMMA QuietRice ==
  ASSUME Safe, UNCHANGED <<riceVars, lotQty>>,
         \A s \in Sessions : pc'[s] \in {"pass", "fail"}
                               => pc'[s] = pc[s] /\ plan'[s] = plan[s]
  PROVE  RiceInv'
<1>1. RiceTypeOK' /\ PassedIsLot'
  BY DEF Safe, RiceInv, RiceTypeOK, PassedIsLot, riceVars
<1>2. DecisionReads'
  BY DEF Safe, RiceInv, DecisionReads, riceVars
<1>3. \A l \in Lots : Deciding(l)' \subseteq Deciding(l)
  BY DEF Deciding, Used
<1>4. SerialDecisions'
  BY <1>3, SerialOutputsAssumption DEF Safe, RiceInv, SerialDecisions, riceVars
<1> QED
  BY <1>1, <1>2, <1>4 DEF RiceInv

\* The end of a request leaves the decisions of the other sessions alone.
LEMMA EndedRice ==
  ASSUME Safe, NEW s \in Sessions, EndRequest(s)
  PROVE  \A t \in Sessions : pc'[t] \in {"pass", "fail"}
                               => t # s /\ pc'[t] = pc[t] /\ plan'[t] = plan[t]
BY DEF Safe, Reservation, RequestTypeOK, EndRequest

LEMMA RequestRice ==
  ASSUME Safe, NEW s \in Sessions, NEW d \in Documents, Request(s, d), UNCHANGED riceVars
  PROVE  RiceInv'
<1>1. PICK step \in {"share", "prepare", "lock", "receipt"} :
        \E p, rest : Begin(s, d, step, p, rest)
  BY DEF Request, CreateRequest, PrepareRequest, DispatchRequest, ReceiptRequest
<1>2. \A t \in Sessions : pc'[t] \in {"pass", "fail"}
                            => pc'[t] = pc[t] /\ plan'[t] = plan[t]
  BY <1>1 DEF Begin, Safe, Reservation, RequestTypeOK
<1> QED
  BY <1>1, <1>2, QuietRice DEF Begin, inventoryVars

LEMMA StatementRice ==
  ASSUME Safe, NEW s \in Sessions,
         \/ ShareLot(s) \/ LockLot(s) \/ Crash(s) \/ DeadlockVictim(s)
         \/ Progress(s) /\ ~ CommitPass(s) /\ ~ CommitFail(s)
  PROVE  RiceInv'
<1>1. CASE ShareLot(s)
  BY <1>1, QuietRice DEF ShareLot, ShareNext, inventoryVars
<1>2. CASE LockLot(s)
  <2>1. \A t \in Sessions : pc'[t] \in {"pass", "fail"} => pc'[t] = pc[t]
    BY <1>2 DEF LockLot, LockNext, Safe, Reservation, RequestTypeOK
  <2> QED
    BY <1>2, <2>1, QuietRice DEF LockLot, LockNext, inventoryVars
<1>3. CASE PostStockOut(s)
  <2>1. \A t \in Sessions : pc'[t] \in {"pass", "fail"} => pc'[t] = pc[t]
    BY <1>3 DEF PostStockOut, PostNext, Safe, Reservation, RequestTypeOK
  <2> QED
    BY <1>3, <2>1, QuietRice DEF PostStockOut, PostNext
<1>4. CASE \/ Crash(s) \/ DeadlockVictim(s) \/ CommitCreate(s) \/ CommitPrepare(s)
           \/ RefuseStockOut(s) \/ CommitDispatch(s) \/ CommitReceipt(s)
           \/ RefuseReceipt(s) \/ RefusePass(s)
  <2>1. EndRequest(s) /\ UNCHANGED <<riceVars, lotQty>>
    BY <1>4 DEF Crash, CrashNext, DeadlockVictim, DeadlockNext, CommitCreate, CommitPrepare,
       RefuseStockOut, RefuseNext, CommitDispatch, CommitReceipt, RefuseReceipt, RefusePass,
       Finish, Abandon, DiscardPosted, CommitPosted, inventoryVars
  <2> QED
    BY <2>1, EndedRice, QuietRice
<1> QED
  BY <1>1, <1>2, <1>3, <1>4 DEF Progress, Decide

LEMMA ProduceRice ==
  ASSUME Safe, NEW l \in Lots, NEW q \in 1 .. MaxKg, ProduceOutput(l, q)
  PROVE  RiceInv'
<1>1. /\ quality[l] = "ABSENT" /\ output[l] = 0 /\ lotQty[l] = 0
      /\ \A s \in Sessions : pc[s] \in {"pass", "fail"} => plan[s][l] = 0
  BY DEF ProduceOutput, Safe, RiceInv, DecisionReads, PassedIsLot
<1>2. RiceTypeOK'
  BY MaxKgAssumption DEF ProduceOutput, Safe, RiceInv, RiceTypeOK, QualityStatuses, Kg
<1>3. UNCHANGED <<lotQty, pc, plan>>
  BY DEF ProduceOutput, lotVars, inventoryVars, requestVars
<1>4. /\ output'[l] = q /\ quality'[l] = "PENDING"
      /\ \A k \in Lots \ {l} : output'[k] = output[k] /\ quality'[k] = quality[k]
  BY DEF ProduceOutput, Safe, RiceInv, RiceTypeOK
<1>5. DecisionReads' /\ PassedIsLot'
  BY <1>1, <1>3, <1>4, MaxKgAssumption DEF Safe, RiceInv, DecisionReads, PassedIsLot
<1>6. \A k \in Lots : Deciding(k)' = Deciding(k)
  BY <1>3 DEF Deciding, Used
<1>7. SerialDecisions'
  BY <1>1, <1>3, <1>4, <1>6, SerialOutputsAssumption DEF Safe, RiceInv, SerialDecisions
<1> QED
  BY <1>2, <1>5, <1>7 DEF RiceInv

LEMMA DecisionRice ==
  ASSUME Safe, NEW l \in Lots, NEW s \in Sessions, NEW step \in {"pass", "fail"},
         DecisionRequest(s, l, step)
  PROVE  RiceInv'
<1>1. /\ UNCHANGED <<riceVars, lotQty>> /\ quality[l] = "PENDING"
      /\ l \in SerialOutputs => Deciding(l) = {}
  BY DEF DecisionRequest, Begin, inventoryVars
<1>2. /\ plan'[s] = Weighed(l) /\ pc'[s] = step
      /\ \A t \in Sessions \ {s} : pc'[t] = pc[t] /\ plan'[t] = plan[t]
  BY DEF DecisionRequest, Begin, Safe, Reservation, RequestTypeOK
<1>3. \A k \in Lots : Weighed(l)[k] = IF k = l THEN output[l] ELSE 0
  BY DEF Weighed, NoItems
<1>4. RiceTypeOK' /\ PassedIsLot'
  BY <1>1 DEF Safe, RiceInv, RiceTypeOK, PassedIsLot, riceVars
<1>5. DecisionReads'
  BY <1>1, <1>2, <1>3 DEF Safe, RiceInv, DecisionReads, riceVars
<1>6. \A k \in Lots : Deciding(k)' \subseteq Deciding(k) \cup (IF k = l THEN {s} ELSE {})
  BY <1>2, <1>3 DEF Deciding, Used
<1>7. SerialDecisions'
  BY <1>1, <1>6, SerialOutputsAssumption DEF Safe, RiceInv, SerialDecisions, riceVars
<1> QED
  BY <1>4, <1>5, <1>7 DEF RiceInv

\* The decision of s on l is committed: nobody else decides on l if it is serial.
LEMMA DecidedRice ==
  ASSUME Safe, NEW s \in Sessions, NEW l \in Used(plan[s]), pc[s] \in {"pass", "fail"},
         EndRequest(s)
  PROVE  /\ l \in Lots /\ plan[s][l] = output[l] /\ output[l] \in 1 .. MaxKg
         /\ \A k \in Lots : Deciding(k)' \subseteq Deciding(k) \ {s}
         /\ l \in SerialOutputs => Deciding(l)' = {}
         /\ \A t \in Sessions, k \in Lots :
              pc'[t] \in {"pass", "fail"} => plan'[t][k] \in {0, output[k]}
<1>1. l \in Lots /\ plan[s][l] > 0
  BY DEF Used
<1>2. plan[s][l] = output[l] /\ output[l] \in 1 .. MaxKg
  BY <1>1, MaxKgAssumption DEF Safe, RiceInv, DecisionReads, RiceTypeOK, Kg
<1>3. \A k \in Lots : Deciding(k)' \subseteq Deciding(k) \ {s}
  BY EndedRice DEF Deciding, Used
<1>4. s \in Deciding(l)
  BY DEF Deciding
<1>5. l \in SerialOutputs => Deciding(l)' = {}
  BY <1>1, <1>3, <1>4 DEF Safe, RiceInv, SerialDecisions
<1>6. \A t \in Sessions, k \in Lots :
        pc'[t] \in {"pass", "fail"} => plan'[t][k] \in {0, output[k]}
  BY EndedRice DEF Safe, RiceInv, DecisionReads
<1> QED
  BY <1>1, <1>2, <1>3, <1>5, <1>6

LEMMA CommitDecisionRice ==
  ASSUME Safe, NEW s \in Sessions, CommitPass(s) \/ CommitFail(s)
  PROVE  RiceInv'
<1>1. PICK l \in Used(plan[s]), decided \in {"PASSED", "FAILED"} :
        /\ quality' = [quality EXCEPT ![l] = decided]
        /\ \/ decided = "PASSED" /\ ReceiveLot(l, plan[s][l])
           \/ decided = "FAILED" /\ UNCHANGED <<lotQty>>
  BY DEF CommitPass, CommitFail, Finish, inventoryVars
<1>2. pc[s] \in {"pass", "fail"} /\ EndRequest(s) /\ UNCHANGED output
  BY DEF CommitPass, CommitFail, Finish
<1>3. /\ l \in Lots /\ plan[s][l] = output[l] /\ output[l] \in 1 .. MaxKg
      /\ \A k \in Lots : Deciding(k)' \subseteq Deciding(k)
      /\ l \in SerialOutputs => Deciding(l)' = {} /\ quality[l] = "PENDING"
      /\ \A t \in Sessions, k \in Lots :
           pc'[t] \in {"pass", "fail"} => plan'[t][k] \in {0, output[k]}
  <2>1. l \in SerialOutputs => quality[l] = "PENDING"
    BY <1>2 DEF Deciding, Safe, RiceInv, SerialDecisions
  <2> QED
    BY <1>2, <2>1, DecidedRice
<1>4. /\ quality'[l] = decided
      /\ \A k \in Lots \ {l} : quality'[k] = quality[k] /\ lotQty'[k] = lotQty[k]
      /\ decided = "PASSED" => lotQty'[l] = output[l]
      /\ decided = "FAILED" => lotQty'[l] = lotQty[l]
  BY <1>1, <1>3 DEF ReceiveLot, Safe, RiceInv, RiceTypeOK, Reservation, RequestTypeOK,
     InventoryTypeOK
<1>5. RiceTypeOK'
  BY <1>1, <1>2 DEF Safe, RiceInv, RiceTypeOK, QualityStatuses
<1>6. DecisionReads'
  BY <1>2, <1>3, <1>4 DEF Safe, RiceInv, DecisionReads
<1>7. PassedIsLot'
  BY <1>2, <1>3, <1>4 DEF Safe, RiceInv, PassedIsLot
<1>8. SerialDecisions'
  BY <1>3, <1>4, SerialOutputsAssumption DEF Safe, RiceInv, SerialDecisions
<1> QED
  BY <1>5, <1>6, <1>7, <1>8 DEF RiceInv

LEMMA StepRice ==
  ASSUME Safe, Next
  PROVE  RiceInv'
<1>1. ASSUME Rice
      PROVE  RiceInv'
  BY <1>1, ProduceRice, DecisionRice DEF Rice, Produce, PassRequest, FailRequest
<1>2. ASSUME NEW s \in Sessions, NEW d \in Documents, Request(s, d)
      PROVE  RiceInv'
  BY <1>2, RequestRice DEF Request, CreateRequest, PrepareRequest, DispatchRequest,
     ReceiptRequest
<1>3. ASSUME NEW s \in Sessions,
             ShareLot(s) \/ LockLot(s) \/ Progress(s) \/ Crash(s) \/ DeadlockVictim(s)
      PROVE  RiceInv'
  BY <1>3, StatementRice, CommitDecisionRice
<1> QED
  BY <1>1, <1>2, <1>3 DEF Next

-----------------------------------------------------------------------------
LEMMA StepSafe ==
  ASSUME Safe, Next
  PROVE  Safe'
<1>0. RiceInv'
  BY StepRice
<1>1. ASSUME Rice, UNCHANGED deliveryVars
      PROVE  Safe'
  BY <1>0, <1>1, RiceReservation DEF Safe, DispatchTypeOK, dispatchVars
<1>2. ASSUME NEW s \in Sessions, NEW d \in Documents, Request(s, d)
      PROVE  Safe'
  BY <1>0, <1>2, RequestReservation DEF Safe, DispatchTypeOK, dispatchVars
<1>3. ASSUME NEW s \in Sessions, ShareLot(s) \/ LockLot(s) \/ Crash(s) \/ DeadlockVictim(s)
      PROVE  Safe'
  BY <1>0, <1>3, OtherReservation DEF Safe, DispatchTypeOK, dispatchVars
<1>4. ASSUME NEW s \in Sessions, Progress(s)
      PROVE  Safe'
  BY <1>0, <1>4, ProgressReservation, ProgressDispatchType DEF Safe
<1> QED
  BY <1>1, <1>2, <1>3, <1>4 DEF Next

LEMMA StutterSafe ==
  ASSUME Safe, UNCHANGED vars
  PROVE  Safe'
<1>1. UNCHANGED <<lotVars, riceVars, dispatchVars>>
  BY DEF vars, deliveryVars
<1>2. Reservation(Steps)'
  BY <1>1, StutterReservation DEF Safe
<1>3. RiceInv'
  BY <1>1, QuietRice DEF lotVars, inventoryVars, requestVars
<1> QED
  BY <1>1, <1>2, <1>3 DEF Safe, DispatchTypeOK, dispatchVars

\* Safe is inductive: it holds initially and every step of delivery keeps it.
THEOREM SafeInvariant == Spec => []Safe
<1>1. Safe /\ [Next]_vars => Safe'
  BY StepSafe, StutterSafe
<1> QED
  BY <1>1, InitSafe, PTL DEF Spec

\* No interleaving of dispatch requests overdraws a rice lot.
THEOREM NeverOverdrawn == Spec => []NonNegativeStock
<1>1. Safe => NonNegativeStock
  BY DEF Safe, Reservation
<1> QED
  BY <1>1, SafeInvariant, PTL

\* However decisions on an output race, one that passed is a lot of its quantity; where
\* they do not overlap, failed rice has no lot.
THEOREM DecisionsAreInStock == Spec => []QualityDecides
<1>1. Safe => PassedIsLot
  BY DEF Safe, RiceInv
<1>2. Safe => FailedHasNoLot
  BY SerialOutputsAssumption DEF Safe, RiceInv, SerialDecisions, FailedHasNoLot
<1> QED
  BY <1>1, <1>2, SafeInvariant, PTL DEF QualityDecides

-----------------------------------------------------------------------------
LEMMA StepLedger ==
  ASSUME Safe, [Next]_vars
  PROVE  [Ledger!Next]_stock
<1>1. ASSUME NEW s \in Sessions, CommitPass(s)
      PROVE  Ledger!Next
  <2>1. PICK l \in Used(plan[s]) : ReceiveLot(l, plan[s][l])
    BY <1>1 DEF CommitPass
  <2>2. l \in Lots /\ plan[s][l] \in 1 .. MaxKg
    BY <2>1, MaxKgAssumption DEF Used, Safe, Reservation, RequestTypeOK, Recipe, Kg
  <2> QED
    BY <2>1, <2>2, ReceiveIsLedgerStep DEF Safe
<1>2. ASSUME NEW s \in Sessions, NEW d \in Documents, Request(s, d)
      PROVE  UNCHANGED stock
  BY <1>2 DEF Request, CreateRequest, PrepareRequest, DispatchRequest, ReceiptRequest, Begin,
     inventoryVars
<1>3. ASSUME NEW s \in Sessions, ShareLot(s) \/ LockLot(s)
      PROVE  UNCHANGED stock
  BY <1>3 DEF ShareLot, ShareNext, LockLot, LockNext, inventoryVars
<1>4. ASSUME NEW s \in Sessions, CommitDispatch(s)
      PROVE  Ledger!Next
  BY <1>4, CommitIsLedgerStep DEF CommitDispatch, Safe
<1>5. ASSUME NEW s \in Sessions, Progress(s), ~ CommitDispatch(s), ~ CommitPass(s)
      PROVE  UNCHANGED stock
  BY <1>5 DEF Progress, Decide, RefusePass, CommitFail, CommitCreate, CommitPrepare,
     PostStockOut, PostNext, RefuseStockOut, RefuseNext, CommitReceipt, RefuseReceipt, Finish,
     Abandon, DiscardPosted, inventoryVars
<1>6. ASSUME NEW s \in Sessions, Crash(s) \/ DeadlockVictim(s)
      PROVE  UNCHANGED stock
  BY <1>6 DEF Crash, CrashNext, DeadlockVictim, DeadlockNext, Abandon, DiscardPosted
<1>7. CASE UNCHANGED vars \/ (Rice /\ UNCHANGED deliveryVars)
  BY <1>7, RiceReservation DEF vars, lotVars, inventoryVars
<1> QED
  BY <1>1, <1>2, <1>3, <1>4, <1>5, <1>6, <1>7 DEF Next

\* The stock that delivery draws on is a ledger no dispatch overdraws.
THEOREM DeliveryImplementsLedger == Spec => ImplementsLedger
<1>1. Init => Ledger!Init
  BY DEF Init, RequestInit, InventoryInit, NothingPosted, Ledger!Init
<1>2. Safe /\ [Next]_vars => [Ledger!Next]_stock
  BY StepLedger
<1> QED
  BY <1>1, <1>2, SafeInvariant, PTL DEF Spec, ImplementsLedger, Ledger!Spec

-----------------------------------------------------------------------------
LEMMA StepKeepsReceipts ==
  ASSUME Safe, [Next]_vars, NEW d \in Documents, receipt[d] # NoReceipt
  PROVE  receipt'[d] = receipt[d]
<1>1. ASSUME NEW s \in Sessions, CommitReceipt(s)
      PROVE  receipt'[d] = receipt[d]
  <2>1. target[s] # d
    BY <1>1 DEF CommitReceipt
  <2> QED
    BY <1>1, <2>1 DEF CommitReceipt, Safe, DispatchTypeOK
<1>2. ASSUME NEW s \in Sessions, Progress(s), ~ CommitReceipt(s)
      PROVE  UNCHANGED receipt
  BY <1>2 DEF Progress, CommitCreate, CommitPrepare, PostStockOut, RefuseStockOut,
     CommitDispatch, RefuseReceipt, dispatchVars, deliveryVars
<1>3. ASSUME \/ Rice /\ UNCHANGED deliveryVars
             \/ \E s \in Sessions, e \in Documents : Request(s, e)
             \/ \E s \in Sessions :
                  ShareLot(s) \/ LockLot(s) \/ Crash(s) \/ DeadlockVictim(s)
             \/ UNCHANGED vars
      PROVE  UNCHANGED receipt
  BY <1>3, RequestReservation, OtherReservation DEF deliveryVars, dispatchVars, vars
<1> QED
  BY <1>1, <1>2, <1>3 DEF Next

\* Of any number of racing receipts for one dispatch the first to commit stands.
THEOREM ReceiptsAreFinal == Spec => ReceiptIsFinal
<1>1. Safe /\ [Next]_vars
      => [\A d \in Documents : receipt[d] # NoReceipt => receipt'[d] = receipt[d]]_vars
  BY StepKeepsReceipts
<1> QED
  BY <1>1, SafeInvariant, PTL DEF Spec, ReceiptIsFinal

-----------------------------------------------------------------------------
(* Dispatches take their rice whole, whatever requests on them overlap       *)

OnRoad  == {"DISPATCHED", "DELIVERED"}
Gone(d) == \E l \in Lots : issued[d][l] > 0

\* What a session works with: the dispatch it creates is nobody else's, the items it has
\* read are still those of its dispatch, what it has posted is what it has worked off, and
\* rice of a dispatch once found DISPATCHED is gone.
AsRead(s) ==
  /\ pc[s] = "share" => /\ target[s] \in Documents /\ status[target[s]] = "ABSENT"
                        /\ plan[s] \in Plans
                        /\ \A t \in Sessions \ {s} : target[t] # target[s]
  /\ pc[s] = "prepare" => target[s] \in Documents /\ status[target[s]] # "ABSENT"
  /\ pc[s] \in Looping => /\ target[s] \in Documents /\ status[target[s]] # "ABSENT"
                          /\ plan[s] = items[target[s]]
                          /\ \A l \in Lots : posted[s][l] = IF l \in todo[s] THEN 0
                                                            ELSE plan[s][l]
  /\ pc[s] \in {"lock", "post"} => want[s] \in todo[s]
  /\ pc[s] = "commit" => todo[s] = {}
  /\ pc[s] = "receipt" => target[s] \in Documents /\ Gone(target[s])

\* Its items n times: what has been issued for a dispatch.
Issued(d, n) == \A l \in Lots : issued[d][l] = n * items[d][l]

DispatchOK(d) ==
  /\ status[d] = "ABSENT" => items[d] = NoItems
  /\ status[d] # "ABSENT" => items[d] \in Plans
  /\ status[d] \in OnRoad \/ receipt[d] # NoReceipt => Gone(d)
  /\ \E n \in Nat : Issued(d, n)

Whole == /\ Safe
         /\ \A s \in Sessions : AsRead(s)
         /\ \A d \in Documents : DispatchOK(d)

\* A dispatch without items has issued nothing.
LEMMA GoneIsThere ==
  ASSUME Whole, NEW d \in Documents, Gone(d)
  PROVE  status[d] # "ABSENT"
<1>1. SUFFICES ASSUME status[d] = "ABSENT" PROVE FALSE
  OBVIOUS
<1>2. PICK n \in Nat : Issued(d, n)
  BY DEF Whole, DispatchOK
<1>3. PICK l \in Lots : issued[d][l] > 0
  BY DEF Gone
<1>4. items[d][l] = 0
  BY <1>1 DEF Whole, DispatchOK, NoItems
<1>5. issued[d][l] = 0
  BY <1>2, <1>4 DEF Issued
<1> QED
  BY <1>3, <1>5

LEMMA InitWhole == Init => Whole
<1> SUFFICES ASSUME Init PROVE Whole
  OBVIOUS
<1>1. Safe
  BY InitSafe
<1>2. \A s \in Sessions : AsRead(s)
  BY DEF Init, RequestInit, AsRead, Looping
<1>3. ASSUME NEW d \in Documents
      PROVE  DispatchOK(d)
  <2>1. status[d] = "ABSENT" /\ receipt[d] = NoReceipt /\ items[d] = NoItems /\ issued[d] = NoItems
    BY DEF Init
  <2>2. Issued(d, 0)
    BY <2>1 DEF Issued, NoItems
  <2> QED
    BY <2>1, <2>2 DEF DispatchOK, OnRoad
<1> QED
  BY <1>1, <1>2, <1>3 DEF Whole

\* What no step takes back of a dispatch.
Advances == \A d \in Documents :
  /\ status[d] # "ABSENT" => status'[d] # "ABSENT" /\ items'[d] = items[d]
  /\ Gone(d) => \E l \in Lots : issued'[d][l] > 0

\* What session t works with is left alone.
Kept(t) ==
  /\ pc'[t] = pc[t] /\ target'[t] = target[t] /\ plan'[t] = plan[t]
  /\ todo'[t] = todo[t] /\ want'[t] = want[t] /\ posted'[t] = posted[t]
  /\ pc[t] = "share" => /\ status'[target[t]] = status[target[t]]
                        /\ \A r \in Sessions \ {t} : target'[r] # target[t]

LEMMA KeptAsRead ==
  ASSUME Whole, Advances, NEW t \in Sessions, Kept(t)
  PROVE  AsRead(t)'
<1>1. AsRead(t)
  BY DEF Whole
<1> QED
  BY <1>1 DEF AsRead, Kept, Advances, Looping, Gone

LEMMA IdleAsRead ==
  ASSUME NEW s \in Sessions, pc'[s] \in {"idle", "pass", "fail"}
  PROVE  AsRead(s)'
BY DEF AsRead, Looping

LEMMA SameDispatches ==
  ASSUME Whole, UNCHANGED dispatchVars
  PROVE  Advances /\ \A d \in Documents : DispatchOK(d)'
<1>1. Advances
  BY DEF Advances, dispatchVars, Gone
<1>2. \A d \in Documents : DispatchOK(d)'
  BY DEF dispatchVars, Whole, DispatchOK, Issued, Gone
<1> QED
  BY <1>1, <1>2

-----------------------------------------------------------------------------
\* A request begins on what it has just read.
LEMMA BeginWhole ==
  ASSUME Whole, Next, NEW s \in Sessions, NEW d \in Documents, Request(s, d)
  PROVE  Whole'
<1>0. Safe' /\ UNCHANGED dispatchVars
  BY StepSafe, RequestReservation DEF Whole
<1>1. PICK step \in Steps \ {"idle"}, p \in Recipe, rest \in SUBSET Lots :
        Begin(s, d, step, p, rest)
  <2>1. NoItems \in Recipe /\ {} \in SUBSET Lots
    BY NoItemsOK
  <2>2. items[d] \in Recipe /\ Used(items[d]) \in SUBSET Lots
    BY DEF Whole, Safe, DispatchTypeOK, Used
  <2>3. \A p \in Plans : p \in Recipe /\ Used(p) \in SUBSET Lots
    BY DEF Plans, Used
  <2>4. {"share", "prepare", "lock", "receipt"} \subseteq Steps \ {"idle"}
    BY DEF Steps
  <2> QED
    BY <2>1, <2>2, <2>3, <2>4
       DEF Request, CreateRequest, PrepareRequest, DispatchRequest, ReceiptRequest
<1>2. /\ UNCHANGED <<stock, posted, lotQty, status, items, issued, receipt>>
      /\ pc[s] = "idle" /\ target'[s] = d /\ pc'[s] = step
      /\ plan'[s] = p /\ todo'[s] = rest
      /\ \A t \in Sessions \ {s} : /\ target'[t] = target[t] /\ pc'[t] = pc[t]
                                   /\ plan'[t] = plan[t] /\ todo'[t] = todo[t]
  BY <1>0, <1>1 DEF Begin, inventoryVars, dispatchVars, Whole, Safe, Reservation, RequestTypeOK
<1>3. (\A t \in Sessions \ {s} : want'[t] = want[t]) /\ (rest # {} => want'[s] \in rest)
  BY <1>1, WantNextType DEF Begin, Whole, Safe, Reservation, RequestTypeOK
<1>4. Advances /\ \A e \in Documents : DispatchOK(e)'
  BY <1>0, SameDispatches
<1>5. ASSUME NEW t \in Sessions \ {s}
      PROVE  AsRead(t)'
  <2>1. pc[t] = "share" => target[t] # d
    BY GoneIsThere DEF Whole, AsRead, Request, CreateRequest, PrepareRequest,
       DispatchRequest, ReceiptRequest
  <2>2. Kept(t)
    BY <1>2, <1>3, <2>1 DEF Kept, Whole, AsRead
  <2> QED
    BY <1>4, <2>2, KeptAsRead
<1>6. AsRead(s)'
  <2>1. ASSUME NEW q \in Plans, CreateRequest(s, d, q)
        PROVE  AsRead(s)'
    <3>1. pc'[s] = "share" /\ plan'[s] = q
      BY <1>2, <2>1 DEF CreateRequest, Begin, Whole, Safe, Reservation, RequestTypeOK
    <3> QED
      BY <1>2, <2>1, <3>1 DEF CreateRequest, AsRead, Looping
  <2>2. CASE DispatchRequest(s, d)
    <3>0. pc[s] \notin Looping
      BY <1>2 DEF Looping
    <3>1. \A l \in Lots : posted[s][l] = 0
      BY <3>0 DEF Whole, Safe, Reservation, PostedInLoop, RequestTypeOK, InventoryTypeOK
    <3>2. \A l \in Lots : l \notin Used(items[d]) => items[d][l] = 0
      BY MaxKgAssumption DEF Used, Whole, Safe, DispatchTypeOK, Recipe, Kg
    <3>3. pc'[s] = "lock" /\ plan'[s] = items[d] /\ todo'[s] = Used(items[d])
      BY <1>2, <2>2 DEF DispatchRequest, Begin, Whole, Safe, Reservation, RequestTypeOK
    <3>4. Used(items[d]) # {}
      BY <2>2 DEF DispatchRequest, Whole, DispatchOK, Plans
    <3>5. want'[s] \in Used(items[d])
      BY <1>2, <1>3, <3>3, <3>4
    <3> QED
      BY <1>2, <2>2, <3>1, <3>2, <3>3, <3>5 DEF DispatchRequest, AsRead, Looping
  <2>3. CASE PrepareRequest(s, d)
    <3>1. pc'[s] = "prepare" /\ status[d] # "ABSENT"
      BY <1>2, <2>3 DEF PrepareRequest, Begin, Whole, Safe, Reservation, RequestTypeOK
    <3> QED
      BY <1>2, <3>1 DEF AsRead, Looping
  <2>4. ASSUME NEW received \in 0 .. MaxReceived, ReceiptRequest(s, d, received)
        PROVE  AsRead(s)'
    <3>1. pc'[s] = "receipt" /\ Gone(d)
      BY <1>2, <2>4 DEF ReceiptRequest, Begin, Whole, Safe, Reservation, RequestTypeOK,
         DispatchOK, OnRoad
    <3> QED
      BY <1>2, <3>1 DEF AsRead, Looping, Gone
  <2> QED
    BY <2>1, <2>2, <2>3, <2>4 DEF Request
<1> QED
  BY <1>0, <1>4, <1>5, <1>6 DEF Whole

\* Milling an output and asking for a decision concern no dispatch.
LEMMA RiceWhole ==
  ASSUME Whole, Next, Rice, UNCHANGED deliveryVars
  PROVE  Whole'
<1>0. Safe' /\ UNCHANGED dispatchVars
  BY StepSafe, RiceReservation DEF Whole
<1>1. Advances /\ \A d \in Documents : DispatchOK(d)'
  BY <1>0, SameDispatches
<1>2. ASSUME NEW l \in Lots, NEW q \in 1 .. MaxKg, ProduceOutput(l, q)
      PROVE  \A t \in Sessions : AsRead(t)'
  <2>1. UNCHANGED <<pc, target, plan, todo, want, posted>>
    BY <1>2 DEF ProduceOutput, lotVars, lockVars, inventoryVars, requestVars
  <2>2. \A t \in Sessions : Kept(t)
    BY <1>0, <2>1 DEF Kept, dispatchVars, Whole, AsRead
  <2> QED
    BY <1>1, <2>2, KeptAsRead
<1>3. ASSUME NEW l \in Lots, NEW s \in Sessions, NEW step \in {"pass", "fail"},
             DecisionRequest(s, l, step)
      PROVE  \A t \in Sessions : AsRead(t)'
  <2>1. Begin(s, NoDocument, step, Weighed(l), {})
    BY <1>3 DEF DecisionRequest
  <2>2. /\ UNCHANGED posted /\ target'[s] = NoDocument /\ pc'[s] = step
        /\ \A t \in Sessions \ {s} : /\ target'[t] = target[t] /\ pc'[t] = pc[t]
                                     /\ plan'[t] = plan[t] /\ todo'[t] = todo[t]
    BY <2>1 DEF Begin, inventoryVars, Whole, Safe, Reservation, RequestTypeOK
  <2>3. \A t \in Sessions \ {s} : want'[t] = want[t]
    BY <2>1, WantNextType DEF Begin, Whole, Safe, Reservation, RequestTypeOK
  <2>4. ASSUME NEW t \in Sessions \ {s}
        PROVE  AsRead(t)'
    <3>1. Kept(t)
      BY <1>0, <2>2, <2>3, DocumentAssumption DEF Kept, dispatchVars, Whole, AsRead
    <3> QED
      BY <1>1, <3>1, KeptAsRead
  <2>5. AsRead(s)'
    BY <2>2, IdleAsRead
  <2> QED
    BY <2>4, <2>5
<1> QED
  BY <1>0, <1>1, <1>2, <1>3 DEF Rice, Produce, PassRequest, FailRequest, Whole

\* The steps in the middle of a request, which write no dispatch.
LEMMA MiddleWhole ==
  ASSUME Whole, Next, NEW s \in Sessions, ShareLot(s) \/ LockLot(s) \/ PostStockOut(s)
  PROVE  Whole'
<1>0. Safe'
  BY StepSafe DEF Whole
<1>1. /\ UNCHANGED <<target, plan>> /\ UNCHANGED dispatchVars
      /\ \A t \in Sessions \ {s} : /\ pc'[t] = pc[t] /\ todo'[t] = todo[t]
                                   /\ want'[t] = want[t] /\ posted'[t] = posted[t]
  <2>1. CASE ShareLot(s)
    BY <2>1 DEF ShareLot, ShareNext, WantNext, inventoryVars, deliveryVars, Whole,
       Safe, Reservation, RequestTypeOK, LockTypeOK
  <2>2. CASE LockLot(s)
    BY <2>2 DEF LockLot, LockNext, inventoryVars, deliveryVars, Whole, Safe, Reservation,
       RequestTypeOK
  <2>3. CASE PostStockOut(s)
    BY <2>3 DEF PostStockOut, PostNext, PostIssue, WantNext, deliveryVars, Whole,
       Safe, Reservation, RequestTypeOK, LockTypeOK, InventoryTypeOK
  <2> QED
    BY <2>1, <2>2, <2>3
<1>2. Advances /\ \A d \in Documents : DispatchOK(d)'
  BY <1>1, SameDispatches
<1>3. ASSUME NEW t \in Sessions \ {s}
      PROVE  AsRead(t)'
  <2>1. Kept(t)
    BY <1>1 DEF Kept, Whole, AsRead, dispatchVars
  <2> QED
    BY <1>2, <2>1, KeptAsRead
<1>4. AsRead(s)'
  <2>0. AsRead(s)
    BY DEF Whole
  <2>1. CASE ShareLot(s)
    <3>1. pc[s] = "share" /\ pc'[s] = "share"
      BY <2>1 DEF ShareLot, ShareNext
    <3> QED
      BY <1>1, <2>0, <3>1 DEF AsRead, Looping, dispatchVars
  <2>2. CASE LockLot(s)
    <3>1. pc[s] = "lock" /\ pc'[s] = "post" /\ UNCHANGED <<want, todo, posted>>
      BY <2>2 DEF LockLot, LockNext, inventoryVars, Whole, Safe, Reservation, RequestTypeOK
    <3> QED
      BY <1>1, <2>0, <3>1 DEF AsRead, Looping, dispatchVars
  <2>3. CASE PostStockOut(s)
    <3> DEFINE l == want[s]
               rest == todo[s] \ {l}
    <3>1. l \in Lots /\ l \in todo[s] /\ posted[s][l] = 0 /\ plan[s][l] \in Nat
      BY <2>0, <2>3, MaxKgAssumption
         DEF PostStockOut, PostNext, AsRead, Looping, Whole, Safe, Reservation,
             HoldsLot, RequestTypeOK, Recipe, Kg
    <3>2. /\ posted'[s][l] = plan[s][l]
          /\ \A k \in Lots \ {l} : posted'[s][k] = posted[s][k]
          /\ todo'[s] = rest
      BY <2>3, <3>1
         DEF PostStockOut, PostNext, PostIssue, Whole, Safe,
             Reservation, RequestTypeOK, InventoryTypeOK
    <3>3. pc'[s] = (IF rest = {} THEN "commit" ELSE "lock") /\ (rest # {} => want'[s] \in rest)
      BY <2>3
         DEF PostStockOut, PostNext, WantNext, Whole, Safe, Reservation, RequestTypeOK, LockTypeOK
    <3>4. /\ pc[s] = "post" /\ target[s] \in Documents /\ status[target[s]] # "ABSENT"
          /\ plan[s] = items[target[s]]
          /\ \A k \in Lots : posted[s][k] = IF k \in todo[s] THEN 0 ELSE plan[s][k]
      BY <2>0, <2>3 DEF PostStockOut, PostNext, AsRead, Looping
    <3>5. \A k \in Lots : posted'[s][k] = IF k \in rest THEN 0 ELSE plan[s][k]
      BY <3>1, <3>2, <3>4
    <3> QED
      BY <1>1, <3>2, <3>3, <3>4, <3>5 DEF AsRead, Looping, dispatchVars
  <2> QED
    BY <2>1, <2>2, <2>3
<1> QED
  BY <1>0, <1>2, <1>3, <1>4 DEF Whole

\* A request that ends, with or without writing its dispatch.
LEMMA EndWhole ==
  ASSUME Whole, Next, NEW s \in Sessions, EndRequest(s),
         CommitPosted(s) \/ DiscardPosted(s) \/ UNCHANGED posted,
         Advances, \A d \in Documents : DispatchOK(d)',
         \A d \in Documents \ {target[s]} : status'[d] = status[d]
  PROVE  Whole'
<1>0. Safe'
  BY StepSafe DEF Whole
<1>1. \A t \in Sessions \ {s} : /\ pc'[t] = pc[t] /\ target'[t] = target[t]
                                /\ plan'[t] = plan[t] /\ todo'[t] = todo[t]
                                /\ want'[t] = want[t] /\ posted'[t] = posted[t]
  BY DEF EndRequest, ReleaseLocks, CommitPosted, DiscardPosted, Whole, Safe,
     Reservation, RequestTypeOK, LockTypeOK, InventoryTypeOK
<1>2. target'[s] = NoDocument /\ pc'[s] = "idle"
  BY DEF EndRequest, Whole, Safe, Reservation, RequestTypeOK
<1>3. ASSUME NEW t \in Sessions \ {s}
      PROVE  AsRead(t)'
  <2>1. pc[t] = "share" => target[t] \in Documents \ {target[s]}
    BY DEF Whole, AsRead
  <2>2. Kept(t)
    BY <1>1, <1>2, <2>1, DocumentAssumption DEF Kept, Whole, AsRead
  <2> QED
    BY <2>2, KeptAsRead
<1>4. AsRead(s)'
  BY <1>2, IdleAsRead
<1> QED
  BY <1>0, <1>3, <1>4 DEF Whole

\* A dispatch that a step leaves alone stays as it should be.
LEMMA OtherDispatches ==
  ASSUME Whole, NEW d \in Documents,
         status'[d] = status[d], items'[d] = items[d], issued'[d] = issued[d],
         receipt'[d] = receipt[d]
  PROVE  DispatchOK(d)'
BY DEF Whole, DispatchOK, Issued, Gone

LEMMA CreateWhole ==
  ASSUME Whole, Next, NEW s \in Sessions, CommitCreate(s)
  PROVE  Whole'
<1> DEFINE d == target[s]
<1>1. /\ d \in Documents /\ status[d] = "ABSENT" /\ plan[s] \in Plans
      /\ EndRequest(s) /\ UNCHANGED inventoryVars
  BY DEF CommitCreate, Finish, Whole, AsRead
<1>2. /\ status'[d] = "DRAFT" /\ items'[d] = plan[s]
      /\ UNCHANGED <<issued, receipt>>
      /\ \A e \in Documents \ {d} : status'[e] = status[e] /\ items'[e] = items[e]
  BY <1>1 DEF CommitCreate, Whole, Safe, DispatchTypeOK
<1>3. Advances
  BY <1>1, <1>2 DEF Advances, Gone
<1>4. ~ Gone(d)
  BY <1>1, GoneIsThere
<1>5. \A l \in Lots : issued[d][l] = 0
  BY <1>1, <1>4 DEF Gone, Whole, Safe, DispatchTypeOK
<1>6. ASSUME NEW e \in Documents
      PROVE  DispatchOK(e)'
  <2>1. CASE e = d
    <3>1. \A l \in Lots : items'[e][l] \in Nat
      BY <1>1, <1>2, <2>1, MaxKgAssumption DEF Plans, Recipe, Kg
    <3>2. \A l \in Lots : issued'[e][l] = 0 * items'[e][l]
      BY <1>2, <1>5, <2>1, <3>1
    <3>3. status'[e] \notin OnRoad /\ receipt'[e] = NoReceipt
      BY <1>1, <1>2, <1>4, <2>1 DEF OnRoad, Whole, DispatchOK
    <3> QED
      BY <1>1, <1>2, <2>1, <3>2, <3>3 DEF DispatchOK, Issued
  <2>2. CASE e # d
    BY <1>2, <2>2, OtherDispatches
  <2> QED
    BY <2>1, <2>2
<1> QED
  BY <1>1, <1>2, <1>3, <1>6, EndWhole DEF inventoryVars

\* The commit of dispatch_dispatch issues the items of its dispatch once more.
LEMMA DispatchWhole ==
  ASSUME Whole, Next, NEW s \in Sessions, CommitDispatch(s)
  PROVE  Whole'
<1> DEFINE d == target[s]
<1>1. /\ d \in Documents /\ status[d] # "ABSENT"
      /\ \A l \in Lots : posted[s][l] = items[d][l]
      /\ EndRequest(s) /\ CommitPosted(s)
  BY DEF CommitDispatch, Whole, AsRead, Looping
<1>2. /\ status'[d] = "DISPATCHED"
      /\ \A l \in Lots : issued'[d][l] = issued[d][l] + posted[s][l]
      /\ UNCHANGED <<items, receipt>>
      /\ \A e \in Documents \ {d} : status'[e] = status[e] /\ issued'[e] = issued[e]
  BY <1>1 DEF CommitDispatch, Whole, Safe, DispatchTypeOK
<1>3. items[d] \in Plans
  BY <1>1 DEF Whole, DispatchOK
<1>4. \A l \in Lots : items[d][l] \in Nat /\ issued[d][l] \in Nat
  BY <1>1, MaxKgAssumption DEF Whole, Safe, DispatchTypeOK, Recipe, Kg
<1>5. \E l \in Lots : issued'[d][l] > 0
  <2>1. PICK l \in Lots : items[d][l] > 0
    BY <1>3 DEF Plans, Used
  <2>2. issued'[d][l] > 0
    BY <1>1, <1>2, <1>4, <2>1
  <2> QED
    BY <2>2
<1>6. Advances
  <2>1. \A e \in Documents \ {d} : Gone(e) => \E l \in Lots : issued'[e][l] > 0
    BY <1>2 DEF Gone
  <2> QED
    BY <1>1, <1>2, <1>5, <2>1 DEF Advances
<1>7. ASSUME NEW e \in Documents
      PROVE  DispatchOK(e)'
  <2>1. CASE e = d
    <3>1. PICK n \in Nat : Issued(d, n)
      BY <1>1 DEF Whole, DispatchOK
    <3>2. \A l \in Lots : issued'[d][l] = (n + 1) * items'[d][l]
      BY <1>1, <1>2, <1>4, <3>1 DEF Issued
    <3>3. n + 1 \in Nat /\ Issued(e, n + 1)'
      BY <2>1, <3>2 DEF Issued
    <3>4. Gone(e)'
      BY <1>5, <2>1 DEF Gone
    <3> QED
      BY <1>2, <1>3, <2>1, <3>3, <3>4 DEF DispatchOK
  <2>2. CASE e # d
    BY <1>2, <2>2, OtherDispatches
  <2> QED
    BY <2>1, <2>2
<1> QED
  BY <1>1, <1>2, <1>6, <1>7, EndWhole

\* The commits that write a status or a receipt and move no rice.
LEMMA StatusWhole ==
  ASSUME Whole, Next, NEW s \in Sessions, CommitPrepare(s) \/ CommitReceipt(s)
  PROVE  Whole'
<1> DEFINE d == target[s]
<1>1. /\ d \in Documents /\ status[d] # "ABSENT" /\ (CommitReceipt(s) => Gone(d))
      /\ EndRequest(s) /\ UNCHANGED <<inventoryVars, items, issued>>
  BY GoneIsThere DEF CommitPrepare, CommitReceipt, Finish, Whole, AsRead
<1>2. /\ status'[d] \in {"PREPARED", "DELIVERED"}
      /\ (status'[d] = "DELIVERED" \/ receipt'[d] # receipt[d]) => CommitReceipt(s)
      /\ \A e \in Documents \ {d} : status'[e] = status[e] /\ receipt'[e] = receipt[e]
  BY <1>1 DEF CommitPrepare, CommitReceipt, Whole, Safe, DispatchTypeOK
<1>3. Advances
  BY <1>1, <1>2 DEF Advances, Gone
<1>4. ASSUME NEW e \in Documents
      PROVE  DispatchOK(e)'
  <2>1. CASE e = d
    <3>1. DispatchOK(d)
      BY <1>1 DEF Whole
    <3>2. status'[d] \in OnRoad \/ receipt'[d] # NoReceipt => Gone(d)
      BY <1>1, <1>2, <3>1 DEF DispatchOK, OnRoad
    <3> QED
      BY <1>1, <1>2, <2>1, <3>1, <3>2 DEF DispatchOK, Issued, Gone
  <2>2. CASE e # d
    BY <1>1, <1>2, <2>2, OtherDispatches
  <2> QED
    BY <2>1, <2>2
<1> QED
  BY <1>1, <1>2, <1>3, <1>4, EndWhole DEF inventoryVars

\* Requests that write no dispatch: decisions on rice, and what is given up.
LEMMA EndOtherWhole ==
  ASSUME Whole, Next, NEW s \in Sessions, EndRequest(s), UNCHANGED dispatchVars,
         DiscardPosted(s) \/ UNCHANGED posted
  PROVE  Whole'
<1>1. Advances /\ \A d \in Documents : DispatchOK(d)'
  BY SameDispatches
<1> QED
  BY <1>1, EndWhole DEF dispatchVars

LEMMA StepWhole == Whole /\ [Next]_vars => Whole'
<1> SUFFICES ASSUME Whole, [Next]_vars PROVE Whole'
  OBVIOUS
<1>1. ASSUME Next, Rice, UNCHANGED deliveryVars
      PROVE  Whole'
  BY <1>1, RiceWhole
<1>2. ASSUME Next, NEW s \in Sessions, NEW d \in Documents, Request(s, d)
      PROVE  Whole'
  BY <1>2, BeginWhole
<1>3. ASSUME Next, NEW s \in Sessions, Progress(s)
      PROVE  Whole'
  <2>1. CASE RefuseStockOut(s) \/ RefuseReceipt(s)
    BY <1>3, <2>1, EndOtherWhole DEF RefuseStockOut, RefuseNext, RefuseReceipt, Abandon,
       deliveryVars
  <2>2. CASE Decide(s) /\ UNCHANGED deliveryVars
    <3>1. EndRequest(s) /\ UNCHANGED dispatchVars /\ (DiscardPosted(s) \/ UNCHANGED posted)
      BY <2>2 DEF Decide, CommitPass, ReceiveLot, RefusePass, CommitFail, Finish, Abandon,
         inventoryVars, deliveryVars
    <3> QED
      BY <1>3, <3>1, EndOtherWhole
  <2> QED
    BY <1>3, <2>1, <2>2, CreateWhole, StatusWhole, DispatchWhole, MiddleWhole DEF Progress
<1>4. ASSUME Next, NEW s \in Sessions, Crash(s) \/ DeadlockVictim(s)
      PROVE  Whole'
  BY <1>4, EndOtherWhole DEF Crash, CrashNext, DeadlockVictim, DeadlockNext, Abandon,
     deliveryVars
<1>5. ASSUME Next, NEW s \in Sessions, ShareLot(s) \/ LockLot(s)
      PROVE  Whole'
  BY <1>5, MiddleWhole
<1>6. CASE UNCHANGED vars
  <2>1. UNCHANGED <<lotVars, deliveryVars>>
    BY <1>6 DEF vars
  <2>2. UNCHANGED <<pc, target, plan, todo, want, posted>> /\ UNCHANGED dispatchVars
    BY <2>1 DEF lotVars, lockVars, requestVars, inventoryVars, deliveryVars
  <2>3. Advances /\ \A d \in Documents : DispatchOK(d)'
    BY <2>2, SameDispatches
  <2>4. \A t \in Sessions : Kept(t)
    BY <2>2 DEF Kept, dispatchVars, Whole, AsRead
  <2>5. \A t \in Sessions : AsRead(t)'
    BY <2>3, <2>4, KeptAsRead
  <2> QED
    BY <1>6, <2>3, <2>5, StutterSafe DEF Whole
<1> QED
  BY <1>1, <1>2, <1>3, <1>4, <1>5, <1>6 DEF Next

LEMMA WholeInvariant == Spec => []Whole
BY InitWhole, StepWhole, PTL DEF Spec

\* A dispatch takes rice whole, and at least once before it is on the road or has a
\* receipt, whatever requests overlap on it and wherever they are stopped.
THEOREM RiceLeavesWhole == Spec => []WholeDispatchIssued
<1>1. ASSUME Whole, NEW d \in Documents
      PROVE  LET Sent == status[d] \in {"DISPATCHED", "DELIVERED"} \/ receipt[d] # NoReceipt
             IN  \E n \in {0} \cup UNION {0 .. issued[d][l] : l \in Lots} :
                   /\ Sent => n > 0
                   /\ \A l \in Lots : issued[d][l] = n * items[d][l]
  <2>1. DispatchOK(d)
    BY <1>1 DEF Whole
  <2>2. PICK n \in Nat : Issued(d, n)
    BY <2>1 DEF DispatchOK
  <2>3. \A l \in Lots : items[d][l] \in Nat /\ issued[d][l] \in Nat
    BY <1>1, MaxKgAssumption DEF Whole, Safe, DispatchTypeOK, Recipe, Kg
  <2>4. CASE Gone(d)
    <3>1. PICK l \in Lots : issued[d][l] > 0
      BY <2>4 DEF Gone
    <3>2. issued[d][l] = n * items[d][l] /\ items[d][l] # 0 /\ n # 0
      BY <2>2, <2>3, <3>1 DEF Issued
    <3>3. n <= n * items[d][l]
      <4>1. \A m \in Nat \ {0} : n <= n * m
        BY SMT
      <4> QED
        BY <2>3, <3>2, <4>1
    <3>4. n \in 0 .. issued[d][l]
      BY <2>3, <3>2, <3>3
    <3> QED
      BY <2>2, <3>2, <3>4 DEF Issued
  <2>5. CASE ~ Gone(d)
    <3>1. \A l \in Lots : issued[d][l] = 0
      BY <2>3, <2>5 DEF Gone
    <3>2. \A l \in Lots : issued[d][l] = 0 * items[d][l]
      BY <2>3, <3>1
    <3> QED
      BY <2>1, <2>5, <3>2 DEF DispatchOK, OnRoad
  <2> QED
    BY <2>4, <2>5
<1>2. Whole => WholeDispatchIssued
  BY <1>1 DEF WholeDispatchIssued
<1> QED
  BY <1>2, WholeInvariant, PTL

-----------------------------------------------------------------------------
(* A dispatch in SerialDocuments is atomic: Delivery implements              *)
(* AtomicDelivery, whatever requests overlap on the other dispatches of the  *)
(* same lots and on the outputs these lots come from.                        *)

\* Two requests never have the same serial dispatch as their target.
Alone == \A s, t \in Sessions :
           target[s] = target[t] /\ target[s] \in SerialDocuments => s = t

\* What a request has read of a serial dispatch is still so; lots do not shrink.
ReadsHold(s) ==
  /\ pc[s] = "share"   => \A l \in Lots : plan[s][l] <= lotQty[l]
  /\ pc[s] = "prepare" => status[target[s]] = "DRAFT"
  /\ pc[s] \in Looping => status[target[s]] = "PREPARED"
  /\ pc[s] = "receipt" => status[target[s]] = "DISPATCHED" /\ plan[s] = items[target[s]]

SessionOK(s) == /\ pc[s] \in {"idle", "pass", "fail"} <=> target[s] = NoDocument
                /\ target[s] \in SerialDocuments => ReadsHold(s)

\* No more is in stock of a lot than passed its quality check.
StockWithin == \A l \in Lots : stock[l] <= lotQty[l]

\* Nothing has left for a serial dispatch that was not confirmed.
SerialIssued == \A d \in SerialDocuments :
  status[d] \in {"ABSENT", "DRAFT", "PREPARED"} => issued[d] = NoItems

PendingTypeOK == pending \in [Sessions -> 0 .. MaxReceived]

Serial == /\ Whole
          /\ PendingTypeOK
          /\ Alone
          /\ \A s \in Sessions : SessionOK(s)
          /\ StockWithin
          /\ SerialIssued

LEMMA NullIsNotSerial == NoDocument \notin SerialDocuments
BY DocumentAssumption, SerialAssumption

LEMMA InitSerial == Init => Serial
<1> SUFFICES ASSUME Init PROVE Serial
  OBVIOUS
<1>1. Whole
  BY InitWhole
<1>2. PendingTypeOK
  BY MaxReceivedAssumption DEF Init, PendingTypeOK
<1>3. Alone /\ (\A s \in Sessions : SessionOK(s)) /\ StockWithin /\ SerialIssued
  BY NullIsNotSerial, SerialAssumption
     DEF Init, RequestInit, Alone, SessionOK, StockWithin, SerialIssued, InventoryInit,
         NothingPosted, NoItems, Looping
<1> QED
  BY <1>1, <1>2, <1>3 DEF Serial

LEMMA StepPending == PendingTypeOK /\ [Next]_vars => PendingTypeOK'
<1> SUFFICES ASSUME PendingTypeOK, [Next]_vars PROVE PendingTypeOK'
  OBVIOUS
<1>1. 0 \in 0 .. MaxReceived
  BY MaxReceivedAssumption
<1>2. ASSUME NEW s \in Sessions, NEW d \in Documents, NEW received \in 0 .. MaxReceived,
             ReceiptRequest(s, d, received)
      PROVE  PendingTypeOK'
  BY <1>2 DEF ReceiptRequest, PendingTypeOK
<1>3. ASSUME NEW s \in Sessions, NEW d \in Documents, Request(s, d),
             ~ \E received \in 0 .. MaxReceived : ReceiptRequest(s, d, received)
      PROVE  UNCHANGED pending
  BY <1>3 DEF Request, CreateRequest, PrepareRequest, DispatchRequest, deliveryVars
<1>4. ASSUME NEW s \in Sessions, CommitReceipt(s) \/ RefuseReceipt(s) \/ Crash(s)
      PROVE  PendingTypeOK'
  BY <1>1, <1>4 DEF CommitReceipt, RefuseReceipt, Crash, PendingTypeOK
<1>5. ASSUME NEW s \in Sessions,
             \/ ShareLot(s) \/ LockLot(s) \/ DeadlockVictim(s)
             \/ Progress(s) /\ ~ CommitReceipt(s) /\ ~ RefuseReceipt(s)
      PROVE  UNCHANGED pending
  BY <1>5 DEF ShareLot, LockLot, DeadlockVictim, Progress, CommitCreate, CommitPrepare,
     PostStockOut, RefuseStockOut, CommitDispatch, deliveryVars
<1>6. CASE UNCHANGED vars \/ (Rice /\ UNCHANGED deliveryVars)
  BY <1>6 DEF vars, deliveryVars, PendingTypeOK
<1> QED
  BY <1>2, <1>3, <1>4, <1>5, <1>6 DEF Next, PendingTypeOK

-----------------------------------------------------------------------------
(* What a step of one session leaves alone                                  *)

Grows == \A l \in Lots : lotQty'[l] \in Nat /\ lotQty[l] <= lotQty'[l]

\* Nothing of session t, and nothing t has read, has changed.
Untouched(t) ==
  /\ pc'[t] = pc[t] /\ target'[t] = target[t] /\ plan'[t] = plan[t]
  /\ target[t] \in SerialDocuments => /\ status'[target[t]] = status[target[t]]
                                      /\ items'[target[t]]  = items[target[t]]

LEMMA UntouchedOK ==
  ASSUME Serial, NEW t \in Sessions, Untouched(t), Grows
  PROVE  SessionOK(t)'
<1>0. SessionOK(t)
  BY DEF Serial
<1>1. CASE target[t] \notin SerialDocuments
  BY <1>0, <1>1 DEF SessionOK, Untouched
<1>2. CASE target[t] \in SerialDocuments
  <2>1. \A l \in Lots : plan[t][l] \in Nat /\ lotQty[l] \in Nat
    BY MaxKgAssumption DEF Serial, Whole, Safe, Reservation, RequestTypeOK, InventoryTypeOK,
       Recipe, Kg
  <2>2. pc[t] = "share" => \A l \in Lots : plan[t][l] <= lotQty'[l]
    BY <1>0, <1>2, <2>1 DEF SessionOK, ReadsHold, Grows
  <2> QED
    BY <1>0, <1>2, <2>2 DEF SessionOK, ReadsHold, Untouched, Looping
<1> QED
  BY <1>1, <1>2

LEMMA LotsGrow ==
  ASSUME Serial, Next
  PROVE  Grows /\ ((UNCHANGED lotQty /\ \A l \in Lots : stock'[l] <= stock[l]) => StockWithin')
<1>1. \A l \in Lots : /\ lotQty[l] \in Nat /\ lotQty'[l] \in Nat
                      /\ stock[l] \in Int /\ stock'[l] \in Int
  <2>1. Safe'
    BY StepSafe DEF Serial, Whole
  <2> QED
    BY <2>1, MaxKgAssumption
       DEF Serial, Whole, Safe, Reservation, RequestTypeOK, InventoryTypeOK, Kg
<1>2. ASSUME UNCHANGED lotQty
      PROVE  Grows
  BY <1>1, <1>2 DEF Grows
<1>3. ASSUME NEW s \in Sessions, CommitPass(s)
      PROVE  Grows
  <2>1. PICK l \in Lots : ReceiveLot(l, plan[s][l])
    BY <1>3 DEF CommitPass, Used
  <2>2. \A k \in Lots \ {l} : lotQty'[k] = lotQty[k]
    BY <2>1 DEF ReceiveLot, Serial, Whole, Safe, Reservation, RequestTypeOK, InventoryTypeOK
  <2>3. lotQty[l] = 0
    BY <2>1 DEF ReceiveLot
  <2> QED
    BY <1>1, <2>2, <2>3 DEF Grows
<1>4. ASSUME NEW s \in Sessions, Progress(s), ~ CommitPass(s)
      PROVE  UNCHANGED lotQty
  BY <1>4 DEF Progress, Decide, RefusePass, CommitFail, CommitCreate, CommitPrepare,
     PostStockOut, PostNext, RefuseStockOut, RefuseNext, CommitDispatch, CommitPosted,
     CommitReceipt, RefuseReceipt, Finish, Abandon, DiscardPosted, inventoryVars
<1>5. ASSUME Rice, UNCHANGED deliveryVars
      PROVE  UNCHANGED lotQty
  BY <1>5, RiceReservation DEF Serial, Whole
<1>6. ASSUME NEW s \in Sessions, NEW d \in Documents, Request(s, d)
      PROVE  UNCHANGED lotQty
  BY <1>6 DEF Request, CreateRequest, PrepareRequest, DispatchRequest, ReceiptRequest, Begin,
     inventoryVars
<1>7. ASSUME NEW s \in Sessions, ShareLot(s) \/ LockLot(s) \/ Crash(s) \/ DeadlockVictim(s)
      PROVE  UNCHANGED lotQty
  BY <1>7 DEF ShareLot, ShareNext, LockLot, LockNext, Crash, CrashNext, DeadlockVictim,
     DeadlockNext, Abandon, DiscardPosted, inventoryVars
<1>8. Grows
  BY <1>2, <1>3, <1>4, <1>5, <1>6, <1>7 DEF Next
<1>9. ASSUME UNCHANGED lotQty, \A l \in Lots : stock'[l] <= stock[l]
      PROVE  StockWithin'
  BY <1>1, <1>9 DEF Serial, StockWithin
<1> QED
  BY <1>8, <1>9

\* The writes of s reach the dispatch it works on and nothing another request works on.
OnlyTarget(s) == \A d \in Documents \ {target[s]} :
                   status'[d] = status[d] /\ items'[d] = items[d]

LEMMA OthersOK ==
  ASSUME Serial, Next, NEW s \in Sessions, OnlyTarget(s),
         \A t \in Sessions \ {s} :
           pc'[t] = pc[t] /\ target'[t] = target[t] /\ plan'[t] = plan[t]
  PROVE  \A t \in Sessions \ {s} : SessionOK(t)'
<1> TAKE t \in Sessions \ {s}
<1>1. target[t] \in SerialDocuments => target[t] \in Documents \ {target[s]}
  BY SerialAssumption DEF Serial, Alone
<1>2. Untouched(t)
  BY <1>1 DEF Untouched, OnlyTarget
<1> QED
  BY <1>2, LotsGrow, UntouchedOK

LEMMA EndSerial ==
  ASSUME Serial, Next, NEW s \in Sessions, EndRequest(s), OnlyTarget(s),
         SerialIssued', StockWithin'
  PROVE  Serial'
<1>0. Whole' /\ PendingTypeOK'
  BY StepWhole, StepPending DEF Serial
<1>1. /\ pc'[s] = "idle" /\ target'[s] = NoDocument
      /\ \A t \in Sessions \ {s} : pc'[t] = pc[t] /\ target'[t] = target[t] /\ plan'[t] = plan[t]
  BY DEF EndRequest, Serial, Whole, Safe, Reservation, RequestTypeOK
<1>2. \A t \in Sessions \ {s} : SessionOK(t)'
  BY <1>1, OthersOK
<1>3. SessionOK(s)' /\ Alone'
  BY <1>1, NullIsNotSerial DEF SessionOK, Serial, Alone
<1> QED
  BY <1>0, <1>2, <1>3 DEF Serial

-----------------------------------------------------------------------------
\* A request that begins, on a dispatch or on an output, on what it has just read.
LEMMA BeginSerial ==
  ASSUME Serial, Next, NEW s \in Sessions, NEW d \in Documents, Request(s, d)
  PROVE  Serial'
<1>0. Whole' /\ PendingTypeOK' /\ UNCHANGED dispatchVars
  BY StepWhole, StepPending, RequestReservation DEF Serial, Whole
<1>1. PICK step \in {"share", "prepare", "lock", "receipt"} :
             \E p, rest : Begin(s, d, step, p, rest)
  BY DEF Request, CreateRequest, PrepareRequest, DispatchRequest, ReceiptRequest
<1>2. /\ UNCHANGED <<stock, lotQty, status, items, issued>>
      /\ target'[s] = d /\ pc'[s] = step
      /\ \A t \in Sessions \ {s} : /\ pc'[t] = pc[t] /\ target'[t] = target[t]
                                   /\ plan'[t] = plan[t]
                                   /\ d \in SerialDocuments => target[t] # d
  BY <1>0, <1>1 DEF Begin, inventoryVars, dispatchVars, Serial, Whole, Safe, Reservation,
     RequestTypeOK
<1>3. Alone'
  BY <1>2 DEF Serial, Alone
<1>4. \A t \in Sessions \ {s} : SessionOK(t)'
  BY <1>2, OthersOK DEF OnlyTarget
<1>5. ReadsHold(s)'
  <2>1. ASSUME NEW q \in Plans, CreateRequest(s, d, q)
        PROVE  ReadsHold(s)'
    <3>1. pc'[s] = "share" /\ plan'[s] = q
      BY <2>1 DEF CreateRequest, Begin, Serial, Whole, Safe, Reservation, RequestTypeOK
    <3>2. ASSUME NEW l \in Lots
          PROVE  q[l] <= lotQty[l]
      <4>1. /\ q[l] \in Nat /\ posted[s][l] \in Nat /\ stock[l] \in Int /\ lotQty[l] \in Nat
            /\ stock[l] <= lotQty[l]
        BY <3>2, MaxKgAssumption DEF Plans, Recipe, Kg, Serial, StockWithin, Whole, Safe,
           Reservation, RequestTypeOK, InventoryTypeOK
      <4>2. q[l] > 0 => q[l] <= stock[l] - posted[s][l]
        BY <2>1, <3>2 DEF CreateRequest, Covers, Available, Used
      <4> QED
        BY <4>1, <4>2
    <3> QED
      BY <1>2, <3>1, <3>2 DEF ReadsHold, Looping
  <2>2. CASE PrepareRequest(s, d)
    <3>1. pc'[s] = "prepare" /\ status[d] = "DRAFT"
      BY <2>2 DEF PrepareRequest, Begin, Serial, Whole, Safe, Reservation, RequestTypeOK
    <3> QED
      BY <1>2, <3>1 DEF ReadsHold, Looping
  <2>3. CASE DispatchRequest(s, d)
    <3>1. pc'[s] = "lock" /\ status[d] = "PREPARED"
      BY <2>3 DEF DispatchRequest, Begin, Serial, Whole, Safe, Reservation, RequestTypeOK
    <3> QED
      BY <1>2, <3>1 DEF ReadsHold, Looping
  <2>4. ASSUME NEW received \in 0 .. MaxReceived, ReceiptRequest(s, d, received)
        PROVE  ReadsHold(s)'
    <3>1. pc'[s] = "receipt" /\ plan'[s] = items[d] /\ status[d] = "DISPATCHED"
      BY <2>4 DEF ReceiptRequest, Begin, Serial, Whole, Safe, Reservation, RequestTypeOK
    <3> QED
      BY <1>2, <3>1 DEF ReadsHold, Looping
  <2> QED
    BY <2>1, <2>2, <2>3, <2>4 DEF Request
<1>6. SessionOK(s)'
  BY <1>2, <1>5, DocumentAssumption DEF SessionOK
<1>7. StockWithin' /\ SerialIssued'
  BY <1>2 DEF Serial, StockWithin, SerialIssued
<1> QED
  BY <1>0, <1>3, <1>4, <1>6, <1>7 DEF Serial

LEMMA RiceSerial ==
  ASSUME Serial, Next, Rice, UNCHANGED deliveryVars
  PROVE  Serial'
<1>0. Whole' /\ PendingTypeOK' /\ UNCHANGED <<stock, lotQty, status, items, issued>>
  BY StepWhole, StepPending, RiceReservation DEF Serial, Whole, dispatchVars
<1>1. StockWithin' /\ SerialIssued'
  BY <1>0 DEF Serial, StockWithin, SerialIssued
<1>2. ASSUME NEW l \in Lots, NEW q \in 1 .. MaxKg, ProduceOutput(l, q)
      PROVE  Alone' /\ \A t \in Sessions : SessionOK(t)'
  <2>1. UNCHANGED <<pc, target, plan>>
    BY <1>2 DEF ProduceOutput, lotVars, requestVars
  <2>2. \A t \in Sessions : Untouched(t)
    BY <1>0, <2>1 DEF Untouched
  <2> QED
    BY <2>1, <2>2, LotsGrow, UntouchedOK DEF Serial, Alone
<1>3. ASSUME NEW l \in Lots, NEW s \in Sessions, NEW step \in {"pass", "fail"},
             DecisionRequest(s, l, step)
      PROVE  Alone' /\ \A t \in Sessions : SessionOK(t)'
  <2>1. /\ target'[s] = NoDocument /\ pc'[s] = step
        /\ \A t \in Sessions \ {s} : /\ target'[t] = target[t] /\ pc'[t] = pc[t]
                                     /\ plan'[t] = plan[t]
    BY <1>3 DEF DecisionRequest, Begin, Serial, Whole, Safe, Reservation, RequestTypeOK
  <2>2. \A t \in Sessions \ {s} : SessionOK(t)'
    BY <1>0, <2>1, OthersOK DEF OnlyTarget
  <2>3. SessionOK(s)' /\ Alone'
    BY <2>1, NullIsNotSerial DEF SessionOK, Serial, Alone
  <2> QED
    BY <2>2, <2>3
<1> QED
  BY <1>0, <1>1, <1>2, <1>3 DEF Rice, Produce, PassRequest, FailRequest, Serial

\* The statements in the middle of a request write no dispatch.
LEMMA MiddleSerial ==
  ASSUME Serial, Next, NEW s \in Sessions, ShareLot(s) \/ LockLot(s) \/ PostStockOut(s)
  PROVE  Serial'
<1>0. Whole' /\ PendingTypeOK'
  BY StepWhole, StepPending DEF Serial
<1>1. UNCHANGED <<stock, lotQty, target, plan, dispatchVars>>
  BY DEF ShareLot, ShareNext, LockLot, LockNext, PostStockOut, PostNext, inventoryVars,
     deliveryVars
<1>2. /\ \A t \in Sessions \ {s} : pc'[t] = pc[t]
      /\ \/ pc'[s] = "share" /\ pc[s] = "share"
         \/ pc'[s] \in Looping /\ pc[s] \in Looping
  <2>0. pc \in [Sessions -> Steps]
    BY DEF Serial, Whole, Safe, Reservation, RequestTypeOK
  <2>1. CASE ShareLot(s)
    BY <2>1 DEF ShareLot, ShareNext
  <2>2. CASE LockLot(s)
    BY <2>0, <2>2 DEF LockLot, LockNext, Looping
  <2>3. CASE PostStockOut(s)
    BY <2>0, <2>3 DEF PostStockOut, PostNext, Looping
  <2> QED
    BY <2>1, <2>2, <2>3
<1>3. \A t \in Sessions \ {s} : SessionOK(t)'
  BY <1>1, <1>2, OthersOK DEF OnlyTarget, dispatchVars
<1>4. SessionOK(s)'
  BY <1>1, <1>2 DEF Serial, SessionOK, ReadsHold, Looping, dispatchVars
<1>5. Alone' /\ StockWithin' /\ SerialIssued'
  BY <1>1 DEF Serial, Alone, StockWithin, SerialIssued, dispatchVars
<1> QED
  BY <1>0, <1>3, <1>4, <1>5 DEF Serial

-----------------------------------------------------------------------------
(* Requests that end                                                        *)

\* The commit of dispatch_dispatch takes from each lot what it has posted, the items of
\* its dispatch, and no more than the lot has.
LEMMA DispatchDraws ==
  ASSUME Serial, NEW s \in Sessions, CommitDispatch(s), NEW l \in Lots
  PROVE  /\ posted[s][l] = items[target[s]][l]
         /\ posted[s][l] \in 0 .. stock[l]
         /\ stock'[l] = stock[l] - posted[s][l]
<1>1. /\ posted[s][l] \in Nat /\ stock[l] \in Int /\ stock[l] >= 0
      /\ posted[s][l] > 0 => posted[s][l] <= stock[l]
  BY DEF Serial, Whole, Safe, Reservation, PostedIsReserved, NonNegativeStock, RequestTypeOK,
     InventoryTypeOK
<1>2. posted[s][l] = items[target[s]][l]
  BY DEF CommitDispatch, Serial, Whole, AsRead, Looping
<1> QED
  BY <1>1, <1>2 DEF CommitDispatch, CommitPosted

LEMMA TargetIsThere ==
  ASSUME Serial, NEW s \in Sessions,
         CommitCreate(s) \/ CommitPrepare(s) \/ CommitDispatch(s) \/ CommitReceipt(s)
  PROVE  target[s] \in Documents
BY DEF CommitCreate, CommitPrepare, CommitDispatch, CommitReceipt, Looping, Serial, Whole,
   AsRead

LEMMA CommitSerial ==
  ASSUME Serial, Next, NEW s \in Sessions,
         CommitCreate(s) \/ CommitPrepare(s) \/ CommitDispatch(s) \/ CommitReceipt(s)
  PROVE  Serial'
<1> DEFINE d == target[s]
<1>0. d \in Documents
  BY TargetIsThere
<1>1. EndRequest(s) /\ OnlyTarget(s) /\ UNCHANGED lotQty
  BY <1>0 DEF CommitCreate, CommitPrepare, CommitDispatch, CommitPosted, CommitReceipt, Finish,
     inventoryVars, OnlyTarget, Serial, Whole, Safe, DispatchTypeOK
<1>2. StockWithin'
  <2>1. CASE CommitDispatch(s)
    <3>1. \A l \in Lots : stock'[l] <= stock[l]
      BY <2>1, DispatchDraws DEF Serial, Whole, Safe, Reservation, RequestTypeOK, InventoryTypeOK
    <3> QED
      BY <1>1, <3>1, LotsGrow
  <2>2. CASE ~ CommitDispatch(s)
    <3>1. UNCHANGED stock
      BY <2>2 DEF CommitCreate, CommitPrepare, CommitReceipt, Finish, inventoryVars
    <3> QED
      BY <1>1, <3>1 DEF Serial, StockWithin
  <2> QED
    BY <2>1, <2>2
<1>3. \A e \in Documents \ {d} : issued'[e] = issued[e]
  BY <1>0 DEF CommitCreate, CommitPrepare, CommitDispatch, CommitReceipt, Serial, Whole, Safe,
     DispatchTypeOK
<1>4. d \in SerialDocuments /\ status'[d] \in {"ABSENT", "DRAFT", "PREPARED"}
      => issued'[d] = NoItems
  <2>1. SUFFICES ASSUME d \in SerialDocuments, status'[d] \in {"ABSENT", "DRAFT", "PREPARED"}
                 PROVE  issued'[d] = NoItems
    OBVIOUS
  <2>2. CASE CommitCreate(s)
    <3>1. status[d] = "ABSENT" /\ UNCHANGED issued
      BY <2>2 DEF CommitCreate, Serial, Whole, AsRead
    <3> QED
      BY <2>1, <3>1 DEF Serial, SerialIssued
  <2>3. CASE CommitPrepare(s)
    <3>1. status[d] = "DRAFT" /\ UNCHANGED issued
      BY <2>1, <2>3 DEF CommitPrepare, Serial, SessionOK, ReadsHold
    <3> QED
      BY <2>1, <3>1 DEF Serial, SerialIssued
  <2>4. CASE CommitDispatch(s) \/ CommitReceipt(s)
    <3>1. status'[d] \in {"DISPATCHED", "DELIVERED"}
      BY <1>0, <2>4 DEF CommitDispatch, CommitReceipt, Serial, Whole, Safe, DispatchTypeOK
    <3> QED
      BY <2>1, <3>1
  <2> QED
    BY <2>2, <2>3, <2>4
<1>5. SerialIssued'
  <2> SUFFICES ASSUME NEW e \in SerialDocuments,
                      status'[e] \in {"ABSENT", "DRAFT", "PREPARED"}
               PROVE  issued'[e] = NoItems
    BY DEF SerialIssued
  <2>1. CASE e = d
    BY <1>4, <2>1
  <2>2. CASE e # d
    BY <1>1, <1>3, <2>2, SerialAssumption DEF OnlyTarget, Serial, SerialIssued
  <2> QED
    BY <2>1, <2>2
<1> QED
  BY <1>1, <1>2, <1>5, EndSerial

\* The ends of requests that write no dispatch.
LEMMA OtherEndSerial ==
  ASSUME Serial, Next, NEW s \in Sessions, EndRequest(s), UNCHANGED dispatchVars, StockWithin'
  PROVE  Serial'
BY EndSerial DEF OnlyTarget, dispatchVars, Serial, SerialIssued

LEMMA StepSerial ==
  ASSUME Serial, Next
  PROVE  Serial'
<1>1. ASSUME NEW s \in Sessions, CommitPass(s), UNCHANGED deliveryVars
      PROVE  Serial'
  <2>1. PICK l \in Lots : ReceiveLot(l, plan[s][l])
    BY <1>1 DEF CommitPass, Used
  <2>2. /\ \A k \in Lots \ {l} : lotQty'[k] = lotQty[k] /\ stock'[k] = stock[k]
        /\ lotQty[l] = 0 /\ lotQty'[l] = plan[s][l] /\ stock'[l] = stock[l] + plan[s][l]
        /\ stock[l] \in Int /\ plan[s][l] \in Nat
    BY <2>1, MaxKgAssumption DEF ReceiveLot, Serial, Whole, Safe, Reservation, RequestTypeOK,
       InventoryTypeOK, Recipe, Kg
  <2>3. StockWithin'
    BY <2>2 DEF Serial, StockWithin
  <2> QED
    BY <1>1, <2>3, OtherEndSerial DEF CommitPass, deliveryVars
<1>2. ASSUME NEW s \in Sessions,
             \/ (RefusePass(s) \/ CommitFail(s)) /\ UNCHANGED deliveryVars
             \/ RefuseStockOut(s) \/ RefuseReceipt(s) \/ Crash(s) \/ DeadlockVictim(s)
      PROVE  Serial'
  <2>1. EndRequest(s) /\ UNCHANGED <<dispatchVars, stock, lotQty>>
    BY <1>2 DEF RefusePass, CommitFail, RefuseStockOut, RefuseNext, RefuseReceipt, Crash,
       CrashNext, DeadlockVictim, DeadlockNext, Finish, Abandon, DiscardPosted, inventoryVars,
       deliveryVars
  <2> QED
    BY <2>1, OtherEndSerial DEF Serial, StockWithin
<1> QED
  BY <1>1, <1>2, BeginSerial, RiceSerial, MiddleSerial, CommitSerial DEF Next, Progress, Decide

LEMMA StutterSerial ==
  ASSUME Serial, UNCHANGED vars
  PROVE  Serial'
<1>1. Whole' /\ PendingTypeOK'
  BY StepWhole, StepPending DEF Serial
<1>2. UNCHANGED <<pc, target, plan, stock, lotQty, status, items, issued>>
  BY DEF vars, lotVars, inventoryVars, requestVars, deliveryVars, dispatchVars
<1>3. \A t \in Sessions : SessionOK(t)'
  BY <1>2 DEF Serial, SessionOK, ReadsHold, Looping
<1> QED
  BY <1>1, <1>2, <1>3 DEF Serial, Alone, StockWithin, SerialIssued

\* Serial is inductive.
THEOREM SerialInvariant == Spec => []Serial
<1>1. Serial /\ [Next]_vars => Serial'
  BY StepSerial, StutterSerial
<1> QED
  BY <1>1, InitSerial, PTL DEF Spec

-----------------------------------------------------------------------------
(* Refinement of AtomicDelivery: a commit on a serial dispatch is one atomic *)
(* operation, the confirmation of another dispatch a withdrawal.            *)

\* What the atomic specification sees of a write to one dispatch.
LEMMA SeenWrite ==
  ASSUME NEW f, f = [d \in Documents |-> f[d]], NEW d \in SerialDocuments, NEW v
  PROVE  OnSerial([f EXCEPT ![d] = v]) = [OnSerial(f) EXCEPT ![d] = v]
BY SerialAssumption DEF OnSerial

\* It sees no write to a dispatch that is not serial.
LEMMA UnseenWrite ==
  ASSUME NEW f, NEW g, \A d \in SerialDocuments : g[d] = f[d]
  PROVE  OnSerial(g) = OnSerial(f)
BY DEF OnSerial

LEMMA ConfirmIsAtomic ==
  ASSUME Serial, NEW s \in Sessions, CommitDispatch(s), target[s] \in SerialDocuments
  PROVE  Atomic!Confirm(target[s])
<1> DEFINE d == target[s]
<1>0. d \in Documents /\ status[d] = "PREPARED"
  BY TargetIsThere DEF CommitDispatch, Serial, SessionOK, ReadsHold, Looping
<1>1. \A l \in Lots : items[d][l] <= stock[l]
  BY DispatchDraws DEF Serial, Whole, Safe, Reservation, RequestTypeOK, InventoryTypeOK
<1>2. stock' = [l \in Lots |-> stock[l] - items[d][l]]
  BY DispatchDraws DEF CommitDispatch, CommitPosted
<1>3. OnSerial(status)' = [OnSerial(status) EXCEPT ![d] = "DISPATCHED"]
  <2>1. status' = [status EXCEPT ![d] = "DISPATCHED"]
    BY DEF CommitDispatch
  <2> QED
    BY <2>1, SerialAssumption DEF OnSerial, Serial, Whole, Safe, DispatchTypeOK
<1>4. issued' = [issued EXCEPT ![d] = items[d]]
  <2>1. \A l \in Lots : issued[d][l] + posted[s][l] = items[d][l]
    <3>1. issued[d] = NoItems
      BY <1>0 DEF Serial, SerialIssued
    <3>2. \A l \in Lots : posted[s][l] = items[d][l] /\ items[d][l] \in Nat
      BY <1>0, DispatchDraws, MaxKgAssumption DEF Serial, Whole, Safe, DispatchTypeOK, Recipe, Kg
    <3> QED
      BY <3>1, <3>2 DEF NoItems
  <2>2. items[d] = [l \in Lots |-> items[d][l]]
    BY <1>0 DEF Serial, Whole, Safe, DispatchTypeOK, Recipe
  <2>3. [l \in Lots |-> issued[d][l] + posted[s][l]] = items[d]
    BY <2>1, <2>2
  <2> QED
    BY <2>3 DEF CommitDispatch
<1>5. /\ OnSerial(status)[d] = "PREPARED" /\ OnSerial(items)[d] = items[d]
      /\ UNCHANGED <<lotQty, OnSerial(items), OnSerial(receipt)>>
  BY <1>0 DEF CommitDispatch, CommitPosted, OnSerial
<1> QED
  BY <1>1, <1>2, <1>3, <1>4, <1>5 DEF Atomic!Confirm

LEMMA ConfirmIsWithdrawal ==
  ASSUME Serial, NEW s \in Sessions, CommitDispatch(s), target[s] \notin SerialDocuments
  PROVE  Atomic!Withdraw(target[s])
<1>1. stock' = [l \in Lots |-> stock'[l]]
  BY DEF CommitDispatch, CommitPosted
<1>2. \A l \in Lots : stock'[l] \in 0 .. stock[l] /\ stock[l] - stock'[l] = posted[s][l]
  BY DispatchDraws DEF Serial, Whole, Safe, Reservation, RequestTypeOK, InventoryTypeOK
<1>3. issued' = [issued EXCEPT ![target[s]] =
                   [l \in Lots |-> @[l] + (stock[l] - stock'[l])]]
  BY <1>2 DEF CommitDispatch
<1>4. UNCHANGED <<lotQty, OnSerial(status), OnSerial(items), OnSerial(receipt)>>
  <2>1. \A d \in SerialDocuments : status'[d] = status[d]
    BY SerialAssumption DEF CommitDispatch, Serial, Whole, Safe, DispatchTypeOK
  <2> QED
    BY <2>1 DEF CommitDispatch, CommitPosted, OnSerial
<1> QED
  BY <1>1, <1>2, <1>3, <1>4 DEF Atomic!Withdraw

LEMMA CreateIsAtomic ==
  ASSUME Serial, NEW s \in Sessions, CommitCreate(s), target[s] \in SerialDocuments
  PROVE  Atomic!Create(target[s], plan[s])
<1> DEFINE d == target[s]
<1>1. status[d] = "ABSENT" /\ plan[s] \in Plans /\ \A l \in Lots : plan[s][l] <= lotQty[l]
  BY DEF CommitCreate, Serial, Whole, AsRead, SessionOK, ReadsHold
<1>2. status' = [status EXCEPT ![d] = "DRAFT"] /\ items' = [items EXCEPT ![d] = plan[s]]
  BY DEF CommitCreate
<1>3. OnSerial(status)' = [OnSerial(status) EXCEPT ![d] = "DRAFT"]
  BY <1>2, SerialAssumption DEF OnSerial, Serial, Whole, Safe, DispatchTypeOK
<1>4. OnSerial(items)' = [OnSerial(items) EXCEPT ![d] = plan[s]]
  BY <1>2, SerialAssumption DEF OnSerial, Serial, Whole, Safe, DispatchTypeOK
<1>5. OnSerial(status)[d] = "ABSENT" /\ UNCHANGED <<lotQty, stock, issued, OnSerial(receipt)>>
  BY <1>1 DEF CommitCreate, Finish, inventoryVars, OnSerial
<1> QED
  BY <1>1, <1>3, <1>4, <1>5 DEF Atomic!Create, Plans, Used

LEMMA PrepareIsAtomic ==
  ASSUME Serial, NEW s \in Sessions, CommitPrepare(s), target[s] \in SerialDocuments
  PROVE  Atomic!Prepare(target[s])
<1> DEFINE d == target[s]
<1>1. status[d] = "DRAFT" /\ status' = [status EXCEPT ![d] = "PREPARED"]
  BY DEF CommitPrepare, Serial, SessionOK, ReadsHold
<1>2. OnSerial(status)' = [OnSerial(status) EXCEPT ![d] = "PREPARED"]
  BY <1>1, SerialAssumption DEF OnSerial, Serial, Whole, Safe, DispatchTypeOK
<1>3. /\ OnSerial(status)[d] = "DRAFT"
      /\ UNCHANGED <<lotQty, stock, issued, OnSerial(items), OnSerial(receipt)>>
  BY <1>1 DEF CommitPrepare, Finish, inventoryVars, OnSerial
<1> QED
  BY <1>2, <1>3 DEF Atomic!Prepare

LEMMA DeliverIsAtomic ==
  ASSUME Serial, NEW s \in Sessions, CommitReceipt(s), target[s] \in SerialDocuments
  PROVE  Atomic!Deliver(target[s])
<1> DEFINE d   == target[s]
           row == ReceiptFor(plan[s], pending[s])
<1>1. /\ status[d] = "DISPATCHED" /\ plan[s] = items[d]
      /\ status' = [status EXCEPT ![d] = "DELIVERED"] /\ receipt' = [receipt EXCEPT ![d] = row]
  BY DEF CommitReceipt, Serial, SessionOK, ReadsHold
<1>2. OnSerial(status)' = [OnSerial(status) EXCEPT ![d] = "DELIVERED"]
  BY <1>1, SerialAssumption DEF OnSerial, Serial, Whole, Safe, DispatchTypeOK
<1>3. OnSerial(receipt)' = [OnSerial(receipt) EXCEPT ![d] = row]
  <2> HIDE DEF row
  <2> QED
    BY <1>1, SerialAssumption DEF OnSerial, Serial, Whole, Safe, DispatchTypeOK
<1>4. row \in ReceiptsOf(items[d])
  BY <1>1 DEF ReceiptsOf, Serial, PendingTypeOK
<1>5. /\ OnSerial(status)[d] = "DISPATCHED" /\ OnSerial(items)[d] = items[d]
      /\ UNCHANGED <<lotQty, stock, issued, OnSerial(items)>>
  BY <1>1 DEF CommitReceipt, Finish, inventoryVars, OnSerial
<1> QED
  BY <1>2, <1>3, <1>4, <1>5 DEF Atomic!Deliver

LEMMA PassIsAtomic ==
  ASSUME Serial, NEW s \in Sessions, CommitPass(s), UNCHANGED deliveryVars
  PROVE  Atomic!Next
<1>1. PICK l \in Lots : plan[s][l] > 0 /\ ReceiveLot(l, plan[s][l])
  BY DEF CommitPass, Used
<1> DEFINE q == plan[s][l]
<1>2. q \in 1 .. MaxKg /\ stock[l] + q = q
  <2>1. stock[l] \in Int /\ stock[l] >= 0 /\ stock[l] <= 0 /\ q \in 0 .. MaxKg
    BY <1>1 DEF ReceiveLot, Serial, StockWithin, Whole, Safe, Reservation, NonNegativeStock,
       RequestTypeOK, InventoryTypeOK, Recipe, Kg
  <2> QED
    BY <1>1, <2>1, MaxKgAssumption
<1>3. UNCHANGED <<OnSerial(status), OnSerial(items), OnSerial(receipt), issued>>
  BY DEF OnSerial, deliveryVars, dispatchVars
<1>4. Atomic!Receive(l, q)
  BY <1>1, <1>2, <1>3 DEF ReceiveLot, Atomic!Receive
<1> QED
  BY <1>2, <1>4 DEF Atomic!Next

LEMMA CommitAtomic ==
  ASSUME Serial, NEW s \in Sessions,
         CommitCreate(s) \/ CommitPrepare(s) \/ CommitDispatch(s) \/ CommitReceipt(s)
  PROVE  [Atomic!Next]_(Atomic!vars)
<1>0. target[s] \in Documents
  BY TargetIsThere
<1>1. CASE target[s] \in SerialDocuments
  <2>1. plan[s] \in [Lots -> 0 .. MaxKg]
    BY DEF Serial, Whole, Safe, Reservation, RequestTypeOK, Recipe, Kg
  <2> QED
    BY <1>1, <2>1, CreateIsAtomic, PrepareIsAtomic, ConfirmIsAtomic, DeliverIsAtomic
       DEF Atomic!Next
<1>2. CASE target[s] \notin SerialDocuments /\ CommitDispatch(s)
  BY <1>0, <1>2, ConfirmIsWithdrawal DEF Atomic!Next
<1>3. CASE target[s] \notin SerialDocuments /\ ~ CommitDispatch(s)
  <2>1. UNCHANGED <<lotQty, stock, issued>>
    BY <1>3 DEF CommitCreate, CommitPrepare, CommitReceipt, Finish, inventoryVars
  <2>2. \A d \in SerialDocuments :
          status'[d] = status[d] /\ items'[d] = items[d] /\ receipt'[d] = receipt[d]
    BY <1>0, <1>3, SerialAssumption DEF CommitCreate, CommitPrepare, CommitReceipt, Serial,
       Whole, Safe, DispatchTypeOK
  <2>3. UNCHANGED <<OnSerial(status), OnSerial(items), OnSerial(receipt)>>
    BY <2>2 DEF OnSerial
  <2> QED
    BY <2>1, <2>3 DEF Atomic!vars
<1> QED
  BY <1>1, <1>2, <1>3

LEMMA StepAtomic ==
  ASSUME Serial, [Next]_vars
  PROVE  [Atomic!Next]_(Atomic!vars)
<1> DEFINE Still == UNCHANGED <<lotQty, stock, dispatchVars>>
<1>1. CASE Still
  <2>1. UNCHANGED <<OnSerial(status), OnSerial(items), OnSerial(receipt)>>
    BY <1>1 DEF OnSerial, dispatchVars
  <2> QED
    BY <1>1, <2>1 DEF Atomic!vars, dispatchVars
<1>2. CASE UNCHANGED vars
  <2>1. Still
    BY <1>2 DEF vars, lotVars, inventoryVars, deliveryVars
  <2> QED
    BY <1>1, <2>1
<1>3. CASE Rice /\ UNCHANGED deliveryVars
  <2>1. Still
    BY <1>3, RiceReservation DEF Serial, Whole
  <2> QED
    BY <1>1, <2>1
<1>4. ASSUME NEW s \in Sessions, NEW d \in Documents, Request(s, d)
      PROVE  [Atomic!Next]_(Atomic!vars)
  <2>1. UNCHANGED <<lotQty, stock>>
    BY <1>4 DEF Request, CreateRequest, PrepareRequest, DispatchRequest, ReceiptRequest, Begin,
       inventoryVars
  <2>2. Still
    BY <1>4, <2>1, RequestReservation DEF Serial, Whole
  <2> QED
    BY <1>1, <2>2
<1>5. ASSUME NEW s \in Sessions,
             \/ ShareLot(s) \/ LockLot(s) \/ PostStockOut(s) \/ RefuseStockOut(s)
             \/ RefuseReceipt(s) \/ Crash(s) \/ DeadlockVictim(s)
             \/ (RefusePass(s) \/ CommitFail(s)) /\ UNCHANGED deliveryVars
      PROVE  [Atomic!Next]_(Atomic!vars)
  <2>1. Still
    BY <1>5 DEF ShareLot, ShareNext, LockLot, LockNext, PostStockOut, PostNext, RefuseStockOut,
       RefuseNext, RefuseReceipt, Crash, CrashNext, DeadlockVictim, DeadlockNext, RefusePass,
       CommitFail, Finish, Abandon, DiscardPosted, inventoryVars, deliveryVars
  <2> QED
    BY <1>1, <2>1
<1> QED
  BY <1>2, <1>3, <1>4, <1>5, PassIsAtomic, CommitAtomic DEF Next, Progress, Decide

\* Every interleaving of requests has, for the dispatches whose requests do not overlap,
\* the effect of these requests taken one at a time.
THEOREM DeliveryIsAtomic == Spec => ImplementsAtomic
<1>1. Init => Atomic!Init
  BY SerialAssumption
     DEF Init, RequestInit, InventoryInit, NothingPosted, NoItems, OnSerial, Atomic!Init,
         Atomic!None
<1>2. Serial /\ [Next]_vars => [Atomic!Next]_(Atomic!vars)
  BY StepAtomic
<1> QED
  BY <1>1, <1>2, SerialInvariant, PTL DEF Spec, ImplementsAtomic, Atomic!Spec

-----------------------------------------------------------------------------
(* Conservation: the rice on hand of a lot and what the dispatches took of   *)
(* it are what passed.                                                      *)

\* The items of a dispatch weigh what their sum is, and a receipt is measured against it.
LEMMA ReceiptIsRow ==
  ASSUME NEW p \in Recipe, NEW received \in 0 .. MaxReceived
  PROVE  ReceiptFor(p, received) \in ReceiptRows
<1>1. \A l \in Lots : p[l] \in Nat
  BY MaxKgAssumption DEF Recipe, Kg
<1>2. Sum(p, Lots) \in Nat
  BY <1>1, FiniteAssumption, SumIsNat
<1>3. Total(p) \in Nat
  BY <1>2 DEF Total, Sum
<1> HIDE DEF Total
<1> QED
  BY <1>3, MaxReceivedAssumption DEF ReceiptFor, ReceiptRows

ReceiptTypeOK == receipt \in [Documents -> ReceiptRows \cup {NoReceipt}]

LEMMA StepReceiptType ==
  ASSUME Safe, PendingTypeOK, ReceiptTypeOK, [Next]_vars
  PROVE  ReceiptTypeOK'
<1>1. ASSUME NEW s \in Sessions, CommitReceipt(s)
      PROVE  ReceiptTypeOK'
  <2>1. plan[s] \in Recipe /\ pending[s] \in 0 .. MaxReceived
    BY DEF Safe, Reservation, RequestTypeOK, PendingTypeOK
  <2>2. ReceiptFor(plan[s], pending[s]) \in ReceiptRows
    BY <2>1, ReceiptIsRow
  <2> QED
    BY <1>1, <2>2 DEF CommitReceipt, ReceiptTypeOK
<1>2. ASSUME NEW s \in Sessions, Progress(s), ~ CommitReceipt(s)
      PROVE  UNCHANGED receipt
  BY <1>2 DEF Progress, CommitCreate, CommitPrepare, PostStockOut, RefuseStockOut,
     CommitDispatch, RefuseReceipt, dispatchVars, deliveryVars
<1>3. ASSUME \/ Rice /\ UNCHANGED deliveryVars
             \/ \E s \in Sessions, e \in Documents : Request(s, e)
             \/ \E s \in Sessions :
                  ShareLot(s) \/ LockLot(s) \/ Crash(s) \/ DeadlockVictim(s)
             \/ UNCHANGED vars
      PROVE  UNCHANGED receipt
  BY <1>3, RequestReservation, OtherReservation DEF deliveryVars, dispatchVars, vars
<1> QED
  BY <1>1, <1>2, <1>3 DEF Next, ReceiptTypeOK

\* Delivery is type-correct; the shortage and the excess of a receipt are never negative.
THEOREM DeliveryTypesCorrect == Spec => []TypeOK
<1> DEFINE Types == PendingTypeOK /\ ReceiptTypeOK
<1>1. Init => Types
  BY MaxReceivedAssumption DEF Init, PendingTypeOK, ReceiptTypeOK
<1>2. Safe /\ Types /\ [Next]_vars => Types'
  BY StepPending, StepReceiptType
<1>3. Safe /\ Types => TypeOK
  BY DEF Safe, Reservation, DispatchTypeOK, RiceInv, PendingTypeOK, ReceiptTypeOK, TypeOK
<1> HIDE DEF Types
<1> QED
  BY <1>1, <1>2, <1>3, SafeInvariant, PTL DEF Spec

Issues(l) == [d \in Documents |-> issued[d][l]]
Sent(l)   == Sum(Issues(l), Documents)

Conserved == \A l \in Lots : stock[l] + Sent(l) = lotQty[l]

\* What the runs check is the sum that is proved.
LEMMA ConservedIsRiceConserved == Conserved <=> RiceConserved
<1>1. \A l \in Lots : MapThenSumSet(LAMBDA d : issued[d][l], Documents) = Sent(l)
  BY FiniteAssumption, SumOfColumn DEF Sent, Issues
<1> QED
  BY <1>1 DEF Conserved, RiceConserved

\* A commit of a dispatch moves what the session has posted from stock to the road.
LEMMA DispatchConserves ==
  ASSUME Whole, Conserved, NEW s \in Sessions, CommitDispatch(s)
  PROVE  Conserved'
<1> SUFFICES ASSUME NEW l \in Lots PROVE (stock[l] + Sent(l) = lotQty[l])'
  BY DEF Conserved
<1> DEFINE d == target[s]
<1>1. d \in Documents /\ CommitPosted(s)
  BY DEF CommitDispatch, Whole, AsRead, Looping
<1>2. /\ posted[s][l] \in Int /\ stock[l] \in Int
      /\ \A e \in Documents : issued[e][l] \in Int
  BY DEF Whole, Safe, DispatchTypeOK, Reservation, RequestTypeOK, InventoryTypeOK
<1>3. /\ Issues(l)'[d] = Issues(l)[d] + posted[s][l]
      /\ \A e \in Documents \ {d} : Issues(l)'[e] = Issues(l)[e]
      /\ \A e \in Documents : Issues(l)[e] \in Int
  BY <1>1, <1>2 DEF CommitDispatch, Whole, Safe, DispatchTypeOK, Issues
<1> HIDE DEF d
<1>4. Sum(Issues(l)', Documents) = Sum(Issues(l), Documents) + posted[s][l]
  BY <1>1, <1>2, <1>3, FiniteAssumption, SumChange
<1>5. Sent(l)' = Sent(l) + posted[s][l] /\ Sent(l) \in Int
  BY <1>3, <1>4, FiniteAssumption, SumIsInt DEF Sent
<1>6. stock'[l] = stock[l] - posted[s][l] /\ lotQty'[l] = lotQty[l]
  BY <1>1 DEF CommitPosted
<1>7. stock[l] + Sent(l) = lotQty[l]
  BY DEF Conserved
<1> HIDE DEF Sent
<1> QED
  BY <1>2, <1>5, <1>6, <1>7

LEMMA SameSent ==
  ASSUME UNCHANGED issued
  PROVE  \A l \in Lots : Sent(l)' = Sent(l)
BY DEF Sent, Issues

\* A lot appears with its whole quantity in stock.
LEMMA PassConserves ==
  ASSUME Safe, Conserved, NEW s \in Sessions, CommitPass(s), UNCHANGED issued
  PROVE  Conserved'
<1>1. PICK l \in Used(plan[s]) : ReceiveLot(l, plan[s][l])
  BY DEF CommitPass
<1>2. l \in Lots /\ plan[s][l] \in Int /\ \A k \in Lots : stock[k] \in Int
  BY <1>1 DEF Used, Safe, Reservation, RequestTypeOK, InventoryTypeOK, Recipe, Kg
<1>3. /\ lotQty[l] = 0 /\ lotQty'[l] = plan[s][l] /\ stock'[l] = stock[l] + plan[s][l]
      /\ \A k \in Lots \ {l} : lotQty'[k] = lotQty[k] /\ stock'[k] = stock[k]
  BY <1>1, <1>2 DEF ReceiveLot, Safe, Reservation, RequestTypeOK, InventoryTypeOK
<1>4. \A k \in Lots : Sent(k) \in Int
  <2> TAKE k \in Lots
  <2>1. \A d \in Documents : Issues(k)[d] \in Int
    BY DEF Issues, Safe, DispatchTypeOK
  <2> QED
    BY <2>1, FiniteAssumption, SumIsInt DEF Sent
<1>5. \A k \in Lots : Sent(k)' = Sent(k)
  BY SameSent
<1> QED
  BY <1>2, <1>3, <1>4, <1>5 DEF Conserved

LEMMA StepConserves == Whole /\ Conserved /\ [Next]_vars => Conserved'
<1> SUFFICES ASSUME Whole, Conserved, [Next]_vars PROVE Conserved'
  OBVIOUS
<1>1. ASSUME UNCHANGED <<stock, lotQty, issued>>
      PROVE  Conserved'
  BY <1>1, SameSent DEF Conserved
<1>2. CASE Rice /\ UNCHANGED deliveryVars
  BY <1>1, <1>2, RiceReservation DEF Whole, dispatchVars
<1>3. ASSUME NEW s \in Sessions, NEW d \in Documents, Request(s, d)
      PROVE  Conserved'
  BY <1>1, <1>3, RequestReservation DEF Request, CreateRequest, PrepareRequest,
     DispatchRequest, ReceiptRequest, Begin, inventoryVars, Whole, dispatchVars
<1>4. ASSUME NEW s \in Sessions, Progress(s), ~ CommitDispatch(s), ~ CommitPass(s)
      PROVE  Conserved'
  BY <1>1, <1>4 DEF Progress, Decide, RefusePass, CommitFail, CommitCreate, CommitPrepare,
     PostStockOut, PostNext, RefuseStockOut, RefuseNext, CommitReceipt, RefuseReceipt, Finish,
     Abandon, DiscardPosted, inventoryVars, deliveryVars, dispatchVars
<1>5. ASSUME NEW s \in Sessions, ShareLot(s) \/ LockLot(s) \/ Crash(s) \/ DeadlockVictim(s)
      PROVE  Conserved'
  BY <1>1, <1>5 DEF ShareLot, ShareNext, LockLot, LockNext, Crash, CrashNext, DeadlockVictim,
     DeadlockNext, Abandon, DiscardPosted, inventoryVars, deliveryVars, dispatchVars
<1>6. ASSUME NEW s \in Sessions, CommitPass(s), UNCHANGED deliveryVars
      PROVE  Conserved'
  BY <1>6, PassConserves DEF deliveryVars, dispatchVars, Whole
<1>7. CASE UNCHANGED vars
  BY <1>1, <1>7 DEF vars, lotVars, inventoryVars, deliveryVars, dispatchVars
<1>8. ASSUME NEW s \in Sessions, Progress(s)
      PROVE  Conserved'
  <2>1. CASE pc[s] = "pass"
    <3>1. Decide(s) /\ UNCHANGED deliveryVars
      BY <1>8, <2>1 DEF Progress, CommitCreate, CommitPrepare, PostStockOut, PostNext,
         RefuseStockOut, RefuseNext, CommitDispatch, CommitReceipt, RefuseReceipt
    <3> QED
      BY <1>4, <1>6, <1>8, <2>1, <3>1 DEF CommitDispatch
  <2>2. CASE pc[s] # "pass"
    BY <1>4, <1>8, <2>2, DispatchConserves DEF CommitPass
  <2> QED
    BY <2>1, <2>2
<1> QED
  BY <1>2, <1>3, <1>5, <1>7, <1>8 DEF Next

\* Rice is conserved from quality check to road: however the requests of any number of
\* sessions race and wherever they are stopped, what is on hand of a lot and what all the
\* dispatches took of it add up to what passed (post_transaction, dispatch_dispatch).
THEOREM RiceIsConserved == Spec => []RiceConserved
<1>1. Init => Conserved
  <2> SUFFICES ASSUME Init, NEW l \in Lots PROVE stock[l] + Sent(l) = lotQty[l]
    BY DEF Conserved
  <2>1. stock[l] = 0 /\ lotQty[l] = 0 /\ \A d \in Documents : Issues(l)[d] = 0
    BY DEF Init, RequestInit, InventoryInit, NothingPosted, NoItems, Issues
  <2>2. Sent(l) = 0
    BY <2>1, FiniteAssumption, SumOfZeros DEF Sent
  <2> QED
    BY <2>1, <2>2
<1>2. Whole /\ Conserved /\ [Next]_vars => Conserved'
  BY StepConserves
<1>3. Conserved => RiceConserved
  BY ConservedIsRiceConserved
<1> QED
  BY <1>1, <1>2, <1>3, WholeInvariant, PTL DEF Spec
=============================================================================
