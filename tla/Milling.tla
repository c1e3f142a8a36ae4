------------------------------- MODULE Milling ------------------------------
(***************************************************************************)
(* modules/milling/service.py: batches that consume paddy lots.  The       *)
(* documents are batches; the loop over the lots is that of LotRequests.   *)
(***************************************************************************)
EXTENDS LotRequests

CONSTANT MaxOutputs  \* the number of outputs of a batch is counted up to here

ASSUME MaxOutputsAssumption == MaxOutputs \in Nat \ {0}

VARIABLES status,    \* MillingBatch.status; ABSENT: no such batch yet
          inputs,    \* inputs[b][l]: kilograms of lot l batch b is to consume; 0: no input row
          consumed,  \* consumed[b][l]: sum of the PADDY_CONSUMPTION movements with source b
          outputs    \* number of RiceProductionOutput rows of the batch

batchVars == <<status, inputs, consumed, outputs>>
vars      == <<lotVars, batchVars>>

Statuses == {"ABSENT", "DRAFT", "IN_PROGRESS", "COMPLETED"}
Steps    == {"idle", "share", "lock", "post", "commit", "produce", "count", "complete"}

TypeOK == /\ RequestTypeOK(Steps)
          /\ status   \in [Documents -> Statuses]
          /\ inputs   \in [Documents -> Recipe]
          /\ consumed \in [Documents -> [Lots -> Nat]]
          /\ outputs  \in [Documents -> 0 .. MaxOutputs]

Init == /\ RequestInit
        /\ status   = [b \in Documents |-> "ABSENT"]
        /\ inputs   = [b \in Documents |-> NoItems]
        /\ consumed = [b \in Documents |-> NoItems]
        /\ outputs  = [b \in Documents |-> 0]

-----------------------------------------------------------------------------
(* accept_load, seen from milling: a lot appears with its whole weight in    *)
(* stock.  Receiving models the request itself.                             *)

AcceptLoad(l, q) == ReceiveLot(l, q) /\ UNCHANGED <<lockVars, requestVars, batchVars>>

-----------------------------------------------------------------------------
(* create_batch: the lots exist, then the batch and its inputs are inserted. *)

CreateRequest(s, b, p) ==
  /\ status[b] = "ABSENT"
  /\ \A t \in Sessions : target[t] # b   \* a fresh uuid
  /\ \A l \in Used(p) : lotQty[l] > 0
  /\ Begin(s, b, "share", p, Used(p))
  /\ UNCHANGED batchVars

ShareLot(s) == ShareNext(s) /\ UNCHANGED batchVars

CommitCreate(s) ==
  /\ pc[s] = "share" /\ todo[s] = {}
  /\ status' = [status EXCEPT ![target[s]] = "DRAFT"]
  /\ inputs' = [inputs EXCEPT ![target[s]] = plan[s]]
  /\ Finish(s)
  /\ UNCHANGED <<consumed, outputs>>

-----------------------------------------------------------------------------
(* start_batch: read the status, then lock and post each input.             *)

StartRequest(s, b) ==
  /\ status[b] = "DRAFT"
  /\ Used(inputs[b]) # {}
  /\ Begin(s, b, "lock", inputs[b], Used(inputs[b]))
  /\ UNCHANGED batchVars

LockLot(s) == LockNext(s) /\ UNCHANGED batchVars

PostConsumption(s) == PostNext(s) /\ UNCHANGED batchVars

RefuseConsumption(s) == RefuseNext(s) /\ UNCHANGED batchVars

\* Mutant of CommitStart: the status is committed and the movements are not.
CommitStartWithoutMovements(s) ==
  /\ pc[s] = "commit"
  /\ status' = [status EXCEPT ![target[s]] = "IN_PROGRESS"]
  /\ Abandon(s)
  /\ UNCHANGED <<inputs, consumed, outputs>>

CommitStart(s) ==
  /\ pc[s] = "commit"
  /\ status'   = [status EXCEPT ![target[s]] = "IN_PROGRESS"]
  /\ consumed' = [consumed EXCEPT ![target[s]] = [l \in Lots |-> @[l] + posted[s][l]]]
  /\ CommitPosted(s)
  /\ EndRequest(s)
  /\ UNCHANGED <<inputs, outputs>>

-----------------------------------------------------------------------------
(* record_production: rice of a running batch; each output awaits QC.       *)

ProduceRequest(s, b) ==
  /\ status[b] = "IN_PROGRESS"
  /\ Begin(s, b, "produce", NoItems, {})
  /\ UNCHANGED batchVars

CommitProduce(s) ==
  /\ pc[s] = "produce"
  /\ outputs' = [outputs EXCEPT ![target[s]] = IF @ < MaxOutputs THEN @ + 1 ELSE @]
  /\ Finish(s)
  /\ UNCHANGED <<status, inputs, consumed>>

-----------------------------------------------------------------------------
(* complete_batch: the status, then the count of outputs, two statements.   *)

CompleteRequest(s, b) ==
  /\ status[b] = "IN_PROGRESS"
  /\ Begin(s, b, "count", NoItems, {})
  /\ UNCHANGED batchVars

CountOutputs(s) ==
  /\ pc[s] = "count"
  /\ outputs[target[s]] > 0
  /\ pc' = [pc EXCEPT ![s] = "complete"]
  /\ UNCHANGED <<lockVars, inventoryVars, target, plan, todo, batchVars>>

RefuseComplete(s) == /\ pc[s] = "count"
                     /\ outputs[target[s]] = 0
                     /\ Abandon(s)
                     /\ UNCHANGED batchVars

CommitComplete(s) ==
  /\ pc[s] = "complete"
  /\ status' = [status EXCEPT ![target[s]] = "COMPLETED"]
  /\ Finish(s)
  /\ UNCHANGED <<inputs, consumed, outputs>>

-----------------------------------------------------------------------------
Crash(s) == CrashNext(s) /\ UNCHANGED batchVars

DeadlockVictim(s) == DeadlockNext(s) /\ UNCHANGED batchVars

\* A statement of s that does not wait for a lock.
Progress(s) == \/ CommitCreate(s)
               \/ PostConsumption(s)
               \/ RefuseConsumption(s)
               \/ CommitStart(s)
               \/ CommitProduce(s)
               \/ CountOutputs(s)
               \/ RefuseComplete(s)
               \/ CommitComplete(s)

Request(s, b) == \/ \E p \in Plans : CreateRequest(s, b, p)
                 \/ StartRequest(s, b)
                 \/ ProduceRequest(s, b)
                 \/ CompleteRequest(s, b)

Next == \/ \E l \in Lots, q \in 1 .. MaxKg : AcceptLoad(l, q)
        \/ \E s \in Sessions, b \in Documents : Request(s, b)
        \/ \E s \in Sessions : \/ ShareLot(s)
                               \/ LockLot(s)
                               \/ Progress(s)
                               \/ Crash(s)
                               \/ DeadlockVictim(s)

Spec == Init /\ [][Next]_vars

-----------------------------------------------------------------------------
(* Properties                                                               *)

\* A batch takes paddy whole: each input equally often, and at least once if it has rice,
\* runs or is done; a batch is done only with rice.  Neither a crash half way through the
\* input loop of start_batch nor a status written over a newer one makes rice of paddy
\* that stayed in stock.
RiceFromConsumedPaddy ==
  \A b \in Documents :
    LET Started == outputs[b] > 0 \/ status[b] \in {"IN_PROGRESS", "COMPLETED"}
    IN  /\ \E n \in {0} \cup UNION {0 .. consumed[b][l] : l \in Lots} :
             /\ Started => n > 0
             /\ \A l \in Lots : consumed[b][l] = n * inputs[b][l]
        /\ status[b] = "COMPLETED" => outputs[b] > 0

\* A batch consumes its inputs exactly once, when it leaves DRAFT
\* (docs/DECISIONS.md:119, tests/test_milling.py:194).
ConsumedOnce(b) ==
  consumed[b] = IF status[b] \in {"IN_PROGRESS", "COMPLETED"} THEN inputs[b] ELSE NoItems

ConsumedExactlyOnce == \A b \in Documents : ConsumedOnce(b)

\* A batch on which no two requests overlap keeps that promise: a start that is repeated
\* after a crash, a refusal or a lost answer takes its paddy once, whatever requests on
\* other batches, overlapping ones included, do to the same lots in between.
SerialConsumedOnce == \A b \in SerialDocuments : ConsumedOnce(b)

Atomic == INSTANCE AtomicMilling
            WITH Documents <- SerialDocuments, Others <- Documents \ SerialDocuments,
                 status <- OnSerial(status), inputs <- OnSerial(inputs),
                 outputs <- OnSerial(outputs)

\* A batch whose requests do not overlap is atomic: it consumes its inputs once, whole
\* and when it starts, however its requests interleave with those on other batches
\* that draw on the same lots, also when these overlap.
ImplementsAtomic == Atomic!Spec
=============================================================================
