---------------------------- MODULE RiceQuality -----------------------------
(***************************************************************************)
(* modules/rice/service.py: the quality decision on a milled output, which *)
(* turns it into a rice lot with stock, or keeps it out of stock.  An       *)
(* output has at most one lot (rice_lots.output_id is unique), so lot l is *)
(* the one that output l becomes.  The status of the decision is read       *)
(* without a lock and written over whatever it has become.                 *)
(***************************************************************************)
EXTENDS LotRequests

CONSTANT SerialOutputs  \* outputs on which no two quality decisions overlap

ASSUME SerialOutputsAssumption == SerialOutputs \subseteq Lots

VARIABLES output,   \* quantity_kg of the RiceProductionOutput row; 0: not milled yet
          quality   \* RiceQuality.status of the output; ABSENT: not milled yet

riceVars == <<output, quality>>

QualityStatuses == {"ABSENT", "PENDING", "PASSED", "FAILED"}

RiceTypeOK == /\ output  \in [Lots -> Kg]
              /\ quality \in [Lots -> QualityStatuses]

RiceInit == /\ output  = NoItems
            /\ quality = [l \in Lots |-> "ABSENT"]

\* record_production, seen from here: an output row and its PENDING decision, one commit.
ProduceOutput(l, q) == /\ quality[l] = "ABSENT"
                       /\ output'  = [output EXCEPT ![l] = q]
                       /\ quality' = [quality EXCEPT ![l] = "PENDING"]
                       /\ UNCHANGED lotVars

\* The request that decides on output l carries the quantity it has read of it.
Weighed(l)  == [NoItems EXCEPT ![l] = output[l]]
Deciding(l) == {s \in Sessions : pc[s] \in {"pass", "fail"} /\ l \in Used(plan[s])}

DecisionRequest(s, l, step) ==
  /\ quality[l] = "PENDING"
  /\ l \in SerialOutputs => Deciding(l) = {}
  /\ Begin(s, NoDocument, step, Weighed(l), {})
  /\ UNCHANGED riceVars

\* pass_quality reads the status, then that there is no lot.  One step: lots are never
\* deleted, so what the second read finds absent was absent at the first.
PassRequest(s, l) == lotQty[l] = 0 /\ DecisionRequest(s, l, "pass")

FailRequest(s, l) == DecisionRequest(s, l, "fail")

\* Mutant of CommitPass: no unique constraint on rice_lots.output_id.
CommitPassAgain(s) ==
  /\ pc[s] = "pass"
  /\ \E l \in Used(plan[s]) :
       /\ quality' = [quality EXCEPT ![l] = "PASSED"]
       /\ lotQty'  = [lotQty EXCEPT ![l] = plan[s][l]]
       /\ stock'   = [stock EXCEPT ![l] = @ + plan[s][l]]
  /\ EndRequest(s)
  /\ UNCHANGED <<output, posted>>

\* The decision, the lot and its movement are one commit; the unique output_id of
\* rice_lots lets one pass of an output through.
CommitPass(s) ==
  /\ pc[s] = "pass"
  /\ \E l \in Used(plan[s]) : /\ quality' = [quality EXCEPT ![l] = "PASSED"]
                              /\ ReceiveLot(l, plan[s][l])
  /\ EndRequest(s)
  /\ UNCHANGED output

RefusePass(s) == /\ pc[s] = "pass"
                 /\ \E l \in Used(plan[s]) : lotQty[l] # 0
                 /\ Abandon(s)
                 /\ UNCHANGED riceVars

\* Mutant of CommitFail: the lot is made before the decision is looked at.
CommitFailWithLot(s) ==
  /\ pc[s] = "fail"
  /\ \E l \in Used(plan[s]) : /\ quality' = [quality EXCEPT ![l] = "FAILED"]
                              /\ ReceiveLot(l, plan[s][l])
  /\ EndRequest(s)
  /\ UNCHANGED output

CommitFail(s) ==
  /\ pc[s] = "fail"
  /\ \E l \in Used(plan[s]) : quality' = [quality EXCEPT ![l] = "FAILED"]
  /\ Finish(s)
  /\ UNCHANGED output

-----------------------------------------------------------------------------
\* Rice that passed is in the books: an output that passed, and whose decision has not
\* been overwritten since, has a lot of just its quantity, and no lot has another one.
PassedIsLot ==
  \A l \in Lots : /\ lotQty[l] \in {0, output[l]}
                  /\ quality[l] = "PASSED" => lotQty[l] = output[l] /\ output[l] > 0

\* Decisions on one output that do not overlap exclude each other: rice that failed has
\* no lot, hence no stock.
FailedHasNoLot == \A l \in SerialOutputs : quality[l] = "FAILED" => lotQty[l] = 0

\* What is in stock is what was decided.
QualityDecides == PassedIsLot /\ FailedHasNoLot
=============================================================================
