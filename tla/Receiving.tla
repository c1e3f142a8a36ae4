----------------------------- MODULE Receiving ------------------------------
(***************************************************************************)
(* modules/receiving/service.py and the government loads it moves on: a    *)
(* lorry arrives, is weighed, graded, and accepted or rejected.            *)
(*                                                                         *)
(* No row of a load is locked.  A handler reads statement by statement and *)
(* its writes appear together at its COMMIT; an UPDATE overwrites whatever *)
(* was committed since the handler loaded the row, and writes the status   *)
(* only if the handler changed it (SQLAlchemy's unit of work).             *)
(***************************************************************************)
EXTENDS Integers, Sequences, FiniteSets

CONSTANTS Sessions, Loads, NoLoad,
          MaxKg,             \* the heaviest net weight
          MaxWeighments,     \* a load weighed this often is not weighed again
          SerialLoads        \* loads on which no two requests overlap

ASSUME LoadAssumption    == NoLoad \notin Loads
ASSUME BoundsAssumption  == MaxKg \in Nat \ {0} /\ MaxWeighments \in Nat \ {0}
ASSUME SerialAssumption  == SerialLoads \subseteq Loads

VARIABLES status,    \* GovernmentLoad.status; ABSENT: no such load yet
          nets,      \* nets[l]: net_kg of the Weighment rows of l, oldest first
          final,     \* final[l]: the positions in nets[l] whose is_final is set
          graded,    \* a PaddyQuality row of the load exists
          lotQty,    \* quantity_kg of the PaddyLot of the load; 0: no lot
          received,  \* sum of the PADDY_RECEIPT movements with source l
          pc, target,
          view       \* view[s]: what the handler of s carries and has read

loadVars    == <<status, nets, final, graded, lotQty, received>>
sessionVars == <<pc, target, view>>
vars        == <<loadVars, sessionVars>>

Statuses == {"ABSENT", "DRAFT", "ARRIVED", "WEIGHED", "QC_PENDING", "ACCEPTED", "REJECTED"}
Steps    == {"idle", "arrive", "finals", "weigh", "quality", "grade", "weighment", "lot",
             "accept", "reject"}
Kg       == 0 .. MaxKg
View     == [status : Statuses, finals : SUBSET Nat, graded : BOOLEAN, kg : Kg]
NoView   == [status |-> "ABSENT", finals |-> {}, graded |-> FALSE, kg |-> 0]

TypeOK == /\ status   \in [Loads -> Statuses]
          /\ nets     \in [Loads -> Seq(1 .. MaxKg)]
          /\ final    \in [Loads -> SUBSET Nat]
          /\ graded   \in [Loads -> BOOLEAN]
          /\ lotQty   \in [Loads -> Kg]
          /\ received \in [Loads -> Nat]
          /\ pc       \in [Sessions -> Steps]
          /\ target   \in [Sessions -> Loads \cup {NoLoad}]
          /\ view     \in [Sessions -> View]
          /\ \A l \in Loads : final[l] \subseteq DOMAIN nets[l]

Init == /\ status   = [l \in Loads |-> "ABSENT"]
        /\ nets     = [l \in Loads |-> <<>>]
        /\ final    = [l \in Loads |-> {}]
        /\ graded   = [l \in Loads |-> FALSE]
        /\ lotQty   = [l \in Loads |-> 0]
        /\ received = [l \in Loads |-> 0]
        /\ pc       = [s \in Sessions |-> "idle"]
        /\ target   = [s \in Sessions |-> NoLoad]
        /\ view     = [s \in Sessions |-> NoView]

-----------------------------------------------------------------------------
(* A handler loads the row, checks the status it loaded, and goes on.        *)

Begin(s, l, step, kg) ==
  /\ pc[s] = "idle"
  /\ l \in SerialLoads => \A t \in Sessions : target[t] # l
  /\ pc'     = [pc EXCEPT ![s] = step]
  /\ target' = [target EXCEPT ![s] = l]
  /\ view'   = [view EXCEPT ![s] = [NoView EXCEPT !.status = status[l], !.kg = kg]]
  /\ UNCHANGED loadVars

Goto(s, step) == pc' = [pc EXCEPT ![s] = step] /\ UNCHANGED <<target, loadVars>>

EndRequest(s) == /\ pc'     = [pc EXCEPT ![s] = "idle"]
                 /\ target' = [target EXCEPT ![s] = NoLoad]
                 /\ view'   = [view EXCEPT ![s] = NoView]

\* The UPDATE of a handler that leaves the load in status st.
WriteStatus(s, st) ==
  status' = IF view[s].status = st THEN status ELSE [status EXCEPT ![target[s]] = st]

\* The transaction is rolled back: an error answer, a crash, a lost connection.
Abandon(s) == EndRequest(s) /\ UNCHANGED loadVars

-----------------------------------------------------------------------------
(* government/service.py: create_load inserts, mark_load_arrived             *)

CreateLoad(l) == /\ status[l] = "ABSENT"
                 /\ status' = [status EXCEPT ![l] = "DRAFT"]
                 /\ UNCHANGED <<nets, final, graded, lotQty, received, sessionVars>>

ArriveRequest(s, l) == status[l] = "DRAFT" /\ Begin(s, l, "arrive", 0)

CommitArrive(s) == /\ pc[s] = "arrive"
                   /\ WriteStatus(s, "ARRIVED")
                   /\ EndRequest(s)
                   /\ UNCHANGED <<nets, final, graded, lotQty, received>>

-----------------------------------------------------------------------------
(* record_weighment: read the final weighments, insert one that supersedes   *)
(* them.                                                                    *)

\* Mutant of WeighRequest: the gross weight may equal the tare.
WeighEmpty(s, l, kg) == /\ status[l] \in {"ARRIVED", "WEIGHED"}
                        /\ Len(nets[l]) < MaxWeighments
                        /\ Begin(s, l, "finals", kg)

WeighRequest(s, l, kg) == /\ status[l] \in {"ARRIVED", "WEIGHED"}
                          /\ kg > 0   \* gross_kg > tare_kg
                          /\ Len(nets[l]) < MaxWeighments
                          /\ Begin(s, l, "finals", kg)

ReadFinals(s) == /\ pc[s] = "finals"
                 /\ view' = [view EXCEPT ![s].finals = final[target[s]]]
                 /\ Goto(s, "weigh")

\* Mutant of CommitWeighment: the new row is flushed first and superseded too.
CommitSupersedingAll(s) ==
  /\ pc[s] = "weigh"
  /\ nets'  = [nets EXCEPT ![target[s]] = Append(@, view[s].kg)]
  /\ final' = [final EXCEPT ![target[s]] = @ \ view[s].finals]
  /\ WriteStatus(s, "WEIGHED")
  /\ EndRequest(s)
  /\ UNCHANGED <<graded, lotQty, received>>

CommitWeighment(s) ==
  /\ pc[s] = "weigh"
  /\ nets'  = [nets EXCEPT ![target[s]] = Append(@, view[s].kg)]
  /\ final' = [final EXCEPT ![target[s]] =
                 (@ \ view[s].finals) \cup {Len(nets[target[s]]) + 1}]
  /\ WriteStatus(s, "WEIGHED")
  /\ EndRequest(s)
  /\ UNCHANGED <<graded, lotQty, received>>

-----------------------------------------------------------------------------
(* record_paddy_quality: one row per load, inserted or updated               *)

QualityRequest(s, l) == /\ status[l] \in {"WEIGHED", "QC_PENDING"}
                        /\ Begin(s, l, "quality", 0)

ReadQuality(s) == /\ pc[s] = "quality"
                  /\ view' = [view EXCEPT ![s].graded = graded[target[s]]]
                  /\ Goto(s, "grade")

\* The INSERT of a second row for the load breaks the unique load_id.
InsertsTwice(s) == graded[target[s]] /\ ~ view[s].graded

CommitQuality(s) == /\ pc[s] = "grade"
                    /\ ~ InsertsTwice(s)
                    /\ graded' = [graded EXCEPT ![target[s]] = TRUE]
                    /\ WriteStatus(s, "QC_PENDING")
                    /\ EndRequest(s)
                    /\ UNCHANGED <<nets, final, lotQty, received>>

-----------------------------------------------------------------------------
(* accept_load: the one final weighment, no lot yet; then the lot, its stock *)
(* movement and the status in one commit.                                   *)

\* Mutant of AcceptRequest: a weighed load need not be graded.
AcceptUngraded(s, l) == /\ status[l] \in {"WEIGHED", "QC_PENDING"}
                        /\ Begin(s, l, "weighment", 0)

AcceptRequest(s, l) == status[l] = "QC_PENDING" /\ Begin(s, l, "weighment", 0)

\* scalar_one_or_none raises if there are two.
ReadWeighment(s) == /\ pc[s] = "weighment"
                    /\ \E i \in final[target[s]] :
                         /\ final[target[s]] = {i}
                         /\ view' = [view EXCEPT ![s].kg = nets[target[s]][i]]
                    /\ Goto(s, "lot")

ReadLot(s) == /\ pc[s] = "lot"
              /\ lotQty[target[s]] = 0
              /\ Goto(s, "accept")
              /\ UNCHANGED view

\* Mutant of CommitAccept: no unique load_id on the paddy lots.
CommitAcceptAgain(s) ==
  /\ pc[s] = "accept"
  /\ lotQty'   = [lotQty EXCEPT ![target[s]] = view[s].kg]
  /\ received' = [received EXCEPT ![target[s]] = @ + view[s].kg]
  /\ WriteStatus(s, "ACCEPTED")
  /\ EndRequest(s)
  /\ UNCHANGED <<nets, final, graded>>

\* Mutant of CommitAccept: the status is not written.
CommitAcceptWithoutStatus(s) ==
  /\ pc[s] = "accept"
  /\ lotQty[target[s]] = 0
  /\ lotQty'   = [lotQty EXCEPT ![target[s]] = view[s].kg]
  /\ received' = [received EXCEPT ![target[s]] = @ + view[s].kg]
  /\ EndRequest(s)
  /\ UNCHANGED <<status, nets, final, graded>>

CommitAccept(s) ==
  /\ pc[s] = "accept"
  /\ lotQty[target[s]] = 0
  /\ lotQty'   = [lotQty EXCEPT ![target[s]] = view[s].kg]
  /\ received' = [received EXCEPT ![target[s]] = @ + view[s].kg]
  /\ WriteStatus(s, "ACCEPTED")
  /\ EndRequest(s)
  /\ UNCHANGED <<nets, final, graded>>

-----------------------------------------------------------------------------
(* reject_load                                                              *)

RejectRequest(s, l) == status[l] = "QC_PENDING" /\ Begin(s, l, "reject", 0)

CommitReject(s) == /\ pc[s] = "reject"
                   /\ WriteStatus(s, "REJECTED")
                   /\ EndRequest(s)
                   /\ UNCHANGED <<nets, final, graded, lotQty, received>>

-----------------------------------------------------------------------------
\* The statements that end a request with an error answer.
Refuse(s) == /\ \/ pc[s] = "grade" /\ InsertsTwice(s)
                \/ pc[s] = "weighment" /\ Cardinality(final[target[s]]) # 1
                \/ pc[s] \in {"lot", "accept"} /\ lotQty[target[s]] # 0
             /\ Abandon(s)

Crash(s) == pc[s] # "idle" /\ Abandon(s)

Request(s, l) == \/ ArriveRequest(s, l)
                 \/ \E kg \in Kg : WeighRequest(s, l, kg)
                 \/ QualityRequest(s, l)
                 \/ AcceptRequest(s, l)
                 \/ RejectRequest(s, l)

Progress(s) == \/ CommitArrive(s)
               \/ ReadFinals(s)
               \/ CommitWeighment(s)
               \/ ReadQuality(s)
               \/ CommitQuality(s)
               \/ ReadWeighment(s)
               \/ ReadLot(s)
               \/ CommitAccept(s)
               \/ CommitReject(s)
               \/ Refuse(s)

Next == \/ \E l \in Loads : CreateLoad(l)
        \/ \E s \in Sessions, l \in Loads : Request(s, l)
        \/ \E s \in Sessions : Progress(s) \/ Crash(s)

Spec == Init /\ [][Next]_vars

-----------------------------------------------------------------------------
(* Properties                                                               *)

\* However requests race, a load enters stock once: what the ledger received from it
\* is its one paddy lot.
ReceivedOnce == \A l \in Loads : received[l] = lotQty[l]

\* An accepted load has a lot, and a lot only comes from a load that was graded, with
\* a weight some weighment of the load measured (docs/BUSINESS-FLOW.md:94-95).
LotWasWeighedAndGraded ==
  \A l \in Loads :
    /\ status[l] = "ACCEPTED" => lotQty[l] > 0
    /\ lotQty[l] > 0 => graded[l] /\ \E i \in DOMAIN nets[l] : lotQty[l] = nets[l][i]

\* Superseding never leaves a weighed load without an authoritative weighment.
SomeFinalWeighment == \A l \in Loads : nets[l] # <<>> => final[l] # {}

\* The authoritative weighment is exactly one per load (receiving/models.py:53-54).
ExactlyOneFinal == \A l \in Loads : nets[l] # <<>> => Cardinality(final[l]) = 1

OnSerial(f) == [l \in SerialLoads |-> f[l]]

Atomic == INSTANCE AtomicReceiving
            WITH Loads <- SerialLoads, status <- OnSerial(status), nets <- OnSerial(nets),
                 graded <- OnSerial(graded), lotQty <- OnSerial(lotQty),
                 received <- OnSerial(received)

\* Requests on one load that do not overlap take effect one at a time: the lot has the
\* weight of the last weighment and nothing of a load changes once it is accepted.
ImplementsAtomic == Atomic!Spec
=============================================================================
