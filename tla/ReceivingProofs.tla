-------------------------- MODULE ReceivingProofs ---------------------------
(***************************************************************************)
(* A load enters stock once, graded and with a weight that was measured,   *)
(* for any number of sessions and loads and whatever requests overlap.     *)
(*                                                                         *)
(* The handler of an acceptance acts on what it has read long before.  It  *)
(* is right all the same because what it read never becomes false: a load  *)
(* stays graded, its weighments are kept, and the unique key of the lot    *)
(* decides at the commit.                                                  *)
(*                                                                         *)
(* Where the requests on a load do not overlap they take effect one after  *)
(* the other: what such a request has read is still so when it commits.    *)
(***************************************************************************)
EXTENDS Receiving, TLAPS

\* A load awaiting the decision on its quality has been graded.
Graded == \A l \in Loads : status[l] = "QC_PENDING" => graded[l]

\* What a handler relies on from one statement to the next.
Relies ==
  \A s \in Sessions :
    /\ pc[s] # "idle" => target[s] \in Loads
    /\ pc[s] \in {"finals", "weigh"} => view[s].kg > 0
    /\ pc[s] \in {"weighment", "lot", "accept"} => graded[target[s]]
    /\ pc[s] \in {"lot", "accept"} =>
         \E i \in DOMAIN nets[target[s]] : view[s].kg = nets[target[s]][i]

Weighed == /\ TypeOK /\ Graded /\ Relies
           /\ ReceivedOnce /\ LotWasWeighedAndGraded /\ SomeFinalWeighment

-----------------------------------------------------------------------------
\* Before the first request nothing is weighed, graded or in stock.
LEMMA InitWeighed == Init => Weighed
<1> SUFFICES ASSUME Init
             PROVE  Weighed
  OBVIOUS
<1>1. TypeOK
  <2>1. NoView \in View
    BY BoundsAssumption DEF NoView, View, Statuses, Kg
  <2>2. nets \in [Loads -> Seq(1 .. MaxKg)]
    BY DEF Init
  <2> QED
    BY <2>1, <2>2, BoundsAssumption DEF Init, TypeOK, Statuses, Steps, Kg
<1>2. Graded /\ Relies /\ ReceivedOnce /\ LotWasWeighedAndGraded /\ SomeFinalWeighment
  BY DEF Init, Graded, Relies, ReceivedOnce, LotWasWeighedAndGraded, SomeFinalWeighment
<1> QED
  BY <1>1, <1>2 DEF Weighed

\* Ending a request keeps the types of the sessions and asks nothing of the loads.
LEMMA EndRequestType ==
  ASSUME TypeOK, NEW s \in Sessions, EndRequest(s)
  PROVE  /\ pc'     \in [Sessions -> Steps]
         /\ target' \in [Sessions -> Loads \cup {NoLoad}]
         /\ view'   \in [Sessions -> View]
         /\ pc'[s] = "idle"
         /\ \A t \in Sessions \ {s} : /\ pc'[t] = pc[t]
                                      /\ target'[t] = target[t]
                                      /\ view'[t] = view[t]
<1>1. NoView \in View
  BY BoundsAssumption DEF NoView, View, Statuses, Kg
<1> QED
  BY <1>1 DEF TypeOK, EndRequest, Steps

\* What the other sessions rely on is not disturbed by the end of a request.
LEMMA EndKeepsRelies ==
  ASSUME TypeOK, Relies, NEW s \in Sessions, EndRequest(s), UNCHANGED nets,
         \A l \in Loads : graded[l] => graded'[l]
  PROVE  Relies'
<1> SUFFICES ASSUME NEW t \in Sessions
             PROVE  /\ pc'[t] # "idle" => target'[t] \in Loads
                    /\ pc'[t] \in {"finals", "weigh"} => view'[t].kg > 0
                    /\ pc'[t] \in {"weighment", "lot", "accept"} => graded'[target'[t]]
                    /\ pc'[t] \in {"lot", "accept"} =>
                         \E i \in DOMAIN nets'[target'[t]] : view'[t].kg = nets'[target'[t]][i]
  BY DEF Relies
<1>1. CASE t = s
  BY <1>1, EndRequestType
<1>2. CASE t # s
  <2>1. pc'[t] = pc[t] /\ target'[t] = target[t] /\ view'[t] = view[t]
    BY <1>2, EndRequestType
  <2> QED
    BY <2>1 DEF Relies
<1> QED
  BY <1>1, <1>2

\* An UPDATE writes at most the status of the handler's own load.
LEMMA WriteStatusType ==
  ASSUME TypeOK, NEW s \in Sessions, NEW st \in Statuses, WriteStatus(s, st)
  PROVE  /\ status' \in [Loads -> Statuses]
         /\ \A l \in Loads : \/ status'[l] = status[l]
                             \/ l = target[s] /\ status'[l] = st
BY DEF TypeOK, WriteStatus

\* A request that ends without a commit.
LEMMA AbandonKeepsWeighed ==
  ASSUME Weighed, NEW s \in Sessions, Abandon(s)
  PROVE  Weighed'
<1>1. TypeOK'
  BY EndRequestType DEF Weighed, TypeOK, Abandon, loadVars
<1>2. Relies'
  BY EndRequestType DEF Weighed, Abandon, Relies, loadVars
<1>3. (Graded /\ ReceivedOnce /\ LotWasWeighedAndGraded /\ SomeFinalWeighment)'
  BY DEF Weighed, Abandon, loadVars, Graded, ReceivedOnce, LotWasWeighedAndGraded,
         SomeFinalWeighment
<1> QED
  BY <1>1, <1>2, <1>3 DEF Weighed

\* A request that moves the load to a state without a lot.
LEMMA MoveKeepsWeighed ==
  ASSUME Weighed, NEW s \in Sessions, NEW st \in {"ARRIVED", "REJECTED"},
         WriteStatus(s, st), EndRequest(s),
         UNCHANGED <<nets, final, graded, lotQty, received>>
  PROVE  Weighed'
<1> st \in Statuses
  BY DEF Statuses
<1>1. TypeOK'
  BY EndRequestType, WriteStatusType DEF Weighed, TypeOK
<1>2. Relies'
  BY EndRequestType DEF Weighed, Relies
<1>3. Graded' /\ LotWasWeighedAndGraded'
  BY WriteStatusType DEF Weighed, Graded, LotWasWeighedAndGraded
<1>4. ReceivedOnce' /\ SomeFinalWeighment'
  BY DEF Weighed, ReceivedOnce, SomeFinalWeighment
<1> QED
  BY <1>1, <1>2, <1>3, <1>4 DEF Weighed

\* A handler that found the status it asks for starts to work.
LEMMA BeginKeepsWeighed ==
  ASSUME Weighed, NEW s \in Sessions, NEW l \in Loads, NEW step \in Steps \ {"idle"},
         NEW kg \in Kg, Begin(s, l, step, kg),
         step \notin {"lot", "accept"},
         step \in {"finals", "weigh"} => kg > 0,
         step = "weighment" => status[l] = "QC_PENDING"
  PROVE  Weighed'
<1> USE DEF Weighed, Begin, loadVars
<1>1. [NoView EXCEPT !.status = status[l], !.kg = kg] \in View
  BY BoundsAssumption DEF TypeOK, NoView, View, Statuses, Kg
<1>2. TypeOK'
  BY <1>1 DEF TypeOK
<1>3. Relies'
  <2>1. [NoView EXCEPT !.status = status[l], !.kg = kg].kg = kg
    BY DEF NoView
  <2> QED
    BY <2>1 DEF TypeOK, Relies, Graded
<1>4. (Graded /\ ReceivedOnce /\ LotWasWeighedAndGraded /\ SomeFinalWeighment)'
  BY DEF Graded, ReceivedOnce, LotWasWeighedAndGraded, SomeFinalWeighment
<1> QED
  BY <1>2, <1>3, <1>4

\* A statement that only reads.
LEMMA ReadKeepsWeighed ==
  ASSUME Weighed, NEW s \in Sessions,
         ReadFinals(s) \/ ReadQuality(s) \/ ReadWeighment(s) \/ ReadLot(s)
  PROVE  Weighed'
<1> USE DEF Weighed, loadVars, Goto
<1> DEFINE From == {"finals", "quality", "weighment", "lot"}
<1>1. /\ pc[s] \in From
      /\ pc' \in [Sessions -> Steps]
      /\ \A t \in Sessions \ {s} : pc'[t] = pc[t] /\ view'[t] = view[t]
      /\ UNCHANGED <<target, status, nets, final, graded, lotQty, received>>
  BY DEF TypeOK, Steps, ReadFinals, ReadQuality, ReadWeighment, ReadLot
<1>2. target[s] \in Loads
  BY <1>1 DEF Relies
<1>3. view' \in [Sessions -> View]
  <2>1. CASE ReadFinals(s)
    <3>1. final[target[s]] \in SUBSET Nat
      BY <1>2 DEF TypeOK
    <3> QED
      BY <2>1, <3>1 DEF TypeOK, View, ReadFinals
  <2>2. CASE ReadQuality(s)
    <3>1. graded[target[s]] \in BOOLEAN
      BY <1>2 DEF TypeOK
    <3> QED
      BY <2>2, <3>1 DEF TypeOK, View, ReadQuality
  <2>3. CASE ReadWeighment(s)
    <3>1. PICK i \in final[target[s]] : view' = [view EXCEPT ![s].kg = nets[target[s]][i]]
      BY <2>3 DEF ReadWeighment
    <3>2. nets[target[s]] \in Seq(1 .. MaxKg) /\ i \in DOMAIN nets[target[s]]
      BY <1>2, <3>1 DEF TypeOK
    <3>3. nets[target[s]][i] \in Kg
      BY <3>2, BoundsAssumption DEF Kg
    <3> QED
      BY <3>1, <3>3 DEF TypeOK, View
  <2>4. CASE ReadLot(s)
    BY <2>4 DEF TypeOK, ReadLot
  <2> QED
    BY <2>1, <2>2, <2>3, <2>4
<1>4. TypeOK'
  BY <1>1, <1>3 DEF TypeOK
<1>5. Relies'
  <2>1. CASE ReadFinals(s)
    BY <2>1, <1>1 DEF TypeOK, Relies, ReadFinals, View
  <2>2. CASE ReadQuality(s)
    BY <2>2, <1>1 DEF TypeOK, Relies, ReadQuality, View
  <2>3. CASE ReadWeighment(s)
    <3>1. PICK i \in final[target[s]] : view' = [view EXCEPT ![s].kg = nets[target[s]][i]]
      BY <2>3 DEF ReadWeighment
    <3>2. i \in DOMAIN nets[target[s]]
      BY <1>2, <3>1 DEF TypeOK
    <3>3. view'[s].kg = nets[target[s]][i]
      BY <3>1 DEF TypeOK, View
    <3> QED
      BY <2>3, <1>1, <3>2, <3>3 DEF TypeOK, Relies, ReadWeighment
  <2>4. CASE ReadLot(s)
    BY <2>4, <1>1 DEF TypeOK, Relies, ReadLot
  <2> QED
    BY <2>1, <2>2, <2>3, <2>4
<1>6. (Graded /\ ReceivedOnce /\ LotWasWeighedAndGraded /\ SomeFinalWeighment)'
  BY <1>1 DEF Graded, ReceivedOnce, LotWasWeighedAndGraded, SomeFinalWeighment
<1> QED
  BY <1>4, <1>5, <1>6

-----------------------------------------------------------------------------
(* The commits                                                              *)

\* A weighment is appended: those that were measured before stay where they are.
LEMMA WeighmentKeepsWeighed ==
  ASSUME Weighed, NEW s \in Sessions, CommitWeighment(s)
  PROVE  Weighed'
<1> USE DEF Weighed, CommitWeighment
<1> DEFINE l == target[s]
<1>1. l \in Loads /\ view[s].kg \in 1 .. MaxKg /\ "WEIGHED" \in Statuses
  <2>1. view[s].kg \in Kg /\ view[s].kg > 0 /\ l \in Loads
    BY DEF TypeOK, View, Relies
  <2> QED
    BY <2>1, BoundsAssumption DEF Kg, Statuses
<1>2. /\ nets[l] \in Seq(1 .. MaxKg)
      /\ final[l] \in SUBSET Nat
      /\ final[l] \subseteq DOMAIN nets[l]
  BY <1>1 DEF TypeOK
<1> DEFINE longer == Append(nets[l], view[s].kg)
<1>3. /\ longer \in Seq(1 .. MaxKg)
      /\ Len(longer) = Len(nets[l]) + 1
      /\ Len(longer) \in Nat
      /\ DOMAIN longer = DOMAIN nets[l] \cup {Len(longer)}
      /\ \A i \in DOMAIN nets[l] : longer[i] = nets[l][i]
  BY <1>1, <1>2
<1>4. /\ nets'[l] = longer
      /\ final'[l] = (final[l] \ view[s].finals) \cup {Len(longer)}
      /\ \A m \in Loads \ {l} : nets'[m] = nets[m] /\ final'[m] = final[m]
  BY <1>1, <1>3 DEF TypeOK
<1>5. TypeOK'
  <2>1. nets' \in [Loads -> Seq(1 .. MaxKg)]
    BY <1>1, <1>3 DEF TypeOK
  <2>2. final' \in [Loads -> SUBSET Nat]
    <3>1. (final[l] \ view[s].finals) \cup {Len(nets[l]) + 1} \in SUBSET Nat
      BY <1>2, <1>3
    <3> QED
      BY <3>1 DEF TypeOK
  <2>3. \A m \in Loads : final'[m] \subseteq DOMAIN nets'[m]
    BY <1>2, <1>3, <1>4 DEF TypeOK
  <2> QED
    BY <2>1, <2>2, <2>3, <1>1, EndRequestType, WriteStatusType DEF TypeOK
<1>6. \A m \in Loads : \A i \in DOMAIN nets[m] : i \in DOMAIN nets'[m] /\ nets'[m][i] = nets[m][i]
  BY <1>3, <1>4
<1>7. Relies'
  BY <1>6, EndRequestType DEF Relies
<1>8. Graded' /\ ReceivedOnce'
  BY <1>1, WriteStatusType DEF Graded, ReceivedOnce
<1>9. LotWasWeighedAndGraded'
  BY <1>1, <1>6, WriteStatusType DEF LotWasWeighedAndGraded
<1>10. SomeFinalWeighment'
  BY <1>4 DEF SomeFinalWeighment
<1> QED
  BY <1>5, <1>7, <1>8, <1>9, <1>10

\* Grading only ever adds a quality row.
LEMMA QualityKeepsWeighed ==
  ASSUME Weighed, NEW s \in Sessions, CommitQuality(s)
  PROVE  Weighed'
<1> USE DEF Weighed, CommitQuality
<1>1. target[s] \in Loads /\ "QC_PENDING" \in Statuses
  BY DEF Relies, Statuses
<1>2. TypeOK'
  BY <1>1, EndRequestType, WriteStatusType DEF TypeOK
<1>3. Relies'
  <2>1. \A l \in Loads : graded[l] => graded'[l]
    BY DEF TypeOK
  <2> QED
    BY <2>1, EndKeepsRelies
<1>4. Graded' /\ LotWasWeighedAndGraded'
  BY <1>1, WriteStatusType DEF TypeOK, Graded, LotWasWeighedAndGraded
<1>5. ReceivedOnce' /\ SomeFinalWeighment'
  BY DEF ReceivedOnce, SomeFinalWeighment
<1> QED
  BY <1>2, <1>3, <1>4, <1>5

\* The unique key of the lot lets one acceptance through.
LEMMA AcceptKeepsWeighed ==
  ASSUME Weighed, NEW s \in Sessions, CommitAccept(s)
  PROVE  Weighed'
<1> USE DEF Weighed, CommitAccept
<1> DEFINE l == target[s]
<1>1. l \in Loads /\ graded[l] /\ "ACCEPTED" \in Statuses
  BY DEF Relies, Statuses
<1>2. PICK i \in DOMAIN nets[l] : view[s].kg = nets[l][i]
  BY DEF Relies
<1>3. view[s].kg \in Kg /\ view[s].kg > 0
  BY <1>1, <1>2, BoundsAssumption DEF TypeOK, Kg
<1>4. received[l] = 0 /\ received'[l] = view[s].kg /\ lotQty'[l] = view[s].kg
  BY <1>1, <1>3 DEF TypeOK, ReceivedOnce, Kg
<1>5. TypeOK'
  <2>1. lotQty' \in [Loads -> Kg]
    BY <1>3 DEF TypeOK
  <2>2. received' \in [Loads -> Nat]
    <3>1. received[l] + view[s].kg \in Nat
      BY <1>1, <1>3, BoundsAssumption DEF TypeOK, Kg
    <3> QED
      BY <3>1 DEF TypeOK
  <2> QED
    BY <2>1, <2>2, <1>1, EndRequestType, WriteStatusType DEF TypeOK
<1>6. Relies'
  BY EndKeepsRelies
<1>7. Graded'
  BY <1>1, WriteStatusType DEF Graded
<1>8. ReceivedOnce'
  BY <1>4 DEF TypeOK, ReceivedOnce
<1>9. LotWasWeighedAndGraded'
  <2>1. ASSUME NEW m \in Loads, m # l
        PROVE  status'[m] = status[m] /\ lotQty'[m] = lotQty[m]
    BY <2>1, <1>1, WriteStatusType DEF TypeOK
  <2> QED
    BY <2>1, <1>1, <1>2, <1>3, <1>4 DEF LotWasWeighedAndGraded
<1>10. SomeFinalWeighment'
  BY DEF SomeFinalWeighment
<1> QED
  BY <1>5, <1>6, <1>7, <1>8, <1>9, <1>10

\* A new load has no rows yet.
LEMMA CreateKeepsWeighed ==
  ASSUME Weighed, NEW l \in Loads, CreateLoad(l)
  PROVE  Weighed'
<1> USE DEF Weighed, CreateLoad, sessionVars
<1>1. TypeOK'
  BY DEF TypeOK, Statuses
<1>2. (Graded /\ Relies /\ ReceivedOnce /\ LotWasWeighedAndGraded /\ SomeFinalWeighment)'
  BY DEF TypeOK, Graded, Relies, ReceivedOnce, LotWasWeighedAndGraded, SomeFinalWeighment
<1> QED
  BY <1>1, <1>2

-----------------------------------------------------------------------------
\* Every step of receiving keeps the invariant.
LEMMA NextKeepsWeighed ==
  ASSUME Weighed, [Next]_vars
  PROVE  Weighed'
<1>1. ASSUME NEW l \in Loads, CreateLoad(l)
      PROVE  Weighed'
  BY <1>1, CreateKeepsWeighed
<1>2. ASSUME NEW s \in Sessions, NEW l \in Loads, Request(s, l)
      PROVE  Weighed'
  <2> 0 \in Kg
    BY BoundsAssumption DEF Kg
  <2>1. CASE ArriveRequest(s, l)
    BY <2>1, BeginKeepsWeighed DEF ArriveRequest, Steps
  <2>2. ASSUME NEW kg \in Kg, WeighRequest(s, l, kg)
        PROVE  Weighed'
    BY <2>2, BeginKeepsWeighed DEF WeighRequest, Steps
  <2>3. CASE QualityRequest(s, l)
    BY <2>3, BeginKeepsWeighed DEF QualityRequest, Steps
  <2>4. CASE AcceptRequest(s, l)
    BY <2>4, BeginKeepsWeighed DEF AcceptRequest, Steps
  <2>5. CASE RejectRequest(s, l)
    BY <2>5, BeginKeepsWeighed DEF RejectRequest, Steps
  <2> QED
    BY <1>2, <2>1, <2>2, <2>3, <2>4, <2>5 DEF Request
<1>3. ASSUME NEW s \in Sessions, Progress(s)
      PROVE  Weighed'
  <2>1. CASE CommitArrive(s)
    BY <2>1, MoveKeepsWeighed DEF CommitArrive
  <2>2. CASE CommitReject(s)
    BY <2>2, MoveKeepsWeighed DEF CommitReject
  <2>3. CASE ReadFinals(s) \/ ReadQuality(s) \/ ReadWeighment(s) \/ ReadLot(s)
    BY <2>3, ReadKeepsWeighed
  <2>4. CASE CommitWeighment(s)
    BY <2>4, WeighmentKeepsWeighed
  <2>5. CASE CommitQuality(s)
    BY <2>5, QualityKeepsWeighed
  <2>6. CASE CommitAccept(s)
    BY <2>6, AcceptKeepsWeighed
  <2>7. CASE Refuse(s)
    BY <2>7, AbandonKeepsWeighed DEF Refuse
  <2> QED
    BY <1>3, <2>1, <2>2, <2>3, <2>4, <2>5, <2>6, <2>7 DEF Progress
<1>4. ASSUME NEW s \in Sessions, Crash(s)
      PROVE  Weighed'
  BY <1>4, AbandonKeepsWeighed DEF Crash
<1>5. CASE UNCHANGED vars
  BY <1>5 DEF vars, loadVars, sessionVars, Weighed, TypeOK, Graded, Relies, ReceivedOnce,
              LotWasWeighedAndGraded, SomeFinalWeighment
<1> QED
  BY <1>1, <1>2, <1>3, <1>4, <1>5 DEF Next

-----------------------------------------------------------------------------
\* What handlers rely on holds in every reachable state.
LEMMA WeighedStays == Spec => []Weighed
<1>1. Init => Weighed
  BY InitWeighed
<1>2. Weighed /\ [Next]_vars => Weighed'
  BY NextKeepsWeighed
<1> QED
  BY <1>1, <1>2, PTL DEF Spec

\* Every behaviour of receiving keeps its types (modules/receiving/service.py).
THEOREM TypeCorrect == Spec => []TypeOK
<1>1. Weighed => TypeOK
  BY DEF Weighed
<1> QED
  BY <1>1, WeighedStays, PTL

\* Whatever acceptances overlap, the ledger receives a load once, as its one paddy lot
\* (accept_load, modules/receiving/service.py:173).
THEOREM EntersStockOnce == Spec => []ReceivedOnce
<1>1. Weighed => ReceivedOnce
  BY DEF Weighed
<1> QED
  BY <1>1, WeighedStays, PTL

\* No order of stale requests brings a load into stock ungraded or with a weight that no
\* weighment measured (accept_load, modules/receiving/service.py:182-195).
THEOREM LotsAreWeighedAndGraded == Spec => []LotWasWeighedAndGraded
<1>1. Weighed => LotWasWeighedAndGraded
  BY DEF Weighed
<1> QED
  BY <1>1, WeighedStays, PTL

\* Superseding weighments never leaves a weighed load without a final one
\* (record_weighment, modules/receiving/service.py:68-85).
THEOREM FinalWeighmentStays == Spec => []SomeFinalWeighment
<1>1. Weighed => SomeFinalWeighment
  BY DEF Weighed
<1> QED
  BY <1>1, WeighedStays, PTL

-----------------------------------------------------------------------------
(* A load in SerialLoads is atomic: Receiving implements AtomicReceiving,    *)
(* whatever requests overlap on the other loads.                             *)

\* Two requests never have the same serial load as their target.
Alone == \A s, t \in Sessions :
           target[s] = target[t] /\ target[s] \in SerialLoads => s = t

\* What a handler has read of a serial load is still so.
Current(s) ==
  LET l == target[s] IN
  /\ view[s].status = status[l]
  /\ pc[s] = "arrive" => status[l] = "DRAFT"
  /\ pc[s] \in {"finals", "weigh"} => status[l] \in {"ARRIVED", "WEIGHED"}
  /\ pc[s] \in {"quality", "grade"} => status[l] \in {"WEIGHED", "QC_PENDING"}
  /\ pc[s] \in {"weighment", "lot", "accept", "reject"} => status[l] = "QC_PENDING"
  /\ pc[s] = "weigh" => view[s].finals = final[l]
  /\ pc[s] \in {"lot", "accept"} => view[s].kg = nets[l][Len(nets[l])]

SessionOK(s) == /\ pc[s] = "idle" <=> target[s] = NoLoad
                /\ target[s] \in SerialLoads => Current(s)

\* The last weighment of a serial load is the final one.
LastIsFinal == \A l \in SerialLoads : final[l] \subseteq {Len(nets[l])}

Serial == /\ Weighed
          /\ Alone
          /\ \A s \in Sessions : SessionOK(s)
          /\ LastIsFinal

LEMMA NullIsNotSerial == NoLoad \notin SerialLoads
BY LoadAssumption, SerialAssumption

LEMMA InitSerial == Init => Serial
<1> SUFFICES ASSUME Init PROVE Serial
  OBVIOUS
<1>1. Weighed
  BY InitWeighed
<1>2. Alone /\ (\A s \in Sessions : SessionOK(s)) /\ LastIsFinal
  BY NullIsNotSerial, SerialAssumption DEF Init, Alone, SessionOK, LastIsFinal
<1> QED
  BY <1>1, <1>2 DEF Serial

\* A step of s reaches no other load than its target, and no other session.
OnlyTarget(s) ==
  /\ \A l \in Loads \ {target[s]} : /\ status'[l] = status[l] /\ nets'[l] = nets[l]
                                    /\ final'[l] = final[l] /\ graded'[l] = graded[l]
                                    /\ lotQty'[l] = lotQty[l] /\ received'[l] = received[l]
  /\ \A t \in Sessions \ {s} : pc'[t] = pc[t] /\ target'[t] = target[t] /\ view'[t] = view[t]

LEMMA OthersOK ==
  ASSUME Serial, NEW s \in Sessions, OnlyTarget(s)
  PROVE  \A t \in Sessions \ {s} : SessionOK(t)'
<1> TAKE t \in Sessions \ {s}
<1>1. SessionOK(t)
  BY DEF Serial
<1>2. target[t] \in SerialLoads => target[t] \in Loads \ {target[s]}
  BY SerialAssumption DEF Serial, Alone
<1>3. pc'[t] = pc[t] /\ target'[t] = target[t] /\ view'[t] = view[t]
  BY DEF OnlyTarget
<1>4. target[t] \in SerialLoads => /\ status'[target[t]] = status[target[t]]
                                   /\ nets'[target[t]] = nets[target[t]]
                                   /\ final'[target[t]] = final[target[t]]
  BY <1>2 DEF OnlyTarget
<1> QED
  BY <1>1, <1>3, <1>4 DEF SessionOK, Current

\* Every commit writes rows of the load of its request only.
LEMMA CommitReaches ==
  ASSUME Weighed, NEW s \in Sessions,
         \/ CommitArrive(s) \/ CommitWeighment(s) \/ CommitQuality(s)
         \/ CommitAccept(s) \/ CommitReject(s)
  PROVE  target[s] \in Loads /\ EndRequest(s) /\ OnlyTarget(s)
<1>1. target[s] \in Loads /\ EndRequest(s)
  BY DEF CommitArrive, CommitWeighment, CommitQuality, CommitAccept, CommitReject, Weighed,
     Relies
<1>2. \A t \in Sessions \ {s} : pc'[t] = pc[t] /\ target'[t] = target[t] /\ view'[t] = view[t]
  BY <1>1, EndRequestType DEF Weighed
<1>3. \A l \in Loads \ {target[s]} : status'[l] = status[l]
  <2>1. {"ARRIVED", "WEIGHED", "QC_PENDING", "ACCEPTED", "REJECTED"} \subseteq Statuses
    BY DEF Statuses
  <2>2. PICK st \in Statuses : WriteStatus(s, st)
    BY <2>1 DEF CommitArrive, CommitWeighment, CommitQuality, CommitAccept, CommitReject
  <2> QED
    BY <2>2, WriteStatusType DEF Weighed
<1>4. \A l \in Loads \ {target[s]} : /\ nets'[l] = nets[l] /\ final'[l] = final[l]
                                     /\ graded'[l] = graded[l]
                                     /\ lotQty'[l] = lotQty[l] /\ received'[l] = received[l]
  BY DEF CommitArrive, CommitWeighment, CommitQuality, CommitAccept, CommitReject, Weighed,
     TypeOK
<1> QED
  BY <1>1, <1>2, <1>3, <1>4 DEF OnlyTarget

LEMMA EndSerial ==
  ASSUME Serial, [Next]_vars, NEW s \in Sessions, EndRequest(s), OnlyTarget(s), LastIsFinal'
  PROVE  Serial'
<1>1. Weighed'
  BY NextKeepsWeighed DEF Serial
<1>2. pc'[s] = "idle" /\ target'[s] = NoLoad
  BY DEF EndRequest, Serial, Weighed, TypeOK
<1>3. \A t \in Sessions \ {s} : SessionOK(t)'
  BY OthersOK
<1>4. SessionOK(s)'
  BY <1>2, NullIsNotSerial DEF SessionOK
<1>5. Alone'
  BY <1>2, NullIsNotSerial DEF Serial, Alone, OnlyTarget
<1> QED
  BY <1>1, <1>3, <1>4, <1>5 DEF Serial

LEMMA BeginSerial ==
  ASSUME Serial, [Next]_vars, NEW s \in Sessions, NEW l \in Loads, Request(s, l)
  PROVE  Serial'
<1>1. Weighed'
  BY NextKeepsWeighed DEF Serial
<1>2. PICK step \in {"arrive", "finals", "quality", "weighment", "reject"}, kg \in Kg :
        /\ Begin(s, l, step, kg)
        /\ step = "arrive" => status[l] = "DRAFT"
        /\ step = "finals" => status[l] \in {"ARRIVED", "WEIGHED"}
        /\ step = "quality" => status[l] \in {"WEIGHED", "QC_PENDING"}
        /\ step \in {"weighment", "reject"} => status[l] = "QC_PENDING"
  <2>1. 0 \in Kg
    BY BoundsAssumption DEF Kg
  <2> QED
    BY <2>1 DEF Request, ArriveRequest, WeighRequest, QualityRequest, AcceptRequest,
       RejectRequest
<1>3. /\ UNCHANGED <<status, nets, final, graded, lotQty, received>>
      /\ pc'[s] = step /\ target'[s] = l /\ view'[s].status = status[l]
      /\ \A t \in Sessions \ {s} : /\ pc'[t] = pc[t] /\ target'[t] = target[t]
                                   /\ view'[t] = view[t]
                                   /\ l \in SerialLoads => target[t] # l
  BY <1>2 DEF Begin, loadVars, NoView, Serial, Weighed, TypeOK
<1>4. \A t \in Sessions \ {s} : SessionOK(t)'
  BY <1>3, OthersOK DEF OnlyTarget
<1>5. SessionOK(s)'
  BY <1>2, <1>3, LoadAssumption DEF SessionOK, Current
<1>6. Alone' /\ LastIsFinal'
  BY <1>3 DEF Serial, Alone, LastIsFinal
<1> QED
  BY <1>1, <1>4, <1>5, <1>6 DEF Serial

\* The statements that only read.
LEMMA ReadSerial ==
  ASSUME Serial, [Next]_vars, NEW s \in Sessions,
         ReadFinals(s) \/ ReadQuality(s) \/ ReadWeighment(s) \/ ReadLot(s)
  PROVE  Serial'
<1>1. Weighed'
  BY NextKeepsWeighed DEF Serial
<1>2. /\ UNCHANGED <<target, status, nets, final, graded, lotQty, received>>
      /\ \A t \in Sessions \ {s} : pc'[t] = pc[t] /\ view'[t] = view[t]
      /\ pc[s] # "idle" /\ pc'[s] # "idle" /\ view'[s].status = view[s].status
  BY DEF ReadFinals, ReadQuality, ReadWeighment, ReadLot, Goto, loadVars, Serial, Weighed,
     TypeOK, View
<1>3. \A t \in Sessions \ {s} : SessionOK(t)'
  BY <1>2, OthersOK DEF OnlyTarget
<1>4. ASSUME target[s] \in SerialLoads
      PROVE  Current(s)'
  <2>0. Current(s) /\ target[s] \in Loads
    BY <1>4, SerialAssumption DEF Serial, SessionOK
  <2>1. CASE ReadFinals(s)
    <3>1. pc[s] = "finals" /\ pc'[s] = "weigh" /\ view'[s].finals = final[target[s]]
      BY <2>1 DEF ReadFinals, Goto, Serial, Weighed, TypeOK, View
    <3> QED
      BY <1>2, <2>0, <3>1 DEF Current
  <2>2. CASE ReadQuality(s)
    <3>1. pc[s] = "quality" /\ pc'[s] = "grade"
      BY <2>2 DEF ReadQuality, Goto, Serial, Weighed, TypeOK
    <3> QED
      BY <1>2, <2>0, <3>1 DEF Current
  <2>3. CASE ReadWeighment(s)
    <3>1. pc[s] = "weighment" /\ pc'[s] = "lot"
      BY <2>3 DEF ReadWeighment, Goto, Serial, Weighed, TypeOK
    <3>2. PICK i \in final[target[s]] : view'[s].kg = nets[target[s]][i]
      BY <2>3 DEF ReadWeighment, Serial, Weighed, TypeOK, View
    <3>3. i = Len(nets[target[s]])
      BY <1>4, <3>2 DEF Serial, LastIsFinal
    <3> QED
      BY <1>2, <2>0, <3>1, <3>2, <3>3 DEF Current
  <2>4. CASE ReadLot(s)
    <3>1. pc[s] = "lot" /\ pc'[s] = "accept" /\ view' = view
      BY <2>4 DEF ReadLot, Goto, Serial, Weighed, TypeOK
    <3> QED
      BY <1>2, <2>0, <3>1 DEF Current
  <2> QED
    BY <2>1, <2>2, <2>3, <2>4
<1>5. SessionOK(s)'
  BY <1>2, <1>4 DEF Serial, SessionOK
<1>6. Alone' /\ LastIsFinal'
  BY <1>2 DEF Serial, Alone, LastIsFinal
<1> QED
  BY <1>1, <1>3, <1>5, <1>6 DEF Serial

\* A new weighment supersedes the one that was final.
LEMMA CommitSerial ==
  ASSUME Serial, [Next]_vars, NEW s \in Sessions,
         \/ CommitArrive(s) \/ CommitWeighment(s) \/ CommitQuality(s)
         \/ CommitAccept(s) \/ CommitReject(s)
  PROVE  Serial'
<1>1. target[s] \in Loads /\ EndRequest(s) /\ OnlyTarget(s)
  BY CommitReaches DEF Serial
<1>2. CASE CommitWeighment(s)
  <2> DEFINE l == target[s]
  <2>1. ASSUME l \in SerialLoads
        PROVE  final'[l] \subseteq {Len(nets'[l])}
    <3>1. view[s].finals = final[l]
      BY <1>2, <2>1 DEF CommitWeighment, Serial, SessionOK, Current
    <3>2. final'[l] = {Len(nets[l]) + 1}
      BY <1>1, <1>2, <3>1 DEF CommitWeighment, Serial, Weighed, TypeOK
    <3>3. nets'[l] = Append(nets[l], view[s].kg) /\ nets[l] \in Seq(1 .. MaxKg)
      BY <1>1, <1>2 DEF CommitWeighment, Serial, Weighed, TypeOK
    <3>4. Len(nets'[l]) = Len(nets[l]) + 1
      BY <3>3
    <3> QED
      BY <3>2, <3>4
  <2>2. \A m \in SerialLoads \ {l} : final'[m] = final[m] /\ nets'[m] = nets[m]
    BY <1>1, SerialAssumption DEF OnlyTarget
  <2>3. LastIsFinal'
    BY <2>1, <2>2 DEF Serial, LastIsFinal
  <2> QED
    BY <1>1, <2>3, EndSerial
<1>3. CASE ~ CommitWeighment(s)
  <2>1. LastIsFinal'
    BY <1>3 DEF CommitArrive, CommitQuality, CommitAccept, CommitReject, Serial, LastIsFinal
  <2> QED
    BY <1>1, <2>1, EndSerial
<1> QED
  BY <1>2, <1>3

LEMMA StepSerial == Serial /\ [Next]_vars => Serial'
<1> SUFFICES ASSUME Serial, [Next]_vars PROVE Serial'
  OBVIOUS
<1>0. Weighed'
  BY NextKeepsWeighed DEF Serial
<1>1. ASSUME NEW l \in Loads, CreateLoad(l)
      PROVE  Serial'
  <2>1. /\ UNCHANGED <<nets, final, pc, target, view>> /\ status[l] = "ABSENT"
        /\ \A m \in Loads \ {l} : status'[m] = status[m]
    BY <1>1 DEF CreateLoad, sessionVars, Serial, Weighed, TypeOK
  <2>2. ASSUME NEW t \in Sessions
        PROVE  SessionOK(t)'
    <3>1. SessionOK(t)
      BY DEF Serial
    <3>2. target[t] \in SerialLoads => pc[t] # "idle" /\ target[t] # l
      <4>1. pc[t] \in Steps
        BY DEF Serial, Weighed, TypeOK
      <4> QED
        BY <2>1, <3>1, <4>1, NullIsNotSerial DEF SessionOK, Current, Steps
    <3> QED
      BY <2>1, <3>1, <3>2, SerialAssumption DEF SessionOK, Current
  <2> QED
    BY <1>0, <2>1, <2>2 DEF Serial, Alone, LastIsFinal
<1>2. ASSUME NEW s \in Sessions, Refuse(s) \/ Crash(s)
      PROVE  Serial'
  <2>1. EndRequest(s) /\ UNCHANGED <<status, nets, final, graded, lotQty, received>>
    BY <1>2 DEF Refuse, Crash, Abandon, loadVars
  <2>2. OnlyTarget(s)
    BY <2>1, EndRequestType DEF OnlyTarget, Serial, Weighed
  <2> QED
    BY <2>1, <2>2, EndSerial DEF Serial, LastIsFinal
<1>3. CASE UNCHANGED vars
  BY <1>0, <1>3 DEF vars, loadVars, sessionVars, Serial, Alone, SessionOK, Current, LastIsFinal
<1> QED
  BY <1>1, <1>2, <1>3, BeginSerial, ReadSerial, CommitSerial DEF Next, Progress

-----------------------------------------------------------------------------
(* The commits on a serial load are the atomic operations                    *)

\* The status a handler loaded is that of the load, so not writing it back writes it.
LEMMA WriteSeen ==
  ASSUME Serial, NEW s \in Sessions, target[s] \in SerialLoads, NEW st, WriteStatus(s, st)
  PROVE  /\ OnSerial(status)[target[s]] = status[target[s]]
         /\ OnSerial(status)' = [OnSerial(status) EXCEPT ![target[s]] = st]
<1>1. view[s].status = status[target[s]]
  BY DEF Serial, SessionOK, Current
<1>2. status' = [status EXCEPT ![target[s]] = st]
  BY <1>1, SerialAssumption DEF WriteStatus, Serial, Weighed, TypeOK
<1> QED
  BY <1>2, SerialAssumption DEF OnSerial, Serial, Weighed, TypeOK

LEMMA WeighIsAtomic ==
  ASSUME Serial, NEW s \in Sessions, CommitWeighment(s), target[s] \in SerialLoads
  PROVE  \E kg \in 1 .. MaxKg : Atomic!Weigh(target[s], kg)
<1> DEFINE l  == target[s]
           kg == view[s].kg
<1>1. l \in Loads /\ kg \in 1 .. MaxKg
  BY SerialAssumption, BoundsAssumption DEF CommitWeighment, Serial, Weighed, Relies, TypeOK,
     View, Kg
<1>2. Atomic!Move(l, {"ARRIVED", "WEIGHED"}, "WEIGHED")
  BY WriteSeen DEF CommitWeighment, Serial, SessionOK, Current, Atomic!Move
<1>3. OnSerial(nets)' = [OnSerial(nets) EXCEPT ![l] = Append(@, kg)]
  <2>1. nets' = [nets EXCEPT ![l] = Append(nets[l], kg)] /\ OnSerial(nets)[l] = nets[l]
    BY DEF CommitWeighment, OnSerial
  <2> QED
    BY <2>1, SerialAssumption DEF OnSerial, Serial, Weighed, TypeOK
<1>4. UNCHANGED <<OnSerial(graded), OnSerial(lotQty), OnSerial(received)>>
  BY DEF CommitWeighment, OnSerial
<1>5. Atomic!Weigh(l, kg)
  BY <1>2, <1>3, <1>4 DEF Atomic!Weigh
<1> QED
  BY <1>1, <1>5

LEMMA GradeIsAtomic ==
  ASSUME Serial, NEW s \in Sessions, CommitQuality(s), target[s] \in SerialLoads
  PROVE  Atomic!Grade(target[s])
<1> DEFINE l == target[s]
<1>1. Atomic!Move(l, {"WEIGHED", "QC_PENDING"}, "QC_PENDING")
  BY WriteSeen DEF CommitQuality, Serial, SessionOK, Current, Atomic!Move
<1>2. OnSerial(graded)' = [OnSerial(graded) EXCEPT ![l] = TRUE]
  <2>1. graded' = [graded EXCEPT ![l] = TRUE]
    BY DEF CommitQuality
  <2> QED
    BY <2>1, SerialAssumption DEF OnSerial, Serial, Weighed, TypeOK
<1>3. UNCHANGED <<OnSerial(nets), OnSerial(lotQty), OnSerial(received)>>
  BY DEF CommitQuality, OnSerial
<1> QED
  BY <1>1, <1>2, <1>3 DEF Atomic!Grade

LEMMA AcceptIsAtomic ==
  ASSUME Serial, NEW s \in Sessions, CommitAccept(s), target[s] \in SerialLoads
  PROVE  Atomic!Accept(target[s])
<1> DEFINE l  == target[s]
           kg == view[s].kg
<1>0. l \in Loads /\ OnSerial(nets)[l] = nets[l] /\ kg = nets[l][Len(nets[l])]
  BY SerialAssumption DEF OnSerial, CommitAccept, Serial, SessionOK, Current
<1>1. Atomic!Move(l, {"QC_PENDING"}, "ACCEPTED")
  BY WriteSeen DEF CommitAccept, Serial, SessionOK, Current, Atomic!Move
<1>2. OnSerial(lotQty)' = [OnSerial(lotQty) EXCEPT ![l] = kg]
  <2>1. lotQty' = [lotQty EXCEPT ![l] = kg]
    BY DEF CommitAccept
  <2> QED
    BY <2>1, SerialAssumption DEF OnSerial, Serial, Weighed, TypeOK
<1>3. OnSerial(received)' = [OnSerial(received) EXCEPT ![l] = kg]
  <2>1. received[l] + kg = kg
    BY <1>0, BoundsAssumption DEF CommitAccept, Serial, Weighed, ReceivedOnce, TypeOK, View, Kg
  <2>2. received' = [received EXCEPT ![l] = kg]
    BY <2>1 DEF CommitAccept
  <2> QED
    BY <2>2, SerialAssumption DEF OnSerial, Serial, Weighed, TypeOK
<1>4. UNCHANGED <<OnSerial(nets), OnSerial(graded)>>
  BY DEF CommitAccept, OnSerial
<1> QED
  BY <1>0, <1>1, <1>2, <1>3, <1>4 DEF Atomic!Accept

LEMMA MoveIsAtomic ==
  ASSUME Serial, NEW s \in Sessions, CommitArrive(s) \/ CommitReject(s),
         target[s] \in SerialLoads
  PROVE  Atomic!Arrive(target[s]) \/ Atomic!Reject(target[s])
<1> DEFINE l == target[s]
<1>1. UNCHANGED <<OnSerial(nets), OnSerial(graded), OnSerial(lotQty), OnSerial(received)>>
  BY DEF CommitArrive, CommitReject, OnSerial
<1>2. CASE CommitArrive(s)
  <2>1. Atomic!Move(l, {"DRAFT"}, "ARRIVED")
    BY <1>2, WriteSeen DEF CommitArrive, Serial, SessionOK, Current, Atomic!Move
  <2> QED
    BY <1>1, <2>1 DEF Atomic!Arrive
<1>3. CASE CommitReject(s)
  <2>1. Atomic!Move(l, {"QC_PENDING"}, "REJECTED")
    BY <1>3, WriteSeen DEF CommitReject, Serial, SessionOK, Current, Atomic!Move
  <2> QED
    BY <1>1, <2>1 DEF Atomic!Reject
<1> QED
  BY <1>2, <1>3

LEMMA StepAtomic == Serial /\ [Next]_vars => [Atomic!Next]_(Atomic!vars)
<1> SUFFICES ASSUME Serial, [Next]_vars PROVE [Atomic!Next]_(Atomic!vars)
  OBVIOUS
<1>1. ASSUME UNCHANGED <<status, nets, graded, lotQty, received>>
      PROVE  UNCHANGED Atomic!vars
  BY <1>1 DEF OnSerial, Atomic!vars
<1>2. ASSUME NEW l \in Loads, CreateLoad(l)
      PROVE  [Atomic!Next]_(Atomic!vars)
  <2>1. UNCHANGED <<OnSerial(nets), OnSerial(graded), OnSerial(lotQty), OnSerial(received)>>
    BY <1>2 DEF CreateLoad, OnSerial
  <2>2. status[l] = "ABSENT" /\ status' = [status EXCEPT ![l] = "DRAFT"]
    BY <1>2 DEF CreateLoad
  <2>3. CASE l \in SerialLoads
    <3>1. OnSerial(status)[l] = "ABSENT"
      BY <2>2, <2>3 DEF OnSerial
    <3>2. OnSerial(status)' = [OnSerial(status) EXCEPT ![l] = "DRAFT"]
      BY <2>2, <2>3, SerialAssumption DEF OnSerial, Serial, Weighed, TypeOK
    <3>3. Atomic!Create(l)
      BY <2>1, <3>1, <3>2 DEF Atomic!Create, Atomic!Move
    <3> QED
      BY <2>3, <3>3 DEF Atomic!Next
  <2>4. CASE l \notin SerialLoads
    <3>1. \A m \in SerialLoads : status'[m] = status[m]
      BY <2>2, <2>4, SerialAssumption DEF Serial, Weighed, TypeOK
    <3>2. UNCHANGED OnSerial(status)
      BY <3>1 DEF OnSerial
    <3> QED
      BY <2>1, <3>2 DEF Atomic!vars
  <2> QED
    BY <2>3, <2>4
<1>3. ASSUME NEW s \in Sessions,
             \/ CommitArrive(s) \/ CommitWeighment(s) \/ CommitQuality(s)
             \/ CommitAccept(s) \/ CommitReject(s)
      PROVE  [Atomic!Next]_(Atomic!vars)
  <2>1. CASE target[s] \in SerialLoads
    BY <1>3, <2>1, MoveIsAtomic, WeighIsAtomic, GradeIsAtomic, AcceptIsAtomic DEF Atomic!Next
  <2>2. CASE target[s] \notin SerialLoads
    <3>1. \A m \in SerialLoads : /\ status'[m] = status[m] /\ nets'[m] = nets[m]
                                 /\ graded'[m] = graded[m] /\ lotQty'[m] = lotQty[m]
                                 /\ received'[m] = received[m]
      BY <1>3, <2>2, CommitReaches, SerialAssumption DEF OnlyTarget, Serial
    <3>2. UNCHANGED <<OnSerial(status), OnSerial(nets), OnSerial(graded), OnSerial(lotQty),
                      OnSerial(received)>>
      BY <3>1 DEF OnSerial
    <3> QED
      BY <3>2 DEF Atomic!vars
  <2> QED
    BY <2>1, <2>2
<1>4. ASSUME NEW s \in Sessions, NEW l \in Loads, Request(s, l)
      PROVE  UNCHANGED <<status, nets, graded, lotQty, received>>
  BY <1>4 DEF Request, ArriveRequest, WeighRequest, QualityRequest, AcceptRequest,
     RejectRequest, Begin, loadVars
<1>5. ASSUME NEW s \in Sessions,
             \/ ReadFinals(s) \/ ReadQuality(s) \/ ReadWeighment(s) \/ ReadLot(s)
             \/ Refuse(s) \/ Crash(s)
      PROVE  UNCHANGED <<status, nets, graded, lotQty, received>>
  BY <1>5 DEF ReadFinals, ReadQuality, ReadWeighment, ReadLot, Refuse, Crash, Goto, Abandon,
     loadVars
<1>6. CASE UNCHANGED vars
  BY <1>1, <1>6 DEF vars, loadVars
<1> QED
  BY <1>1, <1>2, <1>3, <1>4, <1>5, <1>6 DEF Next, Progress

\* Every interleaving of requests has, for the loads whose requests do not overlap, the
\* effect of these requests taken one at a time: a load goes through the documented states,
\* and its lot has the weight measured last (modules/receiving/service.py).
THEOREM ReceivingIsAtomic == Spec => ImplementsAtomic
<1>1. Init => Atomic!Init
  BY SerialAssumption DEF Init, OnSerial, Atomic!Init
<1>2. Spec => []Serial
  BY InitSerial, StepSerial, PTL DEF Spec
<1> QED
  BY <1>1, <1>2, StepAtomic, PTL DEF Spec, ImplementsAtomic, Atomic!Spec
=============================================================================
