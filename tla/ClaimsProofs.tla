---------------------------- MODULE ClaimsProofs ----------------------------
(***************************************************************************)
(* Claims and the numbers of records, for any number of sessions, claims,  *)
(* receipts, lines and prefixes.                                           *)
(*                                                                         *)
(* Billing: a handler relies on little of what it has read (Relies), and   *)
(* that is stable; on the claims where no two requests overlap what it has *)
(* read is what is committed (SerialSound), and its COMMIT is one step of  *)
(* AtomicBilling.                                                          *)
(*                                                                         *)
(* References: the session that holds a counter has the number the counter *)
(* is about to pass (Held); a number that is committed, with a record      *)
(* (Passed) or by the commit of first use (Published), is one the counter  *)
(* has passed.  Numbers are consecutive because the number taken is the    *)
(* one the counter stands at (AtCounter) and only a claim gives it up      *)
(* before its COMMIT (HeldToCommit).                                       *)
(***************************************************************************)
EXTENDS Billing, References, SumTheorems

-----------------------------------------------------------------------------
(* Billing                                                                  *)

\* The lines of a claim are finitely many, so their sum is a number.
LEMMA NetIsNat ==
  ASSUME NEW L \in SUBSET Rows
  PROVE  NetOf(L) \in Nat
<1>1. IsFiniteSet(L)
  BY RowsAssumption, FS_Subset
<1>2. Sum(Amount, L) \in Int
  BY <1>1, AmountAssumption, SumIsInt
<1>3. NetOf(L) = Max({0, Sum(Amount, L)})
  BY DEF NetOf, Sum
<1>4. ASSUME NEW k \in Int
      PROVE  Max({0, k}) \in Nat
  <2>1. \E x \in {0, k} : \A y \in {0, k} : x >= y
    OBVIOUS
  <2>2. Max({0, k}) \in {0, k} /\ \A y \in {0, k} : Max({0, k}) >= y
    BY <2>1 DEF Max
  <2> QED
    BY <2>2
<1> QED
  BY <1>2, <1>3, <1>4

Paying == {"reference", "outstanding", "pay"}

\* What a handler relies on from one statement to the next.
Relies(s) ==
  /\ pc[s] \in {"idle", "claim"} <=> target[s] = NoClaim
  /\ pc[s] = "reference" => input[s].reference \in References
  /\ pc[s] \in Paying => /\ read[s].status \in Payable
                         /\ approved[target[s]]
                         /\ input[s].amount > 0

\* A claim that may be paid was approved.
PayableIsApproved == \A c \in Claims : status[c] \in Payable => approved[c]

Sound == /\ TypeOK
         /\ \A s \in Sessions : Relies(s)
         /\ PayableIsApproved
         /\ PaidAfterApproval
         /\ ClaimedOnce

LEMMA NullTypes == NoInput \in Input /\ NoRead \in Read
<1>1. {} \in LineSets
  BY FS_EmptySet, BoundsAssumption DEF LineSets
<1> QED
  BY <1>1, BoundsAssumption DEF NoInput, Input, NoRead, Read, Statuses

LEMMA InitSound == Init => Sound
<1> SUFFICES ASSUME Init PROVE Sound
  OBVIOUS
<1>1. TypeOK
  BY NullTypes DEF Init, TypeOK, Statuses, Steps
<1>2. (\A s \in Sessions : Relies(s)) /\ PayableIsApproved /\ PaidAfterApproval /\ ClaimedOnce
  BY DEF Init, Relies, Paying, Payable, PayableIsApproved, PaidAfterApproval, ClaimedOnce
<1> QED
  BY <1>1, <1>2 DEF Sound

\* A step of s leaves what the other sessions have alone.
OthersKeep(s) == \A t \in Sessions \ {s} : /\ pc'[t] = pc[t]
                                           /\ target'[t] = target[t]
                                           /\ input'[t] = input[t]
                                           /\ read'[t] = read[t]
                                           /\ dels'[t] = dels[t]

SessionTypes == /\ pc     \in [Sessions -> Steps]
                /\ target \in [Sessions -> Claims \cup {NoClaim}]
                /\ input  \in [Sessions -> Input]
                /\ read   \in [Sessions -> Read]
                /\ dels   \in [Sessions -> SUBSET Rows]
                /\ \A s \in Sessions : pc[s] = "idle" => target[s] = NoClaim /\ dels[s] = {}

ClaimTypes == /\ status   \in [Claims -> Statuses]
              /\ approved \in [Claims -> BOOLEAN]
              /\ lines    \in [Claims -> SUBSET Rows]
              /\ net      \in [Claims -> Nat]
              /\ links    \in [Claims -> SUBSET Receipts]
              /\ paid     \in [Claims -> Nat]
              /\ used     \in [Claims -> [References -> Nat]]

LEMMA EndTypes ==
  ASSUME TypeOK, NEW s \in Sessions, EndRequest(s)
  PROVE  /\ SessionTypes'
         /\ pc'[s] = "idle" /\ target'[s] = NoClaim /\ input'[s] = NoInput
         /\ OthersKeep(s)
BY NullTypes DEF TypeOK, SessionTypes, EndRequest, Steps, OthersKeep

\* Approvals are not taken back, so what the other sessions rely on stays.
LEMMA OthersRely ==
  ASSUME Sound, NEW s \in Sessions, OthersKeep(s),
         \A c \in Claims : approved[c] => approved'[c]
  PROVE  \A t \in Sessions \ {s} : Relies(t)'
<1> TAKE t \in Sessions \ {s}
<1>1. Relies(t) /\ target[t] \in Claims \cup {NoClaim}
  BY DEF Sound, TypeOK
<1>2. pc[t] \in Paying => target[t] \in Claims
  BY <1>1 DEF Relies, Paying
<1> QED
  BY <1>1, <1>2 DEF Relies, OthersKeep

LEMMA EndRelies ==
  ASSUME Sound, NEW s \in Sessions, EndRequest(s),
         \A c \in Claims : approved[c] => approved'[c]
  PROVE  SessionTypes' /\ \A t \in Sessions : Relies(t)'
<1>1. SessionTypes' /\ pc'[s] = "idle" /\ target'[s] = NoClaim /\ OthersKeep(s)
  BY EndTypes DEF Sound
<1>2. Relies(s)'
  BY <1>1 DEF Relies, Paying
<1> QED
  BY <1>1, <1>2, OthersRely

LEMMA AbandonSound ==
  ASSUME Sound, NEW s \in Sessions, Abandon(s)
  PROVE  Sound'
<1>1. EndRequest(s) /\ UNCHANGED <<status, approved, lines, net, links, paid, used>>
  BY DEF Abandon, claimVars
<1>2. SessionTypes' /\ \A t \in Sessions : Relies(t)'
  BY <1>1, EndRelies
<1>3. TypeOK'
  BY <1>1, <1>2 DEF Sound, TypeOK, SessionTypes, ClaimTypes
<1> QED
  BY <1>1, <1>2, <1>3 DEF Sound, PayableIsApproved, PaidAfterApproval, ClaimedOnce

-----------------------------------------------------------------------------
\* The unique key of the receipts decides between two creations.
LEMMA CreateSound ==
  ASSUME Sound, NEW s \in Sessions, NEW c \in Claims, NEW L \in FreshLines,
         CommitCreate(s, c, L)
  PROVE  Sound'
<1>1. /\ EndRequest(s) /\ UNCHANGED <<approved, paid, used>>
      /\ status' = [status EXCEPT ![c] = "DRAFT"]
      /\ links'  = [links EXCEPT ![c] = input[s].receipts]
      /\ lines'  = [lines EXCEPT ![c] = L]
      /\ net'    = [net EXCEPT ![c] = NetOf(L)]
      /\ \A r \in input[s].receipts : \A d \in Claims : r \notin links[d]
  BY DEF CommitCreate, Claimed
<1>2. SessionTypes' /\ \A t \in Sessions : Relies(t)'
  BY <1>1, EndRelies
<1>3. L \in SUBSET Rows /\ NetOf(L) \in Nat
  BY NetIsNat DEF FreshLines, LineSets
<1>4. TypeOK'
  <2>1. input[s].receipts \in SUBSET Receipts
    BY DEF Sound, TypeOK, Input
  <2>2. ClaimTypes'
    BY <1>1, <1>3, <2>1 DEF Sound, TypeOK, ClaimTypes, Statuses
  <2> QED
    BY <1>2, <2>2 DEF TypeOK, SessionTypes, ClaimTypes
<1>5. PayableIsApproved' /\ PaidAfterApproval'
  BY <1>1 DEF Sound, TypeOK, PayableIsApproved, PaidAfterApproval, Payable
<1>6. ClaimedOnce'
  BY <1>1 DEF Sound, TypeOK, ClaimedOnce
<1> QED
  BY <1>2, <1>4, <1>5, <1>6 DEF Sound

LEMMA CreateRequestSound ==
  ASSUME Sound, NEW s \in Sessions, NEW R \in SUBSET Receipts, CreateRequest(s, R)
  PROVE  Sound'
<1>1. /\ pc[s] = "idle"
      /\ pc' = [pc EXCEPT ![s] = "claim"]
      /\ input' = [input EXCEPT ![s].receipts = R]
      /\ UNCHANGED <<status, approved, lines, net, links, paid, used, target, read, dels>>
  BY DEF CreateRequest, claimVars
<1>2. TypeOK'
  BY <1>1 DEF Sound, TypeOK, Steps, Input
<1>3. OthersKeep(s)
  BY <1>1 DEF Sound, TypeOK, OthersKeep
<1>4. Relies(s)'
  <2>1. pc'[s] = "claim" /\ target'[s] = NoClaim
    BY <1>1 DEF Sound, TypeOK
  <2> QED
    BY <2>1 DEF Relies, Paying
<1>5. \A t \in Sessions \ {s} : Relies(t)'
  BY <1>1, <1>3, OthersRely
<1> QED
  BY <1>1, <1>2, <1>4, <1>5 DEF Sound, PayableIsApproved, PaidAfterApproval, ClaimedOnce

\* The step at which each request begins, with what it carries.
LEMMA RequestBegins ==
  ASSUME Sound, NEW s \in Sessions, NEW c \in Claims, Request(s, c)
  PROVE  \E step \in Steps \ {"idle", "claim"}, body \in Input :
           /\ Begin(s, c, step, body)
           /\ step = "reference" => body.reference \in References
           /\ step \in Paying => status[c] \in Payable /\ body.amount > 0
<1>1. ASSUME NEW L \in FreshLines, EditRequest(s, c, L)
      PROVE  [NoInput EXCEPT !.lines = L] \in Input /\ "editLines" \in Steps \ Paying
  BY <1>1, NullTypes DEF FreshLines, Input, NoInput, Steps, Paying
<1>2. NoInput \in Input /\ {"submitLines", "approve"} \subseteq Steps \ Paying
  BY NullTypes DEF Steps, Paying
<1>3. ASSUME NEW amount \in 1 .. MaxAmount, NEW r \in References \cup {NoReference},
             PayRequest(s, c, amount, r)
      PROVE  LET body == [NoInput EXCEPT !.amount = amount, !.reference = r] IN
             /\ body \in Input /\ body.amount > 0 /\ body.reference = r
             /\ {"reference", "outstanding"} \subseteq Steps
  <2>1. amount \in 0 .. MaxAmount /\ amount > 0
    BY BoundsAssumption
  <2>2. \A x \in Input : [x EXCEPT !.amount = amount, !.reference = r] \in Input
    BY <2>1 DEF Input
  <2>3. /\ [NoInput EXCEPT !.amount = amount, !.reference = r].amount = amount
        /\ [NoInput EXCEPT !.amount = amount, !.reference = r].reference = r
    BY DEF NoInput
  <2> QED
    BY <2>1, <2>2, <2>3, NullTypes DEF Steps
<1>4. ASSUME NEW L \in FreshLines, EditRequest(s, c, L)
      PROVE  \E step \in Steps \ {"idle", "claim"}, body \in Input :
               /\ Begin(s, c, step, body)
               /\ step = "reference" => body.reference \in References
               /\ step \in Paying => status[c] \in Payable /\ body.amount > 0
  BY <1>1, <1>4 DEF EditRequest, Paying
<1>5. CASE SubmitRequest(s, c) \/ ApproveRequest(s, c)
  BY <1>2, <1>5 DEF SubmitRequest, ApproveRequest, Paying
<1>6. ASSUME NEW amount \in 1 .. MaxAmount, NEW r \in References \cup {NoReference},
             PayRequest(s, c, amount, r)
      PROVE  \E step \in Steps \ {"idle", "claim"}, body \in Input :
               /\ Begin(s, c, step, body)
               /\ step = "reference" => body.reference \in References
               /\ step \in Paying => status[c] \in Payable /\ body.amount > 0
  BY <1>3, <1>6 DEF PayRequest
<1> QED
  BY <1>4, <1>5, <1>6 DEF Request

LEMMA BeginSound ==
  ASSUME Sound, NEW s \in Sessions, NEW c \in Claims, Request(s, c)
  PROVE  Sound'
<1>1. PICK step \in Steps \ {"idle", "claim"}, body \in Input :
        /\ Begin(s, c, step, body)
        /\ step = "reference" => body.reference \in References
        /\ step \in Paying => status[c] \in Payable /\ body.amount > 0
  BY RequestBegins
<1> DEFINE loaded == [NoRead EXCEPT !.status = status[c], !.net = net[c]]
<1>2. /\ pc'     = [pc EXCEPT ![s] = step]
      /\ target' = [target EXCEPT ![s] = c]
      /\ input'  = [input EXCEPT ![s] = body]
      /\ read'   = [read EXCEPT ![s] = loaded]
      /\ UNCHANGED <<status, approved, lines, net, links, paid, used, dels>>
  BY <1>1 DEF Begin, claimVars
<1>3. loaded \in Read /\ loaded.status = status[c]
  BY NullTypes DEF Read, NoRead, Sound, TypeOK
<1> HIDE DEF loaded
<1>4. TypeOK'
  BY <1>2, <1>3 DEF Sound, TypeOK
<1>5. OthersKeep(s)
  BY <1>2 DEF Sound, TypeOK, OthersKeep
<1>6. Relies(s)'
  <2>1. pc'[s] = step /\ target'[s] = c /\ input'[s] = body /\ read'[s] = loaded
    BY <1>2 DEF Sound, TypeOK
  <2>2. status[c] \in Payable => approved'[c]
    BY <1>2 DEF Sound, PayableIsApproved
  <2> QED
    BY <1>1, <1>3, <2>1, <2>2, NullAssumption DEF Relies
<1>7. \A t \in Sessions \ {s} : Relies(t)'
  BY <1>2, <1>5, OthersRely
<1> QED
  BY <1>2, <1>4, <1>6, <1>7 DEF Sound, PayableIsApproved, PaidAfterApproval, ClaimedOnce

-----------------------------------------------------------------------------
Reads(s) == \/ LoadEditedLines(s) \/ ReplaceLines(s) \/ RefreshNet(s) \/ SumLines(s)
            \/ LoadSubmittedLines(s) \/ ReadReference(s) \/ ReadPaid(s)

\* A statement before the COMMIT changes what its own session has read.
LEMMA ReadsChange ==
  ASSUME Sound, NEW s \in Sessions, Reads(s)
  PROVE  /\ UNCHANGED <<status, approved, lines, net, links, paid, used, target, input>>
         /\ SessionTypes'
         /\ OthersKeep(s)
         /\ pc[s] \notin {"idle", "claim"} /\ pc'[s] \notin {"idle", "claim", "reference"}
         /\ pc'[s] \in Paying => pc[s] \in Paying
         /\ read'[s].status = read[s].status
<1>0. pc[s] \notin {"idle", "claim"}
  BY DEF Reads, LoadEditedLines, ReplaceLines, RefreshNet, SumLines, LoadSubmittedLines,
         ReadReference, ReadPaid
<1>1. target[s] \in Claims
  BY <1>0 DEF Sound, Relies, TypeOK
<1>2. PICK step \in Steps \ {"idle", "claim", "reference"} :
        /\ Goto(s, step)
        /\ step \in Paying => pc[s] \in Paying
  BY DEF Reads, LoadEditedLines, ReplaceLines, RefreshNet, SumLines, LoadSubmittedLines,
         ReadReference, ReadPaid, LoadLines, Paying, Steps
<1>3. /\ pc' = [pc EXCEPT ![s] = step]
      /\ UNCHANGED <<status, approved, lines, net, links, paid, used, target, input>>
  BY <1>2 DEF Goto, claimVars
<1>4. /\ read' \in [Sessions -> Read] /\ read'[s].status = read[s].status
      /\ \A t \in Sessions \ {s} : read'[t] = read[t]
  <2>1. /\ lines[target[s]] \in SUBSET Rows /\ net[target[s]] \in Nat
        /\ paid[target[s]] \in Nat
        /\ (lines[target[s]] \ dels[s]) \cup input[s].lines \in SUBSET Rows
    BY <1>1 DEF Sound, TypeOK, Input, LineSets
  <2>2. \/ read' = read
        \/ \E L \in SUBSET Rows : read' = [read EXCEPT ![s].lines = L]
        \/ \E n \in Nat : read' = [read EXCEPT ![s].net = n]
        \/ \E n \in Nat : read' = [read EXCEPT ![s].paid = n]
    BY <2>1 DEF Reads, LoadEditedLines, ReplaceLines, RefreshNet, SumLines,
       LoadSubmittedLines, ReadReference, ReadPaid, LoadLines
  <2>3. read[s] \in Read
    BY DEF Sound, TypeOK
  <2>4. /\ \A L \in SUBSET Rows : [read[s] EXCEPT !.lines = L] \in Read
        /\ \A n \in Nat : /\ [read[s] EXCEPT !.net = n] \in Read
                         /\ [read[s] EXCEPT !.paid = n] \in Read
    BY <2>3 DEF Read
  <2>5. \/ read' = read
        \/ \E x \in Read : x.status = read[s].status /\ read' = [read EXCEPT ![s] = x]
    BY <2>2, <2>3, <2>4 DEF Read
  <2> QED
    BY <2>5 DEF Sound, TypeOK
<1>5. dels' = dels \/ \E D \in SUBSET Rows : dels' = [dels EXCEPT ![s] = D]
  <2>1. read[s].lines \cap lines[target[s]] \in SUBSET Rows
    BY <1>1 DEF Sound, TypeOK
  <2> QED
    BY <2>1 DEF Reads, LoadEditedLines, ReplaceLines, RefreshNet, SumLines,
       LoadSubmittedLines, ReadReference, ReadPaid, LoadLines
<1>6. SessionTypes' /\ OthersKeep(s)
  BY <1>2, <1>3, <1>4, <1>5 DEF Sound, TypeOK, SessionTypes, OthersKeep
<1> QED
  BY <1>0, <1>2, <1>3, <1>4, <1>6 DEF Sound, TypeOK

LEMMA ReadsSound ==
  ASSUME Sound, NEW s \in Sessions, Reads(s)
  PROVE  Sound'
<1>1. TypeOK'
  BY ReadsChange DEF Sound, TypeOK, SessionTypes, ClaimTypes
<1>2. Relies(s)'
  BY ReadsChange DEF Sound, Relies
<1>3. \A t \in Sessions \ {s} : Relies(t)'
  BY ReadsChange, OthersRely
<1> QED
  BY <1>1, <1>2, <1>3, ReadsChange
     DEF Sound, PayableIsApproved, PaidAfterApproval, ClaimedOnce

LEMMA EditSound ==
  ASSUME Sound, NEW s \in Sessions, CommitEdit(s)
  PROVE  Sound'
<1> DEFINE c == target[s]
           L == (lines[c] \ dels[s]) \cup input[s].lines
           n == NetOf(read[s].lines)
<1>1. /\ EndRequest(s) /\ UNCHANGED <<status, approved, links, paid, used>>
      /\ lines' = [lines EXCEPT ![c] = L]
      /\ net' = net \/ net' = [net EXCEPT ![c] = n]
  BY DEF CommitEdit
<1>2. c \in Claims
  BY DEF CommitEdit, Sound, Relies, TypeOK
<1>3. L \in SUBSET Rows
  BY <1>2 DEF Sound, TypeOK, Input, LineSets
<1>4. n \in Nat
  BY NetIsNat DEF Sound, TypeOK, Read
<1>5. SessionTypes' /\ \A t \in Sessions : Relies(t)'
  BY <1>1, EndRelies
<1>6. TypeOK'
  <2>1. ClaimTypes'
    <3> HIDE DEF L, n
    <3> QED
      BY <1>1, <1>2, <1>3, <1>4 DEF Sound, TypeOK, ClaimTypes
  <2> QED
    BY <1>5, <2>1 DEF TypeOK, SessionTypes, ClaimTypes
<1> QED
  BY <1>1, <1>5, <1>6 DEF Sound, PayableIsApproved, PaidAfterApproval, ClaimedOnce

\* An UPDATE writes at most the status of the handler's own claim.
LEMMA WriteStatusChanges ==
  ASSUME TypeOK, NEW s \in Sessions, NEW st \in Statuses, WriteStatus(s, st)
  PROVE  /\ status' \in [Claims -> Statuses]
         /\ \A c \in Claims : \/ status'[c] = status[c]
                              \/ c = target[s] /\ status'[c] = st
BY DEF TypeOK, WriteStatus

LEMMA MoveSound ==
  ASSUME Sound, NEW s \in Sessions, CommitSubmit(s) \/ CommitApprove(s)
  PROVE  Sound'
<1>1. /\ EndRequest(s) /\ UNCHANGED <<lines, net, links, paid, used>>
      /\ target[s] \in Claims
  BY DEF CommitSubmit, CommitApprove, Sound, Relies, TypeOK
<1>2. /\ approved' \in [Claims -> BOOLEAN]
      /\ \A c \in Claims : approved[c] => approved'[c]
      /\ CommitApprove(s) => approved'[target[s]]
  BY <1>1 DEF CommitSubmit, CommitApprove, Sound, TypeOK
<1>3. PICK st \in {"SUBMITTED", "APPROVED"} :
        WriteStatus(s, st) /\ (st = "APPROVED" => CommitApprove(s))
  BY DEF CommitSubmit, CommitApprove
<1>4. /\ status' \in [Claims -> Statuses]
      /\ \A c \in Claims : \/ status'[c] = status[c]
                           \/ c = target[s] /\ status'[c] = st
  BY <1>3, WriteStatusChanges DEF Statuses, Sound
<1>5. SessionTypes' /\ \A t \in Sessions : Relies(t)'
  BY <1>1, <1>2, EndRelies
<1>6. TypeOK'
  BY <1>1, <1>2, <1>4, <1>5 DEF Sound, TypeOK, SessionTypes, ClaimTypes
<1>7. PayableIsApproved'
  BY <1>2, <1>3, <1>4 DEF Sound, PayableIsApproved, Payable
<1>8. PaidAfterApproval' /\ ClaimedOnce'
  BY <1>1, <1>2, <1>3, <1>4 DEF Sound, PaidAfterApproval, ClaimedOnce
<1> QED
  BY <1>5, <1>6, <1>7, <1>8 DEF Sound

\* Money is recorded on the claim whose status was found payable.
LEMMA PaymentSound ==
  ASSUME Sound, NEW s \in Sessions, CommitPayment(s)
  PROVE  Sound'
<1> DEFINE c == target[s]
           n == paid[c] + input[s].amount
<1>1. /\ EndRequest(s) /\ UNCHANGED <<approved, lines, net, links>>
      /\ c \in Claims /\ approved[c] /\ input[s].amount > 0
      /\ input[s].amount \in Nat /\ paid[c] \in Nat
      /\ paid' = [paid EXCEPT ![c] = n]
  BY BoundsAssumption DEF CommitPayment, InsertPayment, Sound, Relies, Paying, TypeOK, Input
<1>2. used' \in [Claims -> [References -> Nat]]
  <2>1. input[s].reference \in References \cup {NoReference}
    BY DEF Sound, TypeOK, Input
  <2> QED
    BY <1>1, <2>1 DEF CommitPayment, InsertPayment, Sound, TypeOK
<1>3. PICK st \in {"PAID", "PARTIALLY_PAID"} : WriteStatus(s, st)
  BY DEF CommitPayment
<1>4. /\ status' \in [Claims -> Statuses]
      /\ \A d \in Claims : \/ status'[d] = status[d]
                           \/ d = c /\ status'[d] = st
  BY <1>3, WriteStatusChanges DEF Statuses, Sound
<1>5. n \in Nat /\ n > 0
  BY <1>1
<1>6. SessionTypes' /\ \A t \in Sessions : Relies(t)'
  BY <1>1, EndRelies
<1> HIDE DEF n
<1>7. TypeOK'
  BY <1>1, <1>2, <1>4, <1>5, <1>6 DEF Sound, TypeOK, SessionTypes, ClaimTypes
<1>8. PayableIsApproved' /\ PaidAfterApproval'
  BY <1>1, <1>3, <1>4, <1>5 DEF Sound, TypeOK, PayableIsApproved, PaidAfterApproval
<1>9. ClaimedOnce'
  BY <1>1 DEF Sound, ClaimedOnce
<1> QED
  BY <1>6, <1>7, <1>8, <1>9 DEF Sound

-----------------------------------------------------------------------------
LEMMA StepSound == Sound /\ [Next]_vars => Sound'
<1> SUFFICES ASSUME Sound, [Next]_vars PROVE Sound'
  OBVIOUS
<1>1. ASSUME NEW s \in Sessions, Progress(s) \/ Crash(s)
      PROVE  Sound'
  BY <1>1, CreateSound, ReadsSound, EditSound, MoveSound, PaymentSound, AbandonSound
     DEF Progress, Reads, Refuse, Crash
<1>2. CASE UNCHANGED vars
  BY <1>2 DEF vars, claimVars, sessionVars, Sound, TypeOK, Relies, PayableIsApproved,
     PaidAfterApproval, ClaimedOnce
<1> QED
  BY <1>1, <1>2, CreateRequestSound, BeginSound DEF Next

\* Sound is inductive: it holds initially and every step keeps it.
LEMMA SoundInvariant == Spec => []Sound
BY InitSound, StepSound, PTL DEF Spec

\* In every reachable state the variables of the claims have their types; in particular the
\* net amount is never negative, whatever deductions the lines hold.
THEOREM ClaimsTypeCorrect == Spec => []TypeOK
<1>1. Sound => TypeOK
  BY DEF Sound
<1> QED
  BY <1>1, SoundInvariant, PTL

\* However creations race, a receipt is on one claim only (billing/service.py:4-5).
THEOREM ReceiptsAreClaimedOnce == Spec => []ClaimedOnce
<1>1. Sound => ClaimedOnce
  BY DEF Sound
<1> QED
  BY <1>1, SoundInvariant, PTL

\* Whatever status a handler writes over a newer one, a claim with a payment was approved,
\* and one that counts as paid has a payment (record_payment, approve_claim).
THEOREM PaidClaimsWereApproved == Spec => []PaidAfterApproval
<1>1. Sound => PaidAfterApproval
  BY DEF Sound
<1> QED
  BY <1>1, SoundInvariant, PTL

-----------------------------------------------------------------------------
(* Requests on a serial claim take effect one at a time: Billing implements  *)
(* AtomicBilling, whatever requests overlap on the other claims.             *)

\* Two requests never have the same serial claim as their target.
Alone == \A s, t \in Sessions : target[s] = target[t] /\ target[s] \in SerialClaims => s = t

\* What a handler has read of a serial claim is still so.
Current(s) ==
  LET c == target[s] IN
  /\ read[s].status = status[c] /\ read[s].net = net[c]
  /\ pc[s] \in {"editLines", "delete", "refresh", "sum", "saveNet", "submitLines", "submit"} =>
       status[c] = "DRAFT"
  /\ pc[s] \in {"delete", "submit"} => read[s].lines = lines[c]
  /\ pc[s] \in {"refresh", "sum", "saveNet"} => dels[s] = lines[c]
  /\ pc[s] = "saveNet" => read[s].lines = input[s].lines
  /\ pc[s] = "approve" => status[c] = "SUBMITTED"
  /\ pc[s] \in {"outstanding", "pay"} /\ input[s].reference # NoReference =>
       used[c][input[s].reference] = 0
  /\ pc[s] = "pay" => read[s].paid = paid[c] /\ paid[c] + input[s].amount <= net[c]

\* The lines of a request are those of no claim and no other request.
NewLines == /\ \A s \in Sessions, c \in Claims : input[s].lines \cap lines[c] = {}
            /\ \A s, t \in Sessions : s # t => input[s].lines \cap input[t].lines = {}

SerialClaim == /\ Alone
               /\ \A s \in Sessions : target[s] \in SerialClaims => Current(s)
               /\ NewLines

SerialSound == Sound /\ SerialClaim

LEMMA NullIsNotSerial == NoClaim \notin SerialClaims
BY NullAssumption, SerialAssumption

LEMMA InitSerial == Init => SerialSound
BY InitSound, NullIsNotSerial DEF Init, SerialSound, SerialClaim, Alone, NewLines, NoInput

\* A step of s changes no claim but its target.
OnlyTarget(s) == \A c \in Claims \ {target[s]} :
                   /\ status'[c] = status[c] /\ net'[c] = net[c] /\ links'[c] = links[c]
                   /\ lines'[c] = lines[c] /\ paid'[c] = paid[c] /\ used'[c] = used[c]

\* What is so of a serial claim stays so for its handler while others work.
LEMMA OthersCurrent ==
  ASSUME SerialSound, NEW s \in Sessions, OthersKeep(s),
         NEW c \in Claims \cup {NoClaim},
         \A d \in Claims \ {c} :
           /\ status'[d] = status[d] /\ net'[d] = net[d]
           /\ lines'[d] = lines[d] /\ paid'[d] = paid[d] /\ used'[d] = used[d],
         \A t \in Sessions \ {s} : target[t] # c \/ c \notin SerialClaims
  PROVE  \A t \in Sessions \ {s} : target'[t] \in SerialClaims => Current(t)'
<1> SUFFICES ASSUME NEW t \in Sessions \ {s}, target'[t] \in SerialClaims
             PROVE  Current(t)'
  OBVIOUS
<1>1. target'[t] = target[t] /\ Current(t)
  BY DEF OthersKeep, SerialSound, SerialClaim
<1>2. target[t] \in Claims \ {c}
  BY <1>1, SerialAssumption
<1> QED
  BY <1>1, <1>2 DEF Current, OthersKeep

\* Lines that move from a request to its claim, and no others, become lines of a claim.
LEMMA LinesStayNew ==
  ASSUME SerialSound, NEW s \in Sessions, OthersKeep(s),
         NEW c \in Claims, lines' = [lines EXCEPT ![c] = (@ \ dels[s]) \cup input[s].lines],
         input'[s] = NoInput
  PROVE  NewLines'
<1>1. \A t \in Sessions, d \in Claims : input'[t].lines \cap lines'[d] = {}
  <2> TAKE t \in Sessions, d \in Claims
  <2>1. CASE t = s
    BY <2>1 DEF NoInput
  <2>2. CASE t # s
    <3>1. /\ input'[t].lines \cap lines[d] = {}
          /\ input'[t].lines \cap input[s].lines = {}
      BY <2>2 DEF OthersKeep, SerialSound, SerialClaim, NewLines
    <3>2. lines'[d] \subseteq lines[d] \cup input[s].lines
      BY DEF SerialSound, Sound, TypeOK
    <3> QED
      BY <3>1, <3>2
  <2> QED
    BY <2>1, <2>2
<1>2. \A t, u \in Sessions : t # u => input'[t].lines \cap input'[u].lines = {}
  BY DEF OthersKeep, SerialSound, SerialClaim, NewLines, NoInput
<1> QED
  BY <1>1, <1>2 DEF NewLines

LEMMA LinesUnchangedNew ==
  ASSUME SerialSound, NEW s \in Sessions, OthersKeep(s),
         input'[s].lines = {} \/ input'[s].lines = input[s].lines, UNCHANGED lines
  PROVE  NewLines'
BY DEF OthersKeep, SerialSound, SerialClaim, NewLines

\* A request that ends, whatever it has done to its own claim.
LEMMA EndSerial ==
  ASSUME SerialSound, Sound', NEW s \in Sessions, EndRequest(s), OnlyTarget(s), NewLines'
  PROVE  SerialSound'
<1>1. target'[s] = NoClaim /\ OthersKeep(s)
  BY EndTypes DEF SerialSound, Sound
<1>2. \A t \in Sessions \ {s} : target[t] # target[s] \/ target[s] \notin SerialClaims
  BY DEF SerialSound, SerialClaim, Alone
<1>3. target[s] \in Claims \cup {NoClaim}
  BY DEF SerialSound, Sound, TypeOK
<1>4. \A t \in Sessions \ {s} : target'[t] \in SerialClaims => Current(t)'
  BY <1>1, <1>2, <1>3, OthersCurrent DEF OnlyTarget
<1>5. Alone'
  BY <1>1, NullIsNotSerial DEF SerialSound, SerialClaim, Alone, OthersKeep
<1> QED
  BY <1>1, <1>4, <1>5, NullIsNotSerial DEF SerialSound, SerialClaim

LEMMA AbandonSerial ==
  ASSUME SerialSound, NEW s \in Sessions, Abandon(s)
  PROVE  SerialSound'
<1>1. Sound' /\ EndRequest(s) /\ UNCHANGED <<status, approved, lines, net, links, paid, used>>
  BY AbandonSound DEF Abandon, claimVars, SerialSound
<1>2. input'[s] = NoInput /\ OthersKeep(s)
  BY <1>1, EndTypes DEF SerialSound, Sound
<1>3. NewLines'
  BY <1>1, <1>2, LinesUnchangedNew DEF NoInput
<1> QED
  BY <1>1, <1>3, EndSerial DEF OnlyTarget

\* A new claim is nobody's target yet, and its lines are new.
LEMMA CreateSerial ==
  ASSUME SerialSound, NEW s \in Sessions, NEW c \in Claims, NEW L \in FreshLines,
         CommitCreate(s, c, L)
  PROVE  SerialSound'
<1>1. Sound' /\ EndRequest(s)
  BY CreateSound DEF CommitCreate, SerialSound
<1>2. /\ target'[s] = NoClaim /\ input'[s] = NoInput /\ OthersKeep(s)
  BY <1>1, EndTypes DEF SerialSound, Sound
<1>3. /\ status[c] = "ABSENT" /\ lines' = [lines EXCEPT ![c] = L] /\ UNCHANGED <<paid, used>>
      /\ \A d \in Claims \ {c} : status'[d] = status[d] /\ net'[d] = net[d]
                                 /\ lines'[d] = lines[d]
  BY DEF CommitCreate, SerialSound, Sound, TypeOK
<1>4. ASSUME NEW t \in Sessions \ {s}
      PROVE  target[t] # c \/ c \notin SerialClaims
  <2> SUFFICES ASSUME target[t] = c, c \in SerialClaims PROVE FALSE
    OBVIOUS
  <2>1. Current(t) /\ pc[t] \notin {"idle", "claim"} /\ pc[t] \in Steps /\ Relies(t)
    BY NullIsNotSerial DEF SerialSound, SerialClaim, Sound, Relies, TypeOK
  <2>2. pc[t] \in Paying
    BY <1>3, <2>1 DEF Current, Steps, Paying
  <2> QED
    BY <1>3, <2>1, <2>2 DEF Current, Relies, Payable
<1>5. \A t \in Sessions \ {s} : target'[t] \in SerialClaims => Current(t)'
  BY <1>2, <1>3, <1>4, OthersCurrent
<1>6. NewLines'
  <2>1. \A t \in Sessions : input[t].lines \cap L = {}
    BY DEF FreshLines, Fresh
  <2>2. \A t \in Sessions, d \in Claims : input'[t].lines \cap lines'[d] = {}
    BY <1>2, <1>3, <2>1 DEF OthersKeep, SerialSound, SerialClaim, NewLines, Sound, TypeOK,
       NoInput
  <2>3. \A t, u \in Sessions : t # u => input'[t].lines \cap input'[u].lines = {}
    BY <1>2 DEF OthersKeep, SerialSound, SerialClaim, NewLines, NoInput
  <2> QED
    BY <2>2, <2>3 DEF NewLines
<1>7. Alone'
  BY <1>2, NullIsNotSerial DEF SerialSound, SerialClaim, Alone, OthersKeep
<1> QED
  BY <1>1, <1>2, <1>5, <1>6, <1>7, NullIsNotSerial DEF SerialSound, SerialClaim

LEMMA CreateRequestSerial ==
  ASSUME SerialSound, NEW s \in Sessions, NEW R \in SUBSET Receipts, CreateRequest(s, R)
  PROVE  SerialSound'
<1>1. Sound'
  BY CreateRequestSound DEF SerialSound
<1>2. /\ UNCHANGED <<status, approved, lines, net, links, paid, used, target, read, dels>>
      /\ target[s] = NoClaim /\ input'[s].lines = input[s].lines /\ OthersKeep(s)
  BY DEF CreateRequest, claimVars, SerialSound, Sound, TypeOK, Input, OthersKeep
<1>3. NewLines'
  BY <1>2, LinesUnchangedNew
<1>4. \A t \in Sessions \ {s} : target'[t] \in SerialClaims => Current(t)'
  BY <1>2, OthersCurrent, NullIsNotSerial
<1> QED
  BY <1>1, <1>2, <1>3, <1>4, NullIsNotSerial DEF SerialSound, SerialClaim, Alone

\* The step at which each request begins, with the status that it asks for.
LEMMA RequestFinds ==
  ASSUME SerialSound, NEW s \in Sessions, NEW c \in Claims, Request(s, c)
  PROVE  \E step, body :
           /\ Begin(s, c, step, body)
           /\ step \in {"editLines", "submitLines", "approve", "reference", "outstanding"}
           /\ step \in {"editLines", "submitLines"} => status[c] = "DRAFT"
           /\ step = "approve" => status[c] = "SUBMITTED"
           /\ step = "outstanding" => body.reference = NoReference
           /\ body.lines = {} \/ body.lines \in FreshLines
<1> DEFINE Finds(step, body) ==
             /\ Begin(s, c, step, body)
             /\ step \in {"editLines", "submitLines", "approve", "reference", "outstanding"}
             /\ step \in {"editLines", "submitLines"} => status[c] = "DRAFT"
             /\ step = "approve" => status[c] = "SUBMITTED"
             /\ step = "outstanding" => body.reference = NoReference
             /\ body.lines = {} \/ body.lines \in FreshLines
<1>1. ASSUME NEW L \in FreshLines, EditRequest(s, c, L)
      PROVE  Finds("editLines", [NoInput EXCEPT !.lines = L])
  BY <1>1 DEF EditRequest, NoInput
<1>2. SubmitRequest(s, c) => Finds("submitLines", NoInput)
  BY DEF SubmitRequest, NoInput
<1>3. ApproveRequest(s, c) => Finds("approve", NoInput)
  BY DEF ApproveRequest, NoInput
<1>4. ASSUME NEW amount \in 1 .. MaxAmount, NEW r \in References \cup {NoReference},
             PayRequest(s, c, amount, r)
      PROVE  Finds(IF r = NoReference THEN "outstanding" ELSE "reference",
                   [NoInput EXCEPT !.amount = amount, !.reference = r])
  BY <1>4 DEF PayRequest, NoInput
<1> QED
  BY <1>1, <1>2, <1>3, <1>4 DEF Request

LEMMA BeginSerial ==
  ASSUME SerialSound, NEW s \in Sessions, NEW c \in Claims, Request(s, c)
  PROVE  SerialSound'
<1>1. Sound'
  BY BeginSound DEF SerialSound
<1>2. PICK step, body :
        /\ Begin(s, c, step, body)
        /\ step \in {"editLines", "submitLines", "approve", "reference", "outstanding"}
        /\ step \in {"editLines", "submitLines"} => status[c] = "DRAFT"
        /\ step = "approve" => status[c] = "SUBMITTED"
        /\ step = "outstanding" => body.reference = NoReference
        /\ body.lines = {} \/ body.lines \in FreshLines
  BY RequestFinds
<1>3. /\ UNCHANGED <<status, approved, lines, net, links, paid, used, dels>>
      /\ pc[s] = "idle" /\ target[s] = NoClaim
      /\ pc'[s] = step /\ target'[s] = c /\ input'[s] = body
      /\ read'[s].status = status[c] /\ read'[s].net = net[c]
      /\ OthersKeep(s)
      /\ c \in SerialClaims => \A t \in Sessions : target[t] # c
  BY <1>2 DEF Begin, claimVars, SerialSound, Sound, TypeOK, OthersKeep, NoRead
<1>4. \A t \in Sessions \ {s} : target'[t] \in SerialClaims => Current(t)'
  BY <1>3, OthersCurrent, NullIsNotSerial
<1>5. Current(s)'
  BY <1>2, <1>3 DEF Current
<1>6. Alone'
  BY <1>3 DEF SerialSound, SerialClaim, Alone, OthersKeep
<1>7. NewLines'
  <2>1. CASE body.lines = {}
    BY <1>3, <2>1, LinesUnchangedNew
  <2>2. CASE body.lines \in FreshLines
    <3>1. /\ \A d \in Claims : body.lines \cap lines[d] = {}
          /\ \A t \in Sessions : body.lines \cap input[t].lines = {}
      BY <2>2 DEF FreshLines, Fresh
    <3> QED
      BY <1>3, <3>1 DEF OthersKeep, SerialSound, SerialClaim, NewLines
  <2> QED
    BY <1>2, <2>1, <2>2
<1> QED
  BY <1>1, <1>4, <1>5, <1>6, <1>7 DEF SerialSound, SerialClaim

\* What a statement reads of a serial claim is what the claim has.
LEMMA ReadsSerial ==
  ASSUME SerialSound, NEW s \in Sessions, Reads(s)
  PROVE  SerialSound'
<1>1. /\ Sound' /\ OthersKeep(s)
      /\ UNCHANGED <<status, approved, lines, net, links, paid, used, target, input>>
  BY ReadsSound, ReadsChange DEF SerialSound
<1>2. \A t \in Sessions \ {s} : target'[t] \in SerialClaims => Current(t)'
  BY <1>1, OthersCurrent, NullIsNotSerial
<1>3. ASSUME target[s] \in SerialClaims
      PROVE  Current(s)'
  <2> DEFINE c == target[s]
  <2>0. /\ Current(s) /\ c \in Claims /\ c \in SerialClaims /\ UNCHANGED c
        /\ read[s] \in Read /\ input[s] \in Input
    BY <1>1, <1>3, SerialAssumption DEF SerialSound, SerialClaim, Sound, TypeOK
  <2>1. CASE LoadEditedLines(s)
    <3>1. /\ pc[s] = "editLines" /\ pc'[s] = "delete"
          /\ read'[s] = [read[s] EXCEPT !.lines = lines[c]]
      BY <2>1 DEF LoadEditedLines, LoadLines, Goto, SerialSound, Sound, TypeOK
    <3> QED
      BY <1>1, <2>0, <3>1 DEF Current, Read
  <2>2. CASE LoadSubmittedLines(s)
    <3>1. /\ pc[s] = "submitLines" /\ pc'[s] = "submit"
          /\ read'[s] = [read[s] EXCEPT !.lines = lines[c]]
      BY <2>2 DEF LoadSubmittedLines, LoadLines, Goto, SerialSound, Sound, TypeOK
    <3> QED
      BY <1>1, <2>0, <3>1 DEF Current, Read
  <2>3. CASE ReplaceLines(s)
    <3>1. /\ pc[s] = "delete" /\ pc'[s] = "refresh" /\ read' = read
          /\ dels'[s] = read[s].lines \cap lines[c]
      BY <2>3 DEF ReplaceLines, Goto, SerialSound, Sound, TypeOK
    <3>2. dels'[s] = lines[c]
      BY <2>0, <3>1 DEF Current
    <3> QED
      BY <1>1, <2>0, <3>1, <3>2 DEF Current
  <2>4. CASE RefreshNet(s)
    <3>1. /\ pc[s] = "refresh" /\ pc'[s] = "sum" /\ dels' = dels
          /\ read'[s] = [read[s] EXCEPT !.net = net[c]]
      BY <2>4 DEF RefreshNet, Goto, SerialSound, Sound, TypeOK
    <3> QED
      BY <1>1, <2>0, <3>1 DEF Current, Read
  <2>5. CASE SumLines(s)
    <3>1. /\ pc[s] = "sum" /\ pc'[s] = "saveNet" /\ dels' = dels
          /\ read'[s] = [read[s] EXCEPT !.lines = (lines[c] \ dels[s]) \cup input[s].lines]
      BY <2>5 DEF SumLines, Goto, SerialSound, Sound, TypeOK
    <3>2. (lines[c] \ dels[s]) \cup input[s].lines = input[s].lines
      BY <2>0, <3>1 DEF Current
    <3> QED
      BY <1>1, <2>0, <3>1, <3>2 DEF Current, Read
  <2>6. CASE ReadReference(s)
    <3>1. /\ pc[s] = "reference" /\ pc'[s] = "outstanding" /\ dels' = dels /\ read' = read
          /\ used[c][input[s].reference] = 0
      BY <2>6 DEF ReadReference, ReferenceUsed, Goto, SerialSound, Sound, TypeOK
    <3> QED
      BY <1>1, <2>0, <3>1 DEF Current
  <2>7. CASE ReadPaid(s)
    <3>1. /\ pc[s] = "outstanding" /\ pc'[s] = "pay" /\ dels' = dels
          /\ ~ (input[s].amount > read[s].net - paid[c])
          /\ read'[s] = [read[s] EXCEPT !.paid = paid[c]]
      BY <2>7 DEF ReadPaid, Exceeds, Goto, SerialSound, Sound, TypeOK
    <3>2. read[s].net = net[c]
      BY <2>0 DEF Current
    <3>3. net[c] \in Nat /\ paid[c] \in Nat /\ input[s].amount \in Int
      BY <2>0 DEF SerialSound, Sound, TypeOK, Input
    <3>4. paid[c] + input[s].amount <= net[c]
      BY <3>1, <3>2, <3>3
    <3> QED
      BY <1>1, <2>0, <3>1, <3>4 DEF Current, Read
  <2> QED
    BY <2>1, <2>2, <2>3, <2>4, <2>5, <2>6, <2>7 DEF Reads
<1>4. NewLines'
  BY <1>1, LinesUnchangedNew
<1> QED
  BY <1>1, <1>2, <1>3, <1>4 DEF SerialSound, SerialClaim, Alone

\* Every commit but that of a creation writes rows of the claim of its request only.
LEMMA CommitReaches ==
  ASSUME SerialSound, NEW s \in Sessions,
         CommitEdit(s) \/ CommitSubmit(s) \/ CommitApprove(s) \/ CommitPayment(s)
  PROVE  target[s] \in Claims /\ EndRequest(s) /\ OnlyTarget(s)
<1>1. target[s] \in Claims /\ EndRequest(s)
  BY DEF CommitEdit, CommitSubmit, CommitApprove, CommitPayment, SerialSound, Sound, Relies,
     TypeOK
<1>2. \A c \in Claims \ {target[s]} : status'[c] = status[c]
  <2>1. CASE CommitEdit(s)
    BY <2>1 DEF CommitEdit
  <2>2. CASE CommitSubmit(s) \/ CommitApprove(s) \/ CommitPayment(s)
    <3>1. {"SUBMITTED", "APPROVED", "PAID", "PARTIALLY_PAID"} \subseteq Statuses
      BY DEF Statuses
    <3>2. PICK st \in Statuses : WriteStatus(s, st)
      BY <2>2, <3>1 DEF CommitSubmit, CommitApprove, CommitPayment
    <3> QED
      BY <3>2, WriteStatusChanges DEF SerialSound, Sound
  <2> QED
    BY <2>1, <2>2
<1>3. \A c \in Claims \ {target[s]} : /\ net'[c] = net[c] /\ links'[c] = links[c]
                                      /\ lines'[c] = lines[c] /\ paid'[c] = paid[c]
                                      /\ used'[c] = used[c]
  BY DEF CommitEdit, CommitSubmit, CommitApprove, CommitPayment, InsertPayment, SerialSound,
     Sound, TypeOK
<1> QED
  BY <1>1, <1>2, <1>3 DEF OnlyTarget

LEMMA CommitSerial ==
  ASSUME SerialSound, NEW s \in Sessions,
         CommitEdit(s) \/ CommitSubmit(s) \/ CommitApprove(s) \/ CommitPayment(s)
  PROVE  SerialSound'
<1>1. target[s] \in Claims /\ EndRequest(s) /\ OnlyTarget(s)
  BY CommitReaches
<1>2. Sound'
  BY EditSound, MoveSound, PaymentSound DEF SerialSound
<1>3. input'[s] = NoInput /\ OthersKeep(s)
  BY <1>1, EndTypes DEF SerialSound, Sound
<1>4. CASE CommitEdit(s)
  <2>1. lines' = [lines EXCEPT ![target[s]] = (@ \ dels[s]) \cup input[s].lines]
    BY <1>4 DEF CommitEdit
  <2>2. NewLines'
    BY <1>1, <1>3, <2>1, LinesStayNew
  <2> QED
    BY <1>1, <1>2, <2>2, EndSerial
<1>5. CASE ~ CommitEdit(s)
  <2>1. UNCHANGED lines
    BY <1>5 DEF CommitSubmit, CommitApprove, CommitPayment
  <2>2. NewLines'
    BY <1>3, <2>1, LinesUnchangedNew DEF NoInput
  <2> QED
    BY <1>1, <1>2, <2>2, EndSerial
<1> QED
  BY <1>4, <1>5

LEMMA StepSerial == SerialSound /\ [Next]_vars => SerialSound'
<1> SUFFICES ASSUME SerialSound, [Next]_vars PROVE SerialSound'
  OBVIOUS
<1>1. ASSUME NEW s \in Sessions, Progress(s) \/ Crash(s)
      PROVE  SerialSound'
  BY <1>1, CreateSerial, ReadsSerial, CommitSerial, AbandonSerial
     DEF Progress, Reads, Refuse, Crash
<1>2. CASE UNCHANGED vars
  BY <1>2, StepSound DEF vars, claimVars, sessionVars, SerialSound, SerialClaim, Alone,
     Current, NewLines
<1> QED
  BY <1>1, <1>2, CreateRequestSerial, BeginSerial DEF Next

-----------------------------------------------------------------------------
(* The commits on a serial claim are the atomic operations                   *)

\* The status a handler loaded is that of the claim, so not writing it back writes it.
LEMMA WriteSeen ==
  ASSUME SerialSound, NEW s \in Sessions, target[s] \in SerialClaims, NEW st,
         WriteStatus(s, st)
  PROVE  /\ OnSerial(status)[target[s]] = status[target[s]]
         /\ OnSerial(status)' = [OnSerial(status) EXCEPT ![target[s]] = st]
<1>1. read[s].status = status[target[s]]
  BY DEF SerialSound, SerialClaim, Current
<1>2. status' = [status EXCEPT ![target[s]] = st]
  BY <1>1, SerialAssumption DEF WriteStatus, SerialSound, Sound, TypeOK
<1> QED
  BY <1>2, SerialAssumption DEF OnSerial, SerialSound, Sound, TypeOK

\* AtomicBilling sums the lines as Billing does.
LEMMA AtomicNet ==
  \A L : Atomic!Max({0, Atomic!MapThenSumSet(LAMBDA r : Amount[r], L)}) = NetOf(L)
BY DEF NetOf, Max, MapThenSumSet, MapThenFoldSet,
       Atomic!Max, Atomic!MapThenSumSet, Atomic!MapThenFoldSet

LEMMA AtomicCardinality == \A S : Atomic!Cardinality(S) = Cardinality(S)
BY DEF Atomic!Cardinality, Cardinality

\* The new lines are no claim's, and the net is theirs.
LEMMA CreateIsAtomic ==
  ASSUME SerialSound, NEW s \in Sessions, NEW c \in SerialClaims, NEW L \in FreshLines,
         CommitCreate(s, c, L)
  PROVE  Atomic!Create(c, input[s].receipts, L)
<1>1. c \in Claims
  BY SerialAssumption
<1>2. Atomic!Move(c, "ABSENT", "DRAFT")
  BY <1>1, SerialAssumption DEF CommitCreate, Atomic!Move, OnSerial, SerialSound, Sound, TypeOK
<1>3. \A d \in SerialClaims : input[s].receipts \cap OnSerial(links)[d] = {}
  BY SerialAssumption DEF CommitCreate, Claimed, OnSerial
<1>4. OnSerial(links)' = [OnSerial(links) EXCEPT ![c] = input[s].receipts]
  BY <1>1, SerialAssumption DEF CommitCreate, OnSerial, SerialSound, Sound, TypeOK
<1>5. Atomic!SetLines(c, L)
  <2>1. \A d \in SerialClaims : L \cap OnSerial(lines)[d] = {}
    BY SerialAssumption DEF OnSerial, FreshLines, Fresh
  <2>2. OnSerial(lines)' = [OnSerial(lines) EXCEPT ![c] = L]
    BY <1>1, SerialAssumption DEF CommitCreate, OnSerial, SerialSound, Sound, TypeOK
  <2>3. OnSerial(net)' = [OnSerial(net) EXCEPT ![c] = NetOf(L)]
    BY <1>1, SerialAssumption DEF CommitCreate, OnSerial, SerialSound, Sound, TypeOK
  <2>4. UNCHANGED <<OnSerial(paid), OnSerial(used)>>
    BY DEF CommitCreate, OnSerial
  <2> QED
    BY <2>1, <2>2, <2>3, <2>4, AtomicNet DEF Atomic!SetLines
<1> QED
  BY <1>2, <1>3, <1>4, <1>5 DEF Atomic!Create

\* An edit leaves the lines of its request, with their sum.
LEMMA EditIsAtomic ==
  ASSUME SerialSound, NEW s \in Sessions, CommitEdit(s), target[s] \in SerialClaims
  PROVE  Atomic!Edit(target[s], input[s].lines)
<1> DEFINE c == target[s]
           L == input[s].lines
<1>1. c \in Claims /\ c \in SerialClaims /\ Current(s) /\ pc[s] = "saveNet"
  BY SerialAssumption DEF CommitEdit, SerialSound, SerialClaim
<1>2. /\ lines' = [lines EXCEPT ![c] = (lines[c] \ dels[s]) \cup L]
      /\ net' = IF NetOf(read[s].lines) = read[s].net THEN net
                ELSE [net EXCEPT ![c] = NetOf(read[s].lines)]
      /\ UNCHANGED <<status, links, paid, used>>
  BY DEF CommitEdit
<1>3. status[c] = "DRAFT" /\ dels[s] = lines[c] /\ read[s].net = net[c] /\ read[s].lines = L
  BY <1>1 DEF Current
<1> HIDE DEF c, L
<1>4. lines' = [lines EXCEPT ![c] = L]
  BY <1>2, <1>3
<1>5. net' = [net EXCEPT ![c] = NetOf(L)]
  BY <1>1, <1>2, <1>3 DEF SerialSound, Sound, TypeOK
<1>6. OnSerial(lines)' = [OnSerial(lines) EXCEPT ![c] = L]
  BY <1>1, <1>4, SerialAssumption DEF OnSerial, SerialSound, Sound, TypeOK
<1>7. OnSerial(net)' = [OnSerial(net) EXCEPT ![c] = NetOf(L)]
  BY <1>1, <1>5, SerialAssumption DEF OnSerial, SerialSound, Sound, TypeOK
<1>8. \A d \in SerialClaims : L \cap OnSerial(lines)[d] = {}
  BY SerialAssumption DEF OnSerial, SerialSound, SerialClaim, NewLines, L
<1>9. Atomic!SetLines(c, L)
  <2>1. UNCHANGED <<OnSerial(paid), OnSerial(used)>>
    BY <1>2 DEF OnSerial
  <2> QED
    BY <1>6, <1>7, <1>8, <2>1, AtomicNet DEF Atomic!SetLines
<1>10. OnSerial(status)[c] = "DRAFT" /\ UNCHANGED <<OnSerial(status), OnSerial(links)>>
  BY <1>1, <1>2, <1>3 DEF OnSerial
<1> QED
  BY <1>9, <1>10 DEF Atomic!Edit, c, L

LEMMA MoveIsAtomic ==
  ASSUME SerialSound, NEW s \in Sessions, CommitSubmit(s) \/ CommitApprove(s),
         target[s] \in SerialClaims
  PROVE  Atomic!Submit(target[s]) \/ Atomic!Approve(target[s])
<1> DEFINE c == target[s]
<1>1. Current(s) /\ c \in SerialClaims
  BY DEF SerialSound, SerialClaim
<1>2. UNCHANGED <<OnSerial(lines), OnSerial(net), OnSerial(links), OnSerial(paid),
                  OnSerial(used)>>
  BY DEF CommitSubmit, CommitApprove, OnSerial
<1>3. CASE CommitSubmit(s)
  <2>1. OnSerial(lines)[c] # {} /\ status[c] = "DRAFT"
    BY <1>1, <1>3 DEF CommitSubmit, Current, OnSerial
  <2>2. Atomic!Move(c, "DRAFT", "SUBMITTED")
    BY <1>3, <2>1, WriteSeen DEF CommitSubmit, Atomic!Move
  <2> QED
    BY <1>2, <2>1, <2>2 DEF Atomic!Submit
<1>4. CASE CommitApprove(s)
  <2>1. status[c] = "SUBMITTED"
    BY <1>1, <1>4 DEF CommitApprove, Current
  <2>2. Atomic!Move(c, "SUBMITTED", "APPROVED")
    BY <1>4, <2>1, WriteSeen DEF CommitApprove, Atomic!Move
  <2> QED
    BY <1>2, <2>2 DEF Atomic!Approve
<1> QED
  BY <1>3, <1>4

\* A payment stays within the outstanding balance, and the one that settles it is the last.
LEMMA PayIsAtomic ==
  ASSUME SerialSound, NEW s \in Sessions, CommitPayment(s), target[s] \in SerialClaims
  PROVE  \E amount \in 1 .. MaxAmount, R \in SUBSET References :
           Cardinality(R) <= 1 /\ Atomic!Pay(target[s], amount, R)
<1> DEFINE c  == target[s]
           a  == input[s].amount
           R  == {input[s].reference} \ {NoReference}
           st == IF read[s].net - read[s].paid - a <= 0 THEN "PAID" ELSE "PARTIALLY_PAID"
<1>1. /\ c \in Claims /\ c \in SerialClaims /\ Current(s) /\ Relies(s) /\ pc[s] = "pay"
      /\ input[s].reference \in References \cup {NoReference}
      /\ a \in 0 .. MaxAmount /\ paid[c] \in Nat /\ net[c] \in Nat
  BY SerialAssumption DEF CommitPayment, SerialSound, SerialClaim, Sound, TypeOK, Input
<1>2. a \in 1 .. MaxAmount
  BY <1>1, BoundsAssumption DEF Relies, Paying
<1>3. R \in SUBSET References /\ Cardinality(R) <= 1
  <2>1. R = {} \/ R = {input[s].reference}
    OBVIOUS
  <2>2. Cardinality(R) <= 1
    <3>1. CASE R = {}
      BY <3>1, FS_EmptySet
    <3>2. CASE R = {input[s].reference}
      <4>1. Cardinality({input[s].reference}) = 1
        BY FS_Singleton
      <4> QED
        BY <3>2, <4>1
    <3> QED
      BY <2>1, <3>1, <3>2
  <2> QED
    BY <1>1, <2>2
<1>4. /\ read[s].net = net[c] /\ read[s].paid = paid[c] /\ paid[c] + a <= net[c]
      /\ status[c] \in Payable
      /\ \A r \in R : used[c][r] = 0
  BY <1>1 DEF Current, Relies, Paying
<1>5. /\ paid' = [paid EXCEPT ![c] = paid[c] + a]
      /\ used' = IF input[s].reference = NoReference THEN used
                 ELSE [used EXCEPT ![c][input[s].reference] = @ + 1]
      /\ WriteStatus(s, st)
      /\ UNCHANGED <<lines, net, links>>
  BY DEF CommitPayment, InsertPayment
<1>6. OnSerial(status)' = [OnSerial(status) EXCEPT ![c] = st]
  BY <1>5, WriteSeen
<1>7. OnSerial(paid)' = [OnSerial(paid) EXCEPT ![c] = paid[c] + a]
  BY <1>1, <1>5, SerialAssumption DEF OnSerial, SerialSound, Sound, TypeOK
<1>8. OnSerial(used)' = [OnSerial(used) EXCEPT ![c] =
                           [r \in References |-> IF r \in R THEN 1 ELSE used[c][r]]]
  <2>1. used[c] \in [References -> Nat]
    BY <1>1 DEF SerialSound, Sound, TypeOK
  <2>2. used'[c] = [r \in References |-> IF r \in R THEN 1 ELSE used[c][r]]
    <3>0. used \in [Claims -> [References -> Nat]]
      BY DEF SerialSound, Sound, TypeOK
    <3>1. CASE input[s].reference = NoReference
      BY <1>5, <2>1, <3>1
    <3>2. CASE input[s].reference # NoReference
      <4> DEFINE f == input[s].reference
      <4>1. f \in References /\ R = {f} /\ used[c][f] = 0
        BY <1>1, <1>4, <3>2
      <4>2. used' = [used EXCEPT ![c][f] = used[c][f] + 1]
        BY <1>5, <3>2
      <4> HIDE DEF f, c, R
      <4>3. used'[c] = [used[c] EXCEPT ![f] = 1]
        BY <1>1, <3>0, <4>1, <4>2
      <4> QED
        BY <2>1, <4>1, <4>3
    <3> QED
      BY <3>1, <3>2
  <2>3. \A d \in Claims \ {c} : used'[d] = used[d]
    BY <1>1, <1>5 DEF SerialSound, Sound, TypeOK
  <2> HIDE DEF R
  <2> QED
    BY <1>1, <2>2, <2>3, SerialAssumption DEF OnSerial
<1>9. st = IF paid[c] + a = net[c] THEN "PAID" ELSE "PARTIALLY_PAID"
  BY <1>1, <1>4
<1>10. /\ OnSerial(status)[c] = status[c] /\ OnSerial(paid)[c] = paid[c]
       /\ OnSerial(net)[c] = net[c] /\ OnSerial(used)[c] = used[c]
       /\ OnSerial(paid)'[c] = paid[c] + a
       /\ UNCHANGED <<OnSerial(lines), OnSerial(net), OnSerial(links)>>
  BY <1>1, <1>5, <1>7 DEF OnSerial
<1>11. Atomic!Pay(c, a, R)
  <2> HIDE DEF c, a, R, st
  <2> QED
    BY <1>4, <1>6, <1>7, <1>8, <1>9, <1>10 DEF Atomic!Pay, Payable
<1> QED
  BY <1>2, <1>3, <1>11

LEMMA StepAtomic == SerialSound /\ [Next]_vars => [Atomic!Next]_(Atomic!vars)
<1> SUFFICES ASSUME SerialSound, [Next]_vars PROVE [Atomic!Next]_(Atomic!vars)
  OBVIOUS
<1>1. ASSUME UNCHANGED <<status, lines, net, links, paid, used>>
      PROVE  UNCHANGED Atomic!vars
  BY <1>1 DEF OnSerial, Atomic!vars
<1>2. ASSUME \A d \in SerialClaims :
               /\ status'[d] = status[d] /\ net'[d] = net[d] /\ links'[d] = links[d]
               /\ lines'[d] = lines[d] /\ paid'[d] = paid[d] /\ used'[d] = used[d]
      PROVE  UNCHANGED Atomic!vars
  BY <1>2 DEF OnSerial, Atomic!vars
<1>3. ASSUME NEW s \in Sessions, NEW c \in Claims, NEW L \in FreshLines,
             CommitCreate(s, c, L)
      PROVE  [Atomic!Next]_(Atomic!vars)
  <2>1. CASE c \in SerialClaims
    <3>1. input[s].receipts \in SUBSET Receipts /\ L \in SUBSET Rows
      BY DEF SerialSound, Sound, TypeOK, Input, FreshLines, LineSets
    <3> QED
      BY <1>3, <2>1, <3>1, CreateIsAtomic DEF Atomic!Next
  <2>2. CASE c \notin SerialClaims
    BY <1>2, <1>3, <2>2, SerialAssumption DEF CommitCreate, SerialSound, Sound, TypeOK
  <2> QED
    BY <2>1, <2>2
<1>4. ASSUME NEW s \in Sessions,
             CommitEdit(s) \/ CommitSubmit(s) \/ CommitApprove(s) \/ CommitPayment(s)
      PROVE  [Atomic!Next]_(Atomic!vars)
  <2>1. CASE target[s] \in SerialClaims
    <3>1. input[s].lines \in SUBSET Rows
      BY DEF SerialSound, Sound, TypeOK, Input, LineSets
    <3>2. Atomic!Next \/ CommitPayment(s)
      BY <1>4, <2>1, <3>1, EditIsAtomic, MoveIsAtomic DEF Atomic!Next
    <3>3. CASE CommitPayment(s)
      <4>1. PICK amount \in 1 .. MaxAmount, R \in SUBSET References :
              Cardinality(R) <= 1 /\ Atomic!Pay(target[s], amount, R)
        BY <2>1, <3>3, PayIsAtomic
      <4>2. Atomic!Next
        BY <2>1, <4>1, AtomicCardinality DEF Atomic!Next
      <4> QED
        BY <4>2
    <3> QED
      BY <3>2, <3>3
  <2>2. CASE target[s] \notin SerialClaims
    BY <1>2, <1>4, <2>2, CommitReaches, SerialAssumption DEF OnlyTarget
  <2> QED
    BY <2>1, <2>2
<1>5. ASSUME NEW s \in Sessions, Reads(s) \/ Refuse(s) \/ Crash(s)
      PROVE  [Atomic!Next]_(Atomic!vars)
  BY <1>1, <1>5, ReadsChange DEF SerialSound, Refuse, Crash, Abandon, claimVars
<1>6. ASSUME NEW s \in Sessions, NEW R \in SUBSET Receipts, CreateRequest(s, R)
      PROVE  [Atomic!Next]_(Atomic!vars)
  BY <1>1, <1>6 DEF CreateRequest, claimVars
<1>7. ASSUME NEW s \in Sessions, NEW c \in Claims, Request(s, c)
      PROVE  [Atomic!Next]_(Atomic!vars)
  BY <1>1, <1>7, RequestFinds DEF Begin, claimVars
<1>8. CASE UNCHANGED vars
  BY <1>1, <1>8 DEF vars, claimVars
<1> QED
  BY <1>3, <1>4, <1>5, <1>6, <1>7, <1>8 DEF Next, Progress, Reads

\* Every interleaving of requests has, for the claims whose requests do not overlap, the
\* effect of these requests taken one at a time: the net is that of the lines, and the
\* payments stay within it (modules/billing/service.py:3-8).
THEOREM ClaimsAreAtomic == Spec => ImplementsAtomic
<1>1. Init => Atomic!Init
  BY SerialAssumption DEF Init, OnSerial, Atomic!Init
<1>2. Spec => []SerialSound
  BY InitSerial, StepSerial, PTL DEF Spec
<1> QED
  BY <1>1, <1>2, StepAtomic, PTL DEF Spec, ImplementsAtomic, Atomic!Spec

-----------------------------------------------------------------------------
(* References                                                               *)

\* What a session carries at each step of its request.
Carries ==
  \A s \in Sessions :
    /\ at[s] = "idle" => taken[s] = 0
    /\ at[s] \in {"counter", "insert"} => prefix[s] \in Prefixes
    /\ at[s] \in {"check", "create"} => taken[s] # 0
    /\ at[s] \in {"settings", "profile"} /\ prefix[s] = "CLM" => taken[s] # 0
    /\ taken[s] # 0 => prefix[s] \in Prefixes

Held == \A s \in Sessions, p \in Prefixes : holder[p] = s => taken[s] # 0 /\ next[p] <= taken[s]

Published ==
  \A s \in Sessions : taken[s] # 0 /\ holder[prefix[s]] # s => taken[s] < next[prefix[s]]

Passed == \A p \in Prefixes : \A n \in issued[p] : n < next[p]

NumberInvariant == NumbersTypeOK /\ Carries /\ Held /\ Published /\ Passed /\ NumbersAreUnique

-----------------------------------------------------------------------------
LEMMA InitNumbers == NumbersInit => NumberInvariant
  BY NoSessionAssumption, PrefixAssumption
  DEF NumbersInit, NumberInvariant, NumbersTypeOK, RecordSteps, Carries, Held, Published,
      Passed,
      NumbersAreUnique, Prefixes

\* A request that ends without a commit leaves the numbers of all others alone.
LEMMA RollBackKeepsNumbers ==
  ASSUME NumberInvariant, NEW s \in Sessions, RollBack(s)
  PROVE  NumberInvariant'
<1> USE NoSessionAssumption, PrefixAssumption
    DEF NumberInvariant, RollBack, EndRecord, tableVars, RecordSteps
<1>1. NumbersTypeOK'
  BY DEF NumbersTypeOK
<1>2. Carries'
  BY DEF NumbersTypeOK, Carries
<1>3. Held'
  BY DEF NumbersTypeOK, Held
<1>4. Published'
  BY DEF NumbersTypeOK, Published, Carries
<1>5. Passed'
  BY DEF NumbersTypeOK, Passed
<1>6. NumbersAreUnique'
  BY DEF NumbersTypeOK, NumbersAreUnique, Carries
<1> QED
  BY <1>1, <1>2, <1>3, <1>4, <1>5, <1>6

LEMMA BeginKeepsNumbers ==
  ASSUME NumberInvariant, NEW s \in Sessions, NEW p \in Prefixes \cup {NoPrefix},
         NEW n \in Nat, NEW step \in {"counter", "settings"}, BeginRecord(s, step, p, n),
         step = "counter" => p \in Prefixes, step = "settings" => p # "CLM"
  PROVE  NumberInvariant'
<1> USE NoSessionAssumption, PrefixAssumption
      DEF NumberInvariant, BeginRecord, tableVars, RecordSteps
<1>1. NumbersTypeOK'
  BY DEF NumbersTypeOK, Carries, Held
<1>2. Carries'
  BY DEF NumbersTypeOK, Carries
<1>3. Held'
  BY DEF NumbersTypeOK, Held
<1>4. Published'
  BY DEF NumbersTypeOK, Published, Carries
<1>5. Passed'
  BY DEF Passed
<1>6. NumbersAreUnique'
  BY DEF NumbersTypeOK, NumbersAreUnique, Carries
<1> QED
  BY <1>1, <1>2, <1>3, <1>4, <1>5, <1>6

\* A free counter gives its session a number that nobody has.
LEMMA TakeKeepsNumbers ==
  ASSUME NumberInvariant, NEW s \in Sessions, NEW value \in Nat \ {0}, Take(s, value),
         prefix[s] \in Prefixes, holder[prefix[s]] = NoSession, next[prefix[s]] <= value
  PROVE  NumberInvariant'
<1> USE NoSessionAssumption, PrefixAssumption
      DEF NumberInvariant, Take, GoOn, tableVars, RecordSteps
<1>1. NumbersTypeOK'
  BY DEF NumbersTypeOK
<1>2. Carries'
  BY DEF NumbersTypeOK, Carries
<1>3. Held'
  BY DEF NumbersTypeOK, Held
<1>4. Published'
  BY DEF NumbersTypeOK, Published, Carries
<1>5. Passed'
  BY DEF Passed
<1>6. NumbersAreUnique'
  <2>1. value \notin issued[prefix[s]]
    BY DEF NumbersTypeOK, Passed
  <2>2. ASSUME NEW t \in Sessions \ {s}, prefix[t] = prefix[s], taken[t] # 0
        PROVE  taken[t] # value
    BY <2>2 DEF NumbersTypeOK, Published
  <2> QED
    BY <2>1, <2>2 DEF NumbersTypeOK, NumbersAreUnique
<1> QED
  BY <1>1, <1>2, <1>3, <1>4, <1>5, <1>6

\* The commit of first use lets the counter pass the number of the claim.
LEMMA ProfileKeepsNumbers ==
  ASSUME NumberInvariant, NEW s \in Sessions, InsertProfile(s)
  PROVE  NumberInvariant'
<1> USE NoSessionAssumption, PrefixAssumption
    DEF NumberInvariant, InsertProfile, GoOn, AfterSettings, RecordSteps
<1>1. NumbersTypeOK'
  BY DEF NumbersTypeOK
<1>2. Carries'
  BY DEF NumbersTypeOK, Carries
<1>3. Held'
  BY DEF NumbersTypeOK, Held
<1>4. Published'
  BY DEF NumbersTypeOK, Published, Held, Carries
<1>5. Passed'
  BY DEF NumbersTypeOK, Passed, Held
<1>6. NumbersAreUnique'
  BY DEF NumbersTypeOK, NumbersAreUnique
<1> QED
  BY <1>1, <1>2, <1>3, <1>4, <1>5, <1>6

LEMMA CreateKeepsNumbers ==
  ASSUME NumberInvariant, NEW s \in Sessions, CommitRecord(s)
  PROVE  NumberInvariant'
<1> USE NoSessionAssumption, PrefixAssumption
    DEF NumberInvariant, CommitRecord, EndRecord, RecordSteps
<1>1. NumbersTypeOK'
  <2>1. InvoiceNumber(s) \in Nat /\ taken[s] \in Nat
    BY DEF NumbersTypeOK, InvoiceNumber
  <2>2. /\ numbers' \subseteq Nat
        /\ next'   \in [Prefixes -> Nat]
        /\ issued' \in [Prefixes -> SUBSET Nat]
    <3>1. /\ numbers \subseteq Nat
          /\ next   \in [Prefixes -> Nat]
          /\ issued \in [Prefixes -> SUBSET Nat]
      BY DEF NumbersTypeOK
    <3>2. numbers' \subseteq Nat
      BY <2>1, <3>1
    <3>3. next' \in [Prefixes -> Nat]
      BY <2>1, <3>1
    <3>4. issued' \in [Prefixes -> SUBSET Nat]
      <4>1. \A p \in Prefixes : issued[p] \cup {taken[s]} \in SUBSET Nat
        BY <2>1, <3>1
      <4> QED
        BY <3>1, <4>1
    <3> QED
      BY <3>2, <3>3, <3>4
  <2>3. /\ holder' \in [Prefixes -> Sessions \cup {NoSession}]
        /\ \A t \in Sessions, p \in Prefixes : holder'[p] = t => prefix'[t] = p
    BY DEF NumbersTypeOK
  <2> QED
    BY <2>2, <2>3 DEF NumbersTypeOK
<1>2. Carries'
  BY DEF NumbersTypeOK, Carries
<1>3. Held'
  BY DEF NumbersTypeOK, Held
<1>4. Published'
  BY DEF NumbersTypeOK, Published, Held, Carries
<1>5. Passed'
  BY DEF NumbersTypeOK, Passed, Published, Held, Carries
<1>6. NumbersAreUnique'
  BY DEF NumbersTypeOK, NumbersAreUnique, Carries
<1> QED
  BY <1>1, <1>2, <1>3, <1>4, <1>5, <1>6

LEMMA NextKeepsNumbers ==
  ASSUME NumberInvariant, [NumbersNext]_numberVars
  PROVE  NumberInvariant'
<1> USE NoSessionAssumption, PrefixAssumption
<1>1. ASSUME NEW s \in Sessions, RequestRecord(s)
      PROVE  NumberInvariant'
  <2>1. ASSUME NEW p \in Plain, CreateRecord(s, p)  PROVE NumberInvariant'
    BY <2>1, BeginKeepsNumbers DEF CreateRecord, Prefixes
  <2>2. CASE CreateClaim(s)
    BY <2>2, BeginKeepsNumbers DEF CreateClaim, Prefixes
  <2>3. ASSUME NEW n \in 0 .. MaxValue + 1, CreateInvoice(s, n)  PROVE NumberInvariant'
    BY <2>3, BeginKeepsNumbers, BoundAssumption DEF CreateInvoice, Prefixes
  <2>4. CASE AskSettings(s)
    BY <2>4, BeginKeepsNumbers DEF AskSettings, Prefixes
  <2> QED
    BY <1>1, <2>1, <2>2, <2>3, <2>4 DEF RequestRecord
<1>2. ASSUME NEW s \in Sessions, ProgressRecord(s)
      PROVE  NumberInvariant'
  <2>1. CASE LockCounter(s)
    BY <2>1, TakeKeepsNumbers DEF LockCounter, NumberInvariant, NumbersTypeOK, Carries
  <2>2. CASE InsertCounter(s)
    BY <2>2, TakeKeepsNumbers DEF InsertCounter, NumberInvariant, NumbersTypeOK, Carries
  <2>3. CASE MissCounter(s) \/ ReadSettings(s) \/ CheckNumber(s)
    BY <2>3 DEF MissCounter, ReadSettings, CheckNumber, GoOn, AfterSettings, tableVars,
         NumberInvariant, NumbersTypeOK, RecordSteps, Carries, Held, Published, Passed,
         NumbersAreUnique
  <2>4. CASE InsertProfile(s)
    BY <2>4, ProfileKeepsNumbers
  <2>5. CASE CommitRecord(s)
    BY <2>5, CreateKeepsNumbers
  <2>6. CASE Answer(s) \/ RefuseRecord(s)
    BY <2>6, RollBackKeepsNumbers DEF Answer, RefuseRecord
  <2> QED
    BY <1>2, <2>1, <2>2, <2>3, <2>4, <2>5, <2>6 DEF ProgressRecord
<1>3. ASSUME NEW s \in Sessions, CrashRecord(s)
      PROVE  NumberInvariant'
  BY <1>3, RollBackKeepsNumbers DEF CrashRecord
<1>4. CASE UNCHANGED numberVars
  BY <1>4 DEF numberVars, tableVars, recordVars, NumberInvariant, NumbersTypeOK, Carries, Held,
       Published, Passed, NumbersAreUnique
<1> QED
  BY <1>1, <1>2, <1>3, <1>4 DEF NumbersNext

-----------------------------------------------------------------------------
LEMMA NumbersStay == NumbersSpec => []NumberInvariant
<1>1. NumbersInit => NumberInvariant
  BY InitNumbers
<1>2. NumberInvariant /\ [NumbersNext]_numberVars => NumberInvariant'
  BY NextKeepsNumbers
<1> QED
  BY <1>1, <1>2, PTL DEF NumbersSpec

\* Every behaviour of the counters keeps their types (shared/reference.py).
THEOREM NumbersTypeCorrect == NumbersSpec => []NumbersTypeOK
<1>1. NumberInvariant => NumbersTypeOK
  BY DEF NumberInvariant
<1> QED
  BY <1>1, NumbersStay, PTL

\* No two requests, and no request and no record, have one reference number, although
\* first use of the settings releases the counter of a claim early
\* (generate_reference, shared/reference.py:43).
THEOREM ReferencesAreUnique == NumbersSpec => []NumbersAreUnique
<1>1. NumberInvariant => NumbersAreUnique
  BY DEF NumberInvariant
<1> QED
  BY <1>1, NumbersStay, PTL

-----------------------------------------------------------------------------
(* Why an explicit invoice number that was checked is still free when the    *)
(* invoice is inserted: from the check on its session holds the INV counter, *)
(* and whoever adds an invoice number holds it too.                         *)

CounterHeld ==
  \A s \in Sessions : /\ at[s] \in {"check", "create"} /\ prefix[s] = "INV" => holder["INV"] = s
                      /\ chosen[s] # 0 => prefix[s] = "INV"

CheckInvariant == NumbersTypeOK /\ CounterHeld /\ CheckedNumberStaysFree

LEMMA NextKeepsCheck ==
  ASSUME CheckInvariant, NumbersTypeOK', [NumbersNext]_numberVars
  PROVE  CheckInvariant'
<1> USE NoSessionAssumption, PrefixAssumption DEF CheckInvariant, tableVars, Prefixes
<1>1. ASSUME NEW s \in Sessions, RollBack(s)
      PROVE  CheckInvariant'
  BY <1>1
    DEF RollBack, EndRecord, NumbersTypeOK, CounterHeld, CheckedNumberStaysFree, RecordSteps
<1>2. ASSUME NEW s \in Sessions, RequestRecord(s)
      PROVE  CheckInvariant'
  BY <1>2
    DEF RequestRecord, CreateRecord, CreateClaim, CreateInvoice, AskSettings, BeginRecord,
              NumbersTypeOK, CounterHeld, CheckedNumberStaysFree, RecordSteps
<1>3. ASSUME NEW s \in Sessions, NEW value, Take(s, value),
             prefix[s] \in Prefixes => holder[prefix[s]] = NoSession
      PROVE  CheckInvariant'
  BY <1>3 DEF Take, GoOn, NumbersTypeOK, CounterHeld, CheckedNumberStaysFree, RecordSteps
<1>4. ASSUME NEW s \in Sessions,
             MissCounter(s) \/ ReadSettings(s) \/ InsertProfile(s) \/ CheckNumber(s)
      PROVE  CheckInvariant'
  BY <1>4 DEF MissCounter, ReadSettings, InsertProfile, CheckNumber, GoOn, AfterSettings,
              NumbersTypeOK, CounterHeld, CheckedNumberStaysFree, RecordSteps
<1>5. ASSUME NEW s \in Sessions, CommitRecord(s)
      PROVE  CheckInvariant'
  <2>1. CounterHeld'
    BY <1>5 DEF CommitRecord, EndRecord, NumbersTypeOK, CounterHeld, RecordSteps
  <2>2. CheckedNumberStaysFree'
    <3>1. CASE prefix[s] = "INV"
      BY <1>5, <3>1 DEF CommitRecord, EndRecord, NumbersTypeOK, CounterHeld,
                        CheckedNumberStaysFree, RecordSteps
    <3>2. CASE prefix[s] # "INV"
      BY <1>5, <3>2
        DEF CommitRecord, EndRecord, NumbersTypeOK, CheckedNumberStaysFree, RecordSteps
    <3> QED
      BY <3>1, <3>2
  <2> QED
    BY <2>1, <2>2
<1>6. ASSUME NEW s \in Sessions, ProgressRecord(s)
      PROVE  CheckInvariant'
  BY <1>1, <1>3, <1>4, <1>5, <1>6
     DEF ProgressRecord, LockCounter, InsertCounter, Answer, RefuseRecord, NumbersTypeOK
<1>7. CASE UNCHANGED numberVars
  BY <1>7 DEF numberVars, recordVars, NumbersTypeOK, CounterHeld, CheckedNumberStaysFree
<1> QED
  BY <1>1, <1>2, <1>6, <1>7 DEF NumbersNext, CrashRecord

\* No creation that found its explicit number free fails on the unique key
\* (_next_invoice_number, modules/invoicing/service.py:329).
THEOREM CheckIsSound == NumbersSpec => []CheckedNumberStaysFree
<1>1. NumbersInit => CheckInvariant
  BY InitNumbers DEF NumbersInit, NumberInvariant, CheckInvariant, CounterHeld,
                     CheckedNumberStaysFree
<1>2. CheckInvariant /\ NumbersTypeOK' /\ [NumbersNext]_numberVars => CheckInvariant'
  BY NextKeepsCheck
<1>3. CheckInvariant => CheckedNumberStaysFree
  BY DEF CheckInvariant
<1> QED
  BY <1>1, <1>2, <1>3, NumbersTypeCorrect, PTL DEF NumbersSpec

-----------------------------------------------------------------------------
(* Numbers are consecutive: a session that holds a counter has the number    *)
(* the counter stands at, and only a claim gives it up before its COMMIT.    *)

NextNumber(p) == IF next[p] = 0 THEN 1 ELSE next[p]

AtCounter == \A s \in Sessions, p \in Prefixes : holder[p] = s => taken[s] = NextNumber(p)

HeldToCommit ==
  \A s \in Sessions : prefix[s] # "CLM" =>
    /\ taken[s] # 0 => holder[prefix[s]] = s
    /\ at[s] \in {"settings", "profile", "counter", "insert"} => taken[s] = 0

Recorded == \A p \in Prefixes \ {"CLM"} : issued[p] = 1 .. next[p] - 1

\* The numbers the counter of claims has passed that no record has.
Unrecorded == {n \in 1 .. next["CLM"] - 1 : n \notin issued["CLM"]}

GapsPaid == Cardinality(Unrecorded) <= profiles

InTurn == NumberInvariant /\ AtCounter /\ HeldToCommit /\ Recorded /\ GapsPaid

LEMMA UnrecordedIsFinite ==
  ASSUME NumbersTypeOK
  PROVE  IsFiniteSet(Unrecorded) /\ Cardinality(Unrecorded) \in Nat
<1>1. 1 \in Int /\ next["CLM"] - 1 \in Int
  BY DEF NumbersTypeOK, Prefixes
<1>2. IsFiniteSet(1 .. next["CLM"] - 1)
  BY <1>1, FS_Interval
<1>3. Unrecorded \in SUBSET (1 .. next["CLM"] - 1)
  BY DEF Unrecorded
<1>4. IsFiniteSet(Unrecorded)
  BY <1>2, <1>3, FS_Subset
<1> QED
  BY <1>4, FS_CardinalityType

LEMMA InitInTurn == NumbersInit => InTurn
<1> SUFFICES ASSUME NumbersInit PROVE InTurn
  OBVIOUS
<1>1. NumberInvariant
  BY InitNumbers
<1>2. AtCounter /\ HeldToCommit /\ Recorded
  BY NoSessionAssumption DEF NumbersInit, AtCounter, HeldToCommit, Recorded
<1>3. Unrecorded = {}
  BY DEF NumbersInit, Unrecorded, Prefixes
<1>4. GapsPaid
  BY <1>3, FS_EmptySet DEF NumbersInit, GapsPaid
<1> QED
  BY <1>1, <1>2, <1>4 DEF InTurn

\* Until a COMMIT no number is passed.
LEMMA TablesInTurn ==
  ASSUME InTurn, [NumbersNext]_numberVars, UNCHANGED tableVars, AtCounter', HeldToCommit'
  PROVE  InTurn'
<1>1. NumberInvariant'
  BY NextKeepsNumbers DEF InTurn
<1>2. Recorded'
  BY DEF InTurn, Recorded, tableVars
<1>3. UNCHANGED Unrecorded
  BY DEF Unrecorded, tableVars
<1>4. GapsPaid'
  BY <1>3 DEF InTurn, GapsPaid, tableVars
<1> QED
  BY <1>1, <1>2, <1>4 DEF InTurn

LEMMA RollBackInTurn ==
  ASSUME InTurn, [NumbersNext]_numberVars, NEW s \in Sessions, RollBack(s)
  PROVE  InTurn'
<1> USE NoSessionAssumption
      DEF RollBack, EndRecord, InTurn, NumberInvariant, NumbersTypeOK, tableVars
<1>1. AtCounter'
  BY DEF AtCounter, NextNumber
<1>2. HeldToCommit'
  BY PrefixAssumption DEF HeldToCommit, Carries
<1> QED
  BY <1>1, <1>2, TablesInTurn

LEMMA BeginInTurn ==
  ASSUME InTurn, [NumbersNext]_numberVars, NEW s \in Sessions, RequestRecord(s)
  PROVE  InTurn'
<1> DEFINE Begins == \E step \in {"counter", "settings"} : \E p, n : BeginRecord(s, step, p, n)
<1>1. Begins
  BY DEF RequestRecord, CreateRecord, CreateClaim, CreateInvoice, AskSettings
<1>2. PICK step \in {"counter", "settings"} : \E p, n : BeginRecord(s, step, p, n)
  BY <1>1
<1> USE DEF BeginRecord, InTurn, NumberInvariant, NumbersTypeOK, tableVars
<1>3. AtCounter'
  BY <1>2 DEF AtCounter, NextNumber
<1>4. HeldToCommit'
  BY <1>2 DEF HeldToCommit, Carries
<1> QED
  BY <1>2, <1>3, <1>4, TablesInTurn

LEMMA TakeInTurn ==
  ASSUME InTurn, [NumbersNext]_numberVars, NEW s \in Sessions,
         LockCounter(s) \/ InsertCounter(s)
  PROVE  InTurn'
<1>1. /\ Take(s, NextNumber(prefix[s])) /\ prefix[s] \in Prefixes
      /\ holder[prefix[s]] = NoSession
  BY DEF LockCounter, InsertCounter, NextNumber, InTurn, NumberInvariant, Carries
<1> USE NoSessionAssumption DEF Take, GoOn, InTurn, NumberInvariant, NumbersTypeOK, tableVars
<1>2. AtCounter'
  BY <1>1 DEF AtCounter, NextNumber
<1>3. HeldToCommit'
  BY <1>1 DEF HeldToCommit
<1> QED
  BY <1>1, <1>2, <1>3, TablesInTurn

LEMMA ReadInTurn ==
  ASSUME InTurn, [NumbersNext]_numberVars, NEW s \in Sessions,
         MissCounter(s) \/ ReadSettings(s) \/ CheckNumber(s)
  PROVE  InTurn'
<1> USE DEF MissCounter, ReadSettings, CheckNumber, GoOn, AfterSettings, InTurn,
            NumberInvariant, NumbersTypeOK, tableVars
<1>1. AtCounter'
  BY DEF AtCounter, NextNumber
<1>2. HeldToCommit'
  BY DEF HeldToCommit
<1> QED
  BY <1>1, <1>2, TablesInTurn

\* The counter of a session that commits passes the number of the session.
LEMMA CommitAtCounter ==
  ASSUME InTurn, NEW s \in Sessions,
         next'   = [p \in Prefixes |-> IF holder[p] = s THEN taken[s] + 1 ELSE next[p]],
         holder' = [p \in Prefixes |-> IF holder[p] = s THEN NoSession ELSE holder[p]],
         \A t \in Sessions \ {s} : taken'[t] = taken[t]
  PROVE  /\ AtCounter'
         /\ \A p \in Prefixes : next'[p] = IF holder[p] = s THEN NextNumber(p) + 1 ELSE next[p]
<1>1. AtCounter'
  BY NoSessionAssumption DEF InTurn, AtCounter, NextNumber
<1> QED
  BY <1>1 DEF InTurn, AtCounter

\* A settings row pays for the number its claim may never use.
LEMMA ProfileInTurn ==
  ASSUME InTurn, [NumbersNext]_numberVars, NEW s \in Sessions, InsertProfile(s)
  PROVE  InTurn'
<1>1. NumberInvariant'
  BY NextKeepsNumbers DEF InTurn
<1>2. AtCounter' /\ \A p \in Prefixes : next'[p] = IF holder[p] = s THEN NextNumber(p) + 1 ELSE next[p]
  BY CommitAtCounter DEF InsertProfile
<1>3. \A p \in Prefixes \ {"CLM"} : holder[p] # s
  BY DEF InsertProfile, InTurn, HeldToCommit, AtCounter, NextNumber, NumberInvariant,
     NumbersTypeOK
<1>4. HeldToCommit'
  BY <1>3, NoSessionAssumption
    DEF InsertProfile, GoOn, AfterSettings, InTurn, HeldToCommit, NumberInvariant,
        NumbersTypeOK, Carries
<1>5. Recorded'
  BY <1>2, <1>3 DEF InsertProfile, InTurn, Recorded
<1>6. GapsPaid'
  <2>1. Unrecorded' \subseteq Unrecorded \cup {NextNumber("CLM")}
    <3>1. next["CLM"] \in Nat /\ UNCHANGED issued
      BY DEF InsertProfile, InTurn, NumberInvariant, NumbersTypeOK, Prefixes
    <3>2. next'["CLM"] \in {NextNumber("CLM") + 1, next["CLM"]}
      BY <1>2 DEF Prefixes
    <3> QED
      BY <3>1, <3>2 DEF Unrecorded, NextNumber
  <2>2. IsFiniteSet(Unrecorded) /\ Cardinality(Unrecorded) \in Nat
    BY UnrecordedIsFinite DEF InTurn, NumberInvariant
  <2> DEFINE S == Unrecorded \cup {NextNumber("CLM")}
  <2>3. IsFiniteSet(S) /\ Cardinality(S) <= Cardinality(Unrecorded) + 1
    BY <2>2, FS_AddElement
  <2>4. IsFiniteSet(Unrecorded') /\ Cardinality(Unrecorded') <= Cardinality(S)
    BY <2>1, <2>3, FS_Subset
  <2>5. Cardinality(S) \in Nat /\ Cardinality(Unrecorded') \in Nat
    BY <2>3, <2>4, FS_CardinalityType
  <2>6. profiles' = profiles + 1 /\ profiles \in Nat /\ Cardinality(Unrecorded) <= profiles
    BY DEF InsertProfile, InTurn, GapsPaid, NumberInvariant, NumbersTypeOK
  <2>7. Cardinality(Unrecorded') <= profiles'
    <3> HIDE DEF S
    <3> QED
      BY <2>2, <2>3, <2>4, <2>5, <2>6
  <2> QED
    BY <2>7 DEF GapsPaid
<1> QED
  BY <1>1, <1>2, <1>4, <1>5, <1>6 DEF InTurn

\* A record is committed with the number its counter passes, or with one passed before.
LEMMA CreateInTurn ==
  ASSUME InTurn, [NumbersNext]_numberVars, NEW s \in Sessions, CommitRecord(s)
  PROVE  InTurn'
<1>1. NumberInvariant'
  BY NextKeepsNumbers DEF InTurn
<1>2. AtCounter' /\ \A p \in Prefixes : next'[p] = IF holder[p] = s THEN NextNumber(p) + 1 ELSE next[p]
  BY CommitAtCounter DEF CommitRecord, EndRecord, InTurn, NumberInvariant, NumbersTypeOK
<1>3. /\ prefix[s] \in Prefixes /\ taken[s] # 0
      /\ \A p \in Prefixes : holder[p] = s => p = prefix[s]
      /\ holder[prefix[s]] = s => taken[s] = NextNumber(prefix[s])
      /\ prefix[s] # "CLM" => holder[prefix[s]] = s
  BY DEF CommitRecord, InTurn, HeldToCommit, AtCounter, NumberInvariant, NumbersTypeOK, Carries
<1>4. issued' = [issued EXCEPT ![prefix[s]] = issued[prefix[s]] \cup {taken[s]}]
  BY DEF CommitRecord
<1>5. HeldToCommit'
  <2> SUFFICES ASSUME NEW t \in Sessions, prefix'[t] # "CLM"
               PROVE  /\ taken'[t] # 0 => holder'[prefix'[t]] = t
                      /\ at'[t] \in {"settings", "profile", "counter", "insert"} => taken'[t] = 0
    BY DEF HeldToCommit
  <2>1. CASE t = s
    BY <2>1 DEF CommitRecord, EndRecord, InTurn, NumberInvariant, NumbersTypeOK
  <2>2. CASE t # s
    <3>1. /\ prefix'[t] = prefix[t] /\ taken'[t] = taken[t] /\ at'[t] = at[t]
          /\ prefix[t] \in Prefixes => /\ holder[prefix[t]] = t => holder'[prefix[t]] = t
                                       /\ holder'[prefix[t]] = t => holder[prefix[t]] = t
      BY <2>2, NoSessionAssumption
        DEF CommitRecord, EndRecord, InTurn, NumberInvariant, NumbersTypeOK
    <3>2. taken[t] # 0 => prefix[t] \in Prefixes
      BY DEF InTurn, NumberInvariant, Carries
    <3> QED
      BY <3>1, <3>2 DEF InTurn, HeldToCommit
  <2> QED
    BY <2>1, <2>2
<1>6. Recorded'
  <2> SUFFICES ASSUME NEW p \in Prefixes \ {"CLM"}
               PROVE  issued'[p] = 1 .. next'[p] - 1
    BY DEF Recorded
  <2>1. issued[p] = 1 .. next[p] - 1 /\ next[p] \in Nat
    BY DEF InTurn, Recorded, NumberInvariant, NumbersTypeOK
  <2>2. CASE p = prefix[s]
    <3>1. issued'[p] = (1 .. next[p] - 1) \cup {NextNumber(p)} /\ next'[p] = NextNumber(p) + 1
      BY <1>2, <1>3, <1>4, <2>1, <2>2 DEF InTurn, NumberInvariant, NumbersTypeOK
    <3> QED
      BY <2>1, <3>1 DEF NextNumber
  <2>3. CASE p # prefix[s]
    BY <1>2, <1>3, <1>4, <2>1, <2>3 DEF InTurn, NumberInvariant, NumbersTypeOK
  <2> QED
    BY <2>2, <2>3
<1>7. GapsPaid'
  <2>1. Unrecorded' \subseteq Unrecorded
    <3>1. next["CLM"] \in Nat /\ issued["CLM"] \subseteq issued'["CLM"]
      BY <1>4 DEF InTurn, NumberInvariant, NumbersTypeOK, Prefixes
    <3>2. CASE holder["CLM"] = s
      <4>1. issued'["CLM"] = issued["CLM"] \cup {NextNumber("CLM")}
        BY <1>3, <1>4, <3>2 DEF InTurn, NumberInvariant, NumbersTypeOK, Prefixes
      <4>2. next'["CLM"] = NextNumber("CLM") + 1
        BY <1>2, <3>2 DEF Prefixes
      <4> QED
        BY <3>1, <4>1, <4>2 DEF Unrecorded, NextNumber
    <3>3. CASE holder["CLM"] # s
      BY <1>2, <3>1, <3>3 DEF Unrecorded, Prefixes
    <3> QED
      BY <3>2, <3>3
  <2>2. IsFiniteSet(Unrecorded) /\ Cardinality(Unrecorded) \in Nat
    BY UnrecordedIsFinite DEF InTurn, NumberInvariant
  <2>3. IsFiniteSet(Unrecorded') /\ Cardinality(Unrecorded') <= Cardinality(Unrecorded)
    BY <2>1, <2>2, FS_Subset
  <2>4. Cardinality(Unrecorded') \in Nat
    BY <2>3, FS_CardinalityType
  <2>5. profiles' = profiles /\ profiles \in Nat /\ Cardinality(Unrecorded) <= profiles
    BY DEF CommitRecord, InTurn, GapsPaid, NumberInvariant, NumbersTypeOK
  <2>6. Cardinality(Unrecorded') <= profiles'
    BY <2>2, <2>3, <2>4, <2>5
  <2> QED
    BY <2>6 DEF GapsPaid
<1> QED
  BY <1>1, <1>2, <1>5, <1>6, <1>7 DEF InTurn

LEMMA NextInTurn == InTurn /\ [NumbersNext]_numberVars => InTurn'
<1> SUFFICES ASSUME InTurn, [NumbersNext]_numberVars PROVE InTurn'
  OBVIOUS
<1>1. ASSUME NEW s \in Sessions, ProgressRecord(s)
      PROVE  InTurn'
  BY <1>1, TakeInTurn, ReadInTurn, ProfileInTurn, CreateInTurn, RollBackInTurn
     DEF ProgressRecord, Answer, RefuseRecord
<1>2. ASSUME NEW s \in Sessions, CrashRecord(s)
      PROVE  InTurn'
  BY <1>2, RollBackInTurn DEF CrashRecord
<1>3. CASE UNCHANGED numberVars
  <2>1. UNCHANGED tableVars /\ AtCounter' /\ HeldToCommit'
    BY <1>3 DEF numberVars, tableVars, recordVars, InTurn, AtCounter, HeldToCommit, NextNumber
  <2> QED
    BY <2>1, TablesInTurn
<1> QED
  BY <1>1, <1>2, <1>3, BeginInTurn DEF NumbersNext

LEMMA NumbersInTurn == NumbersSpec => []InTurn
BY InitInTurn, NextInTurn, PTL DEF NumbersSpec

\* The only gaps in the numbers are of claims, and each one cost the insertion of a settings
\* row: no other failure wastes a number (shared/reference.py:6-7, settings/service.py).
THEOREM GapsCostASettingsRow == NumbersSpec => []GapsCostProfiles
<1>1. InTurn => GapsCostProfiles
  <2> SUFFICES ASSUME InTurn PROVE GapsCostProfiles
    OBVIOUS
  <2>1. \A p \in Prefixes \ {"CLM"} : Gaps(p) = {}
    BY DEF InTurn, Recorded, Gaps
  <2>2. Gaps("CLM") \subseteq Unrecorded
    BY DEF Gaps, Unrecorded
  <2>3. IsFiniteSet(Unrecorded) /\ Cardinality(Unrecorded) \in Nat
    BY UnrecordedIsFinite DEF InTurn, NumberInvariant
  <2>4. IsFiniteSet(Gaps("CLM")) /\ Cardinality(Gaps("CLM")) <= Cardinality(Unrecorded)
    BY <2>2, <2>3, FS_Subset
  <2>5. Cardinality(Gaps("CLM")) \in Nat
    BY <2>4, FS_CardinalityType
  <2>6. Cardinality(Unrecorded) <= profiles /\ profiles \in Nat
    BY DEF InTurn, GapsPaid, NumberInvariant, NumbersTypeOK
  <2>7. Cardinality(Gaps("CLM")) <= profiles
    BY <2>3, <2>4, <2>5, <2>6
  <2> QED
    BY <2>1, <2>7 DEF GapsCostProfiles
<1> QED
  BY <1>1, NumbersInTurn, PTL

-----------------------------------------------------------------------------
LEMMA NumberingCardinality == \A S : Numbering!Cardinality(S) = Cardinality(S)
BY DEF Numbering!Cardinality, Cardinality

\* A record is the next of its prefix when it is committed.
LEMMA CreateFollows ==
  ASSUME InTurn, NEW s \in Sessions, CommitRecord(s), NEW p \in Prefixes \ {"CLM"},
         prefix[s] = p
  PROVE  Numbering!Record(p)
<1> DEFINE is == [q \in Prefixes \ {"CLM"} |-> issued[q]]
<1>1. p \in Prefixes \ {"CLM"} /\ taken[s] = NextNumber(p)
  BY DEF CommitRecord, InTurn, HeldToCommit, AtCounter, NumberInvariant, NumbersTypeOK, Carries
<1>2. is[p] = 1 .. next[p] - 1 /\ next[p] \in Nat
  BY <1>1 DEF InTurn, Recorded, NumberInvariant, NumbersTypeOK
<1>3. Numbering!Following(p) = taken[s]
  <2>1. Cardinality(1 .. next[p] - 1) = IF 1 > next[p] - 1 THEN 0 ELSE (next[p] - 1) - 1 + 1
    <3>1. 1 \in Int /\ next[p] - 1 \in Int
      BY <1>2
    <3> QED
      BY <3>1, FS_Interval
  <2>2. Numbering!Cardinality(is[p]) + 1 = NextNumber(p)
    <3>1. Numbering!Cardinality(is[p]) = Cardinality(1 .. next[p] - 1)
      BY <1>2, NumberingCardinality
    <3> HIDE DEF is
    <3> QED
      BY <1>2, <2>1, <3>1 DEF NextNumber
  <2> QED
    BY <1>1, <2>2 DEF Numbering!Following
<1>4. is' = [is EXCEPT ![p] = @ \cup {taken[s]}]
  BY <1>1 DEF CommitRecord, InTurn, NumberInvariant, NumbersTypeOK
<1> QED
  BY <1>3, <1>4 DEF Numbering!Record

LEMMA StepNumbering == InTurn /\ [NumbersNext]_numberVars => [Numbering!Next]_(Numbering!vars)
<1> SUFFICES ASSUME InTurn, [NumbersNext]_numberVars PROVE [Numbering!Next]_(Numbering!vars)
  OBVIOUS
<1>1. ASSUME UNCHANGED <<issued, numbers>>
      PROVE  UNCHANGED Numbering!vars
  BY <1>1 DEF Numbering!vars
<1>2. ASSUME NEW s \in Sessions, CommitRecord(s)
      PROVE  [Numbering!Next]_(Numbering!vars)
  <2>1. prefix[s] \in Prefixes
    BY <1>2 DEF CommitRecord, InTurn, NumberInvariant, Carries
  <2>2. CASE prefix[s] = "CLM"
    BY <1>2, <2>2 DEF CommitRecord, InTurn, NumberInvariant, NumbersTypeOK, Numbering!vars
  <2>3. CASE prefix[s] = "INV"
    <3>1. Numbering!Record("INV")
      <4>1. "INV" \in Prefixes \ {"CLM"}
        BY DEF Prefixes
      <4> QED
        BY <1>2, <2>3, <4>1, CreateFollows
    <3>2. \E n \in numbers' : n \notin numbers /\ numbers' = numbers \cup {n}
      BY <1>2, <2>3 DEF CommitRecord, NumberInUse
    <3> QED
      BY <3>1, <3>2 DEF Numbering!Next, Numbering!Invoice
  <2>4. CASE prefix[s] \notin {"CLM", "INV"}
    <3>1. \A p \in Prefixes \ {"CLM"} : prefix[s] = p => Numbering!Record(p)
      BY <1>2, CreateFollows
    <3>2. UNCHANGED numbers
      BY <1>2, <2>4 DEF CommitRecord
    <3>3. prefix[s] \in (Prefixes \ {"CLM"}) \ {"INV"}
      BY <2>1, <2>4
    <3>4. \E p \in (Prefixes \ {"CLM"}) \ {"INV"} : Numbering!Record(p) /\ UNCHANGED numbers
      BY <3>1, <3>2, <3>3
    <3> QED
      BY <3>4 DEF Numbering!Next
  <2> QED
    BY <2>2, <2>3, <2>4
<1>3. ASSUME NEW s \in Sessions, RequestRecord(s)
      PROVE  UNCHANGED <<issued, numbers>>
  BY <1>3
    DEF RequestRecord, CreateRecord, CreateClaim, CreateInvoice, AskSettings, BeginRecord,
        tableVars
<1>4. ASSUME NEW s \in Sessions, ProgressRecord(s) \/ CrashRecord(s), ~ CommitRecord(s)
      PROVE  UNCHANGED <<issued, numbers>>
  BY <1>4
    DEF ProgressRecord, LockCounter, MissCounter, InsertCounter, Take, GoOn, ReadSettings,
     InsertProfile, CheckNumber, Answer, RefuseRecord, CrashRecord, RollBack, tableVars
<1>5. CASE UNCHANGED numberVars
  BY <1>1, <1>5 DEF numberVars, tableVars
<1> QED
  BY <1>1, <1>2, <1>3, <1>4, <1>5 DEF NumbersNext

\* Records other than claims are numbered 1, 2, 3, ... in the order of their commits,
\* whatever requests overlap, fail or crash, and each invoice adds a number of its own
\* (generate_reference, _next_invoice_number).
THEOREM RecordsAreNumberedInOrder == NumbersSpec => ImplementsNumbering
<1>1. NumbersInit => Numbering!Init
  BY DEF NumbersInit, Numbering!Init
<1> QED
  BY <1>1, NumbersInTurn, StepNumbering, PTL
    DEF NumbersSpec, ImplementsNumbering, Numbering!Spec
=============================================================================
