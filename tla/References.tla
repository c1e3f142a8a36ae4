----------------------------- MODULE References -----------------------------
(***************************************************************************)
(* shared/reference.py, the counters that name business records, with      *)
(* what its callers do between taking a number and their COMMIT:           *)
(*   plain prefixes  take the number, insert the record;                   *)
(*   CLM  create_claim takes the number, then asks for the mill settings;  *)
(*   INV  create_invoice asks for the mill settings, takes the number, and *)
(*        gives the invoice that number or one the client chose.           *)
(*                                                                         *)
(* get_or_create_mill_settings (settings/service.py) COMMITs on first use, *)
(* whatever its caller has done so far.                                    *)
(***************************************************************************)
EXTENDS DatabaseSessions, Integers, FiniteSets

CONSTANTS NoSession,
          Plain,      \* prefixes of records that only take a number
          NoPrefix,
          MaxValue    \* no request begins for a counter beyond this value

ASSUME NoSessionAssumption == NoSession \notin Sessions
ASSUME PrefixAssumption    == /\ {"CLM", "INV"} \cap Plain = {}
                              /\ NoPrefix \notin Plain \cup {"CLM", "INV"}
ASSUME BoundAssumption     == MaxValue \in Nat \ {0}

Prefixes == Plain \cup {"CLM", "INV"}

VARIABLES next,     \* next[p]: ReferenceCounter.next_value; 0: no row committed
          holder,   \* holder[p]: the session with the row locked or inserted
          issued,   \* issued[p]: the references of committed records
          numbers,  \* invoice_number of the committed invoices
          profiles, \* how many mill_settings rows there are
          at,
          prefix,   \* prefix[s]: what s creates; NoPrefix: it only asks for settings
          taken,    \* taken[s]: the number s has taken; 0: none yet
          chosen    \* chosen[s]: the invoice number of the request; 0: none

tableVars  == <<next, issued, numbers, profiles>>
recordVars == <<holder, at, prefix, taken, chosen>>
numberVars == <<tableVars, recordVars>>

RecordSteps ==
  {"idle", "counter", "insert", "settings", "profile", "check", "create", "answer"}

NumbersTypeOK == /\ next     \in [Prefixes -> Nat]
                 /\ holder   \in [Prefixes -> Sessions \cup {NoSession}]
                 /\ issued   \in [Prefixes -> SUBSET Nat]
                 /\ numbers  \subseteq Nat
                 /\ profiles \in Nat
                 /\ at       \in [Sessions -> RecordSteps]
                 /\ prefix   \in [Sessions -> Prefixes \cup {NoPrefix}]
                 /\ taken    \in [Sessions -> Nat]
                 /\ chosen   \in [Sessions -> Nat]
                 /\ \A s \in Sessions, p \in Prefixes : holder[p] = s => prefix[s] = p

NumbersInit == /\ next     = [p \in Prefixes |-> 0]
               /\ holder   = [p \in Prefixes |-> NoSession]
               /\ issued   = [p \in Prefixes |-> {}]
               /\ numbers  = {}
               /\ profiles = 0
               /\ at       = [s \in Sessions |-> "idle"]
               /\ prefix   = [s \in Sessions |-> NoPrefix]
               /\ taken    = [s \in Sessions |-> 0]
               /\ chosen   = [s \in Sessions |-> 0]

-----------------------------------------------------------------------------
BeginRecord(s, step, p, n) == /\ at[s] = "idle"
                              /\ at'     = [at EXCEPT ![s] = step]
                              /\ prefix' = [prefix EXCEPT ![s] = p]
                              /\ chosen' = [chosen EXCEPT ![s] = n]
                              /\ UNCHANGED <<tableVars, holder, taken>>

CreateRecord(s, p)  == p \in Plain /\ next[p] <= MaxValue /\ BeginRecord(s, "counter", p, 0)
CreateClaim(s)      == next["CLM"] <= MaxValue /\ BeginRecord(s, "counter", "CLM", 0)
CreateInvoice(s, n) == next["INV"] <= MaxValue /\ BeginRecord(s, "settings", "INV", n)
AskSettings(s)      == BeginRecord(s, "settings", NoPrefix, 0)

GoOn(s, step) == at' = [at EXCEPT ![s] = step] /\ UNCHANGED <<prefix, chosen>>

\* COMMIT and ROLLBACK unlock the counter.
EndRecord(s) == /\ holder' = [p \in Prefixes |-> IF holder[p] = s THEN NoSession ELSE holder[p]]
                /\ at'     = [at EXCEPT ![s] = "idle"]
                /\ prefix' = [prefix EXCEPT ![s] = NoPrefix]
                /\ taken'  = [taken EXCEPT ![s] = 0]
                /\ chosen' = [chosen EXCEPT ![s] = 0]

\* Mutant of RollBack: the session of a failed request is not closed.
RollBackWithoutClose(s) == /\ at'     = [at EXCEPT ![s] = "idle"]
                           /\ prefix' = [prefix EXCEPT ![s] = NoPrefix]
                           /\ taken'  = [taken EXCEPT ![s] = 0]
                           /\ chosen' = [chosen EXCEPT ![s] = 0]
                           /\ UNCHANGED <<tableVars, holder>>

\* Mutant of RollBack: the counter is saved by a transaction of its own.
RollBackKeepingNumber(s) ==
  /\ next' = [p \in Prefixes |-> IF holder[p] = s THEN taken[s] + 1 ELSE next[p]]
  /\ EndRecord(s)
  /\ UNCHANGED <<issued, numbers, profiles>>

RollBack(s) == EndRecord(s) /\ UNCHANGED tableVars

-----------------------------------------------------------------------------
(* generate_reference: SELECT ... FOR UPDATE, which waits for the holder of  *)
(* the row; the first use of a prefix finds no row and inserts one.         *)

Take(s, value) == /\ holder' = [holder EXCEPT ![prefix[s]] = s]
                  /\ taken'  = [taken EXCEPT ![s] = value]
                  /\ GoOn(s, CASE prefix[s] = "CLM" -> "settings"
                               [] chosen[s] # 0     -> "check"
                               [] OTHER             -> "create")
                  /\ UNCHANGED tableVars

\* Mutant of LockCounter: SELECT without FOR UPDATE.
ReadCounter(s) == /\ at[s] = "counter"
                  /\ next[prefix[s]] # 0
                  /\ Take(s, next[prefix[s]])

LockCounter(s) == /\ at[s] = "counter"
                  /\ next[prefix[s]] # 0
                  /\ holder[prefix[s]] = NoSession
                  /\ Take(s, next[prefix[s]])

MissCounter(s) == /\ at[s] = "counter"
                  /\ next[prefix[s]] = 0
                  /\ GoOn(s, "insert")
                  /\ UNCHANGED <<tableVars, holder, taken>>

\* The INSERT waits for another one of the same key, and goes on if that is rolled back.
InsertCounter(s) == /\ at[s] = "insert"
                    /\ next[prefix[s]] = 0
                    /\ holder[prefix[s]] = NoSession
                    /\ Take(s, 1)

-----------------------------------------------------------------------------
(* get_or_create_mill_settings                                              *)

AfterSettings(s) == CASE prefix[s] = "CLM" -> "create"
                      [] prefix[s] = "INV" -> "counter"
                      [] OTHER             -> "answer"

ReadSettings(s) == /\ at[s] = "settings"
                   /\ GoOn(s, IF profiles = 0 THEN "profile" ELSE AfterSettings(s))
                   /\ UNCHANGED <<tableVars, holder, taken>>

\* INSERT and COMMIT: with them the number a claim has taken is committed.
InsertProfile(s) ==
  /\ at[s] = "profile"
  /\ profiles' = profiles + 1
  /\ next'     = [p \in Prefixes |-> IF holder[p] = s THEN taken[s] + 1 ELSE next[p]]
  /\ holder'   = [p \in Prefixes |-> IF holder[p] = s THEN NoSession ELSE holder[p]]
  /\ GoOn(s, AfterSettings(s))
  /\ UNCHANGED <<issued, numbers, taken>>

Answer(s) == at[s] = "answer" /\ RollBack(s)

-----------------------------------------------------------------------------
(* The record is inserted under its reference and everything is committed.  *)

\* _next_invoice_number: an explicit number must not be in use.
CheckNumber(s) == /\ at[s] = "check"
                  /\ chosen[s] \notin numbers
                  /\ GoOn(s, "create")
                  /\ UNCHANGED <<tableVars, holder, taken>>

InvoiceNumber(s) == IF chosen[s] # 0 THEN chosen[s] ELSE taken[s]

\* The unique key of tax_invoices.invoice_number.
NumberInUse(s) == prefix[s] = "INV" /\ InvoiceNumber(s) \in numbers

\* Mutant of CommitRecord: an invoice with an explicit number does not save the counter.
CommitRecordWithoutCounter(s) ==
  /\ at[s] = "create"
  /\ ~ NumberInUse(s)
  /\ issued'  = [issued EXCEPT ![prefix[s]] = @ \cup {taken[s]}]
  /\ numbers' = IF prefix[s] = "INV" THEN numbers \cup {InvoiceNumber(s)} ELSE numbers
  /\ next'    = [p \in Prefixes |-> IF holder[p] = s /\ chosen[s] = 0 THEN taken[s] + 1
                                    ELSE next[p]]
  /\ EndRecord(s)
  /\ UNCHANGED profiles

CommitRecord(s) ==
  /\ at[s] = "create"
  /\ ~ NumberInUse(s)
  /\ issued'  = [issued EXCEPT ![prefix[s]] = @ \cup {taken[s]}]
  /\ numbers' = IF prefix[s] = "INV" THEN numbers \cup {InvoiceNumber(s)} ELSE numbers
  /\ next'    = [p \in Prefixes |-> IF holder[p] = s THEN taken[s] + 1 ELSE next[p]]
  /\ EndRecord(s)
  /\ UNCHANGED profiles

-----------------------------------------------------------------------------
\* The statements that end a request with an error answer.
RefuseRecord(s) == /\ \/ at[s] = "insert" /\ next[prefix[s]] # 0   \* duplicate prefix
                      \/ at[s] = "check" /\ chosen[s] \in numbers
                      \/ at[s] = "create" /\ NumberInUse(s)
                   /\ RollBack(s)

CrashRecord(s) == at[s] # "idle" /\ RollBack(s)

RequestRecord(s) == \/ \E p \in Plain : CreateRecord(s, p)
                    \/ CreateClaim(s)
                    \/ \E n \in 0 .. MaxValue + 1 : CreateInvoice(s, n)
                    \/ AskSettings(s)

ProgressRecord(s) == \/ LockCounter(s)
                     \/ MissCounter(s)
                     \/ InsertCounter(s)
                     \/ ReadSettings(s)
                     \/ InsertProfile(s)
                     \/ CheckNumber(s)
                     \/ CommitRecord(s)
                     \/ Answer(s)
                     \/ RefuseRecord(s)

NumbersNext == \E s \in Sessions : RequestRecord(s) \/ ProgressRecord(s) \/ CrashRecord(s)

NumbersSpec == NumbersInit /\ [][NumbersNext]_numberVars

-----------------------------------------------------------------------------
(* Properties                                                               *)

\* Concurrent callers never hold the same number, and none that a record has
\* (reference.py:5-6), although a claim gives up its counter before it is inserted.
NumbersAreUnique ==
  \A s \in Sessions : taken[s] # 0 =>
    /\ taken[s] \notin issued[prefix[s]]
    /\ \A t \in Sessions \ {s} : prefix[t] = prefix[s] => taken[t] # taken[s]

\* An explicit invoice number found free is still free when the invoice is inserted: the
\* INV counter is held from the check to the COMMIT.
CheckedNumberStaysFree ==
  \A s \in Sessions : at[s] = "create" /\ chosen[s] # 0 => chosen[s] \notin numbers

\* The numbers a counter has passed that no record has and no open request will use.
Gaps(p) == {n \in 1 .. next[p] - 1 : /\ n \notin issued[p]
                                     /\ \A s \in Sessions : prefix[s] = p => taken[s] # n}

\* A rollback rolls back the counter, no gaps from failed operations (reference.py:6-7).
NoGaps == \A p \in Prefixes : Gaps(p) = {}

\* The commit of first use is the only source of gaps: they are claims, and each one cost
\* the insertion of a settings row.
GapsCostProfiles == /\ \A p \in Prefixes \ {"CLM"} : Gaps(p) = {}
                    /\ Cardinality(Gaps("CLM")) <= profiles

Numbering == INSTANCE Numbering
               WITH Prefixes <- Prefixes \ {"CLM"},
                    issued   <- [p \in Prefixes \ {"CLM"} |-> issued[p]]

\* Records other than claims are numbered 1, 2, 3, ... in the order of their commits, and
\* each invoice adds an invoice number that no other has.
ImplementsNumbering == Numbering!Spec
=============================================================================
