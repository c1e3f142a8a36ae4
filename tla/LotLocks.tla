------------------------------ MODULE LotLocks ------------------------------
(***************************************************************************)
(* The row locks PostgreSQL keeps on lot rows, as the services use them:   *)
(* start_batch and dispatch_dispatch lock a lot FOR UPDATE                 *)
(* (milling/service.py:138, delivery/service.py:188), and the foreign key  *)
(* of a new input or item row locks the lot it names FOR KEY SHARE.  Both  *)
(* are held to the end of the transaction.  PostgreSQL itself is external: *)
(* the module says what the services rely on.                              *)
(***************************************************************************)
EXTENDS Integers, FiniteSets

CONSTANTS Sessions,   \* database sessions, one per HTTP request in progress
          Lots,       \* lot rows
          NoSession,  \* an exclusive lock nobody holds
          NoLot       \* a session that waits for no lot

ASSUME NullAssumption == NoSession \notin Sessions /\ NoLot \notin Lots

VARIABLES xlock,  \* xlock[l]: the session that holds l FOR UPDATE
          share,  \* share[l]: the sessions that hold l FOR KEY SHARE
          want    \* want[s]: the lot that the pending statement of s locks next

lockVars == <<xlock, share, want>>

LockTypeOK == /\ xlock \in [Lots -> Sessions \cup {NoSession}]
              /\ share \in [Lots -> SUBSET Sessions]
              /\ want  \in [Sessions -> Lots \cup {NoLot}]

LockInit == /\ xlock = [l \in Lots |-> NoSession]
            /\ share = [l \in Lots |-> {}]
            /\ want  = [s \in Sessions |-> NoLot]

\* The sessions whose lock on l conflicts with FOR UPDATE, or with FOR KEY SHARE.
ExclusiveBlockers(s, l) == (share[l] \cup {xlock[l]}) \ {s, NoSession}
SharedBlockers(s, l)    == {xlock[l]} \ {s, NoSession}

\* Mutant of AcquireExclusive: a lock that does not wait for its holder.
AcquireWithoutWaiting(s, l) == xlock' = [xlock EXCEPT ![l] = s]

\* The lock is granted once no other session holds a conflicting one.
AcquireExclusive(s, l) == /\ ExclusiveBlockers(s, l) = {}
                          /\ xlock' = [xlock EXCEPT ![l] = s]

AcquireShared(s, l) == /\ SharedBlockers(s, l) = {}
                       /\ share' = [share EXCEPT ![l] = @ \cup {s}]

\* The statement of s that locks next locks a row of rest: the rows come in the
\* order the executor delivers them, and the services state no ORDER BY.
WantNext(s, rest) == IF rest = {}
                     THEN want' = [want EXCEPT ![s] = NoLot]
                     ELSE \E l \in rest : want' = [want EXCEPT ![s] = l]

\* COMMIT and ROLLBACK release every lock of the session.
ReleaseLocks(s) ==
  /\ xlock' = [l \in Lots |-> IF xlock[l] = s THEN NoSession ELSE xlock[l]]
  /\ share' = [l \in Lots |-> share[l] \ {s}]
  /\ want'  = [want EXCEPT ![s] = NoLot]
=============================================================================
