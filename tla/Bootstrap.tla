----------------------------- MODULE Bootstrap ------------------------------
(***************************************************************************)
(* modules/auth/bootstrap.py and cli.py: the commands that seed the system *)
(* roles and create accounts.  create-admin commits twice, the roles and   *)
(* then the account, and may be stopped between the two; commands may run  *)
(* at the same time.  Nothing is locked: the unique roles.code, the primary *)
(* key of role_permissions and the unique users.email decide at the commit. *)
(***************************************************************************)
EXTENDS Accounts, Integers, FiniteSets

CONSTANTS Operators,   \* processes of the management CLI
          Admins,      \* the accounts that create-admin is run for
          Catalogue,   \* DEFAULT_ROLE_PERMISSIONS: the codes of each role
          MISSING, UNREAD,
          Adjusted,    \* roles whose grants an administrator adjusts
          MaxIncidents \* bound: commands stopped half way, and adjustments

ASSUME AdjustedAssumption  == Adjusted \subseteq Roles
ASSUME MissingAssumption   == /\ \A row \in SUBSET Codes : row # MISSING /\ row # UNREAD
                              /\ MISSING # UNREAD
ASSUME CatalogueAssumption == Catalogue \in [Roles -> SUBSET Codes]
ASSUME AdminsAssumption    == Admins \subseteq Users
ASSUME IncidentsAssumption == MaxIncidents \in Nat

\* Of Accounts: grants[r] = MISSING before there is a row of role r, account[u] = NONE
\* before there is one of u.
VARIABLES cli,      \* cli[o]: what the process o does next
          making,   \* making[o]: the account a create-admin of o is to make
          seen,     \* seen[o][r]: what o has read of role r
          incidents \* incidents so far

bootstrapVars == <<grants, account, cli, making, seen, incidents>>

RoleRow   == {MISSING} \cup SUBSET Codes
NothingSeen == [r \in Roles |-> UNREAD]

BootstrapTypeOK == /\ grants  \in [Roles -> RoleRow]
                   /\ account \in [Users -> Account \cup {NONE}]
                   /\ cli     \in [Operators -> {"idle", "seed", "account"}]
                   /\ making  \in [Operators -> Users \cup {NoUser}]
                   /\ seen    \in [Operators -> [Roles -> {UNREAD} \cup RoleRow]]
                   /\ incidents \in 0 .. MaxIncidents
                   /\ \A o \in Operators : cli[o] = "idle" =>   \* nothing of an ended command stays
                        making[o] = NoUser /\ seen[o] = NothingSeen

BootstrapInit == /\ grants  = [r \in Roles |-> MISSING]
                 /\ account = [u \in Users |-> NONE]
                 /\ cli     = [o \in Operators |-> "idle"]
                 /\ making  = [o \in Operators |-> NoUser]
                 /\ seen    = [o \in Operators |-> NothingSeen]
                 /\ incidents = 0

Seeded == \A r \in Roles : grants[r] # MISSING

-----------------------------------------------------------------------------
(* seed_system_roles                                                        *)

\* _cmd_seed_roles (u = NoUser) and _cmd_create_admin.
StartCommand(o, u) == /\ cli[o] = "idle"
                      /\ cli'    = [cli EXCEPT ![o] = "seed"]
                      /\ making' = [making EXCEPT ![o] = u]
                      /\ UNCHANGED <<grants, account, seen, incidents>>

\* Mutant of ReadRole: the role is created without looking for it.
ReadNoRole(o, r) == /\ cli[o] = "seed"
                    /\ seen[o][r] = UNREAD
                    /\ seen' = [seen EXCEPT ![o][r] = MISSING]
                    /\ UNCHANGED <<grants, account, cli, making, incidents>>

\* One role and its grants; each role is looked at after the ones before it, and any
\* other command may commit in between.
ReadRole(o, r) == /\ cli[o] = "seed"
                  /\ seen[o][r] = UNREAD
                  /\ seen' = [seen EXCEPT ![o][r] = grants[r]]
                  /\ UNCHANGED <<grants, account, cli, making, incidents>>

AllRead(o)  == cli[o] = "seed" /\ \A r \in Roles : seen[o][r] # UNREAD
Held(row)   == IF row = MISSING THEN {} ELSE row
Adds(o, r)  == Catalogue[r] \ Held(seen[o][r])
Drops(o, r) == Held(seen[o][r]) \ Catalogue[r]

\* An insert the seed has planned meets a row committed since it looked.
Collides(o) == \E r \in Roles :
                 /\ grants[r] # MISSING
                 /\ seen[o][r] = MISSING \/ Adds(o, r) \cap grants[r] # {}

\* Mutant of EndCommand: the session with the rows it has loaded is used again.
EndCommandKeepingRows(o) == /\ cli'    = [cli EXCEPT ![o] = "idle"]
                            /\ making' = [making EXCEPT ![o] = NoUser]
                            /\ UNCHANGED seen

EndCommand(o) == /\ cli'    = [cli EXCEPT ![o] = "idle"]
                 /\ making' = [making EXCEPT ![o] = NoUser]
                 /\ seen'   = [seen EXCEPT ![o] = NothingSeen]

\* create_user follows the seed of a create-admin.
AfterSeed(o) == IF making[o] = NoUser
                THEN EndCommand(o)
                ELSE /\ cli'  = [cli EXCEPT ![o] = "account"]
                     /\ seen' = [seen EXCEPT ![o] = NothingSeen]
                     /\ UNCHANGED making

Synced(o, r) == (Held(grants[r]) \ Drops(o, r)) \cup Adds(o, r)

\* Mutant of CommitSeed: the grants of new roles are not flushed.
CommitSeedWithoutGrants(o) ==
  /\ AllRead(o) /\ ~ Collides(o)
  /\ grants' = [r \in Roles |-> IF seen[o][r] = MISSING THEN {} ELSE Synced(o, r)]
  /\ AfterSeed(o)
  /\ UNCHANGED <<account, incidents>>

\* The roles and the grants of all three are one commit.
CommitSeed(o) == /\ AllRead(o) /\ ~ Collides(o)
                 /\ grants' = [r \in Roles |-> Synced(o, r)]
                 /\ AfterSeed(o)
                 /\ UNCHANGED <<account, incidents>>

\* A unique constraint ends the command with a traceback.
FailSeed(o) == /\ AllRead(o) /\ Collides(o)
               /\ EndCommand(o)
               /\ UNCHANGED <<grants, account, incidents>>

-----------------------------------------------------------------------------
(* create_user                                                              *)

NewAccount(rs, super) == [roles |-> rs, active |-> TRUE, super |-> super]

\* The roles are looked up and the account is inserted: roles are never deleted.
CommitAdmin(o) ==
  LET u == making[o] IN
  /\ cli[o] = "account"
  /\ grants[ADMIN] # MISSING /\ account[u] = NONE
  /\ account' = [account EXCEPT ![u] = NewAccount({ADMIN}, TRUE)]
  /\ EndCommand(o)
  /\ UNCHANGED <<grants, incidents>>

\* "Unknown role codes", or the e-mail address is taken.
FailAdmin(o) == /\ cli[o] = "account"
                /\ grants[ADMIN] = MISSING \/ account[making[o]] # NONE
                /\ EndCommand(o)
                /\ UNCHANGED <<grants, account, incidents>>

\* create_user called from a shell, for accounts no command makes.
CreateUser(u, rs) == /\ u \notin Admins
                     /\ account[u] = NONE
                     /\ \A r \in rs : grants[r] # MISSING
                     /\ account' = [account EXCEPT ![u] = NewAccount(rs, FALSE)]
                     /\ UNCHANGED <<grants, cli, making, seen, incidents>>

-----------------------------------------------------------------------------
(* What happens to a command and, in SQL, to the rows                       *)

\* The process is stopped: its open transaction is rolled back.
Stop(o) == /\ cli[o] # "idle" /\ incidents < MaxIncidents
           /\ incidents' = incidents + 1
           /\ EndCommand(o)
           /\ UNCHANGED <<grants, account>>

\* An administrator adjusts the grants of a role: no endpoint does.
Adjust(r, c) == /\ r \in Adjusted /\ grants[r] # MISSING
                /\ incidents < MaxIncidents
                /\ incidents' = incidents + 1
                /\ grants' = [grants EXCEPT ![r] = IF c \in @ THEN @ \ {c} ELSE @ \cup {c}]
                /\ UNCHANGED <<account, cli, making, seen>>

\* A command whose transaction collides, or is stopped, is run again.
Work(o) == \/ \E r \in Roles : ReadRole(o, r)
           \/ CommitSeed(o)
           \/ FailSeed(o)
           \/ CommitAdmin(o)
           \/ FailAdmin(o)

BootstrapNext == \/ \E o \in Operators : \/ \E u \in Admins \cup {NoUser} : StartCommand(o, u)
                                         \/ Work(o)
                                         \/ Stop(o)
                 \/ \E u \in Users, rs \in SUBSET Roles : CreateUser(u, rs)
                 \/ \E r \in Roles, c \in Codes : Adjust(r, c)

BootstrapSpec == BootstrapInit /\ [][BootstrapNext]_bootstrapVars

AdminExists == \E u \in Admins : account[u] # NONE

(* A command runs to its end unless it is stopped, and an operator who finds *)
(* no admin account runs create-admin again, whatever else is run meanwhile. *)
BootstrapFairness == \A o \in Operators :
                       /\ WF_bootstrapVars(Work(o))
                       /\ SF_bootstrapVars(~ AdminExists /\ \E u \in Admins : StartCommand(o, u))

FairBootstrapSpec == BootstrapSpec /\ BootstrapFairness

-----------------------------------------------------------------------------
(* Properties                                                               *)

\* However commands race and wherever one is stopped, there are no system roles or all
\* of them, and the roles nobody adjusts have just the grants of the catalogue.
NeverHalfSeeded ==
  \/ \A r \in Roles : grants[r] = MISSING
  \/ Seeded /\ \A r \in Roles \ Adjusted : grants[r] = Catalogue[r]

\* Wherever create-admin was stopped and whatever ran beside it, running it again makes
\* the account: what an earlier attempt has committed does not stand in its way.
BootstrapCompletes == <>AdminExists
=============================================================================
