------------------------------ MODULE Sessions ------------------------------
(***************************************************************************)
(* Login sessions: modules/auth/service.py, dependencies.py, router.py.    *)
(* Accounts and grants exist; they change under the requests by what the   *)
(* commands of Bootstrap or an administrator commit.  A request that needs a *)
(* permission loads its session row, then the user with its roles, and      *)
(* then, role by role, the grants: separate statements, each of which sees *)
(* what has been committed by then.  The handler runs with the outcome.    *)
(***************************************************************************)
EXTENDS Accounts, Integers

CONSTANTS Requests,   \* HTTP requests in progress
          Tokens,     \* session tokens; a login makes a fresh one
          NoToken,
          Ttl,        \* session_ttl_seconds, in ticks
          MaxClock    \* bound: the last tick

ASSUME NoTokenAssumption == NoToken \notin Tokens
ASSUME NoRowAssumption   == NONE \notin [user : Users, expires : Nat, revoked : BOOLEAN]
ASSUME ClockAssumption   == Ttl \in Nat \ {0} /\ MaxClock \in Nat

VARIABLES clock,
          session,   \* session[k]: the UserSession row; NONE: no such token yet
          pc, token, \* pc[q], token[q]: the step of request q and the cookie it carries
          needs,     \* needs[q]: the code its route requires
          login,     \* login[q]: the user a login has authenticated
          row,       \* row[q]: the session row as q has loaded it
          user,      \* user[q]: the account as q has loaded it
          held       \* held[q]: the conditions that held at some instant since q arrived

requestVars == <<pc, token, needs, login, row, user>>
vars        == <<adminVars, clock, session, requestVars, held>>

SessionRow == [user : Users, expires : 0 .. MaxClock + Ttl, revoked : BOOLEAN]
Steps      == {"idle", "login", "session", "user", "decide", "grants", "run", "logout"}
Conditions == {"session", "active", "permission"}

TypeOK == /\ grants  \in [Roles -> SUBSET Codes]
          /\ account \in [Users -> Account]
          /\ clock   \in 0 .. MaxClock
          /\ session \in [Tokens -> SessionRow \cup {NONE}]
          /\ pc      \in [Requests -> Steps]
          /\ token   \in [Requests -> Tokens \cup {NoToken}]
          /\ needs   \in [Requests -> SUBSET Codes]
          /\ login   \in [Requests -> Users \cup {NoUser}]
          /\ row     \in [Requests -> SessionRow \cup {NONE}]
          /\ user    \in [Requests -> Account \cup {NONE}]
          /\ held    \in [Requests -> SUBSET Conditions]
          /\ \A q \in Requests : pc[q] = "idle" =>   \* nothing of an answered request stays
               token[q] = NoToken /\ login[q] = NoUser /\ row[q] = NONE /\ user[q] = NONE

\* Any accounts that create_user makes, and any grants.
Init == /\ grants \in [Roles -> SUBSET Codes]
        /\ account \in [Users -> {a \in Account : a.active /\ (a.super <=> ADMIN \in a.roles)}]
        /\ clock   = 0
        /\ session = [k \in Tokens |-> NONE]
        /\ pc      = [q \in Requests |-> "idle"]
        /\ token   = [q \in Requests |-> NoToken]
        /\ needs   = [q \in Requests |-> {}]
        /\ login   = [q \in Requests |-> NoUser]
        /\ row     = [q \in Requests |-> NONE]
        /\ user    = [q \in Requests |-> NONE]
        /\ held    = [q \in Requests |-> {}]

-----------------------------------------------------------------------------
\* effective_permissions: superusers and ADMINs hold every code; the others what the
\* rows of their roles grant.
Unrestricted(a) == a.super \/ ADMIN \in a.roles
Granted(a)      == UNION {grants[r] : r \in a.roles}

MayPerform(a, codes) == Unrestricted(a) \/ codes \subseteq Granted(a)

\* What require_permission asks of the request q, at one instant.
Alive(k) == /\ session[k] # NONE
            /\ ~ session[k].revoked
            /\ clock < session[k].expires

Holds(q, condition) ==
  /\ token[q] # NoToken /\ session[token[q]] # NONE
  /\ condition = "session"    => Alive(token[q])
  /\ condition = "active"     => account[session[token[q]].user].active
  /\ condition = "permission" => MayPerform(account[session[token[q]].user], needs[q])

\* The history of the conditions, kept beside every step.
Observe == held' = [q \in Requests |->
                     (IF pc[q] = "idle" THEN {} ELSE held[q])
                     \cup {x \in Conditions : Holds(q, x)'}]

Goto(q, step) == pc' = [pc EXCEPT ![q] = step]

\* Mutant of Answer: the next request finds the user of this one.
AnswerKeepingUser(q) == /\ Goto(q, "idle")
                        /\ token' = [token EXCEPT ![q] = NoToken]
                        /\ needs' = [needs EXCEPT ![q] = {}]
                        /\ login' = [login EXCEPT ![q] = NoUser]
                        /\ UNCHANGED <<row, user>>

Answer(q) == /\ Goto(q, "idle")
             /\ token' = [token EXCEPT ![q] = NoToken]
             /\ needs' = [needs EXCEPT ![q] = {}]
             /\ login' = [login EXCEPT ![q] = NoUser]
             /\ row'   = [row EXCEPT ![q] = NONE]
             /\ user'  = [user EXCEPT ![q] = NONE]

-----------------------------------------------------------------------------
(* login: authenticate reads the account, create_session commits the row.   *)

Login(q, u) == /\ pc[q] = "idle"
               /\ account[u].active
               /\ Goto(q, "login")
               /\ login' = [login EXCEPT ![q] = u]
               /\ UNCHANGED <<adminVars, clock, session, token, needs, row, user>>

CommitLogin(q, k) ==
  /\ pc[q] = "login"
  /\ session[k] = NONE   \* a fresh token
  /\ session' = [session EXCEPT
                   ![k] = [user |-> login[q], expires |-> clock + Ttl, revoked |-> FALSE]]
  /\ Answer(q)
  /\ UNCHANGED <<adminVars, clock>>

-----------------------------------------------------------------------------
(* logout: revoke_session reads the row and then writes revoked_at.         *)

Logout(q, k) == /\ pc[q] = "idle"
                /\ session[k] # NONE /\ ~ session[k].revoked
                /\ Goto(q, "logout")
                /\ token' = [token EXCEPT ![q] = k]
                /\ UNCHANGED <<adminVars, clock, session, needs, login, row, user>>

CommitLogout(q) == /\ pc[q] = "logout"
                   /\ session' = [session EXCEPT ![token[q]].revoked = TRUE]
                   /\ Answer(q)
                   /\ UNCHANGED <<adminVars, clock>>

-----------------------------------------------------------------------------
(* A route behind require_permission                                        *)

Arrive(q, k, codes) == /\ pc[q] = "idle"
                       /\ session[k] # NONE
                       /\ Goto(q, "session")
                       /\ token' = [token EXCEPT ![q] = k]
                       /\ needs' = [needs EXCEPT ![q] = codes]
                       /\ UNCHANGED <<adminVars, clock, session, login, row, user>>

LoadSession(q) == /\ pc[q] = "session"
                  /\ row' = [row EXCEPT ![q] = session[token[q]]]
                  /\ Goto(q, "user")
                  /\ UNCHANGED <<adminVars, clock, session, token, needs, login, user>>

\* selectinload of the user, and of its roles, which never change.
LoadUser(q) == /\ pc[q] = "user"
               /\ user' = [user EXCEPT ![q] = account[row[q].user]]
               /\ Goto(q, "decide")
               /\ UNCHANGED <<adminVars, clock, session, token, needs, login, row>>

\* Mutant of Accepts: expiry is left to the cookie's max_age.
AcceptsExpired(q) == ~ row[q].revoked /\ user[q].active

\* resolve_session decides on the rows it has loaded and on the time it is now.
Accepts(q) == /\ ~ row[q].revoked
              /\ clock < row[q].expires
              /\ user[q].active

Resolve(q) == /\ pc[q] = "decide"
              /\ Accepts(q)
              /\ Goto(q, IF Unrestricted(user[q]) THEN "run" ELSE "grants")
              /\ UNCHANGED <<adminVars, clock, session, token, needs, login, row, user>>

\* 401 and 403
Refuse(q) == /\ \/ pc[q] = "decide" /\ ~ Accepts(q)
                \/ pc[q] = "grants" /\ ~ MayPerform(user[q], needs[q])
             /\ Answer(q)
             /\ UNCHANGED <<adminVars, clock, session>>

\* The grants of the roles are loaded when the permission is looked up.
Permit(q) == /\ pc[q] = "grants"
             /\ MayPerform(user[q], needs[q])
             /\ Goto(q, "run")
             /\ UNCHANGED <<adminVars, clock, session, token, needs, login, row, user>>

\* The handler runs, and commits, as the user.
Run(q) == /\ pc[q] = "run"
          /\ Answer(q)
          /\ UNCHANGED <<adminVars, clock, session>>

-----------------------------------------------------------------------------
Tick == /\ clock < MaxClock
        /\ clock' = clock + 1
        /\ UNCHANGED <<adminVars, session, requestVars>>

\* The grants of a role are synced, or adjusted; a user is deactivated.
Administration ==
  \/ /\ \E r \in Roles, codes \in SUBSET Codes : grants' = [grants EXCEPT ![r] = codes]
     /\ UNCHANGED account
  \/ /\ \E u \in Users : account' = [account EXCEPT ![u].active = FALSE]
     /\ UNCHANGED grants

Request(q) == \/ \E u \in Users : Login(q, u)
              \/ \E k \in Tokens : Logout(q, k) \/ \E c \in Codes : Arrive(q, k, {c})
                                  \/ Arrive(q, k, {})   \* /me

Serve(q) == \/ \E k \in Tokens : CommitLogin(q, k)
            \/ CommitLogout(q)
            \/ LoadSession(q)
            \/ LoadUser(q)
            \/ Resolve(q)
            \/ Refuse(q)
            \/ Permit(q)
            \/ Run(q)

Step == \/ Administration /\ UNCHANGED <<clock, session, requestVars>>
        \/ Tick
        \/ \E q \in Requests : Request(q) \/ Serve(q)

Next == Step /\ Observe

Spec == Init /\ [][Next]_vars

-----------------------------------------------------------------------------
(* Properties                                                               *)

\* A handler runs only for a session that was valid, a user that was active and a
\* permission that was granted at some instant after the request came in: a logout, an
\* expiry, a deactivation or a revoked grant that came first is never missed, although
\* the rows are loaded one after the other.
ActsWhileAllowed == \A q \in Requests : pc[q] = "run" => held[q] = Conditions
=============================================================================
