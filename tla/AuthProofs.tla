----------------------------- MODULE AuthProofs ------------------------------
(***************************************************************************)
(* Roles and accounts, and the requests that act on them: Bootstrap keeps  *)
(* its types and never leaves the roles half seeded, for any number of     *)
(* operators, accounts, roles and permission codes, and any catalogue; a   *)
(* handler runs only for a session, a user and a permission that were good *)
(* after its request came in, for any number of users, roles, codes,       *)
(* requests and tokens, and any time to live.                              *)
(***************************************************************************)
EXTENDS Bootstrap, Sessions, TLAPS

-----------------------------------------------------------------------------
(* Bootstrap                                                                *)

\* Roles are never deleted: one that a command has seen is still there.
SeenStays ==
  \A o \in Operators, r \in Roles :
    seen[o][r] \notin {UNREAD, MISSING} => grants[r] # MISSING

\* Of a role nobody adjusts a command has seen nothing, no row, or the catalogue's grants.
SeenCatalogue ==
  \A o \in Operators : \A r \in Roles \ Adjusted :
    seen[o][r] \in {UNREAD, MISSING, Catalogue[r]}

\* The inductive invariant.
Seeding == BootstrapTypeOK /\ SeenStays /\ SeenCatalogue /\ NeverHalfSeeded

LEMMA NoRow == \A rights \in SUBSET Codes : rights \notin {MISSING, UNREAD}
BY MissingAssumption

LEMMA NothingSeenOK ==
  /\ NothingSeen \in [Roles -> {UNREAD} \cup RoleRow]
  /\ \A r \in Roles : NothingSeen[r] = UNREAD
BY DEF NothingSeen

LEMMA InitSeeding == BootstrapInit => Seeding
<1> SUFFICES ASSUME BootstrapInit PROVE Seeding
  OBVIOUS
<1>1. BootstrapTypeOK
  BY NothingSeenOK, IncidentsAssumption DEF BootstrapInit, BootstrapTypeOK, RoleRow
<1>2. SeenStays /\ SeenCatalogue
  BY NothingSeenOK DEF BootstrapInit, SeenStays, SeenCatalogue
<1>3. NeverHalfSeeded
  BY DEF BootstrapInit, NeverHalfSeeded
<1> QED
  BY <1>1, <1>2, <1>3 DEF Seeding

-----------------------------------------------------------------------------
\* An ended command, or one that goes on to the account, has seen nothing.
LEMMA ForgetsWhatItSaw ==
  ASSUME Seeding, NEW o \in Operators, EndCommand(o) \/ AfterSeed(o)
  PROVE  /\ cli'    \in [Operators -> {"idle", "seed", "account"}]
         /\ making' \in [Operators -> Users \cup {NoUser}]
         /\ seen' = [seen EXCEPT ![o] = NothingSeen]
         /\ \A p \in Operators : cli'[p] = "idle" =>
              making'[p] = NoUser /\ seen'[p] = NothingSeen
BY DEF Seeding, BootstrapTypeOK, EndCommand, AfterSeed

LEMMA SeenAfter ==
  ASSUME Seeding, NEW o \in Operators, seen' = [seen EXCEPT ![o] = NothingSeen],
         \A r \in Roles : grants[r] # MISSING => grants'[r] # MISSING
  PROVE  /\ seen' \in [Operators -> [Roles -> {UNREAD} \cup RoleRow]]
         /\ SeenStays' /\ SeenCatalogue'
<1>1. seen' \in [Operators -> [Roles -> {UNREAD} \cup RoleRow]]
  BY NothingSeenOK DEF Seeding, BootstrapTypeOK
<1>2. \A p \in Operators, r \in Roles : seen'[p][r] \in {UNREAD, seen[p][r]}
  BY NothingSeenOK DEF Seeding, BootstrapTypeOK
<1>3. SeenStays'
  BY <1>2 DEF Seeding, SeenStays
<1>4. SeenCatalogue'
  BY <1>2 DEF Seeding, SeenCatalogue
<1> QED
  BY <1>1, <1>3, <1>4

LEMMA StartSeeding ==
  ASSUME Seeding, NEW o \in Operators, NEW u \in Admins \cup {NoUser}, StartCommand(o, u)
  PROVE  Seeding'
<1>1. BootstrapTypeOK'
  BY AdminsAssumption DEF Seeding, BootstrapTypeOK, StartCommand
<1> QED
  BY <1>1 DEF Seeding, SeenStays, SeenCatalogue, NeverHalfSeeded, Seeded, StartCommand

LEMMA ReadSeeding ==
  ASSUME Seeding, NEW o \in Operators, NEW r \in Roles, ReadRole(o, r)
  PROVE  Seeding'
<1>1. BootstrapTypeOK'
  BY DEF Seeding, BootstrapTypeOK, ReadRole
<1>2. \A p \in Operators, q \in Roles :
        seen'[p][q] = IF p = o /\ q = r THEN grants[r] ELSE seen[p][q]
  BY DEF Seeding, BootstrapTypeOK, ReadRole
<1>3. SeenStays'
  BY <1>2 DEF Seeding, SeenStays, ReadRole
<1>4. r \notin Adjusted => grants[r] \in {MISSING, Catalogue[r]}
  BY DEF Seeding, NeverHalfSeeded
<1>5. SeenCatalogue'
  BY <1>2, <1>4 DEF Seeding, SeenCatalogue
<1>6. NeverHalfSeeded'
  BY DEF Seeding, NeverHalfSeeded, Seeded, ReadRole
<1> QED
  BY <1>1, <1>3, <1>5, <1>6 DEF Seeding

\* What a seed writes when none of its rows collide.
LEMMA SyncedRoles ==
  ASSUME Seeding, NEW o \in Operators, AllRead(o), ~ Collides(o)
  PROVE  /\ \A r \in Roles : Synced(o, r) \in SUBSET Codes
         /\ \A r \in Roles \ Adjusted : Synced(o, r) = Catalogue[r]
<1>1. \A r \in Roles : /\ Catalogue[r] \in SUBSET Codes
                       /\ grants[r] \in RoleRow
                       /\ seen[o][r] \in RoleRow
  BY CatalogueAssumption DEF Seeding, BootstrapTypeOK, AllRead
<1>2. \A r \in Roles : Synced(o, r) \in SUBSET Codes
  BY <1>1, NoRow DEF Synced, Adds, Drops, Held, RoleRow
<1>3. ASSUME NEW r \in Roles \ Adjusted
      PROVE  Synced(o, r) = Catalogue[r]
  <2>1. seen[o][r] \in {MISSING, Catalogue[r]}
    BY DEF Seeding, SeenCatalogue, AllRead
  <2>2. CASE grants[r] = MISSING
    <3>1. seen[o][r] = MISSING
      BY <2>1, <2>2 DEF Seeding, SeenStays, AllRead
    <3> QED
      BY <2>2, <3>1 DEF Synced, Adds, Drops, Held
  <2>3. CASE grants[r] # MISSING
    <3>1. grants[r] = Catalogue[r]
      BY <2>3 DEF Seeding, NeverHalfSeeded
    <3>2. seen[o][r] = Catalogue[r]
      BY <2>1, <2>3 DEF Collides
    <3>3. Catalogue[r] # MISSING
      BY <1>1, NoRow
    <3> QED
      BY <3>1, <3>2, <3>3 DEF Synced, Adds, Drops, Held
  <2> QED
    BY <2>2, <2>3
<1> QED
  BY <1>2, <1>3

LEMMA CommitSeeding ==
  ASSUME Seeding, NEW o \in Operators, CommitSeed(o)
  PROVE  Seeding'
<1>1. AllRead(o) /\ ~ Collides(o)
  BY DEF CommitSeed
<1>2. /\ grants' = [r \in Roles |-> Synced(o, r)]
      /\ UNCHANGED <<account, incidents>>
      /\ AfterSeed(o)
  BY DEF CommitSeed
<1>3. \A r \in Roles : grants'[r] \in SUBSET Codes /\ grants'[r] # MISSING
  BY <1>1, <1>2, SyncedRoles, NoRow
<1>4. seen' = [seen EXCEPT ![o] = NothingSeen]
  BY <1>2, ForgetsWhatItSaw
<1>5. seen' \in [Operators -> [Roles -> {UNREAD} \cup RoleRow]] /\ SeenStays' /\ SeenCatalogue'
  BY <1>3, <1>4, SeenAfter
<1>6. grants' \in [Roles -> RoleRow]
  BY <1>2, <1>3 DEF RoleRow
<1>7. BootstrapTypeOK'
  BY <1>2, <1>5, <1>6, ForgetsWhatItSaw DEF Seeding, BootstrapTypeOK
<1>8. NeverHalfSeeded'
  BY <1>1, <1>2, <1>3, SyncedRoles DEF NeverHalfSeeded, Seeded
<1> QED
  BY <1>5, <1>7, <1>8 DEF Seeding

\* The steps that end a command and leave the roles alone.
LEMMA EndSeeding ==
  ASSUME Seeding, NEW o \in Operators, FailSeed(o) \/ CommitAdmin(o) \/ FailAdmin(o) \/ Stop(o)
  PROVE  Seeding'
<1>1. EndCommand(o) /\ UNCHANGED grants
  BY DEF FailSeed, CommitAdmin, FailAdmin, Stop
<1>2. seen' = [seen EXCEPT ![o] = NothingSeen]
  BY <1>1 DEF EndCommand
<1>3. seen' \in [Operators -> [Roles -> {UNREAD} \cup RoleRow]] /\ SeenStays' /\ SeenCatalogue'
  BY <1>1, <1>2, SeenAfter
<1>4. account' \in [Users -> Account \cup {NONE}]
  <2>1. NewAccount({ADMIN}, TRUE) \in Account
    BY RoleAssumption DEF NewAccount, Account
  <2>2. account \in [Users -> Account \cup {NONE}]
    BY DEF Seeding, BootstrapTypeOK
  <2>3. CASE CommitAdmin(o)
    BY <2>1, <2>2, <2>3 DEF CommitAdmin
  <2>4. CASE UNCHANGED account
    BY <2>2, <2>4
  <2> QED
    BY <2>3, <2>4 DEF FailSeed, FailAdmin, Stop
<1>5. incidents' \in 0 .. MaxIncidents
  <2>1. incidents \in 0 .. MaxIncidents
    BY DEF Seeding, BootstrapTypeOK
  <2>2. CASE Stop(o)
    BY <2>1, <2>2, IncidentsAssumption DEF Stop
  <2>3. CASE UNCHANGED incidents
    BY <2>1, <2>3
  <2> QED
    BY <2>2, <2>3 DEF FailSeed, CommitAdmin, FailAdmin
<1>6. BootstrapTypeOK'
  BY <1>1, <1>3, <1>4, <1>5, ForgetsWhatItSaw DEF Seeding, BootstrapTypeOK
<1>7. NeverHalfSeeded'
  BY <1>1 DEF Seeding, NeverHalfSeeded, Seeded
<1> QED
  BY <1>3, <1>6, <1>7 DEF Seeding

LEMMA CreateUserSeeding ==
  ASSUME Seeding, NEW u \in Users, NEW rs \in SUBSET Roles, CreateUser(u, rs)
  PROVE  Seeding'
<1>1. BootstrapTypeOK'
  BY DEF Seeding, BootstrapTypeOK, CreateUser, NewAccount, Account
<1> QED
  BY <1>1 DEF Seeding, SeenStays, SeenCatalogue, NeverHalfSeeded, Seeded, CreateUser

LEMMA AdjustSeeding ==
  ASSUME Seeding, NEW r \in Roles, NEW c \in Codes, Adjust(r, c)
  PROVE  Seeding'
<1>1. grants[r] \in SUBSET Codes
  BY DEF Seeding, BootstrapTypeOK, RoleRow, Adjust
<1>2. PICK rights \in SUBSET Codes : grants' = [grants EXCEPT ![r] = rights]
  <2>1. (IF c \in grants[r] THEN grants[r] \ {c} ELSE grants[r] \cup {c}) \in SUBSET Codes
    BY <1>1
  <2> QED
    BY <2>1 DEF Adjust
<1>3. \A q \in Roles : /\ grants'[q] = IF q = r THEN rights ELSE grants[q]
                       /\ grants[q] # MISSING => grants'[q] # MISSING
  BY <1>2, NoRow DEF Seeding, BootstrapTypeOK
<1>4. BootstrapTypeOK'
  BY <1>2, IncidentsAssumption DEF Seeding, BootstrapTypeOK, RoleRow, Adjust
<1>5. SeenStays' /\ SeenCatalogue'
  BY <1>3 DEF Seeding, SeenStays, SeenCatalogue, Adjust
<1>6. Seeded /\ r \in Adjusted
  BY DEF Seeding, NeverHalfSeeded, Adjust
<1>7. NeverHalfSeeded'
  BY <1>3, <1>6 DEF Seeding, NeverHalfSeeded, Seeded
<1> QED
  BY <1>4, <1>5, <1>7 DEF Seeding

-----------------------------------------------------------------------------
LEMMA StepSeeding == Seeding /\ [BootstrapNext]_bootstrapVars => Seeding'
<1> SUFFICES ASSUME Seeding, [BootstrapNext]_bootstrapVars PROVE Seeding'
  OBVIOUS
<1>1. ASSUME NEW o \in Operators, NEW u \in Admins \cup {NoUser}, StartCommand(o, u)
      PROVE  Seeding'
  BY <1>1, StartSeeding
<1>2. ASSUME NEW o \in Operators, Work(o) \/ Stop(o)
      PROVE  Seeding'
  BY <1>2, ReadSeeding, CommitSeeding, EndSeeding DEF Work
<1>3. ASSUME NEW u \in Users, NEW rs \in SUBSET Roles, CreateUser(u, rs)
      PROVE  Seeding'
  BY <1>3, CreateUserSeeding
<1>4. ASSUME NEW r \in Roles, NEW c \in Codes, Adjust(r, c)
      PROVE  Seeding'
  BY <1>4, AdjustSeeding
<1>5. CASE UNCHANGED bootstrapVars
  BY <1>5
    DEF bootstrapVars, Seeding, BootstrapTypeOK, SeenStays, SeenCatalogue, NeverHalfSeeded,
        Seeded
<1> QED
  BY <1>1, <1>2, <1>3, <1>4, <1>5 DEF BootstrapNext

LEMMA SeedingInvariant == BootstrapSpec => []Seeding
BY InitSeeding, StepSeeding, PTL DEF BootstrapSpec

\* Commands and accounts keep their types, and a command that has ended holds nothing.
THEOREM AccountsTypeCorrect == BootstrapSpec => []BootstrapTypeOK
<1>1. Seeding => BootstrapTypeOK
  BY DEF Seeding
<1> QED
  BY <1>1, SeedingInvariant, PTL

\* However many commands race and wherever they are stopped, the roles are seeded as a
\* whole or not at all.
THEOREM RolesAreSeededWhole == BootstrapSpec => []NeverHalfSeeded
<1>1. Seeding => NeverHalfSeeded
  BY DEF Seeding
<1> QED
  BY <1>1, SeedingInvariant, PTL

-----------------------------------------------------------------------------
(* Sessions                                                                 *)

Cookie(q) == pc[q] \in {"session", "user", "decide", "grants", "run", "logout"}
Loaded(q) == pc[q] \in {"user", "decide", "grants", "run"}
Known(q)  == pc[q] \in {"decide", "grants", "run"}

\* The rows a request has loaded agree with the tables, but for what may change: whether
\* the session is revoked, and whether the user is active.
RowsAgree(q) ==
  /\ pc[q] = "login" => login[q] \in Users
  /\ Cookie(q) => token[q] \in Tokens /\ session[token[q]] \in SessionRow
  /\ Loaded(q) => /\ row[q] \in SessionRow
                  /\ row[q].user    = session[token[q]].user
                  /\ row[q].expires = session[token[q]].expires
  /\ Known(q)  => /\ user[q] \in Account
                  /\ user[q].roles = account[row[q].user].roles
                  /\ user[q].super = account[row[q].user].super

\* What a request goes by was true at some instant since it arrived.
Witnessed(q) ==
  /\ pc[q] \in {"user", "decide"} /\ ~ row[q].revoked /\ clock < row[q].expires
       => "session" \in held[q]
  /\ pc[q] = "decide" /\ user[q].active => "active" \in held[q]
  /\ pc[q] = "grants" => {"session", "active"} \subseteq held[q]
  /\ pc[q] = "run"    => Conditions \subseteq held[q]

\* The inductive invariant.
Safe == TypeOK /\ \A q \in Requests : RowsAgree(q) /\ Witnessed(q)

\* What no step changes: a session row's user and expiry, an account's roles.
Kept == /\ \A k \in Tokens : session[k] # NONE =>
             /\ session'[k] \in SessionRow
             /\ session'[k].user    = session[k].user
             /\ session'[k].expires = session[k].expires
        /\ \A u \in Users : /\ account'[u].roles = account[u].roles
                            /\ account'[u].super = account[u].super
        /\ clock' >= clock

LEMMA NoneIsNoRow == NONE \notin SessionRow /\ NONE \notin Account
<1>1. \A s \in SessionRow : s \in [user : Users, expires : Nat, revoked : BOOLEAN]
  BY ClockAssumption DEF SessionRow
<1> QED
  BY <1>1, NoRowAssumption, NoAccountAssumption DEF Account

LEMMA InitSafe == Init => Safe
<1> SUFFICES ASSUME Init PROVE Safe
  OBVIOUS
<1>1. TypeOK
  BY ClockAssumption DEF Init, TypeOK, Steps
<1>2. \A q \in Requests : RowsAgree(q) /\ Witnessed(q)
  BY DEF Init, RowsAgree, Witnessed, Cookie, Loaded, Known
<1> QED
  BY <1>1, <1>2 DEF Safe

-----------------------------------------------------------------------------
\* The history: what was true stays so until the request is answered, and what is true
\* after a step is added.
LEMMA Remembers ==
  ASSUME TypeOK, Observe, NEW q \in Requests
  PROVE  /\ held' \in [Requests -> SUBSET Conditions]
         /\ pc[q] # "idle" => held[q] \subseteq held'[q]
         /\ \A x \in Conditions : Holds(q, x)' => x \in held'[q]
<1>1. \A p \in Requests : held[p] \in SUBSET Conditions
  BY DEF TypeOK
<1>2. held' = [p \in Requests |->
                 (IF pc[p] = "idle" THEN {} ELSE held[p])
                 \cup {x \in Conditions : Holds(p, x)'}]
  BY DEF Observe
<1>3. held' \in [Requests -> SUBSET Conditions]
  BY <1>1, <1>2
<1>4. held'[q] = (IF pc[q] = "idle" THEN {} ELSE held[q]) \cup {x \in Conditions : Holds(q, x)'}
  BY <1>2
<1> QED
  BY <1>3, <1>4

\* A step that leaves a request alone keeps what it goes by.
LEMMA LeftAlone ==
  ASSUME Safe, TypeOK', Kept, NEW q \in Requests,
         pc'[q] = pc[q], token'[q] = token[q], login'[q] = login[q],
         row'[q] = row[q], user'[q] = user[q],
         pc[q] # "idle" => held[q] \subseteq held'[q]
  PROVE  RowsAgree(q)' /\ Witnessed(q)'
<1>1. RowsAgree(q) /\ Witnessed(q) /\ TypeOK
  BY DEF Safe
<1>2. Cookie(q)' = Cookie(q) /\ Loaded(q)' = Loaded(q) /\ Known(q)' = Known(q)
  BY DEF Cookie, Loaded, Known
<1>3. Loaded(q) => row[q].user \in Users /\ row[q].expires \in Int
  BY <1>1, ClockAssumption DEF RowsAgree, SessionRow
<1>4. Cookie(q) => session[token[q]] # NONE
  BY <1>1, NoneIsNoRow DEF RowsAgree
<1>5. Known(q) => Loaded(q)
  BY DEF Known, Loaded
<1>6. Loaded(q) => Cookie(q)
  BY DEF Cookie, Loaded
<1>7. RowsAgree(q)'
  BY <1>1, <1>2, <1>3, <1>4, <1>5, <1>6 DEF RowsAgree, Kept
<1>8. pc[q] \in {"user", "decide"} /\ clock' < row[q].expires => clock < row[q].expires
  BY <1>1, <1>3, ClockAssumption DEF Kept, Loaded, TypeOK
<1>9. Witnessed(q)'
  BY <1>1, <1>8 DEF Witnessed
<1> QED
  BY <1>7, <1>9

\* An answered request goes by nothing.
LEMMA Answered ==
  ASSUME NEW q \in Requests, pc'[q] = "idle"
  PROVE  RowsAgree(q)' /\ Witnessed(q)'
BY DEF RowsAgree, Witnessed, Cookie, Loaded, Known

\* A step that leaves the tables and the clock alone.
LEMMA TablesLeftAlone ==
  ASSUME TypeOK, UNCHANGED <<adminVars, clock, session>>
  PROVE  Kept
BY ClockAssumption DEF TypeOK, Kept, adminVars

\* A step of one request, when the rows and the history are right for that request.
LEMMA OneRequest ==
  ASSUME Safe, TypeOK', Kept, Observe, NEW q \in Requests,
         \A p \in Requests \ {q} : /\ pc'[p] = pc[p] /\ token'[p] = token[p]
                                   /\ login'[p] = login[p]
                                   /\ row'[p] = row[p] /\ user'[p] = user[p],
         RowsAgree(q)' /\ Witnessed(q)'
  PROVE  Safe'
<1>1. ASSUME NEW p \in Requests \ {q}
      PROVE  RowsAgree(p)' /\ Witnessed(p)'
  <2>1. pc[p] # "idle" => held[p] \subseteq held'[p]
    BY Remembers DEF Safe
  <2> QED
    BY <2>1, LeftAlone
<1> QED
  BY <1>1 DEF Safe

\* The steps that end a request.
LEMMA AnswerTypes ==
  ASSUME TypeOK, Observe, NEW q \in Requests, Answer(q),
         UNCHANGED adminVars, clock' = clock,
         session' \in [Tokens -> SessionRow \cup {NONE}]
  PROVE  /\ TypeOK'
         /\ pc'[q] = "idle"
         /\ \A p \in Requests \ {q} : /\ pc'[p] = pc[p] /\ token'[p] = token[p]
                                      /\ login'[p] = login[p]
                                      /\ row'[p] = row[p] /\ user'[p] = user[p]
<1>1. held' \in [Requests -> SUBSET Conditions]
  BY Remembers
<1>2. /\ pc' = [pc EXCEPT ![q] = "idle"] /\ token' = [token EXCEPT ![q] = NoToken]
      /\ needs' = [needs EXCEPT ![q] = {}] /\ login' = [login EXCEPT ![q] = NoUser]
      /\ row' = [row EXCEPT ![q] = NONE] /\ user' = [user EXCEPT ![q] = NONE]
  BY DEF Answer, Goto
<1>3. "idle" \in Steps
  BY DEF Steps
<1>4. pc' \in [Requests -> Steps] /\ needs' \in [Requests -> SUBSET Codes]
  BY <1>2, <1>3 DEF TypeOK
<1>5. /\ token' \in [Requests -> Tokens \cup {NoToken}]
      /\ login' \in [Requests -> Users \cup {NoUser}]
      /\ row' \in [Requests -> SessionRow \cup {NONE}]
      /\ user' \in [Requests -> Account \cup {NONE}]
  BY <1>2 DEF TypeOK
<1>6. \A p \in Requests : pc'[p] = "idle" =>
        token'[p] = NoToken /\ login'[p] = NoUser /\ row'[p] = NONE /\ user'[p] = NONE
  BY <1>2 DEF TypeOK
<1>7. TypeOK'
  BY <1>1, <1>4, <1>5, <1>6 DEF TypeOK, adminVars
<1> QED
  BY <1>2, <1>7 DEF TypeOK

LEMMA AnswerSafe ==
  ASSUME Safe, Observe, NEW q \in Requests, Answer(q),
         UNCHANGED adminVars, clock' = clock, Kept,
         session' \in [Tokens -> SessionRow \cup {NONE}]
  PROVE  Safe'
<1>1. TypeOK
  BY DEF Safe
<1>2. RowsAgree(q)' /\ Witnessed(q)'
  BY <1>1, AnswerTypes, Answered
<1> QED
  BY <1>1, <1>2, AnswerTypes, OneRequest

LEMMA EndSafe ==
  ASSUME Safe, Observe, NEW q \in Requests, Refuse(q) \/ Run(q)
  PROVE  Safe'
<1>1. Answer(q) /\ UNCHANGED <<adminVars, clock, session>>
  BY DEF Refuse, Run
<1>2. Kept /\ session' \in [Tokens -> SessionRow \cup {NONE}]
  BY <1>1, TablesLeftAlone DEF Safe, TypeOK
<1> QED
  BY <1>1, <1>2, AnswerSafe

LEMMA CommitLoginSafe ==
  ASSUME Safe, Observe, NEW q \in Requests, NEW k \in Tokens, CommitLogin(q, k)
  PROVE  Safe'
<1>1. TypeOK /\ login[q] \in Users
  BY DEF Safe, RowsAgree, CommitLogin
<1> DEFINE new == [user |-> login[q], expires |-> clock + Ttl, revoked |-> FALSE]
<1>2. new \in SessionRow
  BY <1>1, ClockAssumption DEF SessionRow, TypeOK
<1>3. session' = [session EXCEPT ![k] = new] /\ session[k] = NONE
  BY DEF CommitLogin
<1>4. session' \in [Tokens -> SessionRow \cup {NONE}]
  BY <1>1, <1>2, <1>3 DEF TypeOK
<1>5. UNCHANGED adminVars /\ clock' = clock /\ Answer(q)
  BY DEF CommitLogin
<1>6. Kept
  BY <1>1, <1>3, <1>5, ClockAssumption DEF Kept, TypeOK, adminVars
<1> QED
  BY <1>4, <1>5, <1>6, AnswerSafe

LEMMA CommitLogoutSafe ==
  ASSUME Safe, Observe, NEW q \in Requests, CommitLogout(q)
  PROVE  Safe'
<1>1. TypeOK /\ token[q] \in Tokens /\ session[token[q]] \in SessionRow
  BY DEF Safe, RowsAgree, CommitLogout, Cookie
<1>2. session' = [session EXCEPT ![token[q]].revoked = TRUE]
  BY DEF CommitLogout
<1> DEFINE ended == [session[token[q]] EXCEPT !.revoked = TRUE]
<1>3. /\ ended \in SessionRow
      /\ ended.user = session[token[q]].user /\ ended.expires = session[token[q]].expires
  BY <1>1 DEF SessionRow
<1>4. session' = [session EXCEPT ![token[q]] = ended]
  BY <1>2
<1> HIDE DEF ended
<1>5. session' \in [Tokens -> SessionRow \cup {NONE}]
  BY <1>1, <1>3, <1>4 DEF TypeOK
<1>6. UNCHANGED adminVars /\ clock' = clock /\ Answer(q)
  BY DEF CommitLogout
<1>7. Kept
  BY <1>1, <1>3, <1>4, <1>6, ClockAssumption DEF Kept, TypeOK, adminVars
<1> QED
  BY <1>5, <1>6, <1>7, AnswerSafe

-----------------------------------------------------------------------------
\* The steps that take a request on and change no table.
LEMMA Moved ==
  ASSUME TypeOK, Observe, NEW q \in Requests, NEW step \in Steps \ {"idle"}, Goto(q, step),
         UNCHANGED <<adminVars, clock, session>>,
         token' \in [Requests -> Tokens \cup {NoToken}],
         needs' \in [Requests -> SUBSET Codes],
         login' \in [Requests -> Users \cup {NoUser}],
         row'   \in [Requests -> SessionRow \cup {NONE}],
         user'  \in [Requests -> Account \cup {NONE}],
         \A p \in Requests \ {q} : /\ token'[p] = token[p] /\ login'[p] = login[p]
                                   /\ row'[p] = row[p] /\ user'[p] = user[p]
  PROVE  /\ TypeOK' /\ Kept
         /\ pc'[q] = step
         /\ \A p \in Requests \ {q} : pc'[p] = pc[p]
<1>1. held' \in [Requests -> SUBSET Conditions]
  BY Remembers
<1>2. pc' = [pc EXCEPT ![q] = step] /\ pc \in [Requests -> Steps]
  BY DEF Goto, TypeOK
<1>3. \A p \in Requests : pc'[p] = "idle" =>
        token'[p] = NoToken /\ login'[p] = NoUser /\ row'[p] = NONE /\ user'[p] = NONE
  BY <1>2 DEF TypeOK
<1>4. TypeOK'
  BY <1>1, <1>2, <1>3 DEF TypeOK, adminVars
<1> QED
  BY <1>2, <1>4, TablesLeftAlone

LEMMA RequestSafe ==
  ASSUME Safe, Observe, NEW q \in Requests, Request(q)
  PROVE  Safe'
<1>0. TypeOK
  BY DEF Safe
<1>1. ASSUME NEW u \in Users, Login(q, u)
      PROVE  Safe'
  <2>1. login' = [login EXCEPT ![q] = u] /\ Goto(q, "login")
    BY <1>1 DEF Login
  <2>2. UNCHANGED <<adminVars, clock, session, token, needs, row, user>>
    BY <1>1 DEF Login
  <2>3. "login" \in Steps \ {"idle"}
    BY DEF Steps
  <2>4. login' \in [Requests -> Users \cup {NoUser}] /\ login'[q] = u
    BY <1>0, <2>1 DEF TypeOK
  <2>5. \A p \in Requests \ {q} : login'[p] = login[p]
    BY <1>0, <2>1 DEF TypeOK
  <2>6. /\ TypeOK' /\ Kept /\ pc'[q] = "login"
        /\ \A p \in Requests \ {q} : pc'[p] = pc[p]
    BY <1>0, <2>1, <2>2, <2>3, <2>4, <2>5, Moved DEF TypeOK
  <2>7. RowsAgree(q)' /\ Witnessed(q)'
    BY <2>4, <2>6 DEF RowsAgree, Witnessed, Cookie, Loaded, Known
  <2> QED
    BY <2>2, <2>5, <2>6, <2>7, OneRequest
<1>2. ASSUME NEW k \in Tokens, NEW codes \in SUBSET Codes, NEW step \in {"logout", "session"},
             session[k] # NONE, Goto(q, step),
             token' = [token EXCEPT ![q] = k], needs' \in [Requests -> SUBSET Codes],
             UNCHANGED <<adminVars, clock, session, login, row, user>>
      PROVE  Safe'
  <2>1. step \in Steps \ {"idle"}
    BY DEF Steps
  <2>2. token' \in [Requests -> Tokens \cup {NoToken}] /\ token'[q] = k
    BY <1>0, <1>2 DEF TypeOK
  <2>3. \A p \in Requests \ {q} : token'[p] = token[p]
    BY <1>0, <1>2 DEF TypeOK
  <2>4. /\ TypeOK' /\ Kept /\ pc'[q] = step
        /\ \A p \in Requests \ {q} : pc'[p] = pc[p]
    BY <1>0, <1>2, <2>1, <2>2, <2>3, Moved DEF TypeOK
  <2>5. session'[k] \in SessionRow
    BY <1>2, <2>4 DEF Kept
  <2>6. RowsAgree(q)' /\ Witnessed(q)'
    BY <2>2, <2>4, <2>5 DEF RowsAgree, Witnessed, Cookie, Loaded, Known
  <2> QED
    BY <1>2, <2>3, <2>4, <2>6, OneRequest
<1>3. ASSUME NEW k \in Tokens, Logout(q, k)
      PROVE  Safe'
  <2>1. needs' \in [Requests -> SUBSET Codes]
    BY <1>0, <1>3 DEF TypeOK, Logout
  <2> QED
    BY <1>2, <1>3, <2>1 DEF Logout
<1>4. ASSUME NEW k \in Tokens, NEW codes \in SUBSET Codes, Arrive(q, k, codes)
      PROVE  Safe'
  <2>1. needs' \in [Requests -> SUBSET Codes]
    BY <1>0, <1>4 DEF TypeOK, Arrive
  <2> QED
    BY <1>2, <1>4, <2>1 DEF Arrive
<1> QED
  BY <1>1, <1>3, <1>4 DEF Request

LEMMA LoadSessionSafe ==
  ASSUME Safe, Observe, NEW q \in Requests, LoadSession(q)
  PROVE  Safe'
<1>0. TypeOK /\ RowsAgree(q)
  BY DEF Safe
<1>1. /\ pc[q] = "session" /\ Goto(q, "user") /\ row' = [row EXCEPT ![q] = session[token[q]]]
      /\ UNCHANGED <<adminVars, clock, session, token, needs, login, user>>
  BY DEF LoadSession
<1>2. "user" \in Steps \ {"idle"}
  BY DEF Steps
<1>3. token[q] \in Tokens /\ session[token[q]] \in SessionRow
  BY <1>0, <1>1 DEF RowsAgree, Cookie
<1>4. row' \in [Requests -> SessionRow \cup {NONE}] /\ row'[q] = session[token[q]]
  BY <1>0, <1>1, <1>3 DEF TypeOK
<1>5. \A p \in Requests \ {q} : row'[p] = row[p]
  BY <1>0, <1>1 DEF TypeOK
<1>6. /\ TypeOK' /\ Kept /\ pc'[q] = "user"
      /\ \A p \in Requests \ {q} : pc'[p] = pc[p]
  BY <1>0, <1>1, <1>2, <1>4, <1>5, Moved DEF TypeOK
<1>7. RowsAgree(q)'
  BY <1>1, <1>3, <1>4, <1>6 DEF RowsAgree, Cookie, Loaded, Known
<1>8. ASSUME ~ row'[q].revoked, clock' < row'[q].expires
      PROVE  "session" \in held'[q]
  <2>1. Holds(q, "session")'
    BY <1>1, <1>3, <1>4, <1>8, NoTokenAssumption, NoneIsNoRow DEF Holds, Alive
  <2> QED
    BY <1>0, <2>1, Remembers DEF Conditions
<1>9. Witnessed(q)'
  BY <1>6, <1>8 DEF Witnessed
<1> QED
  BY <1>1, <1>5, <1>6, <1>7, <1>9, OneRequest

LEMMA LoadUserSafe ==
  ASSUME Safe, Observe, NEW q \in Requests, LoadUser(q)
  PROVE  Safe'
<1>0. TypeOK /\ RowsAgree(q) /\ Witnessed(q)
  BY DEF Safe
<1>1. /\ pc[q] = "user" /\ Goto(q, "decide") /\ user' = [user EXCEPT ![q] = account[row[q].user]]
      /\ UNCHANGED <<adminVars, clock, session, token, needs, login, row>>
  BY DEF LoadUser
<1>2. "decide" \in Steps \ {"idle"}
  BY DEF Steps
<1>3. /\ token[q] \in Tokens /\ session[token[q]] \in SessionRow
      /\ row[q] \in SessionRow
      /\ row[q].user = session[token[q]].user
      /\ row[q].expires = session[token[q]].expires
  BY <1>0, <1>1 DEF RowsAgree, Cookie, Loaded
<1>4. account[row[q].user] \in Account
  BY <1>0, <1>3 DEF TypeOK, SessionRow
<1>5. user' \in [Requests -> Account \cup {NONE}] /\ user'[q] = account[row[q].user]
  BY <1>0, <1>1, <1>4 DEF TypeOK
<1>6. \A p \in Requests \ {q} : user'[p] = user[p]
  BY <1>0, <1>1 DEF TypeOK
<1>7. /\ TypeOK' /\ Kept /\ pc'[q] = "decide"
      /\ \A p \in Requests \ {q} : pc'[p] = pc[p]
  BY <1>0, <1>1, <1>2, <1>5, <1>6, Moved DEF TypeOK
<1>8. RowsAgree(q)'
  BY <1>1, <1>3, <1>4, <1>5, <1>7 DEF RowsAgree, Cookie, Loaded, Known, adminVars
<1>9. ASSUME user'[q].active
      PROVE  "active" \in held'[q]
  <2>1. Holds(q, "active")'
    BY <1>1, <1>3, <1>5, <1>9, NoTokenAssumption, NoneIsNoRow DEF Holds, adminVars
  <2> QED
    BY <1>0, <2>1, Remembers DEF Conditions
<1>10. held[q] \subseteq held'[q]
  BY <1>0, <1>1, Remembers
<1>11. Witnessed(q)'
  BY <1>0, <1>1, <1>7, <1>9, <1>10 DEF Witnessed
<1> QED
  BY <1>1, <1>6, <1>7, <1>8, <1>11, OneRequest

\* A user who may go on from the rows loaded may do so by the tables as they are.
LEMMA PermissionNow ==
  ASSUME Safe, Observe, NEW q \in Requests, Known(q), MayPerform(user[q], needs[q]),
         UNCHANGED <<adminVars, clock, session, token, needs>>
  PROVE  "permission" \in held'[q]
<1>1. /\ token[q] \in Tokens /\ session[token[q]] \in SessionRow
      /\ row[q].user = session[token[q]].user
      /\ user[q].roles = account[row[q].user].roles
      /\ user[q].super = account[row[q].user].super
  BY DEF Safe, RowsAgree, Known, Loaded, Cookie
<1>2. Granted(user[q]) = Granted(account[row[q].user])
  BY <1>1 DEF Granted
<1>3. MayPerform(account[session[token[q]].user], needs[q])
  BY <1>1, <1>2 DEF MayPerform, Unrestricted
<1>4. MayPerform(account[session[token[q]].user], needs[q])'
  BY <1>3 DEF MayPerform, Unrestricted, Granted, adminVars
<1>5. Holds(q, "permission")'
  BY <1>1, <1>4, NoTokenAssumption, NoneIsNoRow DEF Holds
<1> QED
  BY <1>5, Remembers DEF Conditions, Safe

LEMMA DecideSafe ==
  ASSUME Safe, Observe, NEW q \in Requests, Resolve(q) \/ Permit(q)
  PROVE  Safe'
<1>0. TypeOK /\ RowsAgree(q) /\ Witnessed(q)
  BY DEF Safe
<1>1. PICK step \in {"grants", "run"} :
        /\ Goto(q, step)
        /\ pc[q] \in {"decide", "grants"}
        /\ step = "run" => MayPerform(user[q], needs[q])
  BY DEF Resolve, Permit, MayPerform
<1>2. UNCHANGED <<adminVars, clock, session, token, needs, login, row, user>>
  BY DEF Resolve, Permit
<1>3. step \in Steps \ {"idle"}
  BY DEF Steps
<1>4. /\ TypeOK' /\ Kept /\ pc'[q] = step
      /\ \A p \in Requests \ {q} : pc'[p] = pc[p]
  BY <1>0, <1>1, <1>2, <1>3, Moved DEF TypeOK
<1>5. Known(q) /\ Loaded(q) /\ Cookie(q)
  BY <1>1 DEF Known, Loaded, Cookie
<1>6. RowsAgree(q)'
  BY <1>0, <1>2, <1>4, <1>5 DEF RowsAgree, adminVars
<1>7. {"session", "active"} \subseteq held[q]
  BY <1>0 DEF Witnessed, Resolve, Permit, Accepts
<1>8. held[q] \subseteq held'[q]
  BY <1>0, <1>1, Remembers
<1>9. step = "run" => "permission" \in held'[q]
  BY <1>1, <1>2, <1>5, PermissionNow
<1>10. Witnessed(q)'
  BY <1>4, <1>7, <1>8, <1>9 DEF Witnessed, Conditions
<1> QED
  BY <1>2, <1>4, <1>6, <1>10, OneRequest

-----------------------------------------------------------------------------
\* A step that moves no request.
LEMMA NobodyMoves ==
  ASSUME Safe, Observe, UNCHANGED <<session, requestVars>>,
         clock' \in 0 .. MaxClock, clock' >= clock,
         grants' \in [Roles -> SUBSET Codes], account' \in [Users -> Account],
         \A u \in Users : /\ account'[u].roles = account[u].roles
                          /\ account'[u].super = account[u].super
  PROVE  Safe'
<1>0. TypeOK
  BY DEF Safe
<1>1. Kept
  BY <1>0 DEF Kept, TypeOK
<1>2. ASSUME NEW q \in Requests
      PROVE  /\ held' \in [Requests -> SUBSET Conditions]
             /\ pc[q] # "idle" => held[q] \subseteq held'[q]
  BY <1>0, Remembers
<1>3. held' \in [Requests -> SUBSET Conditions]
  BY <1>0 DEF Observe, TypeOK
<1>4. TypeOK'
  BY <1>0, <1>3 DEF TypeOK, requestVars
<1>5. ASSUME NEW q \in Requests
      PROVE  RowsAgree(q)' /\ Witnessed(q)'
  BY <1>1, <1>2, <1>4, <1>5, LeftAlone DEF requestVars
<1> QED
  BY <1>4, <1>5 DEF Safe

\* Time passes, grants change, users are deactivated.
LEMMA OutsideSafe ==
  ASSUME Safe, Observe,
         Tick \/ (Administration /\ UNCHANGED <<clock, session, requestVars>>)
  PROVE  Safe'
<1>0. TypeOK
  BY DEF Safe
<1>1. CASE Tick
  <2>1. clock' \in 0 .. MaxClock /\ clock' >= clock
    BY <1>0, <1>1, ClockAssumption DEF Tick, TypeOK
  <2>2. UNCHANGED <<adminVars, session, requestVars>>
    BY <1>1 DEF Tick
  <2> QED
    BY <1>0, <2>1, <2>2, NobodyMoves DEF TypeOK, adminVars
<1>2. CASE Administration /\ UNCHANGED <<clock, session, requestVars>>
  <2>1. clock' \in 0 .. MaxClock /\ clock' >= clock
    BY <1>0, <1>2, ClockAssumption DEF TypeOK
  <2>2. grants' \in [Roles -> SUBSET Codes]
    BY <1>0, <1>2 DEF Administration, TypeOK
  <2>3. /\ account' \in [Users -> Account]
        /\ \A u \in Users : /\ account'[u].roles = account[u].roles
                            /\ account'[u].super = account[u].super
    <3>1. CASE account' = account
      BY <1>0, <3>1 DEF TypeOK
    <3>2. CASE \E u \in Users : account' = [account EXCEPT ![u].active = FALSE]
      <4>1. PICK u \in Users : account' = [account EXCEPT ![u].active = FALSE]
        BY <3>2
      <4> QED
        BY <1>0, <4>1 DEF TypeOK, Account
    <3> QED
      BY <1>2, <3>1, <3>2 DEF Administration
  <2> QED
    BY <1>2, <2>1, <2>2, <2>3, NobodyMoves
<1> QED
  BY <1>1, <1>2

-----------------------------------------------------------------------------
LEMMA StepSafe == Safe /\ [Next]_vars => Safe'
<1> SUFFICES ASSUME Safe, [Next]_vars PROVE Safe'
  OBVIOUS
<1>1. ASSUME NEW q \in Requests, Request(q), Observe
      PROVE  Safe'
  BY <1>1, RequestSafe
<1>2. ASSUME NEW q \in Requests, Serve(q), Observe
      PROVE  Safe'
  BY <1>2, CommitLoginSafe, CommitLogoutSafe, LoadSessionSafe, LoadUserSafe, DecideSafe,
     EndSafe
     DEF Serve
<1>3. CASE Observe /\ (Tick \/ (Administration /\ UNCHANGED <<clock, session, requestVars>>))
  BY <1>3, OutsideSafe
<1>4. CASE UNCHANGED vars
  BY <1>4
    DEF vars, adminVars, requestVars, Safe, TypeOK, RowsAgree, Witnessed, Cookie, Loaded, Known
<1> QED
  BY <1>1, <1>2, <1>3, <1>4 DEF Next, Step

LEMMA SafeInvariant == Spec => []Safe
BY InitSafe, StepSafe, PTL DEF Spec

\* Sessions, requests and the rows they load keep their types, and an answered request
\* keeps nothing.
THEOREM TypeCorrect == Spec => []TypeOK
<1>1. Safe => TypeOK
  BY DEF Safe
<1> QED
  BY <1>1, SafeInvariant, PTL

\* A handler runs only for a session that was valid, a user that was active and a
\* permission that was granted at some instant after its request came in.
THEOREM ActsOnlyWhileAllowed == Spec => []ActsWhileAllowed
<1>1. Safe => ActsWhileAllowed
  BY DEF Safe, TypeOK, Witnessed, ActsWhileAllowed
<1> QED
  BY <1>1, SafeInvariant, PTL
=============================================================================
