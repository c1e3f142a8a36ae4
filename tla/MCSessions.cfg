SPECIFICATION Spec
CONSTANTS
  Users = {u1}
  NoUser = NoUser
  ADMIN = ADMIN
  STAFF = STAFF
  Roles = {ADMIN, STAFF}
  Codes = {view}
  NONE = NONE
  Requests = {q1, q2}
  Tokens = {k1}
  NoToken = NoToken
  Ttl = 1
  MaxClock = 1
SYMMETRY Symmetry
INVARIANTS
  TypeOK
  ActsWhileAllowed
CHECK_DEADLOCK FALSE
