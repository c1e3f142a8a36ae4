SPECIFICATION FairBootstrapSpec
CONSTANTS
  Operators = {o1, o2}
  Users = {u1, u2}
  Admins = {u1}
  NoUser = NoUser
  ADMIN = ADMIN
  STAFF = STAFF
  Roles = {ADMIN, STAFF}
  view = view
  manage = manage
  Codes = {view, manage}
  Catalogue <- SmallCatalogue
  MISSING = MISSING
  UNREAD = UNREAD
  NONE = NONE
  Adjusted = {STAFF}
  MaxIncidents = 2
INVARIANTS
  BootstrapTypeOK
  NeverHalfSeeded
PROPERTY
  BootstrapCompletes
CHECK_DEADLOCK FALSE
