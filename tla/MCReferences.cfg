SPECIFICATION NumbersSpec
CONSTANTS
  Sessions = {s1, s2}
  NoSession = NoSession
  Plain = {AL}
  NoPrefix = NoPrefix
  MaxValue = 2
SYMMETRY Symmetry
INVARIANTS
  NumbersTypeOK
  NumbersAreUnique
  CheckedNumberStaysFree
  GapsCostProfiles
PROPERTY
  ImplementsNumbering
CHECK_DEADLOCK FALSE
