SPECIFICATION Spec
CONSTANTS
  Sessions = {s1, s2}
  Claims = {c1, c2}
  SerialClaims = {c2}
  NoClaim = NoClaim
  Receipts = {e1}
  r1 = r1
  r2 = r2
  r3 = r3
  Rows = {r1, r2, r3}
  Amount <- RowAmounts
  References = {f1}
  NoReference = NoReference
  MaxLines = 2
  MaxAmount = 2
  MaxPaid = 2
SYMMETRY Symmetry
INVARIANTS
  TypeOK
  ClaimedOnce
  PaidAfterApproval
PROPERTY
  ImplementsAtomic
CHECK_DEADLOCK FALSE
