SPECIFICATION Spec
CONSTANTS
  Sessions = {s1, s2}
  Lots = {l1, l2}
  Documents = {b1, b2}
  SerialDocuments = {b2}
  NoSession = NoSession
  NoLot = NoLot
  NoDocument = NoDocument
  MaxKg = 2
  MaxOutputs = 1
CHECK_DEADLOCK FALSE
SYMMETRY Symmetry
INVARIANTS
  TypeOK
  NonNegativeStock
  RiceFromConsumedPaddy
PROPERTIES
  ImplementsLedger
  ImplementsAtomic
