SPECIFICATION Spec
CONSTANTS
  Sessions = {s1, s2}
  Lots = {l1, l2}
  Documents = {b1}
  NoSession = NoSession
  NoLot = NoLot
  NoDocument = NoDocument
  MaxKg = 2
  MaxOutputs = 1
  SerialDocuments = {}
CHECK_DEADLOCK FALSE
INVARIANT
  ConsumedExactlyOnce
