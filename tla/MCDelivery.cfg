SPECIFICATION FairSpec
CONSTANTS
  Sessions = {s1, s2}
  Lots = {l1, l2}
  Documents = {d1, d2}
  SerialDocuments = {d2}
  SerialOutputs = {l2}
  NoSession = NoSession
  NoLot = NoLot
  NoDocument = NoDocument
  NoReceipt = NoReceipt
  MaxKg = 1
  MaxReceived = 2
CHECK_DEADLOCK FALSE
INVARIANTS
  TypeOK
  WholeDispatchIssued
  RiceConserved
  QualityDecides
PROPERTIES
  ReceiptIsFinal
  ImplementsAtomic
  RequestsEnd
