SPECIFICATION PrintingSpec
CONSTANTS
  Sessions = {s1, s2}
  Buyers = {b1}
  NoBuyer = NoBuyer
  Invoices = {i1}
  NoInvoice = NoInvoice
  Docs = {d1, d2}
  NoDoc = NoDoc
  ABSENT = ABSENT
  DELETED = DELETED
  EMPTY = EMPTY
  UPLOAD = UPLOAD
  StateCodes = {tamilnadu}
  NoCode = NoCode
  MaxDeploys = 1
  Inputs <- LineInputs
  MaxLines = 3
  Spoken <- SpokenAmounts
SYMMETRY Symmetry
INVARIANTS
  PrintingTypeOK
  DocumentsHaveBytes
  StoredPaperSurvives
  FiguresAgree
PROPERTY
  BuyersLeavePapers
CHECK_DEADLOCK FALSE
