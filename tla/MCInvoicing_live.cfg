SPECIFICATION FairSpec
CONSTANTS
  Sessions = {s1, s2}
  NoSession = NoSession
  Invoices = {i1}
  NoInvoice = NoInvoice
  Rows = {r1, r2, r3}
  NoPdf = NoPdf
  SerialInvoices = {}
PROPERTY
  RequestsEnd
CHECK_DEADLOCK FALSE
