SPECIFICATION Spec
CONSTANTS
  Sessions = {s1, s2}
  NoSession = NoSession
  Invoices = {i1, i2}
  SerialInvoices = {i2}
  NoInvoice = NoInvoice
  Rows = {r1, r2, r3, r4, r5, r6}
  NoPdf = NoPdf
SYMMETRY Symmetry
INVARIANTS
  TypeOK
  NeverWithoutLines
PROPERTIES
  ImplementsAtomic
CHECK_DEADLOCK FALSE
