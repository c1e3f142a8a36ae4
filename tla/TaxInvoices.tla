----------------------------- MODULE TaxInvoices -----------------------------
(***************************************************************************)
(* modules/invoicing/models.py: the tax invoices, whose lines and totals   *)
(* are in Invoicing and whose papers are in Printing.                      *)
(***************************************************************************)
CONSTANTS Invoices, NoInvoice   \* rows of tax_invoices, by their uuid

ASSUME NoInvoiceAssumption == NoInvoice \notin Invoices
=============================================================================
