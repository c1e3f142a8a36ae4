------------------------------ MODULE Amounts -------------------------------
(***************************************************************************)
(* The arithmetic of a GST tax invoice: shared/numbers.py, the amounts of  *)
(* invoicing/service.py, the columns of invoicing/pdf.py.  Money is counted *)
(* in paisa, quantities in thousandths, unit rates in ten-thousandths of a *)
(* rupee, GST rates in hundredths of a percent: the scales of the columns. *)
(***************************************************************************)
EXTENDS Integers, Sequences, FiniteSetsExt

CONSTANTS StateCodes, NoCode,  \* GST state codes; NoCode: None or empty
          Inputs, MaxLines,    \* the line inputs to check, and how many make an invoice
          Spoken               \* the amounts to say in words

ASSUME CodeAssumption  == NoCode \notin StateCodes
ASSUME InputAssumption == /\ \A in \in Inputs : {in.quantity, in.price, in.rate} \subseteq Nat
                          /\ MaxLines \in Nat /\ Spoken \subseteq Nat

\* Decimal.quantize of n / d, n >= 0: ROUND_HALF_UP, and the context's HALF_EVEN.
HalfUp(n, d)   == (2 * n + d) \div (2 * d)
HalfEven(n, d) == LET q == n \div d IN
                  IF 2 * (n % d) > d \/ (2 * (n % d) = d /\ q % 2 = 1) THEN q + 1 ELSE q

-----------------------------------------------------------------------------
(* The split of GST                                                         *)

\* Missing codes default to intra-state.
IsInterstate(seller, buyer) == NoCode \notin {seller, buyer} /\ seller # buyer

\* Mutant of GstComponents: both halves are rounded.
GstComponentsBothRounded(amount, interstate) ==
  IF interstate
  THEN [cgst |-> 0, sgst |-> 0, igst |-> amount]
  ELSE [cgst |-> HalfUp(amount, 2), sgst |-> HalfUp(amount, 2), igst |-> 0]

GstComponents(amount, interstate) ==
  IF interstate
  THEN [cgst |-> 0, sgst |-> 0, igst |-> amount]
  ELSE [cgst |-> HalfUp(amount, 2), sgst |-> amount - HalfUp(amount, 2), igst |-> 0]

Split(c) == c.cgst + c.sgst + c.igst

-----------------------------------------------------------------------------
(* The lines of an invoice and what is computed from them                   *)

\* _build_lines, of one input [hsn, quantity, price, rate].
Line(input) ==
  LET taxable == HalfUp(input.quantity * input.price, 100000) IN
  [hsn     |-> input.hsn,
   rate    |-> input.rate,
   taxable |-> taxable,
   gst     |-> HalfUp(taxable * input.rate, 10000)]

Lines(inputs) == [k \in DOMAIN inputs |-> Line(inputs[k])]

TaxableOf(lines, K) == MapThenSumSet(LAMBDA k : lines[k].taxable, K)
GstOf(lines, K)     == MapThenSumSet(LAMBDA k : lines[k].gst, K)

\* _recompute_totals
Totals(lines) ==
  LET taxable == TaxableOf(lines, DOMAIN lines)
      tax     == GstOf(lines, DOMAIN lines)
  IN  [taxable |-> taxable, tax |-> tax, grand |-> taxable + tax]

SummaryKey(line) == <<line.hsn, line.rate>>

\* tax_summary: a row for each key; the rows have the order of the first lines.
TaxSummary(lines) ==
  {LET K == {k \in DOMAIN lines : SummaryKey(lines[k]) = SummaryKey(lines[first])} IN
     [rate |-> lines[first].rate, taxable |-> TaxableOf(lines, K), gst |-> GstOf(lines, K),
      first |-> Min(K)] : first \in DOMAIN lines}

-----------------------------------------------------------------------------
(* The figures of an invoice                                                *)

\* _line_out and _tax_summary_row, the columns of the API's answer.
Figures(lines, interstate) ==
  [lines   |-> [k \in DOMAIN lines |-> GstComponents(lines[k].gst, interstate)],
   summary |-> {[row |-> row, parts |-> GstComponents(row.gst, interstate)] :
                  row \in TaxSummary(lines)}]

\* The total row under the printed summary, from the amounts of its rows.
TotalRow(summary, interstate) ==
  LET taxable == MapThenSumSet(LAMBDA s : s.row.taxable, summary)
      tax     == MapThenSumSet(LAMBDA s : s.row.gst, summary)
      half    == HalfEven(tax, 2)
  IN  [taxable |-> taxable, tax |-> tax,
       parts   |-> IF interstate THEN [cgst |-> 0, sgst |-> 0, igst |-> tax]
                                 ELSE [cgst |-> half, sgst |-> tax - half, igst |-> 0]]

\* _render_page: the same columns, the grand total of the row, the total row.
Page(lines, interstate) ==
  LET figures == Figures(lines, interstate) IN
  [figures |-> figures,
   grand   |-> Totals(lines).grand,
   total   |-> TotalRow(figures.summary, interstate)]

-----------------------------------------------------------------------------
(* Amounts in words.  A word is the number it says; 100, 1000, ... are also *)
(* the words that multiply.  "and", plurals and the currency are left out.  *)

Crore == 10000000
Lakh  == 100000

\* _two_digits: _ONES to 19, _TENS and _ONES from 20; 100 and more are an IndexError.
TwoDigits(n) == IF n = 0 THEN <<>>
                ELSE IF n < 20 \/ n % 10 = 0 THEN <<n>>
                ELSE <<n - (n % 10), n % 10>>

Group(n, unit) == IF n = 0 THEN <<>> ELSE TwoDigits(n) \o <<unit>>

NumberWords(n) == IF n = 0 THEN <<0>> ELSE
     Group(n \div Crore, Crore)
  \o Group((n \div Lakh) % 100, Lakh)
  \o Group((n \div 1000) % 100, 1000)
  \o Group((n \div 100) % 10, 100)
  \o TwoDigits(n % 100)

Sayable(rupees) == rupees \div Crore < 100

\* indian_amount_in_words: rupees, and paise when there are any.
AmountInWords(paisa) ==
  [rupees |-> NumberWords(paisa \div 100),
   paise  |-> IF paisa % 100 > 0 THEN NumberWords(paisa % 100) ELSE <<>>]

\* What a reader makes of the words: a unit multiplies the small words before it.
Reading(words) ==
  LET Units  == {100, 1000, Lakh, Crore}
      Before(k) == {j \in 1 .. k - 1 :
                      words[j] \notin Units /\ \A i \in j .. k - 1 : words[i] \notin Units}
      Small(K)  == MapThenSumSet(LAMBDA j : words[j], K)
      Ends   == {k \in DOMAIN words : words[k] \in Units}
  IN  MapThenSumSet(LAMBDA k : words[k] * Small(Before(k)), Ends)
      + Small(Before(Len(words) + 1))

-----------------------------------------------------------------------------
(* What must hold of a page and of the words, over the bounded inputs        *)

InputLists == UNION {[1 .. n -> Inputs] : n \in 1 .. MaxLines}

\* CGST and SGST differ by the odd paisa, which CGST gets (numbers.py:105-106).
SplitsSumBack(gst, c) == Split(c) = gst /\ (c.igst = 0 => c.cgst - c.sgst \in {0, 1})

\* The CGST column is rounded row by row and the total row once: they differ by at most
\* half a paisa a row, and half a paisa more.
ColumnIsClose(page) ==
  LET summary == page.figures.summary IN
  2 * (MapThenSumSet(LAMBDA s : s.parts.cgst, summary) - page.total.parts.cgst)
    \in -1 .. Cardinality(summary) + 1

Agree(lines, page) ==
  LET figures == page.figures
      totals  == Totals(lines) IN
  /\ \A k \in DOMAIN lines : SplitsSumBack(lines[k].gst, figures.lines[k])
  /\ \A s \in figures.summary : SplitsSumBack(s.row.gst, s.parts)
  /\ Cardinality(figures.summary) = Cardinality({SummaryKey(lines[k]) : k \in DOMAIN lines})
  /\ page.total.taxable = totals.taxable /\ page.total.tax = totals.tax
  /\ page.total.taxable + Split(page.total.parts) = page.grand
  /\ ColumnIsClose(page)

PagesAgree ==
  \A inputs \in InputLists, interstate \in BOOLEAN :
    Agree(Lines(inputs), Page(Lines(inputs), interstate))

WordsAgree ==
  \A paisa \in Spoken :
    Sayable(paisa \div 100) =>
      /\ Reading(AmountInWords(paisa).rupees) = paisa \div 100
      /\ Reading(AmountInWords(paisa).paise)  = paisa % 100
=============================================================================
