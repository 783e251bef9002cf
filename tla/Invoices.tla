------------------------------ MODULE Invoices ------------------------------
(***************************************************************************)
(* What an order is charged and what its tax documents say: the quote of a *)
(* checkout (CheckoutSettingsService), the invoice drawn up when the       *)
(* payment is captured, from the settings in force by then, and the credit *)
(* notes of its refunds (InvoiceService).  Amounts are integers of the     *)
(* minor unit; invoices are numbered in one series, by concurrent          *)
(* transactions.                                                           *)
(***************************************************************************)
EXTENDS Integers, Sequences, FiniteSetsExt

CONSTANTS
    Sales,           \* orders
    Baskets,         \* the gross amounts of the lines a buyer may order
    Discounts,       \* what offers, a code and points take off
    CheckoutRows,    \* settings a merchant may choose
    RefundAmounts,
    MaxSettings,     \* bound: changes of the settings
    MaxNotes         \* bound: credit notes of an order

ASSUME InvoiceAssumption ==
    /\ Baskets \subseteq Seq(Nat) /\ Discounts \subseteq Nat
    /\ RefundAmounts \subseteq Nat /\ MaxSettings \in Nat /\ MaxNotes \in Nat
    /\ CheckoutRows \subseteq [bps : 0..10000, inclusive : BOOLEAN, flat : Nat, freeOver : Nat]

VARIABLES
    settings,     \* the store's tax and shipping settings
    sale,         \* per order: where it stands, its amounts and the settings it had
    invoice,      \* per order: its invoice, drafted or issued
    issuing,      \* per order: the number its transaction will insert, 0 before
    creditNotes,  \* per order its credit notes
    settingsSet   \* changes of the settings so far

invoiceVars == <<settings, sale, invoice, issuing, creditNotes, settingsSet>>

NoSale == [at |-> "none"]
NoInvoice == [at |-> "none"]
Sale == [at : {"pending", "paid", "done"}, lines : Baskets, discount : Nat, tax : Nat, shipping : Nat,
         total : Nat, inclusive : BOOLEAN]
InvoiceLine == [taxable : Int, cgst : Nat, sgst : Nat, igst : Nat]
Invoice == [at : {"draft", "issued"}, number : Nat, lines : Seq(InvoiceLine), inclusive : BOOLEAN,
            intra : BOOLEAN, roundOff : Int]
CreditNote == [total : Nat, taxable : Nat, tax : Nat, shipping : Nat]

InvoiceTypeOK ==
    /\ settings \in CheckoutRows
    /\ sale \in [Sales -> {NoSale} \cup Sale]
    /\ invoice \in [Sales -> {NoInvoice} \cup Invoice]
    /\ issuing \in [Sales -> Nat]
    /\ creditNotes \in [Sales -> Seq(CreditNote)]
    /\ settingsSet \in Nat

InvoiceInit ==
    /\ settings \in CheckoutRows
    /\ sale = [o \in Sales |-> NoSale] /\ invoice = [o \in Sales |-> NoInvoice]
    /\ issuing = [o \in Sales |-> 0] /\ creditNotes = [o \in Sales |-> << >>]
    /\ settingsSet = 0

Total(s) == SumFunction(s)
(* Math.round of a quotient of natural numbers. *)
Rounded(a, b) == (2 * a + b) \div (2 * b)
AtMost(n, m) == IF n < m THEN n ELSE m
AtLeast(n, m) == IF n > m THEN n ELSE m
----------------------------------------------------------------------------
(* allocate(): the floors of the exact shares, and the units that are left over one
   by one to the lines with the largest remainders, earlier lines first. *)
Before(parts, all, j, i) ==
    parts[j] % all > parts[i] % all \/ (parts[j] % all = parts[i] % all /\ j < i)

AllocateDown(total, weights) ==
    [i \in DOMAIN weights |-> IF Total(weights) = 0 THEN 0 ELSE (total * weights[i]) \div Total(weights)]

Allocate(total, weights) ==
    LET all == Total(weights)
        parts == [i \in DOMAIN weights |-> total * weights[i]]
        floors == [i \in DOMAIN weights |-> parts[i] \div all]
        left == total - Total(floors)
    IN  [i \in DOMAIN weights |->
           IF all = 0 THEN 0
           ELSE floors[i]
                + (IF Cardinality({j \in DOMAIN parts : Before(parts, all, j, i)}) < left THEN 1 ELSE 0)]
----------------------------------------------------------------------------
SetCheckoutSettings(row) ==
    /\ row # settings /\ settingsSet < MaxSettings /\ settingsSet' = settingsSet + 1
    /\ settings' = row
    /\ UNCHANGED <<sale, invoice, issuing, creditNotes>>

(* checkout(): the discount is clamped to the subtotal; quote() adds the tax, or
   finds it inside the prices, and the shipping. *)
Quote(lines, asked) ==
    LET subtotal == Total(lines)
        discount == AtMost(asked, subtotal)
        base == subtotal - discount
        tax == IF settings.inclusive THEN Rounded(base * settings.bps, 10000 + settings.bps)
               ELSE Rounded(base * settings.bps, 10000)
        shipping == IF base >= settings.freeOver THEN 0 ELSE settings.flat
    IN  [at |-> "pending", lines |-> lines, discount |-> discount, tax |-> tax,
         shipping |-> shipping, inclusive |-> settings.inclusive,
         total |-> base + shipping + (IF settings.inclusive THEN 0 ELSE tax)]

Buy(o, lines, asked) ==
    /\ sale[o] = NoSale
    /\ sale' = [sale EXCEPT ![o] = Quote(lines, asked)]
    /\ UNCHANGED <<settings, invoice, issuing, creditNotes, settingsSet>>

(* The payment is captured, and generateForOrder called. *)
CaptureSale(o) ==
    /\ sale[o].at = "pending"
    /\ sale' = [sale EXCEPT ![o].at = "paid"]
    /\ UNCHANGED <<settings, invoice, issuing, creditNotes, settingsSet>>

(* The order's discount and tax are spread over the lines; whether the prices
   include the tax is read from the settings of now.  The tax of a line is halved
   within the seller's state. *)
LineOf(taxable, tax, intra) ==
    [taxable |-> taxable,
     cgst |-> IF intra THEN tax \div 2 ELSE 0,
     sgst |-> IF intra THEN tax - (tax \div 2) ELSE 0,
     igst |-> IF intra THEN 0 ELSE tax]

LinesOf(o, intra) ==
    LET cut == Allocate(sale[o].discount, sale[o].lines)
        net == [i \in DOMAIN sale[o].lines |-> sale[o].lines[i] - cut[i]]
        tax == Allocate(sale[o].tax, net)
    IN  [i \in DOMAIN net |->
           LineOf(IF settings.inclusive THEN net[i] - tax[i] ELSE net[i], tax[i], intra)]

TaxOf(lines) == Total([i \in DOMAIN lines |-> lines[i].cgst + lines[i].sgst + lines[i].igst])
TaxableOf(lines) == Total([i \in DOMAIN lines |-> lines[i].taxable])

DraftInvoice(o, intra) ==
    /\ sale[o].at = "paid" /\ invoice[o] = NoInvoice
    /\ LET lines == LinesOf(o, intra)
       IN  invoice' = [invoice EXCEPT ![o] =
             [at |-> "draft", number |-> 0, lines |-> lines, intra |-> intra,
              inclusive |-> settings.inclusive,
              roundOff |-> sale[o].total - (TaxableOf(lines) + TaxOf(lines) + sale[o].shipping)]]
    /\ UNCHANGED <<settings, sale, issuing, creditNotes, settingsSet>>

(* The transaction reads the last number *)
Issued == {o \in Sales : invoice[o].at = "issued"}
LastNumber == Max({0} \cup {invoice[o].number : o \in Issued})

NumberInvoice(o) ==
    /\ invoice[o].at = "draft" /\ issuing[o] = 0
    /\ issuing' = [issuing EXCEPT ![o] = LastNumber + 1]
    /\ UNCHANGED <<settings, sale, invoice, creditNotes, settingsSet>>

(* and inserts the next one.  [storeId, number] is unique: the loser's invoice is
   not issued, and the caller swallows that. *)
NumberTaken(n) == \E o \in Issued : invoice[o].number = n

IssueInvoice(o) ==
    /\ issuing[o] > 0
    /\ invoice' = [invoice EXCEPT ![o] = IF NumberTaken(issuing[o]) THEN NoInvoice
                                         ELSE [@ EXCEPT !.at = "issued", !.number = issuing[o]]]
    /\ sale' = [sale EXCEPT ![o].at = "done"]
    /\ issuing' = [issuing EXCEPT ![o] = 0]
    /\ UNCHANGED <<settings, creditNotes, settingsSet>>
----------------------------------------------------------------------------
RefundedBy(notes) == Total([i \in DOMAIN notes |-> notes[i].total])

(* generateCreditNote: the shares of the refund in the invoice's tax and shipping.  A
   tie is rounded up; the double of the code may fall to either side, and the properties
   hold of both. *)
Share(part, refund, total) == Rounded(part * AtMost(refund, total), total)

NoteFor(o, refund) ==
    LET tax == Share(TaxOf(invoice[o].lines), refund, sale[o].total)
        shipping == Share(sale[o].shipping, refund, sale[o].total)
    IN  [total |-> refund, tax |-> tax, shipping |-> shipping,
         taxable |-> AtLeast(0, refund - tax - shipping)]

(* A refund was made, of the whole order at most; it notes itself whatever other
   refunds have noted, and overlapping ones together may exceed the order. *)
CreditSale(o, refund) ==
    /\ invoice[o].at = "issued" /\ refund > 0 /\ refund <= sale[o].total
    /\ Len(creditNotes[o]) < MaxNotes
    /\ creditNotes' = [creditNotes EXCEPT ![o] = Append(@, NoteFor(o, refund))]
    /\ UNCHANGED <<settings, sale, invoice, issuing, settingsSet>>
----------------------------------------------------------------------------
InvoiceNext ==
    \/ \E row \in CheckoutRows : SetCheckoutSettings(row)
    \/ \E o \in Sales :
          \/ CaptureSale(o) \/ NumberInvoice(o) \/ IssueInvoice(o)
          \/ \E lines \in Baskets, d \in Discounts : Buy(o, lines, d)
          \/ \E intra \in BOOLEAN : DraftInvoice(o, intra)
          \/ \E n \in RefundAmounts : CreditSale(o, n)

InvoiceSpec == InvoiceInit /\ [][InvoiceNext]_invoiceVars
----------------------------------------------------------------------------
(* "Keeping the invoice total exactly equal to what the buyer paid": the lines and
   the shipping add up to the order's total with nothing to round off, unless the
   merchant changed between checkout and capture whether prices include tax. *)
InvoiceAddsUp ==
    \A o \in Issued :
       (invoice[o].inclusive = sale[o].inclusive \/ sale[o].tax = 0) => invoice[o].roundOff = 0

(* Whatever the merchant changed, the invoice's tax is the tax that was charged,
   and no line is taxed beyond its amount. *)
TaxIsWhatWasCharged ==
    \A o \in Issued :
       /\ TaxOf(invoice[o].lines) = sale[o].tax
       /\ \A i \in DOMAIN invoice[o].lines : invoice[o].lines[i].taxable >= 0

(* "GST: unique + sequential within the series": the issued numbers are 1, 2, ...
   without a gap or a repetition, however transactions overlap. *)
NumbersAreSequential == {invoice[o].number : o \in Issued} = 1..Cardinality(Issued)

TaxCreditedBy(notes) == Total([i \in DOMAIN notes |-> notes[i].tax])

(* "Reverse proportionally to the share of the invoice total being refunded": between
   them the notes of an order credit the refunds' share in the invoice's tax, to half
   a unit for each note, also when overlapping refunds exceed the order. *)
CreditedTaxIsProportional ==
    \A o \in Issued :
       LET total == sale[o].total
           credited == 2 * (total * TaxCreditedBy(creditNotes[o]))
           share == 2 * (TaxOf(invoice[o].lines) * RefundedBy(creditNotes[o]))
           slack == total * Len(creditNotes[o])
       IN  credited <= share + slack /\ share <= credited + slack

(* "Rounding of the proportional tax/shipping shares must never push the taxable base
   negative": of a sale that cost more than its tax and shipping, each note's parts are
   what it refunds, so the clamp at zero never makes a note claim more. *)
NotesAddUp ==
    \A o \in Issued :
       TaxOf(invoice[o].lines) + sale[o].shipping < sale[o].total =>
          \A i \in DOMAIN creditNotes[o] :
             LET note == creditNotes[o][i]
             IN  note.taxable + note.tax + note.shipping = note.total

(* Tax documents say what was charged, under numbers of one unbroken series, and what
   was given back. *)
DocumentsAreExact ==
    /\ InvoiceAddsUp /\ TaxIsWhatWasCharged /\ NumbersAreSequential
    /\ CreditedTaxIsProportional /\ NotesAddUp
============================================================================
