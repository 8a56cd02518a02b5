---------------------------- MODULE InvoiceSchema ----------------------------
(***************************************************************************)
(* What the model's JSON object has to satisfy (app/schemas/invoice.py):   *)
(* the two Pydantic schemas and their validators, which compare sums that  *)
(* are rounded to cents with a tolerance.                                  *)
(*                                                                         *)
(* Amounts are in mills, thousandths of the currency's unit, so that there *)
(* is something to round; quantities are in tenths.  Fields no control     *)
(* depends on are left out; an object without a required field, or with a  *)
(* field of the wrong type, does not get here (see Extraction).            *)
(***************************************************************************)
EXTENDS Integers

Cent == 10

\* Decimal.quantize: to a multiple of `unit', a tie to the even one.
RoundHalfEven(n, unit) ==
    LET q == n \div unit
        r == n % unit
    IN  IF 2 * r > unit \/ (2 * r = unit /\ q % 2 = 1) THEN q + 1 ELSE q

Distance(m, n) == IF m < n THEN n - m ELSE m - n

\* What an object of the right shape can hold.
LineItem == [quantity : Int, unit_price : Int, total : Int]
Fields ==
    [vendor : STRING, po : BOOLEAN, subtotal : Int, tax : Int, total : Int,
     line_items : SUBSET LineItem]

\* quantity * unit_price is in tenths of a mill.
CheckTotal(item) ==
    /\ item.quantity >= 0 /\ item.unit_price >= 0 /\ item.total >= 0
    /\ LET expected ==
               Cent * RoundHalfEven(item.quantity * item.unit_price, 10 * Cent)
       IN  Distance(item.total, expected) <= 2 * Cent

\* Faulty variant: a total below the sum is not looked at.
ValidInvoiceAbove(fields) ==
    /\ fields.subtotal >= 0 /\ fields.tax >= 0 /\ fields.total >= 0
    /\ \A item \in fields.line_items : CheckTotal(item)
    /\ fields.total - Cent * RoundHalfEven(fields.subtotal + fields.tax, Cent)
           <= 5 * Cent

ValidInvoice(fields) ==
    /\ fields.subtotal >= 0 /\ fields.tax >= 0 /\ fields.total >= 0
    /\ \A item \in fields.line_items : CheckTotal(item)
    /\ LET expected == Cent * RoundHalfEven(fields.subtotal + fields.tax, Cent)
       IN  Distance(fields.total, expected) <= 5 * Cent
=============================================================================
