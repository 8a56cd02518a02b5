---------------------------- MODULE MCExtraction ----------------------------
(***************************************************************************)
(* A small instance of the extraction for TLC: objects on both sides of    *)
(* each tolerance and of each tie in the rounding, and the other forms.    *)
(***************************************************************************)
EXTENDS ExtractionInvariant

CONSTANT i1

\* 100.005 rounds to 100.00 and 100.015 to 100.02.
Object(subtotal, tax, total, items) ==
    [vendor |-> "acme supplies", po |-> TRUE, subtotal |-> subtotal,
     tax |-> tax, total |-> total, line_items |-> items]

\* 1.5 times 0.33 is 0.495, which rounds to 0.50 (0.49 is odd).
Item(total) == [quantity |-> 15, unit_price |-> 330, total |-> total]

Objects ==
    {Object(100000, 5, total, {}) : total \in {99949, 99950, 100050, 100051}}
        \cup {Object(100000, 15, total, {}) : total \in {99969, 99970, 100070, 100071}}
        \cup {Object(500, 0, 500, {Item(total)}) : total \in {479, 480, 520, 521}}
        \cup {Object(0, 0, 0, {}), Object(0, 10, -10, {}), Object(-10, 10, 0, {})}

AllReplies ==
    {[form |-> "bare", fields |-> object] : object \in Objects}
        \cup {[form |-> "fenced", fields |-> Object(0, 0, 0, {})]}
        \cup {[form |-> form, fields |-> None] : form \in OtherForms}

\* The data of the objects whose sums are right within the tolerances.
ExactData ==
    {ToData(object) : object \in
        {o \in Objects :
            /\ o.subtotal >= 0 /\ o.tax >= 0 /\ o.total >= 0
            /\ Distance(o.total, o.subtotal + o.tax) <= 55}}
=============================================================================
