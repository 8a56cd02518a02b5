----------------------------- MODULE RiskPolicy -----------------------------
(***************************************************************************)
(* The risk policy of app/graph/nodes.py, decide_node, on the data the     *)
(* extraction returned.  Amounts are in mills, thousandths of the          *)
(* currency's unit.  A vendor is its name after strip().lower(); the blank *)
(* name is "".  `po' says whether the purchase order number is present and *)
(* not empty.                                                              *)
(***************************************************************************)
EXTENDS Integers

CONSTANT RiskAmountThreshold   \* settings.risk_amount_threshold, in mills

ASSUME ThresholdAssumption == RiskAmountThreshold \in Nat

InvoiceData == [total : Nat, vendor : STRING, po : BOOLEAN]

\* The hard-coded set of vendors the policy knows.
KNOWN_VENDORS == {}

PoAmountThreshold == 500000   \* Decimal("500")

\* The rules that object to an invoice; each of them asks for a review.
DecisionReasons(data) ==
    {r \in {"amount", "vendor", "purchase_order"} :
        \/ r = "amount" /\ data.total > RiskAmountThreshold
        \/ /\ r = "vendor"
           /\ data.vendor # "" /\ data.vendor \notin KNOWN_VENDORS
        \/ /\ r = "purchase_order"
           /\ ~data.po /\ data.total > PoAmountThreshold}

RiskDecision(data) ==
    IF DecisionReasons(data) = {} THEN "auto_approve" ELSE "needs_review"
=============================================================================
