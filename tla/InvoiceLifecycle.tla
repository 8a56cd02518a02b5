-------------------------- MODULE InvoiceLifecycle --------------------------
(***************************************************************************)
(* The life of an invoice as its row shows it (the statuses of             *)
(* app/models/invoice.py and the pipeline's description in the README),    *)
(* without jobs, presses, graphs or sessions.                              *)
(*                                                                         *)
(*   received --> extracting --> paid                                      *)
(*                 |  ^   |\---> dead_lettered                             *)
(*                 v  |   \----> pending_review --> approved | rejected    *)
(*                failed                                                   *)
(*                                                                         *)
(* Of the twelve statuses these eight are ever shown.  A payment reference *)
(* appears with paid and stays; nothing leaves a final status.             *)
(***************************************************************************)
CONSTANTS Invoices, References, None

VARIABLES
    status,       \* the row's status, None when there is no row
    reference     \* the row's payment_reference

lvars == <<status, reference>>

LInit ==
    /\ status = [i \in Invoices |-> None]
    /\ reference = [i \in Invoices |-> None]

Move(i, from, to) ==
    /\ status[i] \in from
    /\ \E s \in to : status' = [status EXCEPT ![i] = s]

Arrive(i) == Move(i, {None}, {"received"}) /\ UNCHANGED reference
Begin(i) == Move(i, {"received", "failed"}, {"extracting"}) /\ UNCHANGED reference
Fail(i) == Move(i, {"extracting"}, {"failed"}) /\ UNCHANGED reference
Pay(i) ==
    /\ Move(i, {"extracting"}, {"paid"})
    /\ \E ref \in References : reference' = [reference EXCEPT ![i] = ref]
Stop(i) ==
    Move(i, {"extracting"}, {"pending_review", "dead_lettered"}) /\ UNCHANGED reference
Answer(i) ==
    Move(i, {"pending_review"}, {"approved", "rejected"}) /\ UNCHANGED reference

LNext ==
    \E i \in Invoices :
        Arrive(i) \/ Begin(i) \/ Fail(i) \/ Pay(i) \/ Stop(i) \/ Answer(i)

LSpec == LInit /\ [][LNext]_lvars
=============================================================================
