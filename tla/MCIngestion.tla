---------------------------- MODULE MCIngestion ----------------------------
(***************************************************************************)
(* A small instance of the intake for TLC: one document sent under two     *)
(* names and over both endpoints, a second document, and each input that   *)
(* an endpoint refuses or, at the webhook, fails to refuse.                *)
(***************************************************************************)
EXTENDS IngestionInvariant, TLC

CONSTANTS x, y, n1, n2

Input(source, content, name, defect) ==
    [source |-> source, content |-> content, name |-> name, defect |-> defect]

AllInputs ==
    {Input("upload", x, n1, None), Input("upload", x, n2, None),
     Input("upload", y, n1, None), Input("email", x, n1, "size"),
     Input("upload", x, n1, "type"), Input("upload", x, n1, "size"),
     Input("email", x, n1, "base64")}

Symmetry == Permutations(Requests)
=============================================================================
