----------------------------- MODULE MCPipeline -----------------------------
(***************************************************************************)
(* Small instances of the pipeline for TLC.                                *)
(***************************************************************************)
EXTENDS PipelineInvariant, TLC

\* An invoice every rule lets through (a blank vendor name is not a new
\* vendor), and one that every rule sends to a review.
Plain == [total |-> 100, vendor |-> "", po |-> TRUE]
Risky == [total |-> 600000, vendor |-> "acme supplies", po |-> FALSE]

PlainOnly == {Plain}
RiskyOnly == {Risky}
PlainOrRisky == {Plain, Risky}

Symmetry == Permutations(Jobs) \cup Permutations(Clicks)
                \cup Permutations(Invoices)
=============================================================================
