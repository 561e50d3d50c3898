----------------------------- MODULE MCIngestion -----------------------------
(* Instances of Ingestion for TLC: documents are model values.             *)
EXTENDS IngestionInvariant

CONSTANTS d1, d2

TwoDocs == {d1, d2}
\* d1's text yields two embedding batches, d2's one.
TwoBatches == [d \in TwoDocs |-> IF d = d1 THEN 2 ELSE 1]
\* d2's text is too short for a single chunk.
ShortText == [d \in TwoDocs |-> IF d = d1 THEN 2 ELSE 0]

=============================================================================
