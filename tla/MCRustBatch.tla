---------------------------- MODULE MCRustBatch -----------------------------
(* Instances of RustBatch for TLC. *)
EXTENDS RustBatch, TLC

CONSTANTS good, other, crash, bad   \* images
CONSTANTS c1, c2, w1, w2

MCImages == {good, other, crash, bad}
MCValid == {good, other, crash}
MCFaulty == {crash}
MCEncode == [i \in MCImages |-> <<"hash", i>>]

\* An empty slice, one that fails validation on its last item, distinct images
\* in both orders and a repeated one, a crash first and last.
MCBatches == {<<>>, <<good, bad>>, <<good, other, good>>, <<other, good>>,
              <<crash, good>>, <<other, other, crash>>}
=============================================================================
