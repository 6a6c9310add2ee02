----------------------------- MODULE MCGoBatch ------------------------------
(* Instances of GoBatch for TLC. *)
EXTENDS GoBatch, TLC

CONSTANTS good, other, crash, bad   \* images
CONSTANTS c1, c2, w1, w2

MCImages == {good, other, crash, bad}
MCValid == {good, other, crash}
MCFaulty == {crash}
MCEncode == [i \in MCImages |-> <<"hash", i>>]

\* More items than workers, a repeated image, both orders, an empty slice, one
\* that fails validation on its last item and one that crashes a worker.
MCBatches == {<<>>, <<good, bad>>, <<good, other, good, other>>,
              <<other, good, good>>, <<good, crash, good>>}

=============================================================================
