--------------------------- MODULE MCJsonRpcClient ---------------------------
(* A small instance of JsonRpcClient for TLC. *)
EXTENDS JsonRpcClient, TLC

CONSTANTS r1, r2, n1, b1, b2

\* A batch of two documents can fail half way; one of a single document can block
\* the writer, and an empty one never does.
OneBatch   == b1 :> 2
TwoBatches == b1 :> 1 @@ b2 :> 0
NoBatches  == <<>>

\* The requests are interchangeable.
Symmetry == Permutations(Requests)
=============================================================================
