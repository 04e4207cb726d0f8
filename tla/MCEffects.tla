----------------------------- MODULE MCEffects -----------------------------
(***************************************************************************)
(* Two records, one disposed of twice, over two generations.               *)
(***************************************************************************)
EXTENDS Effects

CONSTANTS r1, r2, d1, d2

Disposed == [d \in {d1, d2} |-> r1]
=============================================================================
