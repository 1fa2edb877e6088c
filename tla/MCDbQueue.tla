----------------------------- MODULE MCDbQueue -----------------------------
(* Two rooms of one board, one of which only reads and empties, and one of *)
(* another board.                                                          *)
EXTENDS DbQueue, TLC

CONSTANTS ra, rb, rc, bp, bq

Boards3 == (ra :> bp) @@ (rb :> bp) @@ (rc :> bq)
Items3 == (ra :> 2) @@ (rb :> 0) @@ (rc :> 1)
Symmetry == Permutations(Edit)
=============================================================================
