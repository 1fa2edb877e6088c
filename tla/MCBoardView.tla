----------------------------- MODULE MCBoardView -----------------------------
(* Small instances of BoardView for TLC.                                     *)
EXTENDS BoardView, TLC

CONSTANTS a, b, c

(* A client that knows nothing and one that holds one edit in each list.     *)
TwoViews == {[current |-> {}, undone |-> {}], [current |-> {a}, undone |-> {b}]}
EmptyView == {[current |-> {}, undone |-> {}]}

Symmetry == Permutations(Edit)
=============================================================================
