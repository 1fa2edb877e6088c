------------------------------ MODULE MCSession ------------------------------
EXTENDS Session, TLC
CONSTANTS p1, p2

Alike == Permutations(Page)
=============================================================================
