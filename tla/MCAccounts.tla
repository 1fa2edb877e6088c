----------------------------- MODULE MCAccounts -----------------------------
EXTENDS Accounts, TLC
CONSTANTS w1, w2, l1, l2

Alike == Permutations(Browser) \cup Permutations(Login)
=============================================================================
