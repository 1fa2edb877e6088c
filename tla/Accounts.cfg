SPECIFICATION Spec
CONSTANTS
  w1 = w1
  w2 = w2
  l1 = l1
  l2 = l2
  Browser = {w1, w2}
  Login = {l1, l2}
  NoLogin = NoLogin
  MaxUser = 2
  MaxToken = 3
  MaxAsks = 2
  MaxOdd = 0
SYMMETRY Alike
INVARIANTS SignedOutStays SignedInStays ShownIsUser LoginsUnique
CHECK_DEADLOCK FALSE
