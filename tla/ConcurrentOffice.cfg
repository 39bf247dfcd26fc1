CONSTANTS
  Products = {p1}
  Carts = {c1}
  Orders = {o1, o2}
  Admins = {a1}
  Buyers = {b1}
  Staff = {s1, s2}
  Methods = {"cod", "lipa_namba"}
  InitStock = 1
  MaxQty = 1
  Crashes = FALSE
  NoCart = NoCart
  NoAdmin = NoAdmin
SPECIFICATION Spec
SYMMETRY Symmetry
INVARIANTS
  StockNeverLost
PROPERTIES
  SettledForGood
CHECK_DEADLOCK FALSE
