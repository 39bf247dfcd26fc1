CONSTANTS
  Products = {p1}
  Carts = {c1}
  Orders = {o1}
  Admins = {a1}
  Buyers = {b1}
  Staff = {s1, s2}
  Methods = {"card"}
  InitStock = 1
  MaxQty = 1
  Crashes = FALSE
  NoCart = NoCart
  NoAdmin = NoAdmin
SPECIFICATION Spec
INVARIANT
  StockConserved
CHECK_DEADLOCK FALSE
