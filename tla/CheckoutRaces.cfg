CONSTANTS
  Products = {p1}
  Carts = {c1}
  Orders = {o1, o2}
  Admins = {a1}
  Buyers = {b1, b2}
  Staff = {}
  Methods = {"card", "cod", "lipa_namba", "mobile_money"}
  InitStock = 2
  MaxQty = 1
  Crashes = TRUE
  NoCart = NoCart
  NoAdmin = NoAdmin
SPECIFICATION Spec
SYMMETRY Symmetry
INVARIANTS
  OrderAgreesWithPayment
  OneAwaitingOrderPerOwner
  PlacedOnlyIfApproved
PROPERTIES
  ImplementsLifecycle
CHECK_DEADLOCK FALSE
