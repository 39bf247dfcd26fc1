CONSTANTS
  Products = {p1}
  Carts = {c1}
  Orders = {o1, o2}
  Admins = {a1}
  Buyers = {b1}
  Staff = {s1}
  Methods = {"card", "cod", "lipa_namba", "mobile_money"}
  InitStock = 2
  MaxQty = 1
  Crashes = FALSE
  NoCart = NoCart
  NoAdmin = NoAdmin
SPECIFICATION FairSpec
INVARIANTS
  UnpaidNeverFulfilled
  AuditAgreesWithPayment
  StockConserved
PROPERTIES
  FailureKeepsCarts
  RetryFreesOwner
CHECK_DEADLOCK FALSE
