CONSTANTS
  l1 = l1
  l2 = l2
  l3 = l3
  l4 = l4
  d2 = d2
  o1 = o1
  o2 = o2
  s1 = s1
  s2 = s2
  Lines = {l1, l2, l3, l4}
  Orders = {o1, o2}
  Shops = {s1, s2}
  OrderOf <- OrderedIn
  ShopOf <- SoldIn
  Earning <- Earnings
  PayoutIds = {p1, p2}
  Destinations = {d1, d2}
  Finance = {f1, f2}
  Staff = {t1}
  Crashes = TRUE
  NoPayout = NoPayout
  NoShop = NoShop
  NoDetails = NoDetails
SPECIFICATION Spec
CONSTRAINT MCFewChoices
SYMMETRY Symmetry
INVARIANTS
  PaidOnce
  RowsAgreeWithTransfers
  CancelledNeverPaid
  PaidOnlyIfReceived
  EarningCountedOnce
PROPERTIES
  ImplementsPayOnce
CHECK_DEADLOCK FALSE
