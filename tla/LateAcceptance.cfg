SPECIFICATION Spec
CONSTANTS
  Customers = {c1, c2}
  c1 = c1
  c2 = c2
  Shops = {s1, s2}
  s1 = s1
  s2 = s2
  Services = {long, brief, short}
  long = long
  brief = brief
  short = short
  provider = provider
  ShopOf <- MCShopOf
  OwnerOf <- MCOwnerOf
  Duration <- MCDuration
  Wishes <- MCWishes
  Openings <- MCOpenings
  Capacities = {1}
  BookingIds = {b1, b2}
  Workers = {w1, w2}
  MaxTime = 2
  MinNotice = 3
  ResponseTime = 1
  ResponseBuffer = 2
  PaymentTime = 2
  PaymentBuffer = 1
  MaxActiveUnpaid = 1
  NoVisit = NoVisit
CHECK_DEADLOCK FALSE
CONSTRAINT MCFewEdits
SYMMETRY MCSymmetry
PROPERTIES NeverOverbooked
