SPECIFICATION Spec
CONSTANTS
  r1 = r1
  r2 = r2
  u1 = u1
  u2 = u2
  card = card
  resale = resale
  NoUser = NoUser
  Request <- MCRequest
  User <- MCUser
  Buyers <- MCBuyers
  Inviters <- MCNone
  Commodity <- MCCommodity
  Source <- MCSource
  Price <- MCPrice
  Quantity <- MCQuantity
  Shelf <- MCShelf
  Nums = {1, 2}
  Coupon <- MCNone
  Terms <- MCNoTerms
  Opening <- MCOpening
  Handlers = {"buy"}
  Answers = {"refusal"}
  Numbers = {"given"}
  Crashes = FALSE
  Faults = FALSE
  MaxOrders = 1
  MaxPayments = 0
SYMMETRY MCSymmetry
INVARIANT NothingOwed
CHECK_DEADLOCK FALSE
