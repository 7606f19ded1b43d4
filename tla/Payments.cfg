SPECIFICATION Spec
CONSTANTS
  r1 = r1
  r2 = r2
  u1 = u1
  u2 = u2
  card = card
  resale = resale
  NoUser = NoUser
  Request <- MCRequest
  User <- MCUser
  Buyers <- MCBuyers
  Inviters <- MCNone
  Commodity <- MCCommodity
  Source <- MCSource
  Price <- MCPrice
  Quantity <- MCQuantity
  Shelf <- MCShelf
  Nums = {1}
  Coupon = {1}
  Terms <- MCTerms
  Opening <- MCOpening
  Handlers = {"buy", "order", "pay", "check", "callback", "finish"}
  Answers = {"goods", "number", "refusal", "error"}
  Numbers = {"given", "missing"}
  Crashes = TRUE
  Faults = FALSE
  MaxOrders = 1
  MaxPayments = 2
SYMMETRY MCSymmetry
INVARIANTS GoodsAreOwn StatusMatchesGoods CallbackWinsOnce CouponUsesRecorded
CHECK_DEADLOCK FALSE
