SPECIFICATION GatewaySpec
CONSTANTS
  r1 = r1
  r2 = r2
  u1 = u1
  u2 = u2
  card = card
  resale = resale
  NoUser = NoUser
  Request <- MCRequest
  User <- MCUser
  Buyers <- MCBuyers
  Inviters <- MCNone
  Commodity <- MCCommodity
  Source <- MCSource
  Price <- MCPrice
  Quantity <- MCQuantity
  Shelf <- MCShelf
  Nums = {1}
  Coupon <- MCNone
  Terms <- MCNoTerms
  Opening <- MCOpening
  Handlers = {"order", "callback"}
  Answers = {"goods", "error"}
  Numbers = {"given"}
  Crashes = FALSE
  Faults = FALSE
  MaxOrders = 1
  MaxPayments = 1
PROPERTY NotifiedIsPaid
CHECK_DEADLOCK FALSE
