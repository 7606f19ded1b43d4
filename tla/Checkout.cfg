SPECIFICATION FairSpec
CONSTANTS
  r1 = r1
  r2 = r2
  u1 = u1
  u2 = u2
  card = card
  resale = resale
  NoUser = NoUser
  Request <- MCRequest
  User <- MCUser
  Buyers <- MCBuyers
  Inviters <- MCInviters
  Commodity <- MCCommodity
  Source <- MCSource
  Price <- MCPrice
  Quantity <- MCQuantity
  Shelf <- MCShelf
  Nums = {1, 2}
  Coupon = {1}
  Terms <- MCTerms
  Opening <- MCOpening
  Handlers = {"buy"}
  Answers = {"goods", "error"}
  Numbers = {"given"}
  Crashes = FALSE
  Faults = FALSE
  MaxOrders = 2
  MaxPayments = 0
INVARIANT StorefrontTypeOK
 
CHECK_DEADLOCK FALSE
