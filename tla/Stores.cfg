SPECIFICATION StoresSpec
CONSTANTS
  c1 = c1
  c2 = c2
  o1 = o1
  o2 = o2
  u1 = u1
  u2 = u2
  p1 = p1
  p2 = p2
  NoUser = NoUser
  NoOrder = NoOrder
  Order <- MCOrder
  Commodity <- MCCommodity
  MaxSecrets = 4
  MaxTyped = 1
  User <- MCUser
  Caller <- MCCaller
  Opening <- MCOpening
  Amounts <- MCAmounts
  MaxEntries = 2
INVARIANTS VaultTypeOK OldestFirst StockExact SoldExact
INVARIANTS AccountsTypeOK JournalReconciles CreditedToReferrer CommissionBacked
PROPERTIES SoldForever ReferrerFixed
SYMMETRY MCSymmetry
CHECK_DEADLOCK FALSE
