SPECIFICATION FairSpec
CONSTANTS
  x = x
  timer = timer
  pool = pool
  NoItem = NoItem
  Timer = timer
  Item <- MCItem
  Pool <- MCPool
  Cost <- MCCost
  Forms <- MCForms
  Steps <- MCSteps
  MaxRequests = 1
  MaxEdits = 1
  MaxOffers = 1
INVARIANTS SyncTypeOK OneRowPerItem 
PROPERTIES SyncKeepsAdminChoice CatalogueConverges ShutdownEnds
CHECK_DEADLOCK FALSE
