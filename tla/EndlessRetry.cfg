SPECIFICATION FairSpec
CONSTANTS
  own = own
  far = far
  t1 = t1
  t2 = t2
  Order <- MCOrder
  Task <- MCTask
  Source <- MCSource
  Num <- MCNum
  Workers = 1
  Buffer = 1
  RetryMax = 1
  Numbers = {FALSE}
  MaxPieces = 0
  MaxStock = 2
PROPERTY RetriesEnd
CHECK_DEADLOCK FALSE
