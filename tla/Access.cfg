SPECIFICATION AccessSpec
CONSTANTS
  here = here
  ann = ann
  bob = bob
  small = small
  large = large
  tab1 = tab1
  tab2 = tab2
  left = left
  right = right
  MaxTime = 5
  Key = {here}
  Rate = 3
  Minute = 4
  Tab = {tab1, tab2}
  Browser <- MCBrowser
  Name = {ann, bob}
  Typed = {small, large}
  Lower <- MCLower
  Life = 1
  MaxUsers = 2
  MaxTokens = 2
  Desk = {left, right}
  MaxAge = 2
  Period = 1
  MaxSecrets = 2
  Most <- MCMost
  Usual <- MCUsual
  Limits = {0, 2}
  Sorts = {0, 1}
  MaxGoods = 3
  MaxChanges = 2
INVARIANTS AccessTypeOK RateBound NameUnambiguous VisitsExplained ActiveWasConfirmed WalkExplained
SYMMETRY MCSymmetry
CHECK_DEADLOCK FALSE
