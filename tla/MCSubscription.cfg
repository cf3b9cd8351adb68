SPECIFICATION FairSpec
CONSTANTS
  q1 = q1
  Requests <- MCRequests
  Period = 1
  Grace = 1
  Trial = 1
  MaxSubs = 2
  MaxTime = 2
  MaxEvents = 2
  MaxSpent = 3
CHECK_DEADLOCK FALSE
INVARIANTS
  TypeOK
  ProIsPaidFor
  
  RowFollowsStripe
PROPERTIES
  PayersGetPro
