SPECIFICATION UsageSpec
CONSTANTS
  r1 = r1
  r2 = r2
  Requests <- MCRequests
  Limit = 2
  ReceiptLimit = 1
  Clients = 3
  MaxOthers = 1
  MaxMonth = 2
  MaxRows = 2
  MaxSpent = 3
SYMMETRY Symmetry
INVARIANTS
  CapsHold
  StandstillsHaveCauses
