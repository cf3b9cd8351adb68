SPECIFICATION Spec
CONSTANTS
  t1 = t1
  t2 = t2
  r1 = r1
  r2 = r2
  NoTxn = NoTxn
  Txns <- MCTxns
  Requests <- TwoRequests
  MaxDate = 2
  LockDates <- NoneOrFirst
SYMMETRY Symmetry
INVARIANTS
  TypeOK
PROPERTIES
  LockHonoured
  ResetHonoured
