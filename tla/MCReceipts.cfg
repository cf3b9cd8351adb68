SPECIFICATION Spec
CONSTANTS
  f1 = f1
  f2 = f2
  f3 = f3
  t1 = t1
  t2 = t2
  q1 = q1
  q2 = q2
  NoTxn = NoTxn
  NoFile = NoFile
  Files <- MCFiles
  Txns <- MCTxns
  Requests <- MCRequests
  MaxReceipts = 2
SYMMETRY Symmetry
INVARIANTS
  TypeOK
  StatusReflectsReality
  CapHolds
  NobodyWaitsForEver
PROPERTIES
  LockedEvidenceKept
