SPECIFICATION FairSpec
CONSTANTS
  t1 = t1
  t2 = t2
  b1 = b1
  b2 = b2
  s1 = s1
  s2 = s2
  Manual = Manual
  NoAccount = NoAccount
  Txns <- MCTxns
  BankAccounts <- MCBankAccounts
  Home <- MCHome
  Syncs <- MCSyncs
  Window = 1
  MaxLog = 2
  MaxFaults = 1
  MaxEdits = 1
CHECK_DEADLOCK FALSE
INVARIANTS
  TypeOK
  CursorNeverSkips
  MirrorExactWhenCalm
PROPERTIES
  SyncRevivesNothing
  CatchesUp
