SPECIFICATION Spec
CONSTANTS
  q1 = q1
  q2 = q2
  None = None
  Requests <- MCRequests
  MaxIds = 4
  MaxSlots = 2
  MaxFaults = 2
  MaxEdits = 3
CHECK_DEADLOCK FALSE
SYMMETRY Symmetry
INVARIANTS
  TypeOK
  KeepsOne
  HolderSurvives
  ChargesWhatSucceeded
PROPERTIES
  NoExtraBusiness
