SPECIFICATION Spec
CONSTANTS
  q1 = q1
  q2 = q2
  None = None
  Requests <- MCRequests
  MaxIds = 4
  MaxSlots = 2
  MaxFaults = 1
  MaxEdits = 4
CHECK_DEADLOCK FALSE
PROPERTY DeleteOnlyRefusesTheLast
