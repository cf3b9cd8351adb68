SPECIFICATION Spec
CONSTANTS
  q1 = q1
  q2 = q2
  q3 = q3
  g1 = g1
  Requests <- MCRequests
  Grants <- MCGrants
  MaxPackages = 2
  MaxEdits = 2
CHECK_DEADLOCK FALSE
SYMMETRY Symmetry
INVARIANTS
  TypeOK
  ShownCurrentIsCurrent
  MailsNeedNewPackages
  ListedIsGenuine
