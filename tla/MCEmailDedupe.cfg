SPECIFICATION MailSpec
CONSTANTS
  k1 = k1
  k2 = k2
  s1 = s1
  s2 = s2
  Keys <- MCKeys
  Senders <- MCSenders
  StaleMinutes = 2
  MaxSend = 2
  MaxAttempts = 2
INVARIANTS
  MailTypeOK
  OneSenderPerKey
  DuplicatesNeedLostOutcomes
PROPERTIES
  SentIsForever
  ReservationsEnd
