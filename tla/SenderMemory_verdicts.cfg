SPECIFICATION Spec
CONSTANTS
  Messages = {m1, m2, m3}
  NoMessage = NoMessage
  Mails <- MCMails
  NoMail = NoMail
  TTL = 1
  PurgeInterval = 1
  MinuteTicks = 1
  MaxConnections = 1
  Interval = 2
  RatePurge = 0
  LimitNetwork = TRUE
  MaxClock = 2
  MaxAtOnce = 2
  Faults = {"sync", "crash"}
SYMMETRY MessageSymmetry
INVARIANTS
  TypeOK
  
  
  RateKept
CHECK_DEADLOCK FALSE
