SPECIFICATION FairSpec
CONSTANTS
  Triplets = {t1, t2}
  Messages = {m1, m2}
  NoMessage = NoMessage
  NoTriplet = NoTriplet
  GreylistTime = 2
  PassedTTL = 4
  NotPassedTTL = 3
  PurgeInterval = 1
  TicksPerSec = 2
  MaxClock = 2
  MaxCrashes = 1
  MaxRecipients = 2
  Faults = {}
CHECK_DEADLOCK FALSE
INVARIANTS
  GreylistHonoured
PROPERTIES
  EveryMessageEnds
