SPECIFICATION Spec
CONSTANTS
  Triplets = {t1}
  Messages = {m1, m2, m3}
  NoMessage = NoMessage
  NoTriplet = NoTriplet
  GreylistTime = 2
  PassedTTL = 3
  NotPassedTTL = 3
  PurgeInterval = 1
  TicksPerSec = 2
  MaxClock = 5
  MaxCrashes = 1
  MaxRecipients = 1
  Faults = {"sync"}
CHECK_DEADLOCK FALSE
SYMMETRY MessageSymmetry
INVARIANTS
  TypeOK
  GreylistHonoured
  OneDbAtMost
PROPERTIES
  TtlsHonoured
