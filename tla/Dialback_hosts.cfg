SPECIFICATION MCFairSpec
CONSTANTS
  Dbs = {"good", "bad"}
  Tokens = {s1}
  Hosts = {h1, h2}
  Threads = {m1, m2}
  NoThread = NoThread
  TTL = 1
  PurgeInterval = 1
  TicksPerSec = 1
  MaxServers = 2
  MaxClock = 2
  Faults = {"sql"}
CHECK_DEADLOCK FALSE
INVARIANTS
  TypeOK
  VerdictFounded
  TokensKept
PROPERTIES
  OthersGoOn
