------------------------------- MODULE SqlTtlDb -------------------------------
(***************************************************************************)
(* The TtlDbs of the SQL kind: tables of tokens with the time each was last *)
(* used, on one database server that the daemons of several hosts share.   *)
(* The lock of a TtlDb is local to its daemon; between two statements of   *)
(* one host any other host may run its own.  Each write is committed at    *)
(* once, and a read sees what is committed.  A name ending in _M is what   *)
(* follows it with a mistake, for mutation checks.                         *)
(***************************************************************************)
EXTENDS Integers

CONSTANTS
  Dbs,            \* the TtlDbs a filter keeps, a table for each
  Tokens,         \* the tokens a filter may store
  Hosts,          \* the hosts whose daemons share the tables
  Threads,        \* the threads that may hold a lock
  NoThread,       \* nobody holds it
  TTL,            \* how long an unused token lives, a whole number of seconds
  PurgeInterval,  \* the least time between two purges of one daemon
  TicksPerSec     \* time.time() has this resolution, the column has 1s

VARIABLES
  table,       \* table[d][t]: the value of the row of t, or Missing
  dbLock,      \* dbLock[d][h]: the thread of host h that holds its lock
  lastPurged   \* lastPurged[d][h]: time of the last purge by host h

Missing == -1

\* LastPurged = 0 is the Epoch, longer ago than any PurgeInterval.
LongAgo == -(PurgeInterval + 1)

SqlTypeOK ==
  /\ table \in [Dbs -> [Tokens -> Nat \cup {Missing}]]
  /\ dbLock \in [Dbs -> [Hosts -> Threads \cup {NoThread}]]
  /\ lastPurged \in [Dbs -> [Hosts -> Nat \cup {LongAgo}]]

\* int(time), and the column is an integer.
Stored(time) == (time \div TicksPerSec) * TicksPerSec

\* CREATE TABLE fails if another host, or an earlier run, has made the table.
Connect ==
  /\ dbLock = [d \in Dbs |-> [h \in Hosts |-> NoThread]]
  /\ lastPurged = [d \in Dbs |-> [h \in Hosts |-> LongAgo]]

-----------------------------------------------------------------------------
Lock(d, h, p) ==
  /\ dbLock[d][h] = NoThread
  /\ dbLock' = [dbLock EXCEPT ![d][h] = p]

Unlocked(d, h) == dbLock[d][h] = NoThread

Unlock(d, h) == dbLock' = [dbLock EXCEPT ![d][h] = NoThread]

Contains(d, t) == table[d][t] # Missing

\* The clause says <=, and the whole of the time that has passed counts.
Purged_M(d, now) ==
  [t \in Tokens |-> IF table[d][t] <= Stored(now - TTL) THEN Missing ELSE table[d][t]]

\* DELETE ... WHERE value < minVal.  A row that is not there has no value.
Purged(d, now) ==
  [t \in Tokens |-> IF table[d][t] < Stored(now - TTL) THEN Missing ELSE table[d][t]]

PurgeDue(d, h, now) == now > lastPurged[d][h] + PurgeInterval

\* INSERT fails if the row is there, which makes way for the UPDATE.
Inserted(d, t, time) == [table EXCEPT ![d][t] = Stored(time)]

\* UPDATE of a row that is not there does nothing, and says nothing.
Updated(d, t, time) ==
  IF Contains(d, t) THEN [table EXCEPT ![d][t] = Stored(time)] ELSE table
=============================================================================
