-------------------------------- MODULE TtlDb --------------------------------
(***************************************************************************)
(* One TtlDb of the dbm kind: a file of tokens with the time each was last *)
(* used, guarded by a lock that its user takes around every access.  The   *)
(* filters that keep a TtlDb compose these actions; module Greylist keeps  *)
(* two.  Times are clock ticks, TicksPerSec of them in a second.  A name   *)
(* ending in _M is what follows it with a mistake, for mutation checks.    *)
(***************************************************************************)
EXTENDS Integers

CONSTANTS
  Tokens,         \* the tokens a filter may store
  Threads,        \* the threads that may hold the lock
  NoThread,       \* nobody holds it
  TTL,            \* how long an unused token lives
  PurgeInterval,  \* the least time between two purges
  TicksPerSec     \* time.time() has this resolution, a stored time has 1s

VARIABLES
  db,          \* token -> time of its last use, or Missing
  disk,        \* what the file holds for certain
  dbLock,      \* the thread that holds the lock
  lastPurged   \* time of the last purge

Missing == -1

\* LastPurged = 0 is the Epoch, longer ago than any PurgeInterval.
LongAgo == -(PurgeInterval + 1)

TypeOK ==
  /\ db \in [Tokens -> Nat \cup {Missing}]
  /\ disk \in [Tokens -> Nat \cup {Missing}]
  /\ dbLock \in Threads \cup {NoThread}
  /\ lastPurged \in Nat \cup {LongAgo}

Open ==
  /\ db = [t \in Tokens |-> Missing] /\ disk = db
  /\ dbLock = NoThread /\ lastPurged = LongAgo

-----------------------------------------------------------------------------
Lock(p) == dbLock = NoThread /\ dbLock' = p /\ UNCHANGED <<db, disk, lastPurged>>

\* unlock() flushes the file first.
Unlock == dbLock' = NoThread /\ disk' = db /\ UNCHANGED <<db, lastPurged>>

\* sync() raises, and so does unlock(), after releasing the lock.
UnlockRaises == dbLock' = NoThread /\ UNCHANGED <<db, disk, lastPurged>>

Contains(t) == db[t] # Missing

\* A token dies one tick before its time.
Expired_M(t, now) == db[t] <= now - TTL

\* The interval between purges is added to the life of a token.
ExpiredLate_M(t, now) == db[t] < now - TTL - PurgeInterval

Expired(t, now) == db[t] < now - TTL

\* The contents that purge() leaves, when it is due.
Purged(now) == [t \in Tokens |-> IF Expired(t, now) THEN Missing ELSE db[t]]

\* lock() and what purge() does before its unlock().
LockAndPurge(p, now) ==
  /\ dbLock = NoThread /\ dbLock' = p
  /\ IF now > lastPurged + PurgeInterval
     THEN db' = Purged(now) /\ lastPurged' = now
     ELSE UNCHANGED <<db, lastPurged>>
  /\ UNCHANGED disk

\* str(int(value)): what is left of a time when it is stored.
Stored(time) == (time \div TicksPerSec) * TicksPerSec

\* db[t] = time and del db[t], as the new contents of the db.
With(t, time) == [db EXCEPT ![t] = Stored(time)]

\* The token stays.
Without_M(t) == db

Without(t) == [db EXCEPT ![t] = Missing]

Write(contents) == db' = contents /\ UNCHANGED <<disk, dbLock, lastPurged>>

LockAndWrite(p, contents) ==
  /\ dbLock = NoThread /\ dbLock' = p
  /\ db' = contents
  /\ UNCHANGED <<disk, lastPurged>>

\* From lock() to unlock() in one step, for users that touch nothing else in
\* between; sync() raises unless flushed.
Access(contents, flushed) ==
  /\ dbLock = NoThread /\ dbLock' = NoThread /\ db' = contents
  /\ disk' = IF flushed THEN contents ELSE disk
  /\ UNCHANGED lastPurged

\* The same for purge().
Purge(now, flushed) ==
  LET due == now > lastPurged + PurgeInterval
  IN  /\ dbLock = NoThread /\ dbLock' = NoThread
      /\ db' = IF due THEN Purged(now) ELSE db
      /\ lastPurged' = IF due THEN now ELSE lastPurged
      /\ disk' = IF flushed THEN db' ELSE disk

\* The process dies and the file is opened again: what was not flushed may
\* or may not have reached it.
Reopen ==
  /\ \E flushed \in SUBSET {t \in Tokens : db[t] # disk[t]} :
       db' = [t \in Tokens |-> IF t \in flushed THEN db[t] ELSE disk[t]]
  /\ disk' = db'
  /\ dbLock' = NoThread /\ lastPurged' = LongAgo
=============================================================================
