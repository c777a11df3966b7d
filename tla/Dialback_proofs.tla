--------------------------- MODULE Dialback_proofs ---------------------------
(***************************************************************************)
(* Proofs about module Dialback, for every set of hosts, messages and      *)
(* senders, all times, any number of servers, and statements that raise.   *)
(***************************************************************************)
EXTENDS Dialback, TLAPS

LEMMA Constants ==
  /\ TicksPerSec \in Nat \ {0} /\ TTL \in Nat /\ PurgeInterval \in Nat
  /\ MaxServers \in Nat /\ MaxClock \in Nat
  /\ "good" \in Dbs /\ "bad" \in Dbs
  /\ \A d \in Dbs : d = "good" \/ d = "bad"
  /\ NoThread \notin Messages
BY DialbackAssumption

\* int() takes no time before the Epoch for one after it, and keeps the order.
LEMMA StoredTime ==
  /\ \A t \in Int : Stored(t) \in Int
  /\ \A t \in Nat : Stored(t) \in Nat
  /\ \A t, u \in Int : t <= u => Stored(t) <= Stored(u)
<1>1. ASSUME NEW t \in Int
      PROVE  /\ t \div TicksPerSec \in Int /\ Stored(t) \in Int
             /\ Stored(t) <= t /\ t < Stored(t) + TicksPerSec
  BY Constants DEF Stored
<1>2. ASSUME NEW t \in Nat PROVE Stored(t) \in Nat
  <2>1. t \div TicksPerSec \in Nat
    BY Constants
  <2> QED BY <2>1, Constants DEF Stored
<1>3. ASSUME NEW t \in Int, NEW u \in Int, t <= u PROVE Stored(t) <= Stored(u)
  <2>1. PICK a \in Int : a = t \div TicksPerSec
    BY <1>1
  <2>2. PICK b \in Int : b = u \div TicksPerSec
    BY <1>1
  <2>3. a <= b
    BY <1>3, <2>1, <2>2, Constants
  <2>4. a * TicksPerSec <= b * TicksPerSec
    BY <2>3, Constants
  <2> QED BY <2>1, <2>2, <2>4 DEF Stored
<1> QED BY <1>1, <1>2, <1>3

-----------------------------------------------------------------------------
(* Types.                                                                  *)
Pcs == Inside \cup Outside \cup {"idle", "done"}

LEMMA InitTypeOK == Init => TypeOK
<1> SUFFICES ASSUME Init PROVE TypeOK
  OBVIOUS
<1> USE Constants DEF Init
<1>1. SqlTypeOK
  <2>1. table \in [Dbs -> [Tokens -> Nat \cup {Missing}]]
    BY DEF Missing, Senders
  <2>2. dbLock \in [Dbs -> [Hosts -> Threads \cup {NoThread}]]
    BY DEF Connect
  <2>3. lastPurged \in [Dbs -> [Hosts -> Nat \cup {LongAgo}]]
    BY DEF Connect
  <2> QED BY <2>1, <2>2, <2>3 DEF SqlTypeOK
<1>2. said \in [Senders -> SUBSET {"2xx", "5xx"}]
  BY DEF Answer
<1>3. lastUse \in [Dbs -> [Senders -> 0..MaxClock \cup {Never}]]
  BY DEF Never, Missing
<1>4. /\ servers \in [Messages -> 0..MaxServers] /\ time \in [Messages -> 0..MaxClock]
      /\ clock \in 0..MaxClock
  OBVIOUS
<1>5. /\ pc \in [Messages -> Inside \cup Outside \cup {"idle", "done"}]
      /\ verdict \in [Messages -> {"none", "unverified", "pass", "517"}]
      /\ heard \in [Messages -> SUBSET {"2xx", "5xx"}]
      /\ at \in [Messages -> Dbs]
  OBVIOUS
<1> QED BY <1>1, <1>2, <1>3, <1>4, <1>5 DEF TypeOK

\* The ways doFilter goes on keep the types of its locals.
LEMMA LocalTypes ==
  ASSUME TypeOK, NEW m \in Messages
  PROVE  \A v \in {"unverified", "pass", "517"} :
           NextServer(m) \/ Returns(m, v) =>
             /\ pc' \in [Messages -> Pcs] /\ at' \in [Messages -> Dbs]
             /\ servers' \in [Messages -> 0..MaxServers]
             /\ time' \in [Messages -> 0..MaxClock]
             /\ verdict' \in [Messages -> {"none", "unverified", "pass", "517"}]
<1> USE Constants DEF TypeOK, Pcs, Inside, Outside
<1>1. ASSUME NEW v \in {"unverified", "pass", "517"}, Returns(m, v)
      PROVE  /\ pc' \in [Messages -> Pcs] /\ at' \in [Messages -> Dbs]
             /\ servers' \in [Messages -> 0..MaxServers]
             /\ time' \in [Messages -> 0..MaxClock]
             /\ verdict' \in [Messages -> {"none", "unverified", "pass", "517"}]
  BY <1>1 DEF Returns
<1>2. ASSUME NextServer(m)
      PROVE  /\ pc' \in [Messages -> Pcs] /\ at' \in [Messages -> Dbs]
             /\ servers' \in [Messages -> 0..MaxServers]
             /\ time' \in [Messages -> 0..MaxClock]
             /\ verdict' \in [Messages -> {"none", "unverified", "pass", "517"}]
  <2>1. CASE servers[m] > 1
    <3>1. servers[m] - 1 \in 0..MaxServers
      BY <2>1
    <3>2. /\ pc' = [pc EXCEPT ![m] = "connect"] /\ at' = [at EXCEPT ![m] = "bad"]
          /\ servers' = [servers EXCEPT ![m] = servers[m] - 1]
          /\ time' = [time EXCEPT ![m] = 0] /\ verdict' = verdict
      BY <1>2, <2>1 DEF NextServer
    <3> QED BY <3>1, <3>2
  <2>2. CASE ~(servers[m] > 1)
    BY <1>1, <1>2, <2>2 DEF NextServer
  <2> QED BY <2>1, <2>2
<1> QED BY <1>1, <1>2

\* The statements keep the types of the tables.
LEMMA TableTypes ==
  ASSUME TypeOK, NEW d \in Dbs, NEW h \in Hosts, NEW m \in Messages,
         NEW s \in Senders
  PROVE  /\ [table EXCEPT ![d] = Purged(d, clock)] \in [Dbs -> [Tokens -> Nat \cup {Missing}]]
         /\ [lastPurged EXCEPT ![d][h] = clock] \in [Dbs -> [Hosts -> Nat \cup {LongAgo}]]
         /\ Unlock(d, h) \/ Lock(d, h, m) =>
              dbLock' \in [Dbs -> [Hosts -> Threads \cup {NoThread}]]
         /\ \A t \in 0..MaxClock :
              /\ Inserted(d, s, t) \in [Dbs -> [Tokens -> Nat \cup {Missing}]]
              /\ Updated(d, s, t) \in [Dbs -> [Tokens -> Nat \cup {Missing}]]
              /\ NoteUse(d, s, t) =>
                   lastUse' \in [Dbs -> [Senders -> 0..MaxClock \cup {Never}]]
<1> USE DEF TypeOK, SqlTypeOK, Senders, Messages
<1>1. [table EXCEPT ![d] = Purged(d, clock)] \in [Dbs -> [Tokens -> Nat \cup {Missing}]]
  BY DEF Purged
<1>2. [lastPurged EXCEPT ![d][h] = clock] \in [Dbs -> [Hosts -> Nat \cup {LongAgo}]]
  OBVIOUS
<1>3. Unlock(d, h) \/ Lock(d, h, m) =>
        dbLock' \in [Dbs -> [Hosts -> Threads \cup {NoThread}]]
  <2>1. ASSUME NEW p \in Threads \cup {NoThread}
        PROVE  [dbLock EXCEPT ![d][h] = p] \in [Dbs -> [Hosts -> Threads \cup {NoThread}]]
    OBVIOUS
  <2>2. /\ [dbLock EXCEPT ![d][h] = NoThread] \in [Dbs -> [Hosts -> Threads \cup {NoThread}]]
        /\ [dbLock EXCEPT ![d][h] = m] \in [Dbs -> [Hosts -> Threads \cup {NoThread}]]
    BY <2>1
  <2> QED BY <2>2 DEF Unlock, Lock
<1>4. ASSUME NEW t \in 0..MaxClock
      PROVE  /\ Inserted(d, s, t) \in [Dbs -> [Tokens -> Nat \cup {Missing}]]
             /\ Updated(d, s, t) \in [Dbs -> [Tokens -> Nat \cup {Missing}]]
             /\ NoteUse(d, s, t) =>
                  lastUse' \in [Dbs -> [Senders -> 0..MaxClock \cup {Never}]]
  <2>1. Stored(t) \in Nat
    BY StoredTime
  <2>2. [table EXCEPT ![d][s] = Stored(t)] \in [Dbs -> [Tokens -> Nat \cup {Missing}]]
    BY <2>1
  <2>3. Recent(t, clock) \in 0..MaxClock \cup {Never}
    BY DEF Recent
  <2>4. [lastUse EXCEPT ![d][s] = Recent(t, clock)]
          \in [Dbs -> [Senders -> 0..MaxClock \cup {Never}]]
    BY <2>3
  <2> QED BY <2>2, <2>4 DEF Inserted, Updated, NoteUse
<1> QED BY <1>1, <1>2, <1>3, <1>4

LEMMA TypeStep == TypeOK /\ [Next]_vars => TypeOK'
<1> SUFFICES ASSUME TypeOK, [Next]_vars PROVE TypeOK'
  OBVIOUS
<1> USE Constants DEF Goes, dbVars, msgVars, Pcs
<1>1. ASSUME NEW m \in Messages
      PROVE  /\ Messages = Threads /\ Senders = Tokens
             /\ at[m] \in Dbs /\ host[m] \in Hosts /\ sender[m] \in Senders
             /\ time[m] \in 0..MaxClock /\ Verdict(at[m]) \in {"pass", "517"}
  BY DEF TypeOK, Verdict, Messages, Senders
<1>2. ASSUME NEW m \in Messages, LocalStep(m) PROVE TypeOK'
  <2> USE <1>1, TableTypes
  <2>1. CASE Purge(m)
    <3>1. table' \in [Dbs -> [Tokens -> Nat \cup {Missing}]]
          /\ lastPurged' \in [Dbs -> [Hosts -> Nat \cup {LongAgo}]]
      <4>1. CASE PurgeDue(at[m], host[m], clock)
        <5>1. /\ table' = [table EXCEPT ![at[m]] = Purged(at[m], clock)]
              /\ lastPurged' = [lastPurged EXCEPT ![at[m]][host[m]] = clock]
          BY <2>1, <4>1 DEF Purge
        <5> QED BY <5>1
      <4>2. CASE ~PurgeDue(at[m], host[m], clock)
        BY <2>1, <4>2 DEF Purge, TypeOK, SqlTypeOK
      <4> QED BY <4>1, <4>2
    <3> QED BY <2>1, <3>1 DEF Purge, TypeOK, SqlTypeOK, Inside
  <2>2. CASE LookMissing(m)
    BY <2>2 DEF LookMissing, TypeOK, SqlTypeOK, Inside, Outside
  <2>3. ASSUME LockToSet(m) PROVE TypeOK'
    BY <2>3 DEF LockToSet, TypeOK, SqlTypeOK, Inside
  <2>4. CASE LookFound(m) BY <2>3, <2>4 DEF LookFound
  <2>5. CASE Mark(m) BY <2>3, <2>5 DEF Mark
  <2>6. CASE Insert(m)
    <3>1. table' \in [Dbs -> [Tokens -> Nat \cup {Missing}]]
          /\ lastUse' \in [Dbs -> [Senders -> 0..MaxClock \cup {Never}]]
          /\ dbLock' \in [Dbs -> [Hosts -> Threads \cup {NoThread}]]
      BY <2>6 DEF Insert, InsertCommits, UnlockAndReturn
    <3>2. Returns(m, Verdict(at[m]))
      BY <2>6 DEF Insert, UnlockAndReturn
    <3>3. /\ pc' \in [Messages -> Pcs] /\ at' \in [Messages -> Dbs]
          /\ servers' \in [Messages -> 0..MaxServers]
          /\ time' \in [Messages -> 0..MaxClock]
          /\ verdict' \in [Messages -> {"none", "unverified", "pass", "517"}]
      BY <3>2, LocalTypes
    <3> QED BY <2>6, <3>1, <3>3 DEF Insert, UnlockAndReturn, TypeOK, SqlTypeOK
  <2>7. CASE InsertFails(m) BY <2>7 DEF InsertFails, TypeOK, SqlTypeOK, Inside
  <2>8. CASE Update(m)
    <3>1. table' \in [Dbs -> [Tokens -> Nat \cup {Missing}]]
          /\ lastUse' \in [Dbs -> [Senders -> 0..MaxClock \cup {Never}]]
          /\ dbLock' \in [Dbs -> [Hosts -> Threads \cup {NoThread}]]
      BY <2>8 DEF Update, UpdateCommits, UnlockAndReturn, TypeOK
    <3>2. Returns(m, Verdict(at[m]))
      BY <2>8 DEF Update, UnlockAndReturn
    <3>3. /\ pc' \in [Messages -> Pcs] /\ at' \in [Messages -> Dbs]
          /\ servers' \in [Messages -> 0..MaxServers]
          /\ time' \in [Messages -> 0..MaxClock]
          /\ verdict' \in [Messages -> {"none", "unverified", "pass", "517"}]
      BY <3>2, LocalTypes
    <3> QED BY <2>8, <3>1, <3>3 DEF Update, UnlockAndReturn, TypeOK, SqlTypeOK
  <2>9. CASE StatementRaises(m)
    <3>1. table' \in [Dbs -> [Tokens -> Nat \cup {Missing}]]
      <4>1. table \in [Dbs -> [Tokens -> Nat \cup {Missing}]]
        BY DEF TypeOK, SqlTypeOK
      <4>2. \/ table' = table
            \/ table' = [table EXCEPT ![at[m]] = Purged(at[m], clock)]
            \/ table' = Inserted(at[m], sender[m], time[m])
            \/ table' = Updated(at[m], sender[m], time[m])
        BY <2>9 DEF StatementRaises, InsertCommits, UpdateCommits
      <4> QED BY <4>1, <4>2
    <3>2. lastUse' \in [Dbs -> [Senders -> 0..MaxClock \cup {Never}]]
      BY <2>9 DEF StatementRaises, InsertCommits, UpdateCommits, TypeOK
    <3>3. dbLock' \in [Dbs -> [Hosts -> Threads \cup {NoThread}]]
      BY <2>9 DEF StatementRaises, TypeOK, SqlTypeOK
    <3>4. NextServer(m) \/ Returns(m, "unverified")
      BY <2>9 DEF StatementRaises
    <3> QED BY <2>9, <3>1, <3>2, <3>3, <3>4, LocalTypes
            DEF StatementRaises, TypeOK, SqlTypeOK
  <2> QED BY <1>2, <2>1, <2>2, <2>4, <2>5, <2>6, <2>7, <2>8, <2>9 DEF LocalStep
<1>3. ASSUME NEW m \in Messages, RemoteStep(m) PROVE TypeOK'
  <2>1. ASSUME NEW n \in 1..MaxServers, Resolve(m, n) PROVE TypeOK'
    BY <2>1 DEF Resolve, TypeOK, SqlTypeOK, Outside
  <2>2. CASE ResolveFails(m)
    BY <2>2, LocalTypes DEF ResolveFails, TypeOK, SqlTypeOK
  <2>3. CASE Converse(m)
    BY <2>3 DEF Converse, TypeOK, SqlTypeOK, Outside
  <2>4. CASE ServerFails(m)
    BY <2>4, LocalTypes DEF ServerFails, TypeOK, SqlTypeOK
  <2>5. ASSUME NEW d \in Dbs, RcptAnswered(m, d) PROVE TypeOK'
    BY <2>5 DEF RcptAnswered, Answer, TypeOK, SqlTypeOK, Inside
  <2> QED BY <1>3, <2>1, <2>2, <2>3, <2>4, <2>5 DEF RemoteStep
<1>4. ASSUME NEW m \in Messages, Start(m) PROVE TypeOK'
  BY <1>4 DEF Start, TypeOK, SqlTypeOK, Inside
<1>5. ASSUME NEW m \in Messages, ReturnEarly(m) PROVE TypeOK'
  BY <1>5, LocalTypes DEF ReturnEarly, TypeOK, SqlTypeOK
<1>6. CASE Tick
  <2>1. lastUse' \in [Dbs -> [Senders -> 0..MaxClock \cup {Never}]]
    BY <1>6 DEF Tick, Recent, TypeOK
  <2> QED BY <1>6, <2>1 DEF Tick, TypeOK, SqlTypeOK
<1>7. CASE UNCHANGED vars BY <1>7 DEF vars, TypeOK, SqlTypeOK
<1> QED BY <1>2, <1>3, <1>4, <1>5, <1>6, <1>7 DEF Next

\* Every variable keeps its type.
THEOREM TypeCorrect == Spec => []TypeOK
BY InitTypeOK, TypeStep, PTL DEF Spec

-----------------------------------------------------------------------------
(* Who holds a lock.                                                       *)
\* The lock of a host's TtlDb is held by the thread that sets a token there,
\* and by no thread that waits for DNS or for a server.
LocksInv ==
  \A d \in Dbs, h \in Hosts, m \in Messages :
    dbLock[d][h] = m <=> pc[m] \in {"insert", "update"} /\ at[m] = d /\ host[m] = h

Holding == {"insert", "update"}

LEMMA LocksStep ==
  ASSUME TypeOK, LocksInv, [Next]_vars
  PROVE  LocksInv'
<1> USE Constants DEF Goes, dbVars, msgVars, TypeOK, Holding
<1>1. ASSUME UNCHANGED <<dbLock, host>>,
             \A n \in Messages :
               \/ pc'[n] = pc[n] /\ at'[n] = at[n]
               \/ pc[n] \notin Holding /\ pc'[n] \notin Holding
      PROVE  LocksInv'
  BY <1>1 DEF LocksInv
<1>2. ASSUME NEW m \in Messages, pc[m] \notin Holding, LockToSet(m)
      PROVE  LocksInv'
  BY <1>2 DEF LockToSet, Lock, SqlTypeOK, LocksInv, Messages
<1>3. ASSUME NEW m \in Messages, pc[m] \in Holding, Unlock(at[m], host[m]),
             host' = host, pc'[m] \notin Holding,
             \A n \in Messages \ {m} : pc'[n] = pc[n] /\ at'[n] = at[n]
      PROVE  LocksInv'
  BY <1>3 DEF Unlock, SqlTypeOK, LocksInv
<1>4. ASSUME NEW m \in Messages, NEW v, NextServer(m) \/ Returns(m, v)
      PROVE  /\ pc'[m] \notin Holding
             /\ \A n \in Messages \ {m} : pc'[n] = pc[n] /\ at'[n] = at[n]
  BY <1>4 DEF NextServer, Returns
<1>5. ASSUME NEW m \in Messages, LocalStep(m) PROVE LocksInv'
  <2>1. CASE Purge(m) BY <1>1, <2>1 DEF Purge
  <2>2. CASE LookMissing(m) BY <1>1, <2>2 DEF LookMissing
  <2>3. CASE LookFound(m) BY <1>2, <2>3 DEF LookFound
  <2>4. CASE Mark(m) BY <1>2, <2>4 DEF Mark
  <2>5. CASE Insert(m) BY <1>3, <1>4, <2>5 DEF Insert, UnlockAndReturn
  <2>6. CASE InsertFails(m) BY <2>6 DEF InsertFails, LocksInv
  <2>7. CASE Update(m) BY <1>3, <1>4, <2>7 DEF Update, UnlockAndReturn
  <2>8. CASE StatementRaises(m)
    <3>1. NextServer(m) \/ Returns(m, "unverified")
      BY <2>8 DEF StatementRaises
    <3>2. CASE pc[m] \in Holding
      BY <1>3, <1>4, <2>8, <3>1, <3>2 DEF StatementRaises
    <3>3. CASE pc[m] \notin Holding
      BY <1>1, <1>4, <2>8, <3>1, <3>3 DEF StatementRaises
    <3> QED BY <3>2, <3>3
  <2> QED BY <1>5, <2>1, <2>2, <2>3, <2>4, <2>5, <2>6, <2>7, <2>8 DEF LocalStep
<1>6. ASSUME NEW m \in Messages, RemoteStep(m) PROVE LocksInv'
  BY <1>1, <1>4, <1>6 DEF RemoteStep, Resolve, ResolveFails, Converse, ServerFails,
                          RcptAnswered
<1>7. ASSUME NEW m \in Messages, Start(m) \/ ReturnEarly(m) PROVE LocksInv'
  BY <1>1, <1>4, <1>7 DEF Start, ReturnEarly
<1>8. CASE Tick \/ UNCHANGED vars BY <1>1, <1>8 DEF Tick, vars
<1> QED BY <1>5, <1>6, <1>7, <1>8 DEF Next

\* Lines 214-215: a thread that waits for DNS or for a server holds no lock,
\* and where it does hold one, it needs nothing but the database server.
THEOREM NoLockIsKept == Spec => []LocksInv
<1>1. Init => LocksInv
  BY Constants DEF Init, Connect, LocksInv
<1>2. TypeOK /\ LocksInv /\ [Next]_vars => LocksInv'
  BY LocksStep
<1> QED BY <1>1, <1>2, TypeCorrect, PTL DEF Spec

-----------------------------------------------------------------------------
(* What the servers said.                                                  *)
\* What a message is about to record, its own server or the table has said.
AboutTo(m) ==
  /\ heard[m] \subseteq said[sender[m]]
  /\ pc[m] \in {"idle", "purge", "look"} => heard[m] = {}
  /\ pc[m] = "mark" => Answer(at[m]) \in heard[m]
  /\ pc[m] \in {"insert", "update"} =>
       /\ Answer(at[m]) \in said[sender[m]]
       /\ heard[m] # {} => Answer(at[m]) \in heard[m]
  /\ pc[m] # "done" => verdict[m] = "none"

FoundedInv == VerdictFounded /\ \A m \in Messages : AboutTo(m)

-----------------------------------------------------------------------------
(* What the purges of all hosts leave.                                     *)
\* A use of interest is recorded, or a later one is, and has not expired.
UsesInv ==
  \A d \in Dbs, s \in Senders :
    lastUse[d][s] # Never =>
      clock - lastUse[d][s] <= TTL /\ table[d][s] >= Stored(lastUse[d][s])

LEMMA UsesStep ==
  ASSUME TypeOK, UsesInv, [Next]_vars
  PROVE  UsesInv'
<1> USE Constants DEF TypeOK, dbVars, msgVars
<1>1. ASSUME UNCHANGED <<table, clock, lastUse>> PROVE UsesInv'
  BY <1>1 DEF UsesInv
<1>2. ASSUME NEW e \in Dbs, UNCHANGED <<clock, lastUse>>,
             table' = table \/ table' = [table EXCEPT ![e] = Purged(e, clock)]
      PROVE  UsesInv'
  <2> SUFFICES ASSUME NEW d \in Dbs, NEW s \in Senders, lastUse[d][s] # Never
               PROVE  table'[d][s] >= Stored(lastUse[d][s])
    BY <1>2 DEF UsesInv
  <2>1. lastUse[d][s] \in Int /\ clock - TTL \in Int /\ clock - TTL <= lastUse[d][s]
        /\ table[d][s] >= Stored(lastUse[d][s])
    BY DEF UsesInv, Never
  <2>2. Stored(lastUse[d][s]) >= Stored(clock - TTL) /\ Stored(clock - TTL) \in Int
        /\ Stored(lastUse[d][s]) \in Int
    BY <2>1, StoredTime
  <2>3. table[d][s] \in Int
    BY DEF SqlTypeOK, Senders, Missing
  <2>4. ~(table[d][s] < Stored(clock - TTL))
    BY <2>1, <2>2, <2>3
  <2>5. table'[d][s] = table[d][s]
    <3>1. CASE table' = [table EXCEPT ![e] = Purged(e, clock)] /\ d = e
      <4>1. table'[d] = Purged(e, clock) BY <3>1 DEF SqlTypeOK
      <4> QED BY <2>4, <3>1, <4>1 DEF Purged, Senders
    <3> QED BY <1>2, <3>1 DEF SqlTypeOK
  <2> QED BY <2>1, <2>5
<1>3. ASSUME NEW e \in Dbs, NEW z \in Senders, NEW t \in 0..MaxClock, clock' = clock,
             table' = [table EXCEPT ![e][z] = Stored(t)], NoteUse(e, z, t)
      PROVE  UsesInv'
  <2> SUFFICES ASSUME NEW d \in Dbs, NEW s \in Senders, lastUse'[d][s] # Never
               PROVE  clock - lastUse'[d][s] <= TTL
                      /\ table'[d][s] >= Stored(lastUse'[d][s])
    BY <1>3 DEF UsesInv
  <2>1. CASE d = e /\ s = z
    <3>1. lastUse'[d][s] = Recent(t, clock) /\ table'[d][s] = Stored(t)
      BY <1>3, <2>1 DEF NoteUse, SqlTypeOK, Senders
    <3> QED BY <3>1, StoredTime DEF Recent
  <2>2. CASE ~(d = e /\ s = z)
    <3>1. lastUse'[d][s] = lastUse[d][s] /\ table'[d][s] = table[d][s]
      BY <1>3, <2>2 DEF NoteUse, SqlTypeOK, Senders
    <3> QED BY <3>1 DEF UsesInv
  <2> QED BY <2>1, <2>2
<1>4. ASSUME NEW m \in Messages, clock' = clock,
             InsertCommits(m) \/ UpdateCommits(m)
      PROVE  UsesInv'
  <2>1. at[m] \in Dbs /\ sender[m] \in Senders /\ time[m] \in 0..MaxClock
    OBVIOUS
  <2>2. CASE InsertCommits(m)
    BY <1>3, <1>4, <2>1, <2>2 DEF InsertCommits, Inserted
  <2>3. CASE UpdateCommits(m) /\ lastUse[at[m]][sender[m]] = Never
    <3>1. UNCHANGED lastUse
      BY <2>3 DEF UpdateCommits
    <3>2. \A d \in Dbs, s \in Senders :
            ~(d = at[m] /\ s = sender[m]) => table'[d][s] = table[d][s]
      BY <2>1, <2>3 DEF UpdateCommits, Updated, SqlTypeOK, Senders
    <3> QED BY <1>4, <2>3, <3>1, <3>2 DEF UsesInv
  <2>4. CASE UpdateCommits(m) /\ lastUse[at[m]][sender[m]] # Never
    <3>1. table[at[m]][sender[m]] \in Int /\ lastUse[at[m]][sender[m]] \in Nat
          /\ table[at[m]][sender[m]] >= Stored(lastUse[at[m]][sender[m]])
      BY <2>1, <2>4 DEF UsesInv, SqlTypeOK, Senders, Missing, Never
    <3>2. Contains(at[m], sender[m])
      BY <3>1, StoredTime DEF Contains, Missing
    <3> QED BY <1>3, <1>4, <2>1, <2>4, <3>2 DEF UpdateCommits, Updated
  <2> QED BY <1>4, <2>2, <2>3, <2>4
<1>5. ASSUME NEW m \in Messages, LocalStep(m) PROVE UsesInv'
  <2> at[m] \in Dbs
    OBVIOUS
  <2>1. CASE Purge(m) BY <1>2, <2>1 DEF Purge
  <2>2. CASE LookMissing(m) BY <1>1, <2>2 DEF LookMissing
  <2>3. CASE LookFound(m) \/ Mark(m) BY <1>1, <2>3 DEF LookFound, Mark, LockToSet
  <2>4. CASE Insert(m) BY <1>4, <2>4 DEF Insert, UnlockAndReturn
  <2>5. CASE InsertFails(m) BY <1>1, <2>5 DEF InsertFails
  <2>6. CASE Update(m) BY <1>4, <2>6 DEF Update, UnlockAndReturn
  <2>7. CASE StatementRaises(m) BY <1>1, <1>2, <1>4, <2>7 DEF StatementRaises
  <2> QED BY <1>5, <2>1, <2>2, <2>3, <2>4, <2>5, <2>6, <2>7 DEF LocalStep
<1>6. ASSUME NEW m \in Messages, RemoteStep(m) PROVE UsesInv'
  BY <1>1, <1>6 DEF RemoteStep, Resolve, ResolveFails, Converse, ServerFails,
                    RcptAnswered
<1>7. ASSUME NEW m \in Messages, Start(m) \/ ReturnEarly(m) PROVE UsesInv'
  BY <1>1, <1>7 DEF Start, ReturnEarly
<1>8. CASE Tick
  <2> SUFFICES ASSUME NEW d \in Dbs, NEW s \in Senders, lastUse'[d][s] # Never
               PROVE  clock' - lastUse'[d][s] <= TTL
                      /\ table'[d][s] >= Stored(lastUse'[d][s])
    BY DEF UsesInv
  <2>1. lastUse'[d][s] = Recent(lastUse[d][s], clock + 1)
    BY <1>8 DEF Tick
  <2>2. lastUse'[d][s] = lastUse[d][s] /\ clock + 1 - lastUse[d][s] <= TTL
    BY <2>1 DEF Recent, Never
  <2>3. clock' = clock + 1 /\ table' = table
    BY <1>8 DEF Tick
  <2> QED BY <2>2, <2>3 DEF UsesInv
<1>9. CASE UNCHANGED vars BY <1>1, <1>9 DEF vars
<1> QED BY <1>5, <1>6, <1>7, <1>8, <1>9 DEF Next

LEMMA InitUses == Init => UsesInv
<1> SUFFICES ASSUME Init, NEW d \in Dbs, NEW s \in Senders, lastUse[d][s] # Never
             PROVE  clock - lastUse[d][s] <= TTL /\ table[d][s] >= Stored(lastUse[d][s])
  BY DEF UsesInv
<1>1. lastUse[d][s] = 0 /\ table[d][s] = 0 /\ clock = 0
  BY DEF Init, Never, Missing
<1>2. Stored(0) <= 0
  BY Constants DEF Stored
<1> QED BY <1>1, <1>2, Constants

\* TtlDb.py:312-316: what a daemon recorded or renewed stays in its table
\* for its TTL, whatever the daemons of other hosts do between any two of its
\* statements, and whichever statements raise.
THEOREM UsesAreKept == Spec => []TokensKept
<1>1. ASSUME TypeOK, UsesInv PROVE TokensKept
  <2> SUFFICES ASSUME NEW d \in Dbs, NEW s \in Senders, lastUse[d][s] # Never
               PROVE  Contains(d, s)
    BY DEF TokensKept
  <2>1. lastUse[d][s] \in Nat /\ table[d][s] >= Stored(lastUse[d][s])
    BY <1>1 DEF TypeOK, UsesInv, Never
  <2>2. table[d][s] \in Int
    BY <1>1 DEF TypeOK, SqlTypeOK, Senders, Missing
  <2> QED BY <2>1, <2>2, StoredTime DEF Contains, Missing
<1>2. TypeOK /\ UsesInv /\ [Next]_vars => UsesInv'
  BY UsesStep
<1> QED BY <1>1, <1>2, InitUses, TypeCorrect, PTL DEF Spec

-----------------------------------------------------------------------------
(* The invariant about what was said holds initially and is kept.          *)
LEMMA FoundedStep ==
  ASSUME TypeOK, FoundedInv, [Next]_vars
  PROVE  FoundedInv'
<1> DEFINE Judged(m) ==
      \A d \in Dbs : verdict[m] = Verdict(d) =>
        /\ Answer(d) \in said[sender[m]]
        /\ heard[m] # {} => Answer(d) \in heard[m]
<1> DEFINE Tables ==
      \A d \in Dbs, s \in Senders : Contains(d, s) => Answer(d) \in said[s]
<1> DEFINE Fair(m) == AboutTo(m) /\ Judged(m)
<1> USE Constants DEF TypeOK, dbVars, msgVars, Goes
<1>1. FoundedInv <=> Tables /\ \A m \in Messages : Fair(m)
  BY DEF FoundedInv, VerdictFounded
<1>2. Tables /\ \A m \in Messages : Fair(m)
  BY <1>1
<1>3. FoundedInv' <=> Tables' /\ \A m \in Messages : Fair(m)'
  BY DEF FoundedInv, VerdictFounded
<1>4. ASSUME NEW n \in Messages, said' = said,
             sender'[n] = sender[n], heard'[n] = heard[n], verdict'[n] = verdict[n],
             \/ pc'[n] = pc[n] /\ at'[n] = at[n]
             \/ pc'[n] \in Outside /\ pc[n] # "done"
             \/ pc[n] = "idle" /\ pc'[n] = "purge"
             \/ pc[n] \in {"purge", "look"} /\ pc'[n] \in {"purge", "look"}
             \/ pc[n] = "insert" /\ pc'[n] = "update" /\ at'[n] = at[n]
      PROVE  Fair(n)'
  BY <1>2, <1>4 DEF AboutTo, Outside
<1>5. ASSUME NEW n \in Messages, said' = said,
             sender' = sender, heard' = heard, Returns(n, "unverified")
      PROVE  Fair(n)'
  <2>1. verdict'[n] = "unverified" /\ pc'[n] = "done"
    BY <1>5 DEF Returns
  <2>2. \A d \in Dbs : Verdict(d) # "unverified"
    BY DEF Verdict
  <2> QED BY <1>2, <1>5, <2>1, <2>2 DEF AboutTo
<1>6. ASSUME NEW n \in Messages, pc[n] \in {"connect", "rcpt"} \cup Inside,
             said' = said, sender' = sender, heard' = heard, NextServer(n)
      PROVE  Fair(n)'
  <2>1. CASE servers[n] > 1
    BY <1>4, <1>6, <2>1 DEF NextServer, Outside, Inside
  <2>2. CASE ~(servers[n] > 1)
    BY <1>5, <1>6, <2>2 DEF NextServer
  <2> QED BY <2>1, <2>2
<1>7. ASSUME NEW n \in Messages, said' = said, sender' = sender, heard' = heard,
             pc[n] \in {"insert", "update"}, Returns(n, Verdict(at[n]))
      PROVE  Fair(n)'
  <2>1. verdict'[n] = Verdict(at[n]) /\ pc'[n] = "done" /\ at[n] \in Dbs
    BY <1>7 DEF Returns
  <2>2. \A d \in Dbs : Verdict(d) = Verdict(at[n]) => d = at[n]
    BY <2>1 DEF Verdict
  <2> QED BY <1>2, <1>7, <2>1, <2>2 DEF AboutTo
<1>8. ASSUME NEW n \in Messages, said' = said, sender' = sender, heard' = heard,
             LockToSet(n),
             pc[n] = "mark" \/ (pc[n] = "look" /\ Contains(at[n], sender[n]))
      PROVE  Fair(n)'
  <2>1. pc'[n] = "insert" /\ at'[n] = at[n] /\ verdict'[n] = verdict[n]
        /\ at[n] \in Dbs /\ sender[n] \in Senders
    BY <1>8 DEF LockToSet
  <2>2. Answer(at[n]) \in said[sender[n]]
    BY <1>2, <1>8, <2>1 DEF AboutTo
  <2> QED BY <1>2, <1>8, <2>1, <2>2 DEF AboutTo
<1>9. ASSUME NEW m \in Messages, said' = said, sender' = sender, heard' = heard, Fair(m)',
             \A n \in Messages \ {m} :
               pc'[n] = pc[n] /\ at'[n] = at[n] /\ verdict'[n] = verdict[n]
      PROVE  \A n \in Messages : Fair(n)'
  BY <1>4, <1>9
<1>10. ASSUME NEW m \in Messages, NEW v, NextServer(m) \/ Returns(m, v)
       PROVE  \A n \in Messages \ {m} :
                pc'[n] = pc[n] /\ at'[n] = at[n] /\ verdict'[n] = verdict[n]
  BY <1>10 DEF NextServer, Returns
<1>11. ASSUME said' = said, \A d \in Dbs, s \in Senders :
                Contains(d, s)' => Contains(d, s) \/ Answer(d) \in said[s]
       PROVE  Tables'
  BY <1>2, <1>11
<1>12. ASSUME NEW d \in Dbs
       PROVE  /\ \A e \in Dbs, s \in Senders :
                   [table EXCEPT ![d] = Purged(d, clock)][e][s] # Missing =>
                     Contains(e, s)
              /\ \A z \in Senders, t \in 0..MaxClock : \A e \in Dbs, s \in Senders :
                   Inserted(d, z, t)[e][s] # Missing =>
                     Contains(e, s) \/ (e = d /\ s = z)
              /\ \A z \in Senders, t \in 0..MaxClock : \A e \in Dbs, s \in Senders :
                   Updated(d, z, t)[e][s] # Missing => Contains(e, s)
  <2>1. table \in [Dbs -> [Senders -> Nat \cup {Missing}]]
    BY DEF SqlTypeOK, Senders
  <2>2. ASSUME NEW e \in Dbs, NEW s \in Senders,
               [table EXCEPT ![d] = Purged(d, clock)][e][s] # Missing
        PROVE  Contains(e, s)
    <3>1. CASE e = d
      <4>1. [table EXCEPT ![d] = Purged(d, clock)][e] = Purged(d, clock)
        BY <2>1, <3>1
      <4> QED BY <2>2, <3>1, <4>1 DEF Purged, Contains, Senders
    <3>2. CASE e # d
      BY <2>1, <2>2, <3>2 DEF Contains
    <3> QED BY <3>1, <3>2
  <2>3. ASSUME NEW z \in Senders, NEW t \in 0..MaxClock, NEW e \in Dbs, NEW s \in Senders,
               ~(e = d /\ s = z)
        PROVE  Inserted(d, z, t)[e][s] = table[e][s]
    BY <2>1, <2>3 DEF Inserted
  <2>4. ASSUME NEW z \in Senders, NEW t \in 0..MaxClock
        PROVE  \/ Updated(d, z, t) = table
               \/ Contains(d, z) /\ Updated(d, z, t) = Inserted(d, z, t)
    BY DEF Updated, Inserted
  <2>5. ASSUME NEW z \in Senders, NEW t \in 0..MaxClock, NEW e \in Dbs, NEW s \in Senders
        PROVE  /\ Inserted(d, z, t)[e][s] # Missing => Contains(e, s) \/ (e = d /\ s = z)
               /\ Updated(d, z, t)[e][s] # Missing => Contains(e, s)
    <3>1. Inserted(d, z, t)[e][s] # Missing => Contains(e, s) \/ (e = d /\ s = z)
      BY <2>3 DEF Contains
    <3> QED BY <2>4, <3>1 DEF Contains
  <2> QED BY <2>2, <2>5
<1>13. ASSUME NEW m \in Messages, LocalStep(m) PROVE FoundedInv'
  <2>1. at[m] \in Dbs /\ sender[m] \in Senders /\ time[m] \in 0..MaxClock
    OBVIOUS
  <2>2. pc[m] = "insert" => Answer(at[m]) \in said[sender[m]]
    BY <1>2 DEF AboutTo
  <2>3. ASSUME \/ UNCHANGED table
               \/ table' = [table EXCEPT ![at[m]] = Purged(at[m], clock)]
               \/ pc[m] = "insert" /\ InsertCommits(m)
               \/ UpdateCommits(m),
               said' = said
        PROVE  Tables'
    <3>1. CASE UNCHANGED table BY <1>11, <2>3, <3>1 DEF Contains
    <3>2. CASE table' = [table EXCEPT ![at[m]] = Purged(at[m], clock)]
      BY <1>11, <1>12, <2>1, <2>3, <3>2 DEF Contains
    <3>3. CASE pc[m] = "insert" /\ table' = Inserted(at[m], sender[m], time[m])
      BY <1>11, <1>12, <2>1, <2>2, <2>3, <3>3 DEF Contains
    <3>4. CASE table' = Updated(at[m], sender[m], time[m])
      BY <1>11, <1>12, <2>1, <2>3, <3>4 DEF Contains
    <3> QED BY <2>3, <3>1, <3>2, <3>3, <3>4 DEF InsertCommits, UpdateCommits
  <2>4. CASE Purge(m)
    <3>1. Fair(m)' BY <1>4, <2>4 DEF Purge
    <3>2. Tables' BY <2>3, <2>4 DEF Purge
    <3> QED BY <1>3, <1>9, <2>4, <3>1, <3>2 DEF Purge
  <2>5. CASE LookMissing(m)
    <3>1. Fair(m)' BY <1>4, <2>5 DEF LookMissing, Outside
    <3>2. Tables' BY <2>3, <2>5 DEF LookMissing
    <3> QED BY <1>3, <1>9, <2>5, <3>1, <3>2 DEF LookMissing
  <2>6. CASE LookFound(m) \/ Mark(m)
    <3>1. LockToSet(m) BY <2>6 DEF LookFound, Mark
    <3>2. pc[m] = "mark" \/ (pc[m] = "look" /\ Contains(at[m], sender[m]))
      BY <2>6 DEF LookFound, Mark, Contains
    <3>4. said' = said /\ sender' = sender /\ heard' = heard
      BY <3>1 DEF LockToSet
    <3>5. Fair(m)' BY <1>8, <3>1, <3>2, <3>4
    <3>3. Tables' BY <2>3, <3>1 DEF LockToSet
    <3> QED BY <1>3, <1>9, <3>1, <3>3, <3>4, <3>5 DEF LockToSet
  <2>7. CASE Insert(m) \/ Update(m)
    <3>1. Fair(m)' BY <1>7, <2>7 DEF Insert, Update, UnlockAndReturn
    <3>2. Tables' BY <2>3, <2>7 DEF Insert, Update, UnlockAndReturn
    <3> QED BY <1>3, <1>9, <1>10, <2>7, <3>1, <3>2 DEF Insert, Update, UnlockAndReturn
  <2>8. CASE InsertFails(m)
    <3>1. Fair(m)' BY <1>4, <2>8 DEF InsertFails
    <3>2. Tables' BY <2>3, <2>8 DEF InsertFails
    <3> QED BY <1>3, <1>9, <2>8, <3>1, <3>2 DEF InsertFails
  <2>9. CASE StatementRaises(m)
    <3>1. NextServer(m) \/ Returns(m, "unverified")
      BY <2>9 DEF StatementRaises
    <3>2. pc[m] \in Inside /\ said' = said /\ sender' = sender /\ heard' = heard
      BY <2>9 DEF StatementRaises, Inside
    <3>3. Fair(m)' BY <1>5, <1>6, <3>1, <3>2
    <3>4. Tables' BY <2>3, <2>9 DEF StatementRaises
    <3> QED BY <1>3, <1>9, <1>10, <3>1, <3>2, <3>3, <3>4
  <2> QED BY <1>13, <2>4, <2>5, <2>6, <2>7, <2>8, <2>9 DEF LocalStep
<1>14. ASSUME NEW m \in Messages, RemoteStep(m) PROVE FoundedInv'
  <2>1. table' = table
    BY <1>14 DEF RemoteStep, Resolve, ResolveFails, Converse, ServerFails, RcptAnswered
  <2>2. ASSUME said' = said PROVE Tables'
    BY <1>11, <2>1, <2>2 DEF Contains
  <2>3. ASSUME NEW n \in 1..MaxServers, Resolve(m, n) PROVE FoundedInv'
    <3>1. Fair(m)' BY <1>4, <2>3 DEF Resolve, Outside
    <3> QED BY <1>3, <1>9, <2>2, <2>3, <3>1 DEF Resolve
  <2>4. CASE ResolveFails(m)
    <3>1. Fair(m)' BY <1>5, <2>4 DEF ResolveFails
    <3> QED BY <1>3, <1>9, <1>10, <2>2, <2>4, <3>1 DEF ResolveFails
  <2>5. CASE Converse(m)
    <3>1. Fair(m)' BY <1>4, <2>5 DEF Converse, Outside
    <3> QED BY <1>3, <1>9, <2>2, <2>5, <3>1 DEF Converse
  <2>6. CASE ServerFails(m)
    <3>1. Fair(m)' BY <1>6, <2>6 DEF ServerFails
    <3> QED BY <1>3, <1>9, <1>10, <2>2, <2>6, <3>1 DEF ServerFails
  <2>7. ASSUME NEW d \in Dbs, RcptAnswered(m, d) PROVE FoundedInv'
    <3>1. /\ sender' = sender /\ verdict' = verdict
          /\ \A s \in Senders : said[s] \subseteq said'[s]
          /\ Answer(d) \in said'[sender[m]]
          /\ heard'[m] = heard[m] \cup {Answer(d)}
          /\ pc[m] = "rcpt" /\ pc'[m] = "mark" /\ at'[m] = d
          /\ \A n \in Messages \ {m} :
               pc'[n] = pc[n] /\ at'[n] = at[n] /\ heard'[n] = heard[n]
      BY <2>7 DEF RcptAnswered
    <3>2. Tables'
      BY <1>2, <2>1, <3>1 DEF Contains
    <3>3. Fair(m)'
      <4>1. verdict[m] = "none" /\ heard[m] \subseteq said[sender[m]]
        BY <1>2, <3>1 DEF AboutTo
      <4> QED BY <3>1, <4>1 DEF AboutTo, Verdict
    <3>4. ASSUME NEW n \in Messages \ {m} PROVE Fair(n)'
      <4>1. /\ heard[n] \subseteq said'[sender[n]]
            /\ \A e \in Dbs : Answer(e) \in said[sender[n]]
                                => Answer(e) \in said'[sender[n]]
        BY <1>2, <3>1 DEF AboutTo
      <4> QED BY <1>2, <3>1, <4>1 DEF AboutTo
    <3> QED BY <1>3, <3>2, <3>3, <3>4
  <2> QED BY <1>14, <2>3, <2>4, <2>5, <2>6, <2>7 DEF RemoteStep
<1>15. ASSUME NEW m \in Messages, Start(m) \/ ReturnEarly(m) PROVE FoundedInv'
  <2>1. Fair(m)' BY <1>4, <1>5, <1>15 DEF Start, ReturnEarly
  <2>2. Tables' BY <1>11, <1>15 DEF Start, ReturnEarly, Contains
  <2> QED BY <1>3, <1>9, <1>10, <1>15, <2>1, <2>2 DEF Start, ReturnEarly
<1>16. CASE Tick \/ UNCHANGED vars
  <2>1. Tables' BY <1>11, <1>16 DEF Tick, vars, Contains
  <2>2. ASSUME NEW n \in Messages PROVE Fair(n)'
    BY <1>4, <1>16 DEF Tick, vars
  <2> QED BY <1>3, <2>1, <2>2
<1> QED BY <1>13, <1>14, <1>15, <1>16 DEF Next

\* Lines 133-138 and 157-158: whatever a table says of a sender, and whatever
\* doFilter says of him for good, a server has said to his own RCPT.
THEOREM VerdictsAreFounded == Spec => []VerdictFounded
<1>1. Init => FoundedInv
  BY Constants DEF Init, FoundedInv, VerdictFounded, AboutTo, Verdict
<1>2. TypeOK /\ FoundedInv /\ [Next]_vars => FoundedInv'
  BY FoundedStep
<1> QED BY <1>1, <1>2, TypeCorrect, PTL DEF Spec, FoundedInv
=============================================================================
