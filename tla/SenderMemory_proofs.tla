------------------------ MODULE SenderMemory_proofs ------------------------
(***************************************************************************)
(* Proofs about module SenderMemory, for every set of messages, whatever   *)
(* their addresses, all times, intervals and limits, with and without      *)
(* failing flushes and a crash.                                            *)
(***************************************************************************)
EXTENDS SenderMemory, FiniteSetTheorems, TLAPS

LEMMA Constants ==
  /\ NoMessage \notin Messages /\ NoMail \notin Mails
  /\ TTL \in Nat /\ PurgeInterval \in Nat /\ MaxClock \in Nat /\ RatePurge \in Nat
  /\ MinuteTicks \in Nat \ {0} /\ Interval \in Nat \ {0} /\ MaxConnections \in Nat
BY SenderMemoryAssumption

\* The pairs that a message is looked up by, and recorded by, may be stored.
LEMMA PairsOf ==
  ASSUME NEW m \in Mails
  PROVE  /\ {m.from} \X m.to \subseteq Pairs
         /\ m.to \X {m.from} \subseteq Pairs
BY DEF Pairs

\* The minute of an instant, and that minutes go by as instants do.
LEMMA MinuteOf ==
  /\ \A t \in 0..MaxClock : t \div MinuteTicks \in Minutes
  /\ \A t, u \in 0..MaxClock : t <= u => t \div MinuteTicks <= u \div MinuteTicks
<1>1. ASSUME NEW t \in Nat
      PROVE  /\ t \div MinuteTicks \in Nat
             /\ MinuteTicks * (t \div MinuteTicks) <= t
             /\ t < MinuteTicks * (t \div MinuteTicks) + MinuteTicks
  BY Constants
<1>2. ASSUME NEW t \in Nat, NEW u \in Nat, t <= u
      PROVE  t \div MinuteTicks <= u \div MinuteTicks
  <2>1. PICK a \in Nat : a = t \div MinuteTicks /\ MinuteTicks * a <= t
    BY <1>1
  <2>2. PICK b \in Nat : b = u \div MinuteTicks /\ u < MinuteTicks * b + MinuteTicks
    BY <1>1
  <2>3. MinuteTicks * a < MinuteTicks * (b + 1)
    BY <1>2, <2>1, <2>2, Constants
  <2>4. a < b + 1
    BY <2>3, Constants
  <2> QED BY <2>1, <2>2, <2>4
<1> QED BY <1>1, <1>2, Constants DEF Minutes

\* There are finitely many minutes, and so do sums over them make sense.
LEMMA FiniteMinutes == IsFiniteSet(Minutes) /\ Minutes \subseteq Nat
<1>1. MaxClock \div MinuteTicks \in Int
  <2>1. MaxClock \in 0..MaxClock
    BY Constants
  <2> QED BY <2>1, MinuteOf DEF Minutes
<1> QED BY <1>1, FS_Interval DEF Minutes

-----------------------------------------------------------------------------
(* One store: a db, its file, when it was purged, and what was written.    *)
Times   == 0..MaxClock \cup {Never}
Records == [Pairs -> [latest : Times, sure : Times]]
Dbs     == [Pairs -> Nat \cup {Never}]

\* A token is no later than the last write of its pair, and was not outdated
\* when the db was last purged; what was written for certain is there until
\* its TTL has gone by, in the file too.
Store(db, disk, purged, history, now) ==
  /\ purged <= now
  /\ \A p \in Pairs :
       /\ db[p] # Never => db[p] <= history[p].latest /\ db[p] >= purged - TTL
       /\ disk[p] # Never => disk[p] <= history[p].latest
       /\ history[p].latest <= now /\ history[p].sure <= now
       /\ history[p].sure # Never /\ now - history[p].sure <= TTL =>
            db[p] >= history[p].sure /\ disk[p] >= history[p].sure

\* No token is older than a TTL and a purge interval.
Purgeable(db, now) ==
  \A p \in Pairs : db[p] # Never => db[p] >= now - TTL - PurgeInterval

LEMMA StorePurge ==
  ASSUME NEW db \in Dbs, NEW disk \in Dbs, NEW history \in Records,
         NEW purged \in Int, NEW now \in Nat, NEW flushed \in BOOLEAN,
         Store(db, disk, purged, history, now),
         NEW db2, db2 = IF now > purged + PurgeInterval
                        THEN [p \in Pairs |-> IF db[p] < now - TTL THEN Never ELSE db[p]]
                        ELSE db,
         NEW disk2, disk2 = IF flushed THEN db2 ELSE disk,
         NEW purged2, purged2 = IF now > purged + PurgeInterval THEN now ELSE purged
  PROVE  /\ Store(db2, disk2, purged2, history, now) /\ Purgeable(db2, now)
         /\ \A t \in Nat : Purgeable(db, t) => Purgeable(db2, t)
<1> USE Constants DEF Never
<1>1. purged <= now
  BY DEF Store
<1>2. ASSUME NEW p \in Pairs
      PROVE  /\ db2[p] # Never => db2[p] <= history[p].latest /\ db2[p] >= purged2 - TTL
             /\ db2[p] # Never => db2[p] >= now - TTL - PurgeInterval
             /\ history[p].sure # Never /\ now - history[p].sure <= TTL =>
                  db2[p] >= history[p].sure
  <2>1. /\ db[p] \in Nat \cup {Never} /\ history[p].latest \in Int /\ history[p].sure \in Int
        /\ db[p] # Never => db[p] <= history[p].latest /\ db[p] >= purged - TTL
        /\ history[p].sure # Never /\ now - history[p].sure <= TTL => db[p] >= history[p].sure
    BY DEF Store, Records, Times, Dbs
  <2>2. CASE now > purged + PurgeInterval
    BY <2>1, <2>2 DEF Dbs
  <2>3. CASE ~(now > purged + PurgeInterval)
    BY <2>1, <2>3
  <2> QED BY <2>2, <2>3
<1>3. ASSUME NEW p \in Pairs
      PROVE  /\ disk2[p] # Never => disk2[p] <= history[p].latest
             /\ history[p].sure # Never /\ now - history[p].sure <= TTL =>
                  disk2[p] >= history[p].sure
  BY <1>2 DEF Store
<1>4. \A t \in Nat : Purgeable(db, t) => Purgeable(db2, t)
  BY DEF Purgeable
<1>5. \A p \in Pairs : history[p].latest <= now /\ history[p].sure <= now
  BY DEF Store
<1> QED BY <1>1, <1>2, <1>3, <1>4, <1>5 DEF Store, Purgeable

LEMMA WrittenType ==
  ASSUME NEW history \in Records, clock \in 0..MaxClock, NEW pairs, NEW flushed \in BOOLEAN
  PROVE  Written(history, pairs, flushed) \in Records
<1>1. ASSUME NEW p \in Pairs
      PROVE  Written(history, pairs, flushed)[p] \in [latest : Times, sure : Times]
  BY DEF Records, Written, Times
<1> QED BY <1>1 DEF Records, Written

LEMMA StoreSet ==
  ASSUME NEW db \in Dbs, NEW disk \in Dbs, NEW history \in Records,
         NEW purged \in Int, clock \in 0..MaxClock, NEW flushed \in BOOLEAN,
         Store(db, disk, purged, history, clock), NEW pairs,
         NEW disk2, disk2 = IF flushed THEN Set(db, pairs) ELSE disk
  PROVE  /\ Store(Set(db, pairs), disk2, purged, Written(history, pairs, flushed), clock)
         /\ Written(history, pairs, flushed) \in Records
         /\ Set(db, pairs) \in Dbs /\ disk2 \in Dbs
         /\ \A t \in 0..clock : Purgeable(db, t) => Purgeable(Set(db, pairs), t)
<1> DEFINE db2 == Set(db, pairs)  hist2 == Written(history, pairs, flushed)
<1> USE Constants DEF Never
<1>1. db2 \in Dbs /\ disk2 \in Dbs
  BY DEF Dbs, Set
<1>2. hist2 \in Records
  BY WrittenType
<1>3. purged <= clock
  BY DEF Store
<1>4. ASSUME NEW p \in Pairs
      PROVE  /\ db2[p] # Never => db2[p] <= hist2[p].latest /\ db2[p] >= purged - TTL
             /\ disk2[p] # Never => disk2[p] <= hist2[p].latest
             /\ hist2[p].sure # Never /\ clock - hist2[p].sure <= TTL =>
                  db2[p] >= hist2[p].sure /\ disk2[p] >= hist2[p].sure
  <2>1. /\ db[p] \in Nat \cup {Never} /\ disk[p] \in Nat \cup {Never}
        /\ history[p].latest \in Times /\ history[p].sure \in Times
        /\ db[p] # Never => db[p] <= history[p].latest /\ db[p] >= purged - TTL
        /\ disk[p] # Never => disk[p] <= history[p].latest
        /\ history[p].sure # Never /\ clock - history[p].sure <= TTL =>
             db[p] >= history[p].sure /\ disk[p] >= history[p].sure
    BY DEF Store, Records, Dbs
  <2>2. CASE p \notin pairs
    <3>1. db2[p] = db[p] /\ disk2[p] \in {db[p], disk[p]} /\ hist2[p] = history[p]
      BY <2>2 DEF Set, Written
    <3> QED BY <2>1, <3>1
  <2>3. CASE p \in pairs
    <3>1. /\ db2[p] = clock /\ disk2[p] = (IF flushed THEN clock ELSE disk[p])
          /\ hist2[p].latest = clock
          /\ hist2[p].sure = (IF flushed THEN clock ELSE history[p].sure)
      BY <2>3 DEF Set, Written
    <3>2. history[p].latest <= clock /\ history[p].sure <= clock
      BY DEF Store
    <3>3. db2[p] <= hist2[p].latest /\ db2[p] >= purged - TTL
      BY <1>3, <3>1, Constants
    <3>4. disk2[p] # Never => disk2[p] <= hist2[p].latest
      BY <2>1, <3>1, <3>2, Constants DEF Times
    <3>5. hist2[p].sure # Never /\ clock - hist2[p].sure <= TTL =>
            db2[p] >= hist2[p].sure /\ disk2[p] >= hist2[p].sure
      <4>1. CASE flushed BY <3>1, <4>1
      <4>2. CASE ~flushed BY <2>1, <3>1, <3>2, <4>2 DEF Times
      <4> QED BY <4>1, <4>2
    <3> QED BY <3>3, <3>4, <3>5
  <2> QED BY <2>2, <2>3
<1>5. \A t \in 0..clock : Purgeable(db, t) => Purgeable(db2, t)
  BY DEF Purgeable, Set
<1>6. ASSUME NEW p \in Pairs PROVE hist2[p].latest <= clock /\ hist2[p].sure <= clock
  BY DEF Written, Store
<1> QED BY <1>1, <1>2, <1>3, <1>4, <1>5, <1>6 DEF Store

LEMMA StoreTick ==
  ASSUME NEW db \in Dbs, NEW disk \in Dbs, NEW history \in Records,
         NEW purged \in Int, NEW now \in Nat, Store(db, disk, purged, history, now)
  PROVE  Store(db, disk, purged, history, now + 1)
BY Constants DEF Store, Records, Times, Never

\* What a restart finds is what was written or an older state of the file.
LEMMA StoreReopen ==
  ASSUME NEW db \in Dbs, NEW disk \in Dbs, NEW history \in Records,
         NEW purged \in Int, NEW now \in Nat, Store(db, disk, purged, history, now),
         NEW db2, DOMAIN db2 = Pairs, \A p \in Pairs : db2[p] \in {db[p], disk[p]}
  PROVE  Store(db2, db2, -(PurgeInterval + 1), history, now)
<1> USE Constants DEF Never
<1>1. ASSUME NEW p \in Pairs
      PROVE  /\ db2[p] # Never => /\ db2[p] <= history[p].latest
                                 /\ db2[p] >= -(PurgeInterval + 1) - TTL
             /\ history[p].latest <= now /\ history[p].sure <= now
             /\ history[p].sure # Never /\ now - history[p].sure <= TTL =>
                  db2[p] >= history[p].sure
  BY DEF Store, Dbs
<1> QED BY <1>1 DEF Store

-----------------------------------------------------------------------------
(* Types.                                                                  *)
Pcs == {"idle", "whitelist", "purge senders", "senders", "rate", "done", "killed"}

Tables == [Minutes -> [Keys -> Nat]]

TypeInv ==
  /\ TypeOK
  /\ pc \in [Messages -> Pcs]
  /\ verdict \in [Messages -> {"none", "200", "come again", "pass", "slow down"}]
  /\ mail \in [Messages -> Mails \cup {NoMail}]
  /\ since \in [Messages -> Times]
  /\ standing \in [Messages -> {"none", "known", "unknown", "unsure"}]
  /\ clock \in 0..MaxClock
  /\ sent \in Records /\ tried \in Records

LEMMA StoreTypes ==
  ASSUME TypeInv
  PROVE  /\ whitelist \in Dbs /\ whitelistDisk \in Dbs /\ whitelistPurged \in Int
         /\ senders \in Dbs /\ sendersDisk \in Dbs /\ sendersPurged \in Int
         /\ clock \in Nat
<1>1. Whitelist!TypeOK /\ Senders!TypeOK /\ clock \in 0..MaxClock
  BY DEF TypeInv, TypeOK
<1>2. whitelist \in Dbs /\ whitelistDisk \in Dbs /\ whitelistPurged \in Int
  BY <1>1, Constants DEF Dbs, Whitelist!TypeOK, Whitelist!Missing, Whitelist!LongAgo, Never
<1>3. senders \in Dbs /\ sendersDisk \in Dbs /\ sendersPurged \in Int
  BY <1>1, Constants DEF Dbs, Senders!TypeOK, Senders!Missing, Senders!LongAgo, Never
<1> QED BY <1>1, <1>2, <1>3

LEMMA WhitelistType ==
  ASSUME Whitelist!TypeOK, clock \in Nat
  PROVE  /\ \A flushed \in BOOLEAN : Whitelist!Purge(clock, flushed) => Whitelist!TypeOK'
         /\ \A flushed \in BOOLEAN, contents \in Dbs :
              Whitelist!Access(contents, flushed) => Whitelist!TypeOK'
         /\ Whitelist!Reopen => Whitelist!TypeOK'
         /\ UNCHANGED whitelistVars => Whitelist!TypeOK'
<1> USE DEF Whitelist!TypeOK, Whitelist!Missing
<1>1. ASSUME NEW flushed \in BOOLEAN, Whitelist!Purge(clock, flushed)
      PROVE  Whitelist!TypeOK'
  BY <1>1 DEF Whitelist!Purge, Whitelist!Purged
<1>2. ASSUME NEW flushed \in BOOLEAN, NEW contents \in Dbs,
             Whitelist!Access(contents, flushed)
      PROVE  Whitelist!TypeOK'
  BY <1>2 DEF Whitelist!Access, Dbs, Never
<1>3. ASSUME Whitelist!Reopen PROVE Whitelist!TypeOK'
  BY <1>3 DEF Whitelist!Reopen
<1>4. ASSUME UNCHANGED whitelistVars PROVE Whitelist!TypeOK'
  BY <1>4 DEF whitelistVars
<1> QED BY <1>1, <1>2, <1>3, <1>4

LEMMA SendersType ==
  ASSUME Senders!TypeOK, clock \in Nat
  PROVE  /\ \A flushed \in BOOLEAN : Senders!Purge(clock, flushed) => Senders!TypeOK'
         /\ \A flushed \in BOOLEAN, contents \in Dbs :
              Senders!Access(contents, flushed) => Senders!TypeOK'
         /\ Senders!Reopen => Senders!TypeOK'
         /\ UNCHANGED sendersVars => Senders!TypeOK'
<1> USE DEF Senders!TypeOK, Senders!Missing
<1>1. ASSUME NEW flushed \in BOOLEAN, Senders!Purge(clock, flushed)
      PROVE  Senders!TypeOK'
  BY <1>1 DEF Senders!Purge, Senders!Purged
<1>2. ASSUME NEW flushed \in BOOLEAN, NEW contents \in Dbs,
             Senders!Access(contents, flushed)
      PROVE  Senders!TypeOK'
  BY <1>2 DEF Senders!Access, Dbs, Never
<1>3. ASSUME Senders!Reopen PROVE Senders!TypeOK'
  BY <1>3 DEF Senders!Reopen
<1>4. ASSUME UNCHANGED sendersVars PROVE Senders!TypeOK'
  BY <1>4 DEF sendersVars
<1> QED BY <1>1, <1>2, <1>3, <1>4

LEMMA InitType == Init => TypeInv
<1> SUFFICES ASSUME Init PROVE TypeInv
  OBVIOUS
<1> USE Constants DEF Init
<1>1. Whitelist!TypeOK /\ Senders!TypeOK
  BY DEF Whitelist!TypeOK, Senders!TypeOK, Whitelist!Open, Senders!Open,
         Whitelist!Missing, Senders!Missing
<1>2. rate \in Tables /\ came \in Tables /\ past \in Tables
  BY DEF NoRate, Tables
<1>3. sent \in Records /\ tried \in Records
  BY DEF NoRecord, Records, Times
<1>4. TypeOK
  BY <1>1, <1>2 DEF TypeOK, Tables
<1> QED BY <1>3, <1>4 DEF TypeInv, Pcs, Times

\* The parts of TypeInv about the messages.
MessagesOK ==
  /\ pc \in [Messages -> Pcs]
  /\ verdict \in [Messages -> {"none", "200", "come again", "pass", "slow down"}]
  /\ mail \in [Messages -> Mails \cup {NoMail}]
  /\ since \in [Messages -> Times]
  /\ standing \in [Messages -> {"none", "known", "unknown", "unsure"}]
  /\ \A m \in Messages :
       /\ mail[m] = NoMail <=> pc[m] \in {"idle", "killed"}
       /\ pc[m] = "done" <=> verdict[m] # "none"

\* The parts about the table of ratelimit.
RateOK ==
  /\ rate \in Tables /\ came \in Tables /\ past \in Tables
  /\ ratePurged \in Minutes \cup {LongAgo}

LEMMA TypeParts ==
  TypeInv <=> /\ Whitelist!TypeOK /\ Senders!TypeOK /\ MessagesOK /\ RateOK
              /\ clock \in 0..MaxClock /\ sent \in Records /\ tried \in Records
BY DEF TypeInv, TypeOK, MessagesOK, RateOK, Tables

LEMMA StandingType ==
  ASSUME NEW m \in Messages, NEW history, NEW pairs
  PROVE  Standing(m, history, pairs) \in {"known", "unknown", "unsure"}
BY DEF Standing

\* A filter goes on, or ends with a verdict.
LEMMA Moves ==
  ASSUME MessagesOK, NEW m \in Messages, pc[m] \notin {"idle", "killed", "done"},
         NEW to \in Pcs \ {"idle", "killed"}, pc' = [pc EXCEPT ![m] = to],
         NEW v \in {"none", "200", "come again", "pass", "slow down"},
         verdict' = [verdict EXCEPT ![m] = v], to = "done" <=> v # "none",
         mail' = mail, since' \in [Messages -> Times],
         standing' \in [Messages -> {"none", "known", "unknown", "unsure"}]
  PROVE  MessagesOK'
<1>1. pc' \in [Messages -> Pcs]
  BY DEF MessagesOK
<1>2. verdict' \in [Messages -> {"none", "200", "come again", "pass", "slow down"}]
  BY DEF MessagesOK
<1>3. ASSUME NEW n \in Messages
      PROVE  /\ mail'[n] = NoMail <=> pc'[n] \in {"idle", "killed"}
             /\ pc'[n] = "done" <=> verdict'[n] # "none"
  <2>1. CASE n = m BY <2>1 DEF MessagesOK
  <2>2. CASE n # m BY <2>2 DEF MessagesOK
  <2> QED BY <2>1, <2>2
<1>4. mail' \in [Messages -> Mails \cup {NoMail}]
  BY DEF MessagesOK
<1> QED BY <1>1, <1>2, <1>3, <1>4 DEF MessagesOK

\* What a message does to its own locals.
LEMMA MessagesStep ==
  ASSUME TypeInv, NEW m \in Messages,
         \/ WhitelistPurge(m) \/ WhitelistRecipients(m) \/ CheckWhitelist(m)
         \/ NullSender(m) \/ SendersPurge(m) \/ ComeAgain(m) \/ RateLimit(m)
  PROVE  MessagesOK'
<1> USE StandingType DEF MessagesOK, Pcs, Times, Goes, Ends, msgVars
<1>1. MessagesOK /\ clock \in Times
  BY TypeParts
<1>2. CASE WhitelistPurge(m)
  <2>1. PICK new \in Mails : mail' = [mail EXCEPT ![m] = new]
    BY <1>2 DEF WhitelistPurge
  <2>2. new # NoMail
    BY Constants
  <2> QED BY <1>1, <1>2, <2>1, <2>2 DEF WhitelistPurge
<1>3. CASE WhitelistRecipients(m) BY <1>1, <1>3 DEF WhitelistRecipients
<1>4. CASE CheckWhitelist(m)
  <2>1. PICK flushed \in BOOLEAN :
          /\ IF flushed /\ FoundWhitelisted(m)
             THEN Ends(m, "whitelist", "200")
             ELSE Goes(m, "whitelist", "purge senders") /\ UNCHANGED verdict
          /\ standing' = [standing EXCEPT ![m] = IF flushed
               THEN Standing(m, sent, mail[m].to \X {mail[m].from}) ELSE "none"]
    BY <1>4 DEF CheckWhitelist
  <2>2. mail' = mail /\ since' = since /\ pc[m] = "whitelist"
    BY <1>4 DEF CheckWhitelist
  <2>0. PICK s \in {"none", "known", "unknown", "unsure"} : standing' = [standing EXCEPT ![m] = s]
    BY <2>1
  <2>3. standing' \in [Messages -> {"none", "known", "unknown", "unsure"}]
    BY <1>1, <2>0
  <2>4. /\ since' \in [Messages -> Times] /\ verdict[m] = "none"
        /\ verdict = [verdict EXCEPT ![m] = "none"]
    BY <1>1, <2>2
  <2>5. CASE flushed /\ FoundWhitelisted(m)
    <3>1. pc' = [pc EXCEPT ![m] = "done"] /\ verdict' = [verdict EXCEPT ![m] = "200"]
      BY <2>1, <2>5
    <3> QED BY <1>1, <2>2, <2>3, <2>4, <3>1, Moves
  <2>6. CASE ~(flushed /\ FoundWhitelisted(m))
    <3>1. pc' = [pc EXCEPT ![m] = "purge senders"] /\ verdict' = [verdict EXCEPT ![m] = "none"]
      BY <2>1, <2>4, <2>6
    <3> QED BY <1>1, <2>2, <2>3, <2>4, <3>1, Moves
  <2> QED BY <2>5, <2>6
<1>5. CASE NullSender(m) BY <1>1, <1>5 DEF NullSender
<1>6. CASE SendersPurge(m) BY <1>1, <1>6 DEF SendersPurge
<1>7. CASE ComeAgain(m)
  <2> DEFINE pairs == {mail[m].from} \X mail[m].to
  <2>1. PICK flushed \in BOOLEAN :
          /\ \/ Ends(m, "senders", "come again")
             \/ Goes(m, "senders", "rate") /\ UNCHANGED verdict
          /\ standing' = [standing EXCEPT ![m] =
               IF flushed THEN Standing(m, tried, pairs) ELSE "none"]
    BY <1>7 DEF ComeAgain
  <2>2. mail' = mail /\ since' = since /\ pc[m] = "senders"
    BY <1>7 DEF ComeAgain
  <2>0. PICK s \in {"none", "known", "unknown", "unsure"} : standing' = [standing EXCEPT ![m] = s]
    BY <2>1
  <2>3. standing' \in [Messages -> {"none", "known", "unknown", "unsure"}]
    BY <1>1, <2>0
  <2>4. /\ since' \in [Messages -> Times] /\ verdict[m] = "none"
        /\ verdict = [verdict EXCEPT ![m] = "none"]
    BY <1>1, <2>2
  <2> HIDE DEF pairs
  <2>5. CASE Ends(m, "senders", "come again")
    <3>1. pc' = [pc EXCEPT ![m] = "done"] /\ verdict' = [verdict EXCEPT ![m] = "come again"]
      BY <2>5
    <3> QED BY <1>1, <2>2, <2>3, <2>4, <3>1, Moves
  <2>6. CASE Goes(m, "senders", "rate") /\ UNCHANGED verdict
    <3>1. pc' = [pc EXCEPT ![m] = "rate"] /\ verdict' = [verdict EXCEPT ![m] = "none"]
      BY <2>4, <2>6
    <3> QED BY <1>1, <2>2, <2>3, <2>4, <3>1, Moves
  <2> QED BY <2>1, <2>5, <2>6
<1>8. CASE RateLimit(m)
  <2>1. PICK v \in {"pass", "slow down"} : Ends(m, "rate", v)
    BY <1>8 DEF RateLimit
  <2>2. since' = [since EXCEPT ![m] = clock] /\ mail' = mail /\ standing' = standing
    BY <1>8 DEF RateLimit
  <2>3. since' \in [Messages -> Times] /\ pc[m] = "rate"
    BY <1>1, <1>8, <2>2 DEF RateLimit
  <2>4. pc' = [pc EXCEPT ![m] = "done"] /\ verdict' = [verdict EXCEPT ![m] = v]
    BY <2>1
  <2>5. standing' \in [Messages -> {"none", "known", "unknown", "unsure"}]
    BY <1>1, <2>2
  <2> QED BY <1>1, <2>2, <2>3, <2>4, <2>5, Moves
<1> QED BY <1>2, <1>3, <1>4, <1>5, <1>6, <1>7, <1>8

LEMMA TypeStep ==
  ASSUME TypeInv, [Next]_vars
  PROVE  TypeInv'
<1> USE DEF msgVars
<1>1. /\ Whitelist!TypeOK /\ Senders!TypeOK /\ MessagesOK /\ RateOK
      /\ clock \in 0..MaxClock /\ clock \in Nat /\ sent \in Records /\ tried \in Records
  BY TypeParts, StoreTypes
<1> DEFINE Parts == /\ Whitelist!TypeOK /\ Senders!TypeOK /\ MessagesOK /\ RateOK
                    /\ clock \in 0..MaxClock /\ sent \in Records /\ tried \in Records
<1>13. Parts' => TypeInv'
  BY DEF TypeInv, TypeOK, MessagesOK, RateOK, Tables
<1>2. UNCHANGED rateVars => RateOK'
  BY <1>1 DEF rateVars, RateOK
<1>3. ASSUME NEW m \in Messages, WhitelistPurge(m) PROVE TypeInv'
  BY <1>1, <1>2, <1>3, MessagesStep, WhitelistType, SendersType, <1>13
     DEF WhitelistPurge, sendersVars
<1>4. ASSUME NEW m \in Messages, WhitelistRecipients(m) PROVE TypeInv'
  <2>1. PICK flushed \in BOOLEAN :
          /\ Whitelist!Access(Set(whitelist, ToRecord(m)), flushed)
          /\ sent' = Written(sent, {p \in Pairs : p[1] = mail[m].from
                               /\ p[2] \in mail[m].to /\ p[1] # p[2]}, flushed)
    BY <1>4 DEF WhitelistRecipients
  <2>2. Set(whitelist, ToRecord(m)) \in Dbs
    BY <1>1, StoreTypes DEF Set, Dbs
  <2>3. sent' \in Records
    BY <1>1, <2>1, WrittenType
  <2> QED BY <1>1, <1>2, <1>4, <2>1, <2>2, <2>3, MessagesStep, WhitelistType, SendersType,
             <1>13 DEF WhitelistRecipients, sendersVars
<1>5. ASSUME NEW m \in Messages, CheckWhitelist(m) PROVE TypeInv'
  <2>1. whitelist \in Dbs
    BY StoreTypes
  <2> QED BY <1>1, <1>2, <1>5, <2>1, MessagesStep, WhitelistType, SendersType, <1>13
             DEF CheckWhitelist, sendersVars
<1>6. ASSUME NEW m \in Messages, NullSender(m) PROVE TypeInv'
  BY <1>1, <1>2, <1>6, MessagesStep, WhitelistType, SendersType, <1>13
     DEF NullSender, whitelistVars, sendersVars
<1>7. ASSUME NEW m \in Messages, SendersPurge(m) PROVE TypeInv'
  BY <1>1, <1>2, <1>7, MessagesStep, WhitelistType, SendersType, <1>13
     DEF SendersPurge, whitelistVars
<1>8. ASSUME NEW m \in Messages, ComeAgain(m) PROVE TypeInv'
  <2> DEFINE pairs == {mail[m].from} \X mail[m].to
  <2>1. PICK flushed \in BOOLEAN : /\ Senders!Access(Set(senders, pairs), flushed)
                                   /\ tried' = Written(tried, pairs, flushed)
    BY <1>8 DEF ComeAgain
  <2>2. Set(senders, pairs) \in Dbs
    BY <1>1, StoreTypes DEF Set, Dbs
  <2>3. tried' \in Records
    BY <1>1, <2>1, WrittenType
  <2> HIDE DEF pairs
  <2> QED BY <1>1, <1>2, <1>8, <2>1, <2>2, <2>3, MessagesStep, WhitelistType, SendersType,
             <1>13 DEF ComeAgain, whitelistVars
<1>9. ASSUME NEW m \in Messages, RateLimit(m) PROVE TypeInv'
  <2>1. Now \in Minutes /\ Key(mail[m].ip) \in Keys
    <3>1. mail[m] \in Mails
      BY <1>1, <1>9 DEF RateLimit, MessagesOK
    <3> QED BY <1>1, <3>1, MinuteOf DEF Now, Keys
  <2>2. ASSUME NEW t \in Tables
        PROVE  [t EXCEPT ![Now][Key(mail[m].ip)] = @ + 1] \in Tables
    BY <2>1 DEF Tables
  <2>3. Scrubbed \in Tables
    BY <1>1 DEF Scrubbed, RateOK, Tables, NoRate
  <2>4. RateOK'
    BY <1>1, <1>9, <2>1, <2>2, <2>3 DEF RateLimit, RateOK
  <2> QED BY <1>1, <1>9, <2>4, MessagesStep, WhitelistType, SendersType, <1>13
             DEF RateLimit, whitelistVars, sendersVars
<1>10. CASE Tick
  <2>1. clock' \in 0..MaxClock
    BY <1>1, <1>10, Constants DEF Tick
  <2>3. UNCHANGED msgVars
    BY <1>10 DEF Tick
  <2>2. MessagesOK'
    BY <1>1, <2>3 DEF MessagesOK
  <2> QED BY <1>1, <1>2, <1>10, <2>1, <2>2, WhitelistType, SendersType, <1>13
             DEF Tick, whitelistVars, sendersVars
<1>11. CASE Crash
  <2>1. MessagesOK'
    BY <1>1, <1>11 DEF Crash, MessagesOK, Pcs, Times
  <2>2. RateOK'
    BY <1>1, <1>11 DEF Crash, RateOK, Tables, NoRate
  <2> QED BY <1>1, <1>11, <2>1, <2>2, WhitelistType, SendersType, <1>13 DEF Crash
<1>12. CASE UNCHANGED vars
  BY <1>1, <1>2, <1>12, WhitelistType, SendersType, <1>13
     DEF vars, whitelistVars, sendersVars, MessagesOK
<1> QED BY <1>3, <1>4, <1>5, <1>6, <1>7, <1>8, <1>9, <1>10, <1>11, <1>12 DEF Next

\* Every variable keeps its type, a message has a verdict when its thread ends
\* and what is known of it while it lasts.
THEOREM TypeCorrect == Spec => []TypeOK
<1>1. TypeInv => TypeOK
  BY DEF TypeInv
<1>2. TypeInv /\ [Next]_vars => TypeInv'
  BY TypeStep
<1> QED BY <1>1, <1>2, InitType, PTL DEF Spec

-----------------------------------------------------------------------------
(* What the stores remember.                                               *)
WhitelistInv == Store(whitelist, whitelistDisk, whitelistPurged, sent, clock)
SendersInv   == Store(senders, sendersDisk, sendersPurged, tried, clock)

\* What is known of a message at each point, and what the purge before its
\* look-up has left of the store; the first four lines are those of
\* ExemptByCorrespondence and HeldUpOnce.
MessageInv(m) ==
  /\ verdict[m] = "200" => standing[m] # "unknown"
  /\ pc[m] = "purge senders" => standing[m] # "known"
  /\ verdict[m] = "come again" => standing[m] # "known"
  /\ verdict[m] \in {"pass", "slow down"} \/ pc[m] = "rate" => standing[m] # "unknown"
  /\ since[m] <= clock
  /\ pc[m] \in {"idle", "whitelist", "senders"} => standing[m] = "none"
  /\ pc[m] = "whitelist" => since[m] # Never /\ Purgeable(whitelist, since[m])
  /\ pc[m] = "senders" => since[m] # Never /\ Purgeable(senders, since[m])

MemoryInv ==
  /\ TypeInv /\ WhitelistInv /\ SendersInv
  /\ \A m \in Messages : MessageInv(m)

LEMMA InitMemory == Init => MemoryInv
<1> SUFFICES ASSUME Init PROVE MemoryInv
  OBVIOUS
<1>1. WhitelistInv /\ SendersInv
  BY Constants DEF Init, WhitelistInv, SendersInv, Store, Whitelist!Open, Senders!Open,
     Whitelist!Missing, Senders!Missing, Whitelist!LongAgo, Senders!LongAgo, NoRecord, Never
<1>3. \A m \in Messages : MessageInv(m)
  BY DEF Init, MessageInv, Never
<1> QED BY <1>1, <1>3, InitType DEF MemoryInv

\* A token in the store is of a pair that was written within the TTL and one
\* purge interval before the look-up; a pair written for certain within the
\* TTL is in the store.
LEMMA LookedUp ==
  ASSUME NEW m \in Messages, NEW db \in Dbs, NEW disk, NEW history \in Records, NEW purged,
         NEW pairs \in SUBSET Pairs, since[m] \in Times, clock \in Nat,
         Store(db, disk, purged, history, clock)
  PROVE  /\ Purgeable(db, since[m]) /\ (\A p \in pairs : db[p] # Never) =>
              Standing(m, history, pairs) # "unknown"
         /\ (\E p \in pairs : db[p] = Never) => Standing(m, history, pairs) # "known"
<1> USE Constants DEF Never
<1>1. ASSUME NEW p \in pairs
      PROVE  /\ p \in Pairs /\ db[p] \in Nat \cup {-1}
             /\ history[p].latest \in Int /\ history[p].sure \in Int /\ history[p].sure >= -1
             /\ db[p] # Never => db[p] <= history[p].latest
             /\ history[p].sure # Never /\ clock - history[p].sure <= TTL =>
                  db[p] >= history[p].sure
  BY DEF Records, Times, Dbs, Store
<1>2. ASSUME Purgeable(db, since[m]), \A p \in pairs : db[p] # Never
      PROVE  Standing(m, history, pairs) # "unknown"
  <2>1. since[m] \in Int
    BY DEF Times
  <2>2. ASSUME NEW p \in pairs
        PROVE  /\ history[p].latest # Never
               /\ ~(since[m] - history[p].latest > TTL + PurgeInterval)
    <3>1. db[p] >= since[m] - TTL - PurgeInterval /\ db[p] <= history[p].latest /\ db[p] \in Nat
      BY <1>1, <1>2 DEF Purgeable
    <3> QED BY <1>1, <2>1, <3>1
  <2> QED BY <2>2 DEF Standing
<1>3. ASSUME NEW p \in pairs, db[p] = Never
      PROVE  Standing(m, history, pairs) # "known"
  <2>1. ~(history[p].sure # Never /\ clock - history[p].sure <= TTL)
    BY <1>1, <1>3
  <2> QED BY <2>1 DEF Standing
<1> QED BY <1>2, <1>3

\* The db of auto_whitelist remembers what it should, and what a message that
\* is about to look it up has purged stays so.
LEMMA WhitelistStep ==
  ASSUME TypeInv, WhitelistInv, [Next]_vars
  PROVE  /\ WhitelistInv'
         /\ \A n \in Messages :
              since[n] \in 0..clock /\ Purgeable(whitelist, since[n]) /\ pc'[n] = "whitelist" =>
                Purgeable(whitelist', since[n])
         /\ \A n \in Messages : WhitelistPurge(n) => Purgeable(whitelist', clock)
<1> DEFINE Kept == \A n \in Messages :
                     since[n] \in 0..clock /\ Purgeable(whitelist, since[n]) =>
                       Purgeable(whitelist', since[n])
<1> USE StoreTypes DEF WhitelistInv
<1>1. sent \in Records /\ clock \in 0..MaxClock
  BY DEF TypeInv
<1>2. ASSUME UNCHANGED <<whitelist, whitelistDisk, whitelistPurged, sent, clock>>
      PROVE  WhitelistInv' /\ Kept
  BY <1>2
<1>3. ASSUME NEW m \in Messages, WhitelistPurge(m)
      PROVE  WhitelistInv' /\ Kept /\ Purgeable(whitelist', clock)
  <2>1. PICK flushed \in BOOLEAN :
          /\ whitelist' = IF clock > whitelistPurged + PurgeInterval
                          THEN [p \in Pairs |-> IF whitelist[p] < clock - TTL THEN Never
                                                ELSE whitelist[p]]
                          ELSE whitelist
          /\ whitelistDisk' = IF flushed THEN whitelist' ELSE whitelistDisk
          /\ whitelistPurged' = IF clock > whitelistPurged + PurgeInterval
                                THEN clock ELSE whitelistPurged
    BY <1>3 DEF WhitelistPurge, Whitelist!Purge, Whitelist!Purged, Whitelist!Expired,
                Whitelist!Missing, Never
  <2>2. sent' = sent /\ clock' = clock
    BY <1>3 DEF WhitelistPurge
  <2>3. /\ Store(whitelist', whitelistDisk', whitelistPurged', sent, clock)
        /\ Purgeable(whitelist', clock)
        /\ \A t \in Nat : Purgeable(whitelist, t) => Purgeable(whitelist', t)
    BY <1>1, <2>1, StorePurge
  <2> QED BY <1>1, <2>2, <2>3
<1>4. ASSUME NEW m \in Messages, WhitelistRecipients(m)
      PROVE  WhitelistInv' /\ Kept
  <2> DEFINE pairs == {p \in Pairs : p[1] = mail[m].from /\ p[2] \in mail[m].to /\ p[1] # p[2]}
  <2>1. PICK flushed \in BOOLEAN :
          /\ Whitelist!Access(Set(whitelist, ToRecord(m)), flushed)
          /\ sent' = Written(sent, pairs, flushed)
    BY <1>4 DEF WhitelistRecipients
  <2>2. \A p \in Pairs : p \in ToRecord(m) <=> p \in pairs
    <3>1. \A p \in Pairs : \E a, b : p = <<a, b>>
      BY DEF Pairs
    <3> QED BY <3>1 DEF ToRecord
  <2>3. Set(whitelist, ToRecord(m)) = Set(whitelist, pairs)
    BY <2>2 DEF Set
  <2>4. /\ whitelist' = Set(whitelist, pairs)
        /\ whitelistDisk' = IF flushed THEN Set(whitelist, pairs) ELSE whitelistDisk
        /\ whitelistPurged' = whitelistPurged /\ clock' = clock
    BY <1>4, <2>1, <2>3 DEF WhitelistRecipients, Whitelist!Access
  <2> HIDE DEF pairs
  <2>5. /\ Store(whitelist', whitelistDisk', whitelistPurged, sent', clock)
        /\ \A t \in 0..clock : Purgeable(whitelist, t) => Purgeable(whitelist', t)
    BY <1>1, <2>1, <2>4, StoreSet
  <2> QED BY <2>4, <2>5
<1>5. ASSUME NEW m \in Messages, CheckWhitelist(m)
      PROVE  WhitelistInv' /\ Kept
  <2>1. PICK flushed \in BOOLEAN :
          /\ whitelist' = whitelist /\ whitelistPurged' = whitelistPurged
          /\ whitelistDisk' = IF flushed THEN whitelist ELSE whitelistDisk
    BY <1>5 DEF CheckWhitelist, Whitelist!Access
  <2>2. sent' = sent /\ clock' = clock
    BY <1>5 DEF CheckWhitelist
  <2> QED BY <2>1, <2>2 DEF Store
<1>6. ASSUME NEW m \in Messages, NullSender(m) \/ SendersPurge(m) \/ ComeAgain(m) \/ RateLimit(m)
      PROVE  WhitelistInv' /\ Kept
  BY <1>2, <1>6 DEF NullSender, SendersPurge, ComeAgain, RateLimit, whitelistVars
<1>7. ASSUME Tick PROVE WhitelistInv' /\ Kept
  <2>1. /\ clock' = clock + 1
        /\ UNCHANGED <<whitelist, whitelistDisk, whitelistPurged, sent>>
    BY <1>7 DEF Tick, whitelistVars
  <2>2. Store(whitelist, whitelistDisk, whitelistPurged, sent, clock + 1)
    BY <1>1, StoreTick
  <2> QED BY <2>1, <2>2
<1>8. ASSUME Crash PROVE WhitelistInv' /\ \A n \in Messages : pc'[n] # "whitelist"
  <2>1. /\ whitelistDisk' = whitelist' /\ whitelistPurged' = -(PurgeInterval + 1)
        /\ DOMAIN whitelist' = Pairs
        /\ \A p \in Pairs : whitelist'[p] \in {whitelist[p], whitelistDisk[p]}
    BY <1>8 DEF Crash, Whitelist!Reopen, Whitelist!LongAgo
  <2>2. sent' = sent /\ clock' = clock
    BY <1>8 DEF Crash
  <2>3. \A n \in Messages : pc'[n] # "whitelist"
    BY <1>8 DEF Crash
  <2>4. Store(whitelist', whitelist', -(PurgeInterval + 1), sent, clock)
    BY <1>1, <2>1, StoreReopen
  <2> QED BY <2>1, <2>2, <2>3, <2>4
<1>9. ASSUME UNCHANGED vars PROVE WhitelistInv' /\ Kept
  <2>1. UNCHANGED <<whitelist, whitelistDisk, whitelistPurged, sent, clock>>
    BY <1>9 DEF vars, whitelistVars
  <2> QED BY <1>2, <2>1
<1> QED
  BY <1>3, <1>4, <1>5, <1>6, <1>7, <1>8, <1>9 DEF Next

\* The same for the db of comeagain.
LEMMA SendersStep ==
  ASSUME TypeInv, SendersInv, [Next]_vars
  PROVE  /\ SendersInv'
         /\ \A n \in Messages :
              since[n] \in 0..clock /\ Purgeable(senders, since[n]) /\ pc'[n] = "senders" =>
                Purgeable(senders', since[n])
         /\ \A n \in Messages : SendersPurge(n) => Purgeable(senders', clock)
<1> DEFINE Kept == \A n \in Messages :
                     since[n] \in 0..clock /\ Purgeable(senders, since[n]) =>
                       Purgeable(senders', since[n])
<1> USE StoreTypes DEF SendersInv
<1>1. tried \in Records /\ clock \in 0..MaxClock
  BY DEF TypeInv
<1>2. ASSUME UNCHANGED <<senders, sendersDisk, sendersPurged, tried, clock>>
      PROVE  SendersInv' /\ Kept
  BY <1>2
<1>3. ASSUME NEW m \in Messages, SendersPurge(m)
      PROVE  SendersInv' /\ Kept /\ Purgeable(senders', clock)
  <2>1. PICK flushed \in BOOLEAN :
          /\ senders' = IF clock > sendersPurged + PurgeInterval
                        THEN [p \in Pairs |-> IF senders[p] < clock - TTL THEN Never
                                              ELSE senders[p]]
                        ELSE senders
          /\ sendersDisk' = IF flushed THEN senders' ELSE sendersDisk
          /\ sendersPurged' = IF clock > sendersPurged + PurgeInterval
                              THEN clock ELSE sendersPurged
    BY <1>3 DEF SendersPurge, Senders!Purge, Senders!Purged, Senders!Expired,
                Senders!Missing, Never
  <2>2. tried' = tried /\ clock' = clock
    BY <1>3 DEF SendersPurge
  <2>3. /\ Store(senders', sendersDisk', sendersPurged', tried, clock)
        /\ Purgeable(senders', clock)
        /\ \A t \in Nat : Purgeable(senders, t) => Purgeable(senders', t)
    BY <1>1, <2>1, StorePurge
  <2> QED BY <1>1, <2>2, <2>3
<1>4. ASSUME NEW m \in Messages, ComeAgain(m)
      PROVE  SendersInv' /\ Kept
  <2> DEFINE pairs == {mail[m].from} \X mail[m].to
  <2>1. PICK flushed \in BOOLEAN :
          /\ senders' = Set(senders, pairs)
          /\ sendersDisk' = IF flushed THEN Set(senders, pairs) ELSE sendersDisk
          /\ sendersPurged' = sendersPurged /\ tried' = Written(tried, pairs, flushed)
    BY <1>4 DEF ComeAgain, Senders!Access
  <2>2. clock' = clock
    BY <1>4 DEF ComeAgain
  <2> HIDE DEF pairs
  <2>3. /\ Store(senders', sendersDisk', sendersPurged, tried', clock)
        /\ \A t \in 0..clock : Purgeable(senders, t) => Purgeable(senders', t)
    BY <1>1, <2>1, StoreSet
  <2> QED BY <2>1, <2>2, <2>3
<1>5. ASSUME NEW m \in Messages,
             \/ WhitelistPurge(m) \/ WhitelistRecipients(m) \/ CheckWhitelist(m)
             \/ NullSender(m) \/ RateLimit(m)
      PROVE  SendersInv' /\ Kept
  BY <1>2, <1>5 DEF WhitelistPurge, WhitelistRecipients, CheckWhitelist, NullSender,
                    RateLimit, sendersVars
<1>6. ASSUME Tick PROVE SendersInv' /\ Kept
  <2>1. /\ clock' = clock + 1
        /\ UNCHANGED <<senders, sendersDisk, sendersPurged, tried>>
    BY <1>6 DEF Tick, sendersVars
  <2>2. Store(senders, sendersDisk, sendersPurged, tried, clock + 1)
    BY <1>1, StoreTick
  <2> QED BY <2>1, <2>2
<1>7. ASSUME Crash PROVE SendersInv' /\ \A n \in Messages : pc'[n] # "senders"
  <2>1. /\ sendersDisk' = senders' /\ sendersPurged' = -(PurgeInterval + 1)
        /\ DOMAIN senders' = Pairs
        /\ \A p \in Pairs : senders'[p] \in {senders[p], sendersDisk[p]}
    BY <1>7 DEF Crash, Senders!Reopen, Senders!LongAgo
  <2>2. tried' = tried /\ clock' = clock
    BY <1>7 DEF Crash
  <2>3. \A n \in Messages : pc'[n] # "senders"
    BY <1>7 DEF Crash
  <2>4. Store(senders', senders', -(PurgeInterval + 1), tried, clock)
    BY <1>1, <2>1, StoreReopen
  <2> QED BY <2>1, <2>2, <2>3, <2>4
<1>8. ASSUME UNCHANGED vars PROVE SendersInv' /\ Kept
  <2>1. UNCHANGED <<senders, sendersDisk, sendersPurged, tried, clock>>
    BY <1>8 DEF vars, sendersVars
  <2> QED BY <1>2, <2>1
<1> QED
  BY <1>3, <1>4, <1>5, <1>6, <1>7, <1>8 DEF Next

\* What a step does to what is known of a message.
LEMMA MessageStep ==
  ASSUME MemoryInv, [Next]_vars
  PROVE  \A n \in Messages : MessageInv(n)'
<1> USE DEF Goes, Ends, msgVars
<1>1. /\ \A n \in Messages : MessageInv(n)
      /\ pc \in [Messages -> Pcs] /\ since \in [Messages -> Times]
      /\ verdict \in [Messages -> {"none", "200", "come again", "pass", "slow down"}]
      /\ mail \in [Messages -> Mails \cup {NoMail}]
      /\ standing \in [Messages -> {"none", "known", "unknown", "unsure"}]
      /\ \A n \in Messages : /\ mail[n] = NoMail <=> pc[n] \in {"idle", "killed"}
                             /\ pc[n] = "done" <=> verdict[n] # "none"
      /\ clock \in Nat /\ clock \in Times
      /\ sent \in Records /\ tried \in Records /\ WhitelistInv /\ SendersInv
  BY StoreTypes DEF MemoryInv, TypeInv, TypeOK, Times
<1>0. /\ clock \in Nat /\ clock \in Int /\ clock # Never /\ clock <= clock
      /\ \A t \in Times : t \in Int /\ (t # Never => t >= 0)
  <2>1. clock \in Nat
    BY <1>1
  <2> QED BY <2>1, Constants DEF Never, Times
<1>2. ASSUME NEW n \in Messages, since[n] \in 0..clock
      PROVE  /\ Purgeable(whitelist, since[n]) /\ pc'[n] = "whitelist" =>
                  Purgeable(whitelist', since[n])
             /\ Purgeable(senders, since[n]) /\ pc'[n] = "senders" =>
                  Purgeable(senders', since[n])
  BY <1>2, WhitelistStep, SendersStep DEF MemoryInv
<1>3. ASSUME NEW n \in Messages, pc'[n] = pc[n], verdict'[n] = verdict[n],
             since'[n] = since[n], standing'[n] = standing[n],
             clock' \in {clock, clock + 1}
      PROVE  MessageInv(n)'
  <2>1. MessageInv(n) /\ since[n] \in Times /\ clock \in Nat
    BY <1>1
  <2>0. /\ since[n] <= clock /\ since[n] \in Int /\ clock \in Int
        /\ since[n] # Never => since[n] >= 0
    <3>1. since[n] <= clock
      BY <2>1 DEF MessageInv
    <3> QED BY <1>0, <2>1, <3>1
  <2>2. since'[n] <= clock'
    <3>1. CASE clock' = clock BY <1>3, <2>0, <3>1
    <3>2. CASE clock' = clock + 1 BY <1>3, <2>0, <3>2
    <3> QED BY <1>3, <3>1, <3>2
  <2>3. ASSUME since[n] # Never PROVE since[n] \in 0..clock
    BY <2>0, <2>3
  <2>4. ASSUME pc'[n] = "whitelist" PROVE since'[n] # Never /\ Purgeable(whitelist', since'[n])
    BY <1>2, <1>3, <2>1, <2>3, <2>4 DEF MessageInv
  <2>5. ASSUME pc'[n] = "senders" PROVE since'[n] # Never /\ Purgeable(senders', since'[n])
    BY <1>2, <1>3, <2>1, <2>3, <2>5 DEF MessageInv
  <2> QED BY <1>3, <2>1, <2>2, <2>4, <2>5 DEF MessageInv
<1>4. ASSUME NEW m \in Messages, WhitelistPurge(m), NEW n \in Messages
      PROVE  MessageInv(n)'
  <2>1. PICK flushed \in BOOLEAN :
          Goes(m, "idle", IF flushed THEN "whitelist" ELSE "purge senders")
    BY <1>4 DEF WhitelistPurge
  <2>2. /\ since' = [since EXCEPT ![m] = clock]
        /\ verdict' = verdict /\ standing' = standing /\ clock' = clock
    BY <1>4 DEF WhitelistPurge
  <2>3. CASE n # m BY <1>1, <1>3, <2>1, <2>2, <2>3
  <2>4. CASE n = m
    <3>1. Purgeable(whitelist', clock)
      BY <1>4, WhitelistStep DEF MemoryInv
    <3>2. pc[m] = "idle" /\ pc'[m] \in {"whitelist", "purge senders"} /\ verdict[m] = "none"
      BY <1>1, <2>1
    <3>3. standing[m] = "none"
      BY <1>1, <3>2 DEF MessageInv
    <3>4. since'[m] = clock /\ clock # Never /\ clock <= clock
      BY <1>0, <1>1, <2>2
    <3> QED BY <2>2, <2>4, <3>1, <3>2, <3>3, <3>4 DEF MessageInv
  <2> QED BY <2>3, <2>4
<1>5. ASSUME NEW m \in Messages, WhitelistRecipients(m), NEW n \in Messages
      PROVE  MessageInv(n)'
  <2>1. /\ Goes(m, "whitelist", "purge senders")
        /\ UNCHANGED <<since, verdict, standing, clock>>
    BY <1>5 DEF WhitelistRecipients
  <2>2. CASE n # m BY <1>1, <1>3, <2>1, <2>2
  <2>3. CASE n = m
    <3>1. pc[m] = "whitelist" /\ pc'[m] = "purge senders" /\ verdict[m] = "none"
      BY <1>1, <2>1
    <3>2. standing[m] = "none" /\ since[m] <= clock
      BY <1>1, <3>1 DEF MessageInv
    <3> QED BY <1>0, <2>1, <2>3, <3>1, <3>2 DEF MessageInv
  <2> QED BY <2>2, <2>3
<1>6. ASSUME NEW m \in Messages, CheckWhitelist(m), NEW n \in Messages
      PROVE  MessageInv(n)'
  <2> DEFINE pairs == mail[m].to \X {mail[m].from}
  <2>1. PICK flushed \in BOOLEAN :
          /\ IF flushed /\ FoundWhitelisted(m)
             THEN Ends(m, "whitelist", "200")
             ELSE Goes(m, "whitelist", "purge senders") /\ UNCHANGED verdict
          /\ standing' = [standing EXCEPT ![m] =
                            IF flushed THEN Standing(m, sent, pairs) ELSE "none"]
    BY <1>6 DEF CheckWhitelist
  <2>2. since' = since /\ clock' = clock /\ pc[m] = "whitelist"
    BY <1>6 DEF CheckWhitelist
  <2>3. CASE n # m
    <3>1. pc'[n] = pc[n] /\ verdict'[n] = verdict[n]
      BY <1>1, <2>1, <2>3
    <3> QED BY <1>1, <1>3, <2>1, <2>2, <2>3, <3>1
  <2>4. CASE n = m
    <3>1. /\ since[m] <= clock /\ verdict[m] = "none" /\ mail[m] \in Mails
          /\ Purgeable(whitelist, since[m]) /\ since[m] \in Times
      BY <1>1, <2>2 DEF MessageInv
    <3>2. pairs \in SUBSET Pairs
      BY <3>1, PairsOf
    <3>3. FoundWhitelisted(m) <=> \A p \in pairs : whitelist[p] # Never
      BY DEF FoundWhitelisted, Whitelist!Contains, Whitelist!Missing, Never
    <3>6. standing'[m] = IF flushed THEN Standing(m, sent, pairs) ELSE "none"
      BY <1>1, <2>1
    <3> HIDE DEF pairs
    <3>4. /\ (\A p \in pairs : whitelist[p] # Never) => Standing(m, sent, pairs) # "unknown"
          /\ (\E p \in pairs : whitelist[p] = Never) => Standing(m, sent, pairs) # "known"
      <4>1. /\ whitelist \in Dbs /\ sent \in Records
            /\ Store(whitelist, whitelistDisk, whitelistPurged, sent, clock)
        BY <1>1, StoreTypes DEF MemoryInv, WhitelistInv
      <4> QED BY <1>0, <3>1, <3>2, <4>1, LookedUp
    <3>5. CASE flushed /\ FoundWhitelisted(m)
      <4>1. pc'[m] = "done" /\ verdict'[m] = "200" /\ standing'[m] # "unknown"
        BY <1>1, <2>1, <3>3, <3>4, <3>5, <3>6
      <4> QED BY <2>2, <2>4, <3>1, <4>1 DEF MessageInv
    <3>7. CASE ~(flushed /\ FoundWhitelisted(m))
      <4>1. pc'[m] = "purge senders" /\ verdict'[m] = "none" /\ standing'[m] # "known"
        BY <1>1, <2>1, <3>1, <3>3, <3>4, <3>6, <3>7
      <4> QED BY <2>2, <2>4, <3>1, <4>1 DEF MessageInv
    <3> QED BY <3>5, <3>7
  <2> QED BY <2>3, <2>4

<1>7. ASSUME NEW m \in Messages, NullSender(m) \/ SendersPurge(m), NEW n \in Messages
      PROVE  MessageInv(n)'
  <2>1. /\ pc[m] = "purge senders" /\ verdict' = verdict /\ clock' = clock
        /\ standing' = [standing EXCEPT ![m] = "none"]
    BY <1>7 DEF NullSender, SendersPurge
  <2>2. \/ pc' = [pc EXCEPT ![m] = "rate"] /\ since' \in {since, [since EXCEPT ![m] = clock]}
        \/ /\ pc' = [pc EXCEPT ![m] = "senders"] /\ since' = [since EXCEPT ![m] = clock]
           /\ SendersPurge(m)
    BY <1>7 DEF NullSender, SendersPurge
  <2>3. CASE n # m BY <1>1, <1>3, <2>1, <2>2, <2>3
  <2>4. CASE n = m
    <3>1. verdict[m] = "none" /\ standing'[m] = "none" /\ since[m] <= clock
      BY <1>1, <2>1 DEF MessageInv
    <3>2. /\ since'[m] <= clock
          /\ pc'[m] = "rate" \/ /\ pc'[m] = "senders" /\ since'[m] = clock
                                /\ SendersPurge(m)
      <4>1. pc'[m] \in {"rate", "senders"} /\ since'[m] \in {since[m], clock}
        BY <1>1, <2>2
      <4> QED BY <1>0, <1>1, <2>2, <3>1, <4>1
    <3>3. SendersPurge(m) => Purgeable(senders', clock)
      BY SendersStep DEF MemoryInv
    <3>4. clock # Never
      BY <1>0
    <3> QED BY <2>1, <2>4, <3>1, <3>2, <3>3, <3>4 DEF MessageInv
  <2> QED BY <2>3, <2>4
<1>8. ASSUME NEW m \in Messages, ComeAgain(m), NEW n \in Messages
      PROVE  MessageInv(n)'
  <2> DEFINE pairs == {mail[m].from} \X mail[m].to
  <2>1. PICK flushed \in BOOLEAN :
          /\ IF flushed /\ \E p \in pairs : ~Senders!Contains(p)
             THEN Ends(m, "senders", "come again")
             ELSE Goes(m, "senders", "rate") /\ UNCHANGED verdict
          /\ standing' = [standing EXCEPT ![m] =
                            IF flushed THEN Standing(m, tried, pairs) ELSE "none"]
    BY <1>8 DEF ComeAgain
  <2>2. since' = since /\ clock' = clock /\ pc[m] = "senders"
    BY <1>8 DEF ComeAgain
  <2>3. CASE n # m
    <3>1. pc'[n] = pc[n] /\ verdict'[n] = verdict[n]
      BY <1>1, <2>1, <2>3
    <3> QED BY <1>1, <1>3, <2>1, <2>2, <2>3, <3>1
  <2>4. CASE n = m
    <3>1. /\ since[m] <= clock /\ verdict[m] = "none" /\ mail[m] \in Mails
          /\ Purgeable(senders, since[m]) /\ since[m] \in Times
      BY <1>1, <2>2 DEF MessageInv
    <3>2. pairs \in SUBSET Pairs
      BY <3>1, PairsOf
    <3>3. (\E p \in pairs : ~Senders!Contains(p)) <=> \E p \in pairs : senders[p] = Never
      BY DEF Senders!Contains, Senders!Missing, Never
    <3>6. standing'[m] = IF flushed THEN Standing(m, tried, pairs) ELSE "none"
      BY <1>1, <2>1
    <3> HIDE DEF pairs
    <3>4. /\ (\A p \in pairs : senders[p] # Never) => Standing(m, tried, pairs) # "unknown"
          /\ (\E p \in pairs : senders[p] = Never) => Standing(m, tried, pairs) # "known"
      <4>1. /\ senders \in Dbs /\ tried \in Records
            /\ Store(senders, sendersDisk, sendersPurged, tried, clock)
        BY <1>1, StoreTypes DEF MemoryInv, SendersInv
      <4> QED BY <1>0, <3>1, <3>2, <4>1, LookedUp
    <3>5. CASE flushed /\ \E p \in pairs : ~Senders!Contains(p)
      <4>1. pc'[m] = "done" /\ verdict'[m] = "come again" /\ standing'[m] # "known"
        BY <1>1, <2>1, <3>3, <3>4, <3>5, <3>6
      <4> QED BY <2>2, <2>4, <3>1, <4>1 DEF MessageInv
    <3>7. CASE ~(flushed /\ \E p \in pairs : ~Senders!Contains(p))
      <4>1. pc'[m] = "rate" /\ verdict'[m] = "none" /\ standing'[m] # "unknown"
        BY <1>1, <2>1, <3>1, <3>3, <3>4, <3>6, <3>7
      <4> QED BY <2>2, <2>4, <3>1, <4>1 DEF MessageInv
    <3> QED BY <3>5, <3>7
  <2> QED BY <2>3, <2>4
<1>9. ASSUME NEW m \in Messages, RateLimit(m), NEW n \in Messages
      PROVE  MessageInv(n)'
  <2>1. /\ pc[m] = "rate" /\ pc' = [pc EXCEPT ![m] = "done"]
        /\ \E v \in {"pass", "slow down"} : verdict' = [verdict EXCEPT ![m] = v]
        /\ since' = [since EXCEPT ![m] = clock] /\ standing' = standing /\ clock' = clock
    BY <1>9 DEF RateLimit
  <2>2. CASE n # m BY <1>1, <1>3, <2>1, <2>2
  <2>3. CASE n = m
    <3>1. standing[m] # "unknown"
      BY <1>1, <2>1 DEF MessageInv
    <3>2. pc'[m] = "done" /\ verdict'[m] \in {"pass", "slow down"} /\ since'[m] = clock
      BY <1>1, <2>1
    <3> QED BY <1>0, <2>1, <2>3, <3>1, <3>2 DEF MessageInv
  <2> QED BY <2>2, <2>3
<1>10. ASSUME Tick \/ UNCHANGED vars, NEW n \in Messages
       PROVE  MessageInv(n)'
  BY <1>3, <1>10 DEF Tick, vars
<1>11. ASSUME Crash, NEW n \in Messages
       PROVE  MessageInv(n)'
  <2>1. verdict' = verdict /\ clock' = clock
    BY <1>11 DEF Crash
  <2>2. CASE pc[n] = "done"
    <3>1. pc'[n] = "done" /\ since'[n] = since[n] /\ standing'[n] = standing[n]
      BY <1>11, <2>2 DEF Crash
    <3> QED BY <1>3, <2>1, <2>2, <3>1
  <2>3. CASE pc[n] # "done"
    <3>1. /\ pc'[n] \in {"idle", "killed"} /\ since'[n] = Never /\ standing'[n] = "none"
          /\ verdict[n] = "none"
      BY <1>1, <1>11, <2>3 DEF Crash
    <3>2. Never <= clock
      BY <1>0 DEF Never
    <3> QED BY <2>1, <3>1, <3>2 DEF MessageInv
  <2> QED BY <2>2, <2>3
<1> QED
  BY <1>4, <1>5, <1>6, <1>7, <1>8, <1>9, <1>10, <1>11 DEF Next

\* MemoryInv is inductive.
LEMMA MemoryStep == MemoryInv /\ [Next]_vars => MemoryInv'
<1> SUFFICES ASSUME MemoryInv, [Next]_vars PROVE MemoryInv'
  OBVIOUS
<1>1. TypeInv' /\ WhitelistInv' /\ SendersInv'
  BY TypeStep, WhitelistStep, SendersStep DEF MemoryInv
<1>2. \A n \in Messages : MessageInv(n)'
  BY MessageStep
<1> QED BY <1>1, <1>2 DEF MemoryInv

\* auto_whitelist exempts only mail from those that each of the recipients had
\* written to, within the TTL and a purge interval, and always exempts mail
\* from those that they wrote to within the TTL: however many threads write to
\* the db, whatever is purged, not flushed, or lost by a crash.
THEOREM TheExemptAreCorrespondents == Spec => []ExemptByCorrespondence
<1>1. MemoryInv => ExemptByCorrespondence
  BY DEF MemoryInv, MessageInv, ExemptByCorrespondence
<1> QED BY <1>1, InitMemory, MemoryStep, PTL DEF Spec

\* comeagain holds up no message whose pairs were all tried within the TTL, and
\* lets none on of which a pair was not, within the TTL and a purge interval.
THEOREM OnlyTheNewAreHeldUp == Spec => []HeldUpOnce
<1>1. MemoryInv => HeldUpOnce
  BY DEF MemoryInv, MessageInv, HeldUpOnce
<1> QED BY <1>1, InitMemory, MemoryStep, PTL DEF Spec

-----------------------------------------------------------------------------
(* Sums over the slots of a table.  A set of numbers that has 0, and n + 1 *)
(* whenever it has n, has them all: otherwise one of the sets 1..n of the  *)
(* other numbers n would be minimal.                                       *)
Total(table, key, S) == MapThenSumSet(LAMBDA i : table[i][key], S)
Picked(s) == CHOOSE x \in s : TRUE

LEMMA NatSets ==
  ASSUME NEW Good, 0 \in Good, \A n \in Nat : n \in Good => n + 1 \in Good
  PROVE  \A n \in Nat : n \in Good
<1> DEFINE Bad == {1..n : n \in Nat \ Good}
<1> SUFFICES ASSUME Nat \ Good # {} PROVE FALSE
  OBVIOUS
<1>1. Bad # {} /\ Bad \subseteq FiniteSubsetsOf(Nat)
  <2>1. \A n \in Nat : IsFiniteSet(1..n) /\ 1..n \subseteq Nat
    BY FS_Interval
  <2> QED BY <2>1 DEF FiniteSubsetsOf
<1>2. IsWellFoundedOn(StrictSubsetOrdering(Nat), FiniteSubsetsOf(Nat))
  BY FS_StrictSubsetOrderingWellFounded
<1>3. PICK T \in Bad : \A U \in Bad : <<U, T>> \notin StrictSubsetOrdering(Nat)
  <2> HIDE DEF Bad
  <2> QED BY <1>1, <1>2, WFMin
<1>4. PICK n \in Nat \ Good : T = 1..n
  OBVIOUS
<1>5. n - 1 \in Nat \ Good
  BY <1>4
<1>6. 1..(n - 1) \in Bad
  BY <1>5
<1>7. <<1..(n - 1), T>> \in StrictSubsetOrdering(Nat)
  <2>1. 1..(n - 1) \subseteq 1..n /\ n \in 1..n /\ n \notin 1..(n-1) /\ 1..n \subseteq Nat
    BY <1>5
  <2> QED BY <1>4, <2>1 DEF StrictSubsetOrdering
<1> QED BY <1>3, <1>6, <1>7
\* What is left when the element that the sum takes next is taken out.
LEMMA Pick ==
  ASSUME NEW S, IsFiniteSet(S)
  PROVE  \A s \in SUBSET S : s # {} => /\ Picked(s) \in s /\ s \ {Picked(s)} \in SUBSET S
                                       /\ Cardinality(s \ {Picked(s)}) = Cardinality(s) - 1
                                       /\ Cardinality(s) # 0
<1> SUFFICES ASSUME NEW s \in SUBSET S, s # {}
             PROVE  /\ Picked(s) \in s /\ s \ {Picked(s)} \in SUBSET S
                    /\ Cardinality(s \ {Picked(s)}) = Cardinality(s) - 1
                    /\ Cardinality(s) # 0
  OBVIOUS
<1>0. IsFiniteSet(s)
  BY FS_Subset
<1>1. Picked(s) \in s
  BY DEF Picked
<1>2. Cardinality(s \ {Picked(s)}) = Cardinality(s) - 1
  BY <1>0, <1>1, FS_RemoveElement
<1>3. Cardinality(s) # 0
  BY <1>0, FS_EmptySet
<1> QED BY <1>1, <1>2, <1>3

\* The recursive definition of the sum, of weights w over s.
SumOn(g, w, s) == IF s = {} THEN 0 ELSE w[Picked(s)] + g[s \ {Picked(s)}]

\* There is a function as it says: there is one for all subsets of up to n
\* elements, by induction on n.
LEMMA SumExists ==
  ASSUME NEW S, IsFiniteSet(S), NEW w \in [S -> Nat]
  PROVE  \E g \in [SUBSET S -> Nat] : \A s \in SUBSET S : g[s] = SumOn(g, w, s)
<1> DEFINE Up(n) == \E g \in [SUBSET S -> Nat] :
                      \A s \in SUBSET S : Cardinality(s) <= n => g[s] = SumOn(g, w, s)
<1>1. /\ \A s \in SUBSET S : IsFiniteSet(s) /\ Cardinality(s) \in Nat
                             /\ Cardinality(s) <= Cardinality(S)
      /\ Cardinality({}) = 0
  BY FS_Subset, FS_CardinalityType, FS_EmptySet
<1>2. \A s \in SUBSET S : s # {} => /\ Picked(s) \in s /\ s \ {Picked(s)} \in SUBSET S
                                    /\ Cardinality(s \ {Picked(s)}) = Cardinality(s) - 1
                                    /\ Cardinality(s) # 0
  BY Pick
<1>3. Up(0)
  <2>1. \A s \in SUBSET S : Cardinality(s) <= 0 => s = {}
    <3> SUFFICES ASSUME NEW s \in SUBSET S, Cardinality(s) <= 0, s # {} PROVE FALSE
      OBVIOUS
    <3>1. Cardinality(s) \in Nat
      BY <1>1
    <3>2. Cardinality(s) # 0
      BY <1>2
    <3> QED BY <3>1, <3>2
  <2>2. [s \in SUBSET S |-> 0] \in [SUBSET S -> Nat]
    OBVIOUS
  <2> QED BY <2>1, <2>2 DEF SumOn
<1>4. ASSUME NEW n \in Nat, Up(n) PROVE Up(n + 1)
  <2>1. PICK g \in [SUBSET S -> Nat] :
          \A s \in SUBSET S : Cardinality(s) <= n => g[s] = SumOn(g, w, s)
    BY <1>4
  <2> DEFINE h == [s \in SUBSET S |-> IF Cardinality(s) = n + 1 THEN SumOn(g, w, s) ELSE g[s]]
  <2>2. \A s \in SUBSET S : SumOn(g, w, s) \in Nat
    <3> SUFFICES ASSUME NEW s \in SUBSET S, s # {} PROVE w[Picked(s)] + g[s \ {Picked(s)}] \in Nat
      BY DEF SumOn
    <3>1. w[Picked(s)] \in Nat /\ g[s \ {Picked(s)}] \in Nat
      BY <1>2
    <3> QED BY <3>1
  <2>3. h \in [SUBSET S -> Nat]
    BY <2>2
  <2>4. ASSUME NEW s \in SUBSET S, Cardinality(s) <= n + 1
        PROVE  h[s] = SumOn(h, w, s)
    <3>1. CASE s = {}
      <4>1. Cardinality(s) = 0
        BY <3>1, FS_EmptySet
      <4>2. h[s] = g[s] /\ g[s] = 0
        BY <2>1, <3>1, <4>1 DEF SumOn
      <4> QED BY <3>1, <4>2 DEF SumOn
    <3>2. CASE s # {}
      <4> DEFINE t == s \ {Picked(s)}
      <4>1. t \in SUBSET S /\ Cardinality(t) <= n
        BY <1>1, <1>2, <2>4, <3>2
      <4>2. h[t] = g[t]
        BY <4>1, <1>1
      <4>3. h[s] = SumOn(g, w, s)
        BY <1>1, <2>1, <2>4
      <4> HIDE DEF h
      <4> QED BY <3>2, <4>2, <4>3 DEF SumOn
    <3> QED BY <3>1, <3>2
  <2> HIDE DEF h
  <2> QED BY <2>3, <2>4
<1>5. \A n \in Nat : Up(n)
  <2> DEFINE Good == {n \in Nat : Up(n)}
  <2> HIDE DEF Up
  <2>1. 0 \in Good /\ \A n \in Nat : n \in Good => n + 1 \in Good
    BY <1>3, <1>4
  <2>2. \A n \in Nat : n \in Good
    <3> HIDE DEF Good
    <3> QED BY <2>1, NatSets
  <2> QED BY <2>2
<1>6. PICK g \in [SUBSET S -> Nat] : \A s \in SUBSET S : g[s] = SumOn(g, w, s)
  <2>1. Cardinality(S) \in Nat
    BY FS_CardinalityType
  <2>2. Up(Cardinality(S))
    <3> HIDE DEF Up
    <3> QED BY <1>5, <2>1
  <2> QED BY <1>1, <2>2
<1> QED BY <1>6

\* g adds up w over each subset of S.
SumsUp(g, w, S, X) ==
  /\ IsFiniteSet(S) /\ w \in [S -> Nat]
  /\ g \in [SUBSET S -> X] /\ \A s \in SUBSET S : g[s] = SumOn(g, w, s)

\* Any element can be taken out first.
AnyFirst(g, w, S) == \A s \in SUBSET S : \A x \in s : g[s] = w[x] + g[s \ {x}]

LEMMA SumOfAny ==
  ASSUME NEW S, NEW w, NEW g, SumsUp(g, w, S, Nat)
  PROVE  AnyFirst(g, w, S)
<1>0. /\ IsFiniteSet(S) /\ w \in [S -> Nat]
      /\ g \in [SUBSET S -> Nat] /\ \A s \in SUBSET S : g[s] = SumOn(g, w, s)
  BY DEF SumsUp
<1> DEFINE Good == {n \in Nat : \A s \in SUBSET S : Cardinality(s) <= n =>
                      \A x \in s : g[s] = w[x] + g[s \ {x}]}
<1>1. \A s \in SUBSET S : IsFiniteSet(s) /\ Cardinality(s) \in Nat
  BY <1>0, FS_Subset, FS_CardinalityType
<1>2. 0 \in Good
  <2> SUFFICES ASSUME NEW s \in SUBSET S, Cardinality(s) <= 0, NEW x \in s PROVE FALSE
    OBVIOUS
  <2>1. Cardinality(s) \in Nat /\ (s # {} => Cardinality(s) # 0)
    BY <1>0, <1>1, Pick
  <2> QED BY <2>1
<1>3. ASSUME NEW n \in Nat, n \in Good PROVE n + 1 \in Good
  <2> SUFFICES ASSUME NEW s \in SUBSET S, Cardinality(s) <= n + 1, NEW x \in s
               PROVE  g[s] = w[x] + g[s \ {x}]
    OBVIOUS
  <2> DEFINE p == Picked(s)
  <2>1. p \in s /\ g[s] = w[p] + g[s \ {p}]
    BY <1>0 DEF SumOn, Picked
  <2>2. CASE x = p BY <2>1, <2>2
  <2>3. CASE x # p
    <3> HIDE DEF p
    <3>1. /\ s \ {p} \in SUBSET S /\ s \ {x} \in SUBSET S /\ (s \ {p}) \ {x} \in SUBSET S
          /\ x \in s \ {p} /\ p \in s \ {x} /\ (s \ {p}) \ {x} = (s \ {x}) \ {p}
      BY <2>1, <2>3
    <3>2. Cardinality(s \ {p}) <= n /\ Cardinality(s \ {x}) <= n
      <4>1. Cardinality(s \ {p}) = Cardinality(s) - 1 /\ Cardinality(s \ {x}) = Cardinality(s) - 1
        BY <1>1, <2>1, FS_RemoveElement
      <4> QED BY <1>1, <4>1
    <3>3. /\ g[s \ {p}] = w[x] + g[(s \ {p}) \ {x}]
          /\ g[s \ {x}] = w[p] + g[(s \ {p}) \ {x}]
      BY <1>3, <3>1, <3>2
    <3>4. w[x] \in Nat /\ w[p] \in Nat /\ g[(s \ {p}) \ {x}] \in Nat
      BY <1>0, <2>1, <3>1
    <3> QED BY <2>1, <3>3, <3>4
  <2> QED BY <2>2, <2>3
<1>4. \A n \in Nat : n \in Good
  <2> HIDE DEF Good
  <2> QED BY <1>2, <1>3, NatSets
<1> SUFFICES ASSUME NEW s \in SUBSET S, NEW x \in s
             PROVE  g[s] = w[x] + g[s \ {x}]
  BY DEF AnyFirst
<1>5. Cardinality(s) \in Good /\ Cardinality(s) <= Cardinality(s)
  BY <1>1, <1>4
<1> QED BY <1>5

LEMMA SumType ==
  ASSUME NEW S, NEW w, NEW X, NEW g, SumsUp(g, w, S, X)
  PROVE  SumsUp(g, w, S, Nat)
<1>0. /\ IsFiniteSet(S) /\ w \in [S -> Nat]
      /\ g \in [SUBSET S -> X] /\ \A s \in SUBSET S : g[s] = SumOn(g, w, s)
  BY DEF SumsUp
<1>3. \A s \in SUBSET S : IsFiniteSet(s) /\ Cardinality(s) \in Nat
  BY <1>0, FS_Subset, FS_CardinalityType
<1> DEFINE Good == {n \in Nat : \A s \in SUBSET S : Cardinality(s) <= n => g[s] \in Nat}
<1>4. 0 \in Good
  <2> SUFFICES ASSUME NEW s \in SUBSET S, Cardinality(s) <= 0 PROVE g[s] \in Nat
    OBVIOUS
  <2>1. s = {}
    <3>1. Cardinality(s) \in Nat /\ (s # {} => Cardinality(s) # 0)
      BY <1>0, <1>3, Pick
    <3> QED BY <3>1
  <2>2. g[s] = SumOn(g, w, s)
    BY <1>0
  <2>3. SumOn(g, w, s) = 0
    BY <2>1 DEF SumOn
  <2> QED BY <2>2, <2>3
<1>5. ASSUME NEW n \in Nat, n \in Good PROVE n + 1 \in Good
  <2> SUFFICES ASSUME NEW s \in SUBSET S, Cardinality(s) <= n + 1 PROVE g[s] \in Nat
    OBVIOUS
  <2>0. g[s] = SumOn(g, w, s)
    BY <1>0
  <2>1. CASE s = {}
    <3>1. SumOn(g, w, s) = 0
      BY <2>1 DEF SumOn
    <3> QED BY <2>0, <3>1
  <2>2. CASE s # {}
    <3>1. /\ Picked(s) \in S /\ s \ {Picked(s)} \in SUBSET S
          /\ Cardinality(s \ {Picked(s)}) = Cardinality(s) - 1
      BY <1>0, <2>2, Pick
    <3>2. Cardinality(s \ {Picked(s)}) <= n
      BY <1>3, <3>1
    <3>3. g[s \ {Picked(s)}] \in Nat /\ w[Picked(s)] \in Nat
      BY <1>0, <1>5, <3>1, <3>2
    <3> QED BY <1>0, <2>2, <3>3 DEF SumOn
  <2> QED BY <2>1, <2>2
<1>6. \A n \in Nat : n \in Good
  <2> HIDE DEF Good
  <2> QED BY <1>4, <1>5, NatSets
<1>7. ASSUME NEW s \in SUBSET S PROVE g[s] \in Nat
  <2>1. Cardinality(s) \in Good /\ Cardinality(s) <= Cardinality(s)
    BY <1>3, <1>6
  <2> QED BY <2>1
<1> QED BY <1>0, <1>7 DEF SumsUp

\* g gives the sum over each set of slots.
Sums(g, table, key, S) ==
  /\ g \in [SUBSET S -> Nat] /\ g[{}] = 0 /\ g[S] = Total(table, key, S)
  /\ \A s \in SUBSET S : \A x \in s : g[s] = table[x][key] + g[s \ {x}]

\* The sum that ratelimit counts with is one.
LEMMA SumDefined ==
  ASSUME NEW S \in SUBSET Minutes, NEW table \in Tables, NEW key \in Keys
  PROVE  \E g : Sums(g, table, key, S)
<1> DEFINE Slots(h, s) == IF s = {} THEN 0
                          ELSE table[Picked(s)][key] + h[s \ {Picked(s)}]
           chosen == CHOOSE h : h = [s \in SUBSET S |-> Slots(h, s)]
<1>1. IsFiniteSet(S)
  BY FiniteMinutes, FS_Subset
<1>2. PICK w \in [S -> Nat] : \A x \in S : w[x] = table[x][key]
  <2>1. [x \in S |-> table[x][key]] \in [S -> Nat]
    BY DEF Tables
  <2> QED BY <2>1
<1>3. \A h : \A s \in SUBSET S : Slots(h, s) = SumOn(h, w, s)
  BY <1>2 DEF SumOn, Picked
<1>4. chosen = [s \in SUBSET S |-> Slots(chosen, s)]
  <2>1. PICK h \in [SUBSET S -> Nat] : \A s \in SUBSET S : h[s] = SumOn(h, w, s)
    BY <1>1, SumExists
  <2>2. h = [s \in SUBSET S |-> Slots(h, s)]
    BY <1>3, <2>1
  <2> QED BY <2>2
<1>5. Total(table, key, S) = chosen[S]
  BY DEF Total, MapThenSumSet, MapThenFoldSet, Picked
<1>6. PICK g : g = [s \in SUBSET S |-> Slots(g, s)] /\ Total(table, key, S) = g[S]
  <2> HIDE DEF Slots, chosen
  <2> QED BY <1>4, <1>5
<1> HIDE DEF Slots, chosen
<1>7. \A s \in SUBSET S : g[s] = SumOn(g, w, s)
  BY <1>3, <1>6
<1>8. SumsUp(g, w, S, {g[s] : s \in SUBSET S})
  BY <1>1, <1>6, <1>7 DEF SumsUp
<1>9. SumsUp(g, w, S, Nat)
  BY <1>8, SumType
<1>10. AnyFirst(g, w, S)
  BY <1>9, SumOfAny
<1>11. g[{}] = 0
  BY <1>7 DEF SumOn
<1>12. \A s \in SUBSET S : \A x \in s : g[s] = table[x][key] + g[s \ {x}]
  BY <1>2, <1>10 DEF AnyFirst
<1>13. Sums(g, table, key, S)
  BY <1>6, <1>9, <1>11, <1>12 DEF Sums, SumsUp
<1> QED BY <1>13

LEMMA TotalType ==
  ASSUME NEW S \in SUBSET Minutes, NEW table \in Tables, NEW key \in Keys
  PROVE  Total(table, key, S) \in Nat
<1>1. PICK g : Sums(g, table, key, S)
  BY SumDefined
<1> QED BY <1>1 DEF Sums

\* No slot in T holds more in t than in u, or than nothing if it is not in S.
SlotsBelow(t, T, u, S, key) ==
  \A x \in T : t[x][key] <= (IF x \in S THEN u[x][key] ELSE 0)

\* Sums are monotone in the slots and in what they hold.
LEMMA TotalBound ==
  ASSUME NEW S \in SUBSET Minutes, NEW T \in SUBSET Minutes,
         NEW t \in Tables, NEW u \in Tables, NEW key \in Keys,
         SlotsBelow(t, T, u, S, key)
  PROVE  Total(t, key, T) <= Total(u, key, S)
<1>0. \A x \in Minutes : t[x][key] \in Nat /\ u[x][key] \in Nat
  BY DEF Tables
<1>3. PICK g : Sums(g, u, key, S)
  BY SumDefined
<1>4. PICK h : Sums(h, t, key, T)
  BY SumDefined
<1>1. /\ g \in [SUBSET S -> Nat] /\ g[{}] = 0 /\ Total(u, key, S) = g[S]
      /\ \A s \in SUBSET S : \A x \in s : g[s] = u[x][key] + g[s \ {x}]
  BY <1>3 DEF Sums
<1>2. /\ h \in [SUBSET T -> Nat] /\ h[{}] = 0 /\ Total(t, key, T) = h[T]
      /\ \A s \in SUBSET T : \A x \in s : h[s] = t[x][key] + h[s \ {x}]
  BY <1>4 DEF Sums
<1> DEFINE U == S \cup T
<1>5. IsFiniteSet(U)
  BY FiniteMinutes, FS_Subset, FS_Union
<1>6. \A s \in SUBSET U : IsFiniteSet(s) /\ Cardinality(s) \in Nat
  BY <1>5, FS_Subset, FS_CardinalityType
<1> DEFINE Up(n) == \A s \in SUBSET U : Cardinality(s) <= n => h[s \cap T] <= g[s \cap S]
<1>7. Up(0)
  <2> SUFFICES ASSUME NEW s \in SUBSET U, Cardinality(s) <= 0 PROVE h[s \cap T] <= g[s \cap S]
    OBVIOUS
  <2>1. Cardinality(s) \in Nat /\ (s # {} => Cardinality(s) # 0)
    BY <1>5, <1>6, Pick
  <2>2. s = {}
    BY <2>1
  <2>3. s \cap T = {} /\ s \cap S = {}
    BY <2>2
  <2>4. h[s \cap T] = 0 /\ g[s \cap S] = 0
    BY <1>1, <1>2, <2>3
  <2> QED BY <2>4
<1>8. ASSUME NEW n \in Nat, Up(n) PROVE Up(n + 1)
  <2> SUFFICES ASSUME NEW s \in SUBSET U, Cardinality(s) <= n + 1
               PROVE  h[s \cap T] <= g[s \cap S]
    OBVIOUS
  <2>1. CASE s = {}
    <3>1. s \cap T = {} /\ s \cap S = {}
      BY <2>1
    <3>2. h[s \cap T] = 0 /\ g[s \cap S] = 0
      BY <1>1, <1>2, <3>1
    <3> QED BY <3>2
  <2>2. CASE s # {}
    <3> DEFINE x == Picked(s)  r == s \ {Picked(s)}
    <3>1. /\ x \in s /\ r \in SUBSET U /\ Cardinality(r) = Cardinality(s) - 1
      BY <1>5, <2>2, Pick
    <3>2. Cardinality(r) <= n
      BY <1>6, <3>1
    <3>3. h[r \cap T] <= g[r \cap S]
      BY <1>8, <3>1, <3>2
    <3>4. r = s \ {x}
      OBVIOUS
    <3> HIDE DEF x, r
    <3>5. h[r \cap T] \in Nat /\ g[r \cap S] \in Nat
      BY <1>1, <1>2
    <3>6. /\ x \in T => h[s \cap T] = t[x][key] + h[r \cap T]
          /\ x \notin T => h[s \cap T] = h[r \cap T]
      <4>1. (s \cap T) \ {x} = r \cap T /\ (x \notin T => s \cap T = r \cap T)
        BY <3>4
      <4>2. x \in T => x \in s \cap T /\ s \cap T \in SUBSET T
        BY <3>1
      <4> QED BY <1>2, <4>1, <4>2
    <3>7. /\ x \in S => g[s \cap S] = u[x][key] + g[r \cap S]
          /\ x \notin S => g[s \cap S] = g[r \cap S]
      <4>1. (s \cap S) \ {x} = r \cap S /\ (x \notin S => s \cap S = r \cap S)
        BY <3>4
      <4>2. x \in S => x \in s \cap S /\ s \cap S \in SUBSET S
        BY <3>1
      <4> QED BY <1>1, <4>1, <4>2
    <3>8. CASE x \in T /\ x \in S
      <4>1. t[x][key] \in Nat /\ u[x][key] \in Nat /\ t[x][key] <= u[x][key]
        BY <1>0, <3>8 DEF SlotsBelow
      <4> QED BY <3>3, <3>5, <3>6, <3>7, <3>8, <4>1
    <3>9. CASE x \in T /\ x \notin S
      <4>1. t[x][key] \in Nat /\ t[x][key] <= 0
        BY <1>0, <3>9 DEF SlotsBelow
      <4> QED BY <3>3, <3>5, <3>6, <3>7, <3>9, <4>1
    <3>10. CASE x \notin T /\ x \in S
      <4>1. u[x][key] \in Nat
        BY <1>0, <3>10
      <4> QED BY <3>3, <3>5, <3>6, <3>7, <3>10, <4>1
    <3>11. x \in T \/ x \in S
      BY <3>1
    <3> QED BY <3>8, <3>9, <3>10, <3>11
  <2> QED BY <2>1, <2>2
<1>9. \A n \in Nat : Up(n)
  <2> DEFINE Good == {n \in Nat : Up(n)}
  <2> HIDE DEF Up
  <2>1. 0 \in Good /\ \A n \in Nat : n \in Good => n + 1 \in Good
    BY <1>7, <1>8
  <2>2. \A n \in Nat : n \in Good
    <3> HIDE DEF Good
    <3> QED BY <2>1, NatSets
  <2> QED BY <2>2
<1>10. h[U \cap T] <= g[U \cap S]
  <2>1. U \in SUBSET U /\ Cardinality(U) \in Nat /\ Cardinality(U) <= Cardinality(U)
    BY <1>6
  <2>2. Up(Cardinality(U))
    <3> HIDE DEF Up
    <3> QED BY <1>9, <2>1
  <2> HIDE DEF U
  <2> QED BY <2>1, <2>2
<1>12. U \cap T = T /\ U \cap S = S
  OBVIOUS
<1> QED BY <1>1, <1>2, <1>10, <1>12

LEMMA TotalOfNone ==
  ASSUME NEW T \in SUBSET Minutes, NEW key \in Keys
  PROVE  Total(NoRate, key, T) = 0
<1>1. NoRate \in Tables
  BY DEF NoRate, Tables
<1>2. PICK g : Sums(g, NoRate, key, {})
  BY <1>1, SumDefined
<1>3. Total(NoRate, key, {}) = 0
  BY <1>2 DEF Sums
<1>4. SlotsBelow(NoRate, T, NoRate, {}, key)
  BY DEF SlotsBelow, NoRate
<1>5. Total(NoRate, key, T) <= Total(NoRate, key, {})
  BY <1>1, <1>4, TotalBound
<1>6. Total(NoRate, key, T) \in Nat
  BY <1>1, TotalType
<1> QED BY <1>3, <1>5, <1>6

-----------------------------------------------------------------------------
(* What ratelimit counts.                                                  *)
\* Every message let past in the minutes that are counted has its place in the
\* table, in which nothing is that did not come.
RateInv ==
  \A i \in Minutes, k \in Keys :
    /\ rate[i][k] <= came[i][k]
    /\ i > Now => past[i][k] = 0
    /\ i > Now - Interval => past[i][k] <= rate[i][k]

\* The minutes that are counted up to one.
Recent(last) == Minutes \cap ((last - Interval + 1)..last)

PastKept ==
  \A i \in Minutes, k \in Keys : Total(past, k, Recent(i)) <= MaxConnections

RefusedForMore(n) ==
  verdict[n] = "slow down" =>
    Total(came, Key(mail[n].ip), Recent(since[n] \div MinuteTicks)) > MaxConnections

LEMMA RateKeptParts ==
  RateKept <=> PastKept /\ \A n \in Messages : RefusedForMore(n)
BY DEF RateKept, PastKept, RefusedForMore, InInterval, Total, Recent

LEMMA InitRate == Init => RateInv /\ RateKept
<1> SUFFICES ASSUME Init PROVE RateInv /\ RateKept
  OBVIOUS
<1>1. rate = NoRate /\ came = NoRate /\ past = NoRate
  BY DEF Init
<1>2. RateInv
  BY <1>1 DEF RateInv, NoRate
<1>3. ASSUME NEW i \in Minutes, NEW k \in Keys
      PROVE  Total(past, k, Recent(i)) <= MaxConnections
  <2>1. Total(NoRate, k, Recent(i)) = 0
    BY TotalOfNone DEF Recent
  <2> QED BY <1>1, <2>1, Constants
<1>4. \A n \in Messages : RefusedForMore(n)
  BY DEF Init, RefusedForMore
<1> QED BY <1>2, <1>3, <1>4, RateKeptParts DEF PastKept

\* Who is refused stays so, for the same reason.
LEMMA RefusalsStand ==
  ASSUME TypeInv, [Next]_vars, NEW n \in Messages, verdict'[n] = "slow down",
         \A m \in Messages : RateLimit(m) => n # m
  PROVE  verdict[n] = "slow down" /\ mail'[n] = mail[n] /\ since'[n] = since[n]
<1> USE DEF Goes, Ends
<1>1. /\ pc \in [Messages -> Pcs] /\ since \in [Messages -> Times]
      /\ verdict \in [Messages -> {"none", "200", "come again", "pass", "slow down"}]
      /\ mail \in [Messages -> Mails \cup {NoMail}]
      /\ \A m \in Messages : pc[m] = "done" <=> verdict[m] # "none"
  BY DEF TypeInv, TypeOK
<1>2. ASSUME NEW m \in Messages, WhitelistPurge(m) PROVE verdict' = verdict
  BY <1>2 DEF WhitelistPurge
<1>3. ASSUME NEW m \in Messages,
             \/ WhitelistPurge(m) \/ WhitelistRecipients(m) \/ CheckWhitelist(m)
             \/ NullSender(m) \/ SendersPurge(m) \/ ComeAgain(m) \/ RateLimit(m)
      PROVE  /\ pc[m] # "done"
             /\ mail' = mail \/ \E new \in Mails : mail' = [mail EXCEPT ![m] = new]
             /\ since' = since \/ since' = [since EXCEPT ![m] = clock]
             /\ \/ verdict' = verdict
                \/ RateLimit(m) /\ \E v \in {"pass", "slow down"} : verdict' = [verdict EXCEPT ![m] = v]
                \/ \E v \in {"200", "come again"} : verdict' = [verdict EXCEPT ![m] = v]
  <2>1. CASE WhitelistPurge(m) BY <2>1 DEF WhitelistPurge
  <2>2. CASE WhitelistRecipients(m) BY <2>2 DEF WhitelistRecipients
  <2>3. CASE CheckWhitelist(m) BY <2>3 DEF CheckWhitelist
  <2>4. CASE NullSender(m) BY <2>4 DEF NullSender
  <2>5. CASE SendersPurge(m) BY <2>5 DEF SendersPurge
  <2>6. CASE ComeAgain(m) BY <2>6 DEF ComeAgain
  <2>7. CASE RateLimit(m) BY <2>7 DEF RateLimit
  <2> QED BY <1>3, <2>1, <2>2, <2>3, <2>4, <2>5, <2>6, <2>7
<1>4. ASSUME NEW m \in Messages,
             \/ WhitelistPurge(m) \/ WhitelistRecipients(m) \/ CheckWhitelist(m)
             \/ NullSender(m) \/ SendersPurge(m) \/ ComeAgain(m) \/ RateLimit(m)
      PROVE  verdict[n] = "slow down" /\ mail'[n] = mail[n] /\ since'[n] = since[n]
  <2>1. CASE n = m
    <3>1. verdict[m] = "none" /\ ~RateLimit(m)
      BY <1>1, <1>3, <1>4, <2>1
    <3> QED BY <1>1, <1>3, <1>4, <2>1, <3>1
  <2>2. CASE n # m BY <1>1, <1>3, <1>4, <2>2
  <2> QED BY <2>1, <2>2
<1>5. CASE Tick \/ UNCHANGED vars BY <1>5 DEF Tick, vars, msgVars
<1>6. CASE Crash BY <1>1, <1>6 DEF Crash
<1> QED BY <1>4, <1>5, <1>6 DEF Next

\* What a message that is counted does to the tables.
LEMMA CountedStep ==
  ASSUME TypeInv, RateInv, RateKept, NEW m \in Messages, RateLimit(m),
         TypeInv', [Next]_vars
  PROVE  RateInv' /\ RateKept'
<1> DEFINE key == Key(mail[m].ip)
           now == Now
           Slot(i, k) == IF i = now /\ k = key THEN 1 ELSE 0
<1>1. /\ rate \in Tables /\ came \in Tables /\ past \in Tables
      /\ rate' \in Tables /\ came' \in Tables /\ past' \in Tables
      /\ \A n \in Messages : RefusedForMore(n)
      /\ PastKept
  BY RateKeptParts DEF TypeInv, TypeOK, Tables
<1>2. now \in Minutes /\ now \in Int /\ Now' = now /\ Interval \in Nat \ {0} /\ key \in Keys
  <2>1. clock \in 0..MaxClock /\ clock' = clock
    BY DEF TypeInv, RateLimit
  <2>2. mail[m] \in Mails
    <3>1. pc[m] = "rate"
      BY DEF RateLimit
    <3> QED BY <3>1 DEF TypeInv, TypeOK
  <2> QED BY <2>1, <2>2, MinuteOf, FiniteMinutes, Constants DEF Now, Keys
<1>3. /\ since'[m] = clock /\ mail' = mail /\ clock' = clock
      /\ \/ /\ verdict'[m] = "slow down" /\ past' = past
            /\ Total(rate', key, Window(now)) > MaxConnections
         \/ /\ verdict'[m] = "pass" /\ past' = [past EXCEPT ![now][key] = @ + 1]
            /\ ~(Total(rate', key, Window(now)) > MaxConnections)
  <2>1. since \in [Messages -> Times] /\ verdict \in [Messages -> {"none", "200", "come again", "pass", "slow down"}]
    BY DEF TypeInv
  <2> QED BY <2>1 DEF RateLimit, Ends, Connections, Total
<1> HIDE DEF key, now
<1>4. ASSUME NEW i \in Minutes, NEW k \in Keys
      PROVE  /\ came'[i][k] = came[i][k] + Slot(i, k)
             /\ rate'[i][k] <= rate[i][k] + Slot(i, k)
             /\ i > now - Interval => rate'[i][k] = rate[i][k] + Slot(i, k)
             /\ past'[i][k] \in {past[i][k], past[i][k] + Slot(i, k)}
  <2>1. /\ rate[i][k] \in Nat /\ came[i][k] \in Nat /\ past[i][k] \in Nat /\ i \in Int
    BY <1>1, FiniteMinutes DEF Tables
  <2>2. came'[i][k] = came[i][k] + Slot(i, k)
    <3>1. came' = [came EXCEPT ![now][key] = @ + 1]
      BY DEF RateLimit, key, now
    <3> QED BY <1>1, <1>2, <2>1, <3>1 DEF Tables
  <2>3. past'[i][k] \in {past[i][k], past[i][k] + Slot(i, k)}
    <3>1. CASE past' = past BY <3>1
    <3>2. CASE past' = [past EXCEPT ![now][key] = @ + 1]
      BY <1>1, <1>2, <2>1, <3>2 DEF Tables
    <3> QED BY <1>3, <3>1, <3>2
  <2>4. /\ Scrubbed \in Tables /\ Scrubbed[i][k] \in {0, rate[i][k]}
        /\ i > now - Interval => Scrubbed[i][k] = rate[i][k]
    <3>1. Scrubbed \in Tables
      BY <1>1 DEF Scrubbed, Tables, NoRate
    <3>2. Scrubbed[i] = IF i < now - Interval THEN NoRate[i] ELSE rate[i]
      BY DEF Scrubbed, now
    <3> QED BY <1>2, <2>1, <3>1, <3>2 DEF NoRate
  <2>5. \E t \in {rate, Scrubbed} : rate' = [t EXCEPT ![now][key] = @ + 1]
    BY DEF RateLimit, key, now
  <2>6. PICK t \in {rate, Scrubbed} : rate'[i][k] = t[i][k] + Slot(i, k)
    BY <1>1, <1>2, <2>1, <2>4, <2>5 DEF Tables
  <2>7. Slot(i, k) \in Nat
    OBVIOUS
  <2> HIDE DEF Slot
  <2> QED BY <2>1, <2>2, <2>3, <2>4, <2>6, <2>7
<1>5. RateInv'
  <2> SUFFICES ASSUME NEW i \in Minutes, NEW k \in Keys
               PROVE  /\ rate'[i][k] <= came'[i][k]
                      /\ i > now => past'[i][k] = 0
                      /\ i > now - Interval => past'[i][k] <= rate'[i][k]
    BY <1>2 DEF RateInv
  <2>1. /\ rate[i][k] <= came[i][k]
        /\ i > now => past[i][k] = 0
        /\ i > now - Interval => past[i][k] <= rate[i][k]
    BY DEF RateInv, now
  <2>2. /\ rate[i][k] \in Nat /\ came[i][k] \in Nat /\ past[i][k] \in Nat /\ i \in Int
        /\ rate'[i][k] \in Nat
    BY <1>1, FiniteMinutes DEF Tables
  <2>3. Slot(i, k) \in Nat /\ (i > now => Slot(i, k) = 0)
    BY <1>2, <2>2
  <2> HIDE DEF Slot
  <2> QED BY <1>2, <1>4, <2>1, <2>2, <2>3
<1>6. ASSUME NEW i \in Minutes, NEW k \in Keys
      PROVE  Total(past', k, Recent(i)) <= MaxConnections
  <2>1. Total(past, k, Recent(i)) <= MaxConnections
    BY <1>1 DEF PastKept
  <2>2. /\ Recent(i) \in SUBSET Minutes /\ Window(now) \in SUBSET Minutes
        /\ \A j \in Recent(i) : j \in Int /\ j > i - Interval /\ j <= i
        /\ \A j \in Minutes : j > now - Interval /\ j <= now => j \in Window(now)
    BY <1>2, FiniteMinutes DEF Recent, Window
  <2>3. ASSUME \A j \in Recent(i) : past'[j][k] = past[j][k]
        PROVE  Total(past', k, Recent(i)) <= MaxConnections
    <3>1. SlotsBelow(past', Recent(i), past, Recent(i), k)
      <4>1. \A j \in Recent(i) : past[j][k] \in Nat
        BY <1>1, <2>2 DEF Tables
      <4> QED BY <2>3, <4>1 DEF SlotsBelow
    <3>2. Total(past', k, Recent(i)) <= Total(past, k, Recent(i))
      BY <1>1, <2>2, <3>1, TotalBound
    <3>3. /\ Total(past', k, Recent(i)) \in Nat /\ Total(past, k, Recent(i)) \in Nat
      BY <1>1, <2>2, TotalType
    <3> QED BY <2>1, <3>2, <3>3, Constants
  <2>4. CASE past' = past BY <2>3, <2>4
  <2>5. CASE k # key \/ i < now
    <3>1. \A j \in Recent(i) : j \in Minutes /\ Slot(j, k) = 0
      BY <1>2, <2>2, <2>5, FiniteMinutes
    <3>2. \A j \in Recent(i) : past'[j][k] = past[j][k]
      <4> SUFFICES ASSUME NEW j \in Recent(i) PROVE past'[j][k] = past[j][k]
        OBVIOUS
      <4>1. past[j][k] \in Nat /\ Slot(j, k) = 0
        BY <1>1, <2>2, <3>1 DEF Tables
      <4> HIDE DEF Slot
      <4> QED BY <1>4, <3>1, <4>1
    <3> QED BY <2>3, <3>2
  <2>6. CASE past' # past /\ k = key /\ ~(i < now)
    <3>1. ~(Total(rate', k, Window(now)) > MaxConnections)
      BY <1>3, <2>6
    <3>2. SlotsBelow(past', Recent(i), rate', Window(now), k)
      <4> SUFFICES ASSUME NEW j \in Recent(i)
                   PROVE  past'[j][k] <= (IF j \in Window(now) THEN rate'[j][k] ELSE 0)
        BY DEF SlotsBelow
      <4>1. /\ j \in Minutes /\ j \in Int /\ j > now - Interval /\ i \in Int
            /\ past'[j][k] \in Nat /\ rate'[j][k] \in Nat
        BY <1>1, <1>2, <2>2, <2>6, FiniteMinutes DEF Tables
      <4>2. /\ j > now => past'[j][k] = 0
            /\ past'[j][k] <= rate'[j][k]
        BY <1>2, <1>5, <4>1 DEF RateInv
      <4> QED BY <1>2, <2>2, <4>1, <4>2
    <3>3. Total(past', k, Recent(i)) <= Total(rate', k, Window(now))
      BY <1>1, <2>2, <3>2, TotalBound
    <3>4. Total(past', k, Recent(i)) \in Nat /\ Total(rate', k, Window(now)) \in Nat
      BY <1>1, <2>2, TotalType
    <3> QED BY <3>1, <3>3, <3>4, Constants
  <2> QED BY <2>4, <2>5, <2>6
<1>7. ASSUME NEW n \in Messages
      PROVE  RefusedForMore(n)'
  <2>r. SUFFICES ASSUME verdict'[n] = "slow down"
                 PROVE  Total(came', Key(mail'[n].ip), Recent(since'[n] \div MinuteTicks))
                          > MaxConnections
    BY DEF RefusedForMore
  <2>0. Key(mail'[n].ip) \in Keys /\ Recent(since'[n] \div MinuteTicks) \in SUBSET Minutes
    <3>1. mail'[n] \in Mails
      BY <2>r DEF TypeInv, TypeOK
    <3> QED BY <3>1 DEF Keys, Recent
  <2>1. PICK k \in Keys, S \in SUBSET Minutes :
          k = Key(mail'[n].ip) /\ S = Recent(since'[n] \div MinuteTicks)
    BY <2>0
  <2>2. CASE n = m
    <3>1. k = key /\ since'[n] \div MinuteTicks = now
      BY <1>3, <2>1, <2>2 DEF key, now, Now
    <3>2. S = Recent(now)
      BY <2>1, <3>1
    <3>3. Total(rate', key, Window(now)) > MaxConnections
      BY <1>3, <2>2, <2>r
    <3>4. SlotsBelow(rate', Window(now), came', S, key)
      <4> SUFFICES ASSUME NEW j \in Window(now)
                   PROVE  rate'[j][key] <= (IF j \in S THEN came'[j][key] ELSE 0)
        BY DEF SlotsBelow
      <4>1. j \in Minutes /\ j \in S
        <5>1. /\ j \in Minutes /\ j \in Int /\ now \in Int /\ Interval \in Int
              /\ now - Interval < j /\ j <= now
          BY <1>2, FiniteMinutes DEF Window
        <5>2. j \in (now - Interval + 1)..now
          BY <5>1
        <5> QED BY <3>2, <5>1, <5>2 DEF Recent
      <4>2. rate'[j][key] <= came'[j][key]
        BY <1>2, <1>5, <4>1 DEF RateInv
      <4> QED BY <4>1, <4>2
    <3>5. Window(now) \in SUBSET Minutes
      BY DEF Window
    <3>6. Total(rate', key, Window(now)) <= Total(came', key, S)
      BY <1>1, <1>2, <2>1, <3>4, <3>5, TotalBound
    <3>7. Total(rate', key, Window(now)) \in Nat /\ Total(came', key, S) \in Nat
      BY <1>1, <1>2, <2>1, <3>5, TotalType
    <3>8. Total(came', key, S) > MaxConnections
      BY <3>3, <3>6, <3>7, Constants
    <3> QED BY <2>1, <3>1, <3>8
  <2>3. CASE n # m
    <3>1. \A mm \in Messages : RateLimit(mm) => n # mm
      <4> SUFFICES ASSUME NEW mm \in Messages, RateLimit(mm), n = mm PROVE FALSE
        OBVIOUS
      <4>1. pc[m] = "rate" /\ pc[mm] = "rate" /\ pc' = [pc EXCEPT ![m] = "done"]
            /\ pc' = [pc EXCEPT ![mm] = "done"] /\ pc \in [Messages -> Pcs]
        BY DEF RateLimit, Ends, Goes, TypeInv
      <4> QED BY <2>3, <4>1
    <3>2. verdict[n] = "slow down" /\ mail'[n] = mail[n] /\ since'[n] = since[n]
      BY <2>r, <3>1, RefusalsStand
    <3>3. Total(came, k, S) > MaxConnections
      BY <1>1, <2>1, <3>2 DEF RefusedForMore
    <3>4. SlotsBelow(came, S, came', S, k)
      <4> SUFFICES ASSUME NEW j \in S PROVE came[j][k] <= came'[j][k]
        BY DEF SlotsBelow
      <4>1. came[j][k] \in Nat /\ Slot(j, k) \in Nat /\ j \in Minutes
        BY <1>1, <2>1 DEF Tables
      <4>2. came'[j][k] = came[j][k] + Slot(j, k)
        BY <1>4, <2>1, <4>1
      <4> HIDE DEF Slot
      <4> QED BY <4>1, <4>2
    <3>5. Total(came, k, S) <= Total(came', k, S)
      BY <1>1, <2>1, <3>4, TotalBound
    <3>6. Total(came, k, S) \in Nat /\ Total(came', k, S) \in Nat
      BY <1>1, <2>1, TotalType
    <3>7. Total(came', k, S) > MaxConnections
      BY <3>3, <3>5, <3>6, Constants
    <3> QED BY <2>1, <3>7
  <2> QED BY <2>2, <2>3
<1>8. PastKept' /\ \A n \in Messages : RefusedForMore(n)'
  BY <1>6, <1>7 DEF PastKept, Recent
<1>9. PastKept' /\ (\A n \in Messages : RefusedForMore(n)') => RateKept'
  BY DEF RateKept, PastKept, RefusedForMore, InInterval, Total, Recent
<1> QED BY <1>5, <1>8, <1>9

\* What the other actions leave of the tables, time going on.
LEMMA UncountedStep ==
  ASSUME TypeInv, RateInv, RateKept, TypeInv', [Next]_vars,
         \A m \in Messages : ~RateLimit(m)
  PROVE  RateInv' /\ RateKept'
<1>1. /\ rate \in Tables /\ came \in Tables /\ past \in Tables
      /\ clock \in 0..MaxClock /\ clock' \in 0..MaxClock
      /\ \A n \in Messages : RefusedForMore(n)
      /\ PastKept
  BY RateKeptParts DEF TypeInv, TypeOK, Tables
<1>2. \/ rate' = rate /\ past' = past /\ came' = came /\ clock' \in {clock, clock + 1}
      \/ rate' = NoRate /\ past' = NoRate /\ came' = came /\ clock' = clock
  <2>1. ASSUME NEW m \in Messages,
               \/ WhitelistPurge(m) \/ WhitelistRecipients(m) \/ CheckWhitelist(m)
               \/ NullSender(m) \/ SendersPurge(m) \/ ComeAgain(m) \/ RateLimit(m)
        PROVE  rate' = rate /\ past' = past /\ came' = came /\ clock' = clock
    BY <2>1 DEF WhitelistPurge, WhitelistRecipients, CheckWhitelist, NullSender,
                SendersPurge, ComeAgain, rateVars
  <2>2. CASE Tick BY <2>2 DEF Tick, rateVars
  <2>3. CASE Crash BY <2>3 DEF Crash
  <2>4. CASE UNCHANGED vars BY <2>4 DEF vars, rateVars
  <2> QED BY <2>1, <2>2, <2>3, <2>4 DEF Next
<1>3. Now \in Int /\ Now' \in Int /\ Now <= Now' /\ Interval \in Nat
  <2>1. clock <= clock'
    BY <1>1, <1>2
  <2>2. /\ clock \div MinuteTicks \in Minutes /\ clock' \div MinuteTicks \in Minutes
        /\ clock \div MinuteTicks <= clock' \div MinuteTicks
    BY <1>1, <2>1, MinuteOf
  <2>3. Now = clock \div MinuteTicks /\ Now' = clock' \div MinuteTicks
    BY DEF Now
  <2>4. Minutes \subseteq Int
    BY FiniteMinutes
  <2> QED BY <2>2, <2>3, <2>4, Constants
<1>4. RateInv'
  <2> SUFFICES ASSUME NEW i \in Minutes, NEW k \in Keys
               PROVE  /\ rate'[i][k] <= came'[i][k]
                      /\ i > Now' => past'[i][k] = 0
                      /\ i > Now' - Interval => past'[i][k] <= rate'[i][k]
    BY DEF RateInv
  <2>1. /\ rate[i][k] <= came[i][k]
        /\ i > Now => past[i][k] = 0
        /\ i > Now - Interval => past[i][k] <= rate[i][k]
    BY DEF RateInv
  <2>2. came[i][k] \in Nat /\ i \in Int /\ NoRate[i][k] = 0
    BY <1>1, FiniteMinutes DEF Tables, NoRate
  <2>3. /\ i > Now' => i > Now
        /\ i > Now' - Interval => i > Now - Interval
    <3>1. \A x, y, z, d \in Int : y <= z => /\ x > z => x > y
                                            /\ x > z - d => x > y - d
      OBVIOUS
    <3>2. i \in Int /\ Now \in Int /\ Now' \in Int /\ Interval \in Int /\ Now <= Now'
      BY <1>3, <2>2
    <3> QED BY <3>1, <3>2, Zenon
  <2> QED BY <1>2, <2>1, <2>2, <2>3
<1>5. ASSUME NEW i \in Minutes, NEW k \in Keys
      PROVE  Total(past', k, Recent(i)) <= MaxConnections
  <2>1. Total(past, k, Recent(i)) <= MaxConnections
    BY <1>1 DEF PastKept
  <2>2. Total(NoRate, k, Recent(i)) = 0
    BY TotalOfNone DEF Recent
  <2>3. past' = past \/ past' = NoRate
    BY <1>2
  <2> QED BY <2>1, <2>2, <2>3, Constants
<1>6. ASSUME NEW n \in Messages, verdict'[n] = "slow down"
      PROVE  Total(came', Key(mail'[n].ip), Recent(since'[n] \div MinuteTicks))
               > MaxConnections
  <2>1. verdict[n] = "slow down" /\ mail'[n] = mail[n] /\ since'[n] = since[n]
    BY <1>6, RefusalsStand
  <2>2. came' = came
    BY <1>2
  <2> QED BY <1>1, <2>1, <2>2 DEF RefusedForMore
<1>7. PastKept' /\ \A n \in Messages : RefusedForMore(n)'
  BY <1>5, <1>6 DEF PastKept, RefusedForMore, Recent
<1>8. PastKept' /\ (\A n \in Messages : RefusedForMore(n)') => RateKept'
  BY DEF RateKept, PastKept, RefusedForMore, InInterval, Total, Recent
<1> QED BY <1>4, <1>7, <1>8

\* Of no key more than MaxConnections messages get past ratelimit in Interval
\* minutes in a row, and one is refused only when more came in them.
THEOREM TheRateIsKept == Spec => []RateKept
<1>1. Init => TypeInv /\ RateInv /\ RateKept
  BY InitType, InitRate
<1>2. TypeInv /\ RateInv /\ RateKept /\ [Next]_vars => (TypeInv /\ RateInv /\ RateKept)'
  <2>1. TypeInv /\ [Next]_vars => TypeInv'
    BY TypeStep
  <2>2. ASSUME TypeInv, RateInv, RateKept, [Next]_vars
        PROVE  (TypeInv /\ RateInv /\ RateKept)'
    BY <2>1, <2>2, CountedStep, UncountedStep
  <2> QED BY <2>2
<1> QED BY <1>1, <1>2, PTL DEF Spec
=============================================================================
