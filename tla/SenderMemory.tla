---------------------------- MODULE SenderMemory ----------------------------
(***************************************************************************)
(* The filters that remember senders, in the order of pythonfilter.conf:   *)
(* auto_whitelist, comeagain, ratelimit.  Each message goes through them   *)
(* in a thread of its own.  The first two keep a TtlDb of pairs, the third *)
(* a table of connections by the minute, all shared by the threads.  A     *)
(* filter holds one lock around all it does to its store and touches       *)
(* nothing else meanwhile, so what it does under the lock is one step.  A  *)
(* name ending in _M is what follows it with a mistake, for mutation       *)
(* checks.                                                                 *)
(***************************************************************************)
EXTENDS Integers, Sequences, FiniteSetsExt

CONSTANTS
  Messages,        \* messages, each filtered by its own thread
  NoMessage,       \* no thread, as the holder of a lock
  Mails,           \* what a message may be: [auth, from, to, ip]
  NoMail,          \* a message that has not arrived
  TTL, PurgeInterval,  \* of both dbs, in ticks of a second
  MinuteTicks,     \* ticks in a minute
  MaxConnections, Interval, RatePurge, LimitNetwork,  \* of ratelimit
  MaxClock,        \* bound: the last tick considered
  MaxAtOnce,       \* bound: the messages in the filters at once
  Faults           \* "sync": sync() of a db raises, "crash": the process is
                   \* killed; bound: each at most once

Null == "null"  \* the null sender

ASSUME SenderMemoryAssumption ==
  /\ NoMessage \notin Messages /\ NoMail \notin Mails
  /\ \A m \in Mails : m.auth \in BOOLEAN /\ IsFiniteSet(m.to) /\ Len(m.ip) = 2
  /\ {TTL, PurgeInterval, MaxConnections, RatePurge, MaxClock, MaxAtOnce}
       \subseteq Nat
  /\ {MinuteTicks, Interval} \subseteq Nat \ {0}
  /\ LimitNetwork \in BOOLEAN /\ Faults \subseteq {"sync", "crash"}

VARIABLES
  whitelist, whitelistDisk, whitelistPurged,  \* _whitelist of auto_whitelist
  senders, sendersDisk, sendersPurged,        \* _senders of comeagain
  rate, ratePurged,  \* _senders and _sendersLastPurged of ratelimit
  pc,        \* which access the thread of each message makes next
  mail,      \* what each message is
  verdict,   \* what is answered to it
  clock,     \* time.time()
  faults,    \* which of the faults have happened
  since,     \* history: when each thread last purged, or was last counted
  sent,      \* history: who wrote to whom, as auto_whitelist was told
  tried,     \* history: the same for comeagain
  standing,  \* history: what those say of each message when it is looked up
  came, past \* history: minute -> key -> messages counted, and let past

whitelistVars == <<whitelist, whitelistDisk, whitelistPurged, sent>>
sendersVars   == <<senders, sendersDisk, sendersPurged, tried>>
rateVars      == <<rate, ratePurged, came, past>>
msgVars       == <<pc, verdict, mail, since, standing>>
vars == <<whitelistVars, sendersVars, rateVars, msgVars, clock, faults>>

Never == -1

\* Pairs of addresses, by the digest of one after the other.
Pairs == UNION {({m.from} \X m.to) \cup (m.to \X {m.from}) : m \in Mails}

Whitelist == INSTANCE TtlDb WITH
  Tokens <- Pairs, Threads <- Messages, NoThread <- NoMessage,
  TicksPerSec <- 1, db <- whitelist, disk <- whitelistDisk,
  dbLock <- NoMessage, lastPurged <- whitelistPurged

Senders == INSTANCE TtlDb WITH
  Tokens <- Pairs, Threads <- Messages, NoThread <- NoMessage,
  TicksPerSec <- 1, db <- senders, disk <- sendersDisk,
  dbLock <- NoMessage, lastPurged <- sendersPurged

\* What ratelimit counts by: the address, or only its network.
Key(ip) == IF LimitNetwork THEN <<ip[1]>> ELSE ip

Keys    == {Key(m.ip) : m \in Mails}
Minutes == 0..(MaxClock \div MinuteTicks)
NoRate  == [i \in Minutes |-> [k \in Keys |-> 0]]

\* Longer ago than any purge interval.
LongAgo == -(RatePurge + 1)

\* When each pair was last written: at the latest, and for certain.
NoRecord == [p \in Pairs |-> [latest |-> Never, sure |-> Never]]

Init ==
  /\ Whitelist!Open /\ Senders!Open /\ sent = NoRecord /\ tried = NoRecord
  /\ rate = NoRate /\ ratePurged = LongAgo /\ came = NoRate /\ past = NoRate
  /\ pc = [m \in Messages |-> "idle"] /\ verdict = [m \in Messages |-> "none"]
  /\ mail = [m \in Messages |-> NoMail]
  /\ since = [m \in Messages |-> Never]
  /\ standing = [m \in Messages |-> "none"]
  /\ clock = 0 /\ faults = {}

-----------------------------------------------------------------------------
Happens(fault) == fault \in Faults \ faults /\ faults' = faults \cup {fault}

\* sync() raises unless flushed.
Sync(flushed) ==
  \/ flushed /\ UNCHANGED faults
  \/ ~flushed /\ Happens("sync")

Goes(m, from, to) == pc[m] = from /\ pc' = [pc EXCEPT ![m] = to]

\* The reply is lost.
Ends_M(m, from, reply) == Goes(m, from, "done") /\ UNCHANGED verdict

\* No filter after this one is asked, or there is none.
Ends(m, from, reply) ==
  Goes(m, from, "done") /\ verdict' = [verdict EXCEPT ![m] = reply]

\* db[pair] = time.time() for each of the pairs.
Set(db, pairs) == [p \in Pairs |-> IF p \in pairs THEN clock ELSE db[p]]

Written(history, pairs, flushed) ==
  [p \in Pairs |->
     IF p \notin pairs THEN history[p]
     ELSE [latest |-> clock, sure |-> IF flushed THEN clock ELSE history[p].sure]]

\* What is known of pairs that m is about to look up: that one is unknown or
\* outdated, that all are there, or neither, after a failure or by a purge
\* that is due but not made.
Standing(m, history, pairs) ==
  IF \E p \in pairs : \/ history[p].latest = Never
                      \/ since[m] - history[p].latest > TTL + PurgeInterval
  THEN "unknown"
  ELSE IF \A p \in pairs : history[p].sure # Never /\ clock - history[p].sure <= TTL
  THEN "known" ELSE "unsure"

\* A filter whose sync() raises is passed over.
WhitelistPurge(m) ==
  /\ Cardinality({n \in Messages : pc[n] \notin {"idle", "done", "killed"}}) < MaxAtOnce
  /\ \E flushed \in BOOLEAN :
       /\ Sync(flushed)
       /\ Whitelist!Purge(clock, flushed)
       /\ Goes(m, "idle", IF flushed THEN "whitelist" ELSE "purge senders")
  /\ \E new \in Mails : mail' = [mail EXCEPT ![m] = new]
  /\ since' = [since EXCEPT ![m] = clock]
  /\ UNCHANGED <<sent, sendersVars, rateVars, verdict, standing, clock>>

\* A note to oneself is recorded as well.
ToRecord_M(m) == {mail[m].from} \X mail[m].to

ToRecord(m) == {mail[m].from} \X (mail[m].to \ {mail[m].from})

WhitelistRecipients(m) ==
  /\ Goes(m, "whitelist", "purge senders") /\ mail[m].auth
  /\ \E flushed \in BOOLEAN :
       /\ Sync(flushed)
       /\ Whitelist!Access(Set(whitelist, ToRecord(m)), flushed)
       /\ sent' = Written(sent, {p \in Pairs : p[1] = mail[m].from
                             /\ p[2] \in mail[m].to /\ p[1] # p[2]}, flushed)
  /\ UNCHANGED <<sendersVars, rateVars, verdict, mail, since, standing, clock>>

FoundWhitelisted(m) ==
  \A r \in mail[m].to : Whitelist!Contains(<<r, mail[m].from>>)

CheckWhitelist(m) ==
  /\ pc[m] = "whitelist" /\ ~mail[m].auth
  /\ \E flushed \in BOOLEAN :
       /\ Sync(flushed)
       /\ Whitelist!Access(whitelist, flushed)
       /\ IF flushed /\ FoundWhitelisted(m)
          THEN Ends(m, "whitelist", "200")
          ELSE Goes(m, "whitelist", "purge senders") /\ UNCHANGED verdict
       /\ standing' = [standing EXCEPT ![m] = IF flushed
            THEN Standing(m, sent, mail[m].to \X {mail[m].from}) ELSE "none"]
  /\ UNCHANGED <<sent, sendersVars, rateVars, mail, since, clock>>

\* comeagain lets the null sender through.
NullSender(m) ==
  /\ Goes(m, "purge senders", "rate") /\ mail[m].from = Null
  /\ standing' = [standing EXCEPT ![m] = "none"]
  /\ UNCHANGED <<whitelistVars, sendersVars, rateVars, verdict, mail, since,
                 clock, faults>>

SendersPurge(m) ==
  /\ pc[m] = "purge senders" /\ mail[m].from # Null
  /\ \E flushed \in BOOLEAN :
       /\ Sync(flushed)
       /\ Senders!Purge(clock, flushed)
       /\ Goes(m, "purge senders", IF flushed THEN "senders" ELSE "rate")
  /\ since' = [since EXCEPT ![m] = clock]
  /\ standing' = [standing EXCEPT ![m] = "none"]
  /\ UNCHANGED <<whitelistVars, tried, rateVars, verdict, mail, clock>>

\* All pairs are looked up, and recorded, before the verdict.
ComeAgain(m) ==
  LET pairs == {mail[m].from} \X mail[m].to
  IN  /\ pc[m] = "senders"
      /\ \E flushed \in BOOLEAN :
           /\ Sync(flushed)
           /\ Senders!Access(Set(senders, pairs), flushed)
           /\ IF flushed /\ \E p \in pairs : ~Senders!Contains(p)
              THEN Ends(m, "senders", "come again")
              ELSE Goes(m, "senders", "rate") /\ UNCHANGED verdict
           /\ standing' = [standing EXCEPT ![m] =
                IF flushed THEN Standing(m, tried, pairs) ELSE "none"]
           /\ tried' = Written(tried, pairs, flushed)
      /\ UNCHANGED <<whitelistVars, rateVars, mail, since, clock>>

-----------------------------------------------------------------------------
Now == clock \div MinuteTicks

Window(now) == {i \in Minutes : now - Interval < i /\ i <= now}

Connections(table, key, now) ==
  MapThenSumSet(LAMBDA i : table[i][key], Window(now))

\* Slots that are still counted go as well.
Scrubbed_M == [i \in Minutes |-> IF i < Now THEN NoRate[i] ELSE rate[i]]

Scrubbed == [i \in Minutes |-> IF i < Now - Interval THEN NoRate[i] ELSE rate[i]]

\* Refused messages are counted too.
RateLimit(m) ==
  LET due == Now > ratePurged + RatePurge
      key == Key(mail[m].ip)
      One(table) == [table EXCEPT ![Now][key] = @ + 1]
  IN  /\ pc[m] = "rate"
      /\ rate' = One(IF due THEN Scrubbed ELSE rate)
      /\ ratePurged' = IF due THEN Now ELSE ratePurged
      /\ came' = One(came)
      /\ IF Connections(rate', key, Now) > MaxConnections
         THEN Ends(m, "rate", "slow down") /\ UNCHANGED past
         ELSE Ends(m, "rate", "pass") /\ past' = One(past)
      /\ since' = [since EXCEPT ![m] = clock]
      /\ UNCHANGED <<whitelistVars, sendersVars, mail, standing, clock, faults>>

Tick ==
  /\ clock < MaxClock /\ clock' = clock + 1
  /\ UNCHANGED <<whitelistVars, sendersVars, rateVars, msgVars, faults>>

\* The daemon is killed and started again; its clients see no verdict.
Crash ==
  /\ Happens("crash")
  /\ Whitelist!Reopen /\ Senders!Reopen
  /\ rate' = NoRate /\ ratePurged' = LongAgo /\ past' = NoRate
  /\ LET Kept(old, none) == [m \in Messages |-> IF pc[m] = "done" THEN old[m] ELSE none]
     IN  /\ mail' = Kept(mail, NoMail) /\ since' = Kept(since, Never)
         /\ standing' = Kept(standing, "none")
  /\ pc' = [m \in Messages |->
              IF pc[m] \in {"idle", "done"} THEN pc[m] ELSE "killed"]
  /\ UNCHANGED <<sent, tried, came, verdict, clock>>

Next ==
  \/ \E m \in Messages :
       WhitelistPurge(m) \/ WhitelistRecipients(m) \/ CheckWhitelist(m)
         \/ NullSender(m) \/ SendersPurge(m) \/ ComeAgain(m) \/ RateLimit(m)
  \/ Tick \/ Crash

Spec == Init /\ [][Next]_vars

-----------------------------------------------------------------------------
TypeOK ==
  /\ Whitelist!TypeOK /\ Senders!TypeOK
  /\ {rate, came, past} \subseteq [Minutes -> [Keys -> Nat]]
  /\ ratePurged \in Minutes \cup {LongAgo}
  /\ \A m \in Messages :
       /\ mail[m] = NoMail <=> pc[m] \in {"idle", "killed"}
       /\ pc[m] = "done" <=> verdict[m] # "none"

\* Who has written to whom decides what auto_whitelist exempts: a message is
\* exempt only when each of its recipients, as an authenticated sender, had
\* written to its sender, not to himself, within the TTL and one purge interval;
\* and it is exempt for certain when they did so within the TTL, whatever
\* was purged, flushed or lost in a crash in between.
ExemptByCorrespondence ==
  \A m \in Messages :
    /\ verdict[m] = "200" => standing[m] # "unknown"
    /\ pc[m] = "purge senders" => standing[m] # "known"

\* comeagain holds a message up only if one of its pairs had not been tried
\* within the TTL, and lets it go on only if all had been, by other messages,
\* within the TTL and one purge interval.
HeldUpOnce ==
  \A m \in Messages :
    /\ verdict[m] = "come again" => standing[m] # "known"
    /\ verdict[m] \in {"pass", "slow down"} \/ pc[m] = "rate"
         => standing[m] # "unknown"

\* The messages of a key in the Interval minutes up to this one.
InInterval(table, key, last) ==
  MapThenSumSet(LAMBDA i : table[i][key], Minutes \cap ((last - Interval + 1)..last))

\* Of no key more than MaxConnections messages get past ratelimit in Interval
\* minutes in a row, and one is refused only when more came in them.  What was
\* let past before a crash is forgotten with the counts.
RateKept ==
  /\ \A i \in Minutes, k \in Keys : InInterval(past, k, i) <= MaxConnections
  /\ \A m \in Messages : verdict[m] = "slow down" =>
       InInterval(came, Key(mail[m].ip), since[m] \div MinuteTicks)
         > MaxConnections
=============================================================================
