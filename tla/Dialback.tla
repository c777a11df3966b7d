------------------------------- MODULE Dialback -------------------------------
(***************************************************************************)
(* The dialback filter on several hosts that share its two tables of       *)
(* senders, good and bad.  doFilter runs for each message in a thread of   *)
(* its own.  A sender that is in no table is looked up in DNS and its mail *)
(* servers are asked, one by one and for as long as they like; what one of *)
(* them says of the sender is then recorded.  A name ending in _M is what  *)
(* follows it with a mistake, for mutation checks.                         *)
(***************************************************************************)
EXTENDS SqlTtlDb

CONSTANTS
  MaxServers,  \* bound: the mail servers of a domain
  MaxClock,    \* bound: the last tick considered
  Faults       \* "sql": a statement may raise

Messages == Threads
Senders  == Tokens

ASSUME DialbackAssumption ==
  /\ Dbs = {"good", "bad"} /\ NoThread \notin Messages
  /\ TicksPerSec \in Nat \ {0} /\ TTL \in Nat /\ TTL % TicksPerSec = 0
  /\ {PurgeInterval, MaxServers, MaxClock} \subseteq Nat
  /\ Faults \subseteq {"sql"}

VARIABLES
  pc,       \* where the thread of each message is
  at,       \* which of the two TtlDbs it is concerned with
  host,     \* the host each message came to
  sender,   \* the sender of each message
  servers,  \* how many mail servers are left to ask; 0 before any is
  time,     \* the value of time.time() that it is about to record
  verdict,  \* what doFilter said of the sender: "pass", "517", or nothing
  clock,    \* time.time(), the same on every host
  heard,    \* history: what the message's servers said of its sender
  said,     \* history: what any server said of each sender
  lastUse   \* history: the time of the last use recorded, if within the TTL

dbVars  == <<table, dbLock, lastPurged>>
msgVars == <<at, host, sender, servers, time, verdict>>
vars == <<dbVars, pc, msgVars, clock, heard, said, lastUse>>

Never == -1

\* Waiting for DNS or for a server; waiting for nothing but the tables.
Outside == {"resolve", "connect", "rcpt"}
Inside  == {"purge", "look", "mark", "insert", "update"}

\* The answer that puts a sender into table d, and the verdict that goes with it.
Answer(d)  == IF d = "good" THEN "2xx" ELSE "5xx"
Verdict(d) == IF d = "good" THEN "pass" ELSE "517"

\* The tables may hold senders from before.
Init ==
  /\ table \in [Dbs -> [Senders -> {Missing, 0}]] /\ Connect
  /\ pc = [m \in Messages |-> "idle"] /\ at = [m \in Messages |-> "good"]
  /\ host \in [Messages -> Hosts] /\ sender \in [Messages -> Senders]
  /\ servers = [m \in Messages |-> 0] /\ time = [m \in Messages |-> 0]
  /\ verdict = [m \in Messages |-> "none"]
  /\ clock = 0
  /\ heard = [m \in Messages |-> {}]
  /\ said = [s \in Senders |-> {Answer(d) : d \in {e \in Dbs : Contains(e, s)}}]
  /\ lastUse = table

-----------------------------------------------------------------------------
Goes(m, from, to) == pc[m] = from /\ pc' = [pc EXCEPT ![m] = to]

\* The locals of doFilter go when it returns.
Returns(m, v) ==
  /\ pc' = [pc EXCEPT ![m] = "done"] /\ verdict' = [verdict EXCEPT ![m] = v]
  /\ servers' = [servers EXCEPT ![m] = 0]
  /\ at' = [at EXCEPT ![m] = "good"] /\ time' = [time EXCEPT ![m] = 0]

\* The next server is asked; when there is none the mail is deferred.
NextServer(m) ==
  IF servers[m] > 1
  THEN /\ pc' = [pc EXCEPT ![m] = "connect"]
       /\ servers' = [servers EXCEPT ![m] = @ - 1]
       /\ at' = [at EXCEPT ![m] = "bad"] /\ time' = [time EXCEPT ![m] = 0]
       /\ UNCHANGED verdict
  ELSE Returns(m, "unverified")

Start(m) ==
  /\ Goes(m, "idle", "purge")
  /\ UNCHANGED <<dbVars, msgVars, clock, heard, said, lastUse>>

\* No control files, or the null sender: nothing is looked up.
ReturnEarly(m) ==
  /\ pc[m] = "idle"
  /\ Returns(m, "unverified")
  /\ UNCHANGED <<dbVars, host, sender, clock, heard, said, lastUse>>

-----------------------------------------------------------------------------
(* purge() of both, and the two lookups.  What runs between lock() and     *)
(* unlock() is one statement, and then one step, or the two of a set.      *)
Purge(m) ==
  LET d == at[m]  h == host[m]
  IN /\ Goes(m, "purge", IF d = "good" THEN "purge" ELSE "look")
     /\ at' = [at EXCEPT ![m] = IF d = "good" THEN "bad" ELSE "good"]
     /\ Unlocked(d, h)
     /\ IF PurgeDue(d, h, clock)
        THEN /\ table' = [table EXCEPT ![d] = Purged(d, clock)]
             /\ lastPurged' = [lastPurged EXCEPT ![d][h] = clock]
        ELSE UNCHANGED <<table, lastPurged>>
     /\ UNCHANGED <<dbLock, host, sender, servers, time, verdict, clock,
                    heard, said, lastUse>>

\* The lock is kept for the dialogue with the servers.
LookMissing_M(m) ==
  /\ ~Contains(at[m], sender[m])
  /\ Goes(m, "look", IF at[m] = "good" THEN "look" ELSE "resolve")
  /\ Lock(at[m], host[m], m)
  /\ at' = [at EXCEPT ![m] = "bad"]
  /\ UNCHANGED <<table, lastPurged, host, sender, servers, time, verdict, clock,
                 heard, said, lastUse>>

LookMissing(m) ==
  /\ ~Contains(at[m], sender[m])
  /\ Goes(m, "look", IF at[m] = "good" THEN "look" ELSE "resolve")
  /\ Unlocked(at[m], host[m])
  /\ at' = [at EXCEPT ![m] = "bad"]
  /\ UNCHANGED <<dbVars, host, sender, servers, time, verdict, clock,
                 heard, said, lastUse>>

\* lock() and time.time().
LockToSet(m) ==
  /\ pc' = [pc EXCEPT ![m] = "insert"]
  /\ Lock(at[m], host[m], m)
  /\ time' = [time EXCEPT ![m] = clock]
  /\ UNCHANGED <<table, lastPurged, at, host, sender, servers, verdict, clock,
                 heard, said, lastUse>>

LookFound(m) ==
  /\ pc[m] = "look" /\ Contains(at[m], sender[m])
  /\ LockToSet(m)

-----------------------------------------------------------------------------
(* db[sender] = time.time(), after a lookup or after a server's answer,    *)
(* unlock(), and the return.                                               *)
\* A use more than a TTL ago is of no interest any more.
Recent(t, now) == IF now - t > TTL THEN Never ELSE t

NoteUse(d, s, t) == lastUse' = [lastUse EXCEPT ![d][s] = Recent(t, clock)]

InsertCommits(m) ==
  /\ ~Contains(at[m], sender[m])
  /\ table' = Inserted(at[m], sender[m], time[m])
  /\ NoteUse(at[m], sender[m], time[m])

\* The row is as the INSERT met it, or as others have changed it since.
UpdateCommits(m) ==
  /\ table' = Updated(at[m], sender[m], time[m])
  /\ IF lastUse[at[m]][sender[m]] = Never THEN UNCHANGED lastUse
     ELSE NoteUse(at[m], sender[m], time[m])

UnlockAndReturn(m) ==
  /\ Unlock(at[m], host[m])
  /\ Returns(m, Verdict(at[m]))
  /\ UNCHANGED <<lastPurged, host, sender, clock, heard, said>>

Insert(m) ==
  pc[m] = "insert" /\ InsertCommits(m) /\ UnlockAndReturn(m)

InsertFails(m) ==
  /\ Contains(at[m], sender[m])
  /\ Goes(m, "insert", "update")
  /\ UNCHANGED <<dbVars, msgVars, clock, heard, said, lastUse>>

Update(m) ==
  pc[m] = "update" /\ UpdateCommits(m) /\ UnlockAndReturn(m)

\* A statement raises, after its one retry or at the commit: whether it took
\* effect is not known.  After a lookup that ends the filter; after an answer
\* the exception counts as the server's.
StatementRaises(m) ==
  LET d == at[m]  h == host[m]
  IN /\ "sql" \in Faults
     /\ \/ /\ pc[m] = "purge" /\ PurgeDue(d, h, clock)
           /\ Unlocked(d, h) /\ UNCHANGED <<dbLock, lastUse>>
           /\ table' \in {table, [table EXCEPT ![d] = Purged(d, clock)]}
        \/ /\ pc[m] = "look"
           /\ Unlocked(d, h) /\ UNCHANGED <<table, dbLock, lastUse>>
        \/ /\ pc[m] = "insert" /\ Unlock(d, h)
           /\ UNCHANGED <<table, lastUse>> \/ InsertCommits(m)
        \/ /\ pc[m] = "update" /\ Unlock(d, h)
           /\ UNCHANGED <<table, lastUse>> \/ UpdateCommits(m)
     /\ IF servers[m] > 0 THEN NextServer(m) ELSE Returns(m, "unverified")
     /\ UNCHANGED <<lastPurged, host, sender, clock, heard, said>>

-----------------------------------------------------------------------------
(* DNS and the mail servers.                                               *)
\* The domain itself is appended to the servers that MX records name.
Resolve_M(m, n) ==
  /\ Goes(m, "resolve", "connect")
  /\ servers' = [servers EXCEPT ![m] = n + 1]
  /\ UNCHANGED <<dbVars, at, host, sender, time, verdict, clock,
                 heard, said, lastUse>>

Resolve(m, n) ==
  /\ Goes(m, "resolve", "connect")
  /\ servers' = [servers EXCEPT ![m] = n]
  /\ UNCHANGED <<dbVars, at, host, sender, time, verdict, clock,
                 heard, said, lastUse>>

\* No such address (501), no host to ask (no reply at all) or no answer from
\* DNS (421): the tables are left alone, which is all that is told apart.
ResolveFails(m) ==
  /\ pc[m] = "resolve"
  /\ Returns(m, "unverified")
  /\ UNCHANGED <<dbVars, host, sender, clock, heard, said, lastUse>>

\* The server takes the connection, HELO and MAIL; the code of its greeting
\* is not looked at.
Converse(m) ==
  /\ Goes(m, "connect", "rcpt")
  /\ UNCHANGED <<dbVars, msgVars, clock, heard, said, lastUse>>

\* What goes wrong with a server is put down to the sender.
ServerFails_M(m) ==
  /\ Goes(m, "connect", "mark")
  /\ at' = [at EXCEPT ![m] = "bad"]
  /\ UNCHANGED <<dbVars, host, sender, servers, time, verdict, clock,
                 heard, said, lastUse>>

\* Any other code, a closed connection, or nothing at all for smtpTimeout.
ServerFails(m) ==
  /\ pc[m] \in {"connect", "rcpt"}
  /\ NextServer(m)
  /\ UNCHANGED <<dbVars, host, sender, clock, heard, said, lastUse>>

\* RCPT is answered with 2xx or 5xx.
RcptAnswered(m, d) ==
  /\ Goes(m, "rcpt", "mark")
  /\ at' = [at EXCEPT ![m] = d]
  /\ heard' = [heard EXCEPT ![m] = @ \cup {Answer(d)}]
  /\ said' = [said EXCEPT ![sender[m]] = @ \cup {Answer(d)}]
  /\ UNCHANGED <<dbVars, host, sender, servers, time, verdict, clock, lastUse>>

Mark(m) == pc[m] = "mark" /\ LockToSet(m)

-----------------------------------------------------------------------------
Tick ==
  /\ clock < MaxClock /\ clock' = clock + 1
  /\ lastUse' = [d \in Dbs |-> [s \in Senders |-> Recent(lastUse[d][s], clock + 1)]]
  /\ UNCHANGED <<dbVars, pc, msgVars, heard, said>>

\* What a thread does without waiting for another machine.
LocalStep(m) ==
  \/ Purge(m) \/ LookMissing(m) \/ LookFound(m)
  \/ Mark(m) \/ Insert(m) \/ InsertFails(m) \/ Update(m) \/ StatementRaises(m)

RemoteStep(m) ==
  \/ \E n \in 1..MaxServers : Resolve(m, n)
  \/ ResolveFails(m) \/ Converse(m) \/ ServerFails(m)
  \/ \E d \in Dbs : RcptAnswered(m, d)

Next ==
  \/ \E m \in Messages : Start(m) \/ ReturnEarly(m) \/ LocalStep(m) \/ RemoteStep(m)
  \/ Tick

Spec == Init /\ [][Next]_vars

\* Threads that can run do run.  Nothing is assumed of DNS and the servers.
Fairness == \A m \in Messages : WF_vars(LocalStep(m))

FairSpec == Spec /\ Fairness

-----------------------------------------------------------------------------
TypeOK ==
  /\ SqlTypeOK
  /\ pc \in [Messages -> Inside \cup Outside \cup {"idle", "done"}]
  /\ at \in [Messages -> Dbs] /\ host \in [Messages -> Hosts]
  /\ sender \in [Messages -> Senders]
  /\ servers \in [Messages -> 0..MaxServers]
  /\ time \in [Messages -> 0..MaxClock]
  /\ verdict \in [Messages -> {"none", "unverified", "pass", "517"}]
  /\ clock \in 0..MaxClock
  /\ heard \in [Messages -> SUBSET {"2xx", "5xx"}]
  /\ said \in [Senders -> SUBSET {"2xx", "5xx"}]
  /\ lastUse \in [Dbs -> [Senders -> 0..MaxClock \cup {Never}]]

\* Lines 133-138, "don't save the sender as bad" in 157-158: a sender is
\* remembered as good or bad, on whatever host, only if some server answered
\* so to its own RCPT; and a message is passed or refused for good only on
\* the word of its own servers if they gave any, or of the tables.
VerdictFounded ==
  /\ \A d \in Dbs, s \in Senders : Contains(d, s) => Answer(d) \in said[s]
  /\ \A m \in Messages, d \in Dbs : verdict[m] = Verdict(d) =>
       /\ Answer(d) \in said[sender[m]]
       /\ heard[m] # {} => Answer(d) \in heard[m]

\* TtlDb.py:312-316: a token recorded or renewed stays in its table for its
\* TTL, although other hosts insert, update and purge between any two
\* statements.  Left out is the token renewed when it had expired already,
\* which the purge of another host may remove between INSERT and UPDATE.
TokensKept ==
  \A d \in Dbs, s \in Senders :
    lastUse[d][s] # Never => Contains(d, s)

\* Lines 214-215: a thread that waits for DNS or for a slow server keeps no
\* other message waiting: each one in the filter gets on to its verdict or
\* to its own wait, whatever the servers do and the statements raise.
OthersGoOn ==
  \A m \in Messages :
    pc[m] \in Inside ~> pc[m] \notin Inside
=============================================================================
