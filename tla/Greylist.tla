------------------------------ MODULE Greylist ------------------------------
(***************************************************************************)
(* The greylist filter: doFilter run for each message in a thread of its   *)
(* own, over two TtlDbs that the threads share.  A triplet of sender,      *)
(* recipient and network is a token; one seen for the first time goes to   *)
(* NotPassed, and moves to Passed when it is seen again GreylistTime later.*)
(* The message is deferred unless all its triplets are found and old       *)
(* enough.  A name ending in _M is what follows it with a mistake, for     *)
(* mutation checks.                                                        *)
(***************************************************************************)
EXTENDS Integers, Sequences

CONSTANTS
  Triplets,       \* sender/recipient/network triplets, by their digest
  Messages,       \* messages, each filtered by its own thread
  NoMessage,      \* no thread, as the holder of a lock
  NoTriplet,      \* no triplet, before the first is looked up
  GreylistTime, PassedTTL, NotPassedTTL, PurgeInterval,  \* in ticks
  TicksPerSec,    \* clock ticks in a second
  MaxClock,       \* bound: the last tick considered
  MaxCrashes,     \* bound: how often the process is killed
  MaxRecipients,  \* bound: the recipients of a message
  Faults          \* "sync": sync() of a db may raise

ASSUME GreylistAssumption ==
  /\ NoMessage \notin Messages /\ NoTriplet \notin Triplets
  /\ {GreylistTime, PassedTTL, NotPassedTTL, PurgeInterval, MaxClock,
      MaxCrashes, MaxRecipients} \subseteq Nat
  /\ TicksPerSec \in Nat \ {0}
  /\ Faults \subseteq {"sync"}

VARIABLES
  passed, passedDisk, passedLock, passedPurged,              \* _sendersPassed
  notPassed, notPassedDisk, notPassedLock, notPassedPurged,  \* _sendersNotPassed
  pc,        \* where the thread of each message is
  triplets,  \* the triplets of each message, one per recipient
  todo,      \* those not looked up yet
  current,   \* the one being looked up
  foundAll,  \* no triplet was missing or too young so far
  verdict,   \* what doFilter returned
  clock,     \* time.time()
  crashes,   \* how often the process was killed
  firstTry   \* history: when each triplet was first looked up

passedVars    == <<passed, passedDisk, passedLock, passedPurged>>
notPassedVars == <<notPassed, notPassedDisk, notPassedLock, notPassedPurged>>
msgVars == <<triplets, todo, current, foundAll, verdict>>
envVars == <<clock, crashes>>
vars == <<passedVars, notPassedVars, pc, msgVars, envVars, firstTry>>

Passed == INSTANCE TtlDb WITH
  Tokens <- Triplets, Threads <- Messages, NoThread <- NoMessage,
  TTL <- PassedTTL,
  db <- passed, disk <- passedDisk, dbLock <- passedLock,
  lastPurged <- passedPurged

NotPassed == INSTANCE TtlDb WITH
  Tokens <- Triplets, Threads <- Messages, NoThread <- NoMessage,
  TTL <- NotPassedTTL,
  db <- notPassed, disk <- notPassedDisk, dbLock <- notPassedLock,
  lastPurged <- notPassedPurged

Never == -1

\* Nothing keeps an alias from listing a recipient twice.
RecipientLists == UNION {[1..n -> Triplets] : n \in 0..MaxRecipients}

\* Where a thread holds the locks.
HoldsPassed    == {"unlockP1", "lookup", "unlockN", "unlockP"}
HoldsNotPassed == {"unlockN1", "unlockN"}
Pcs == HoldsPassed \cup HoldsNotPassed
         \cup {"idle", "purgeP", "purgeN", "next", "lockP", "done", "killed"}

Init ==
  /\ Passed!Open /\ NotPassed!Open
  /\ pc = [m \in Messages |-> "idle"]
  /\ triplets = [m \in Messages |-> <<>>] /\ todo = triplets
  /\ current = [m \in Messages |-> NoTriplet]
  /\ foundAll = [m \in Messages |-> TRUE]
  /\ verdict = [m \in Messages |-> "none"]
  /\ clock = 0 /\ crashes = 0
  /\ firstTry = [t \in Triplets |-> Never]

-----------------------------------------------------------------------------
InFilter(m) == pc[m] \notin {"idle", "done", "killed"}

Goes(m, from, to) == pc[m] = from /\ pc' = [pc EXCEPT ![m] = to]

\* The locals of doFilter go when it returns.
Returns(m, v) ==
  /\ pc' = [pc EXCEPT ![m] = "done"]
  /\ verdict' = [verdict EXCEPT ![m] = v]
  /\ todo' = [todo EXCEPT ![m] = <<>>]
  /\ current' = [current EXCEPT ![m] = NoTriplet]
  /\ foundAll' = [foundAll EXCEPT ![m] = TRUE]

\* Address, sender and recipients are read from the control files.
Start(m, list) ==
  /\ Goes(m, "idle", "purgeP")
  /\ triplets' = [triplets EXCEPT ![m] = list]
  /\ todo' = [todo EXCEPT ![m] = list]
  /\ UNCHANGED <<passedVars, notPassedVars, current, foundAll, verdict,
                 envVars, firstTry>>

\* No address, no control files, or the null sender: nothing is looked up.
ReturnEarly(m) ==
  /\ pc[m] = "idle"
  /\ Returns(m, "exempt")
  /\ UNCHANGED <<passedVars, notPassedVars, triplets, envVars, firstTry>>

\* _sendersPassed.purge() and _sendersNotPassed.purge().  Nobody else touches
\* a db between lock() and the first access after it, so they are one step.
PurgePassed(m) ==
  /\ Goes(m, "purgeP", "unlockP1")
  /\ Passed!LockAndPurge(m, clock)
  /\ UNCHANGED <<notPassedVars, msgVars, envVars, firstTry>>

\* purge() keeps the lock.
PurgePassedUnlock_M(m) ==
  /\ Goes(m, "unlockP1", "purgeN")
  /\ UNCHANGED <<passedVars, notPassedVars, msgVars, envVars, firstTry>>

PurgePassedUnlock(m) ==
  /\ Goes(m, "unlockP1", "purgeN")
  /\ Passed!Unlock
  /\ UNCHANGED <<notPassedVars, msgVars, envVars, firstTry>>

PurgeNotPassed(m) ==
  /\ Goes(m, "purgeN", "unlockN1")
  /\ NotPassed!LockAndPurge(m, clock)
  /\ UNCHANGED <<passedVars, msgVars, envVars, firstTry>>

PurgeNotPassedUnlock(m) ==
  /\ Goes(m, "unlockN1", "next")
  /\ NotPassed!Unlock
  /\ UNCHANGED <<passedVars, msgVars, envVars, firstTry>>

\* The loop over the recipients.
NextTriplet(m) ==
  /\ todo[m] # <<>>
  /\ Goes(m, "next", "lockP")
  /\ todo' = [todo EXCEPT ![m] = Tail(@)]
  /\ current' = [current EXCEPT ![m] = Head(todo[m])]
  /\ UNCHANGED <<passedVars, notPassedVars, triplets, foundAll, verdict,
                 envVars, firstTry>>

LockPassed(m) ==
  /\ Goes(m, "lockP", "lookup")
  /\ Passed!Lock(m)
  /\ UNCHANGED <<notPassedVars, msgVars, envVars, firstTry>>

\* The second lost in int() is given to the sender once more.
OldEnough_M(t) == notPassed[t] + GreylistTime <= clock + TicksPerSec

OldEnough(t) == notPassed[t] + GreylistTime <= clock

\* The last triplet decides for all.
Found_M(m) == foundAll' = [foundAll EXCEPT ![m] = TRUE]

Found(m) == UNCHANGED foundAll

\* _sendersNotPassed.lock() and what the triplet's state then asks for.
Lookup(m) ==
  LET t == current[m]
      defers == foundAll' = [foundAll EXCEPT ![m] = FALSE]
      renews == Passed!Write(Passed!With(t, clock)) /\ Found(m)
  IN /\ Goes(m, "lookup", "unlockN")
     /\ \/ /\ NotPassed!Contains(t) /\ ~OldEnough(t)
           /\ defers
           /\ NotPassed!Lock(m) /\ UNCHANGED passedVars
        \/ /\ NotPassed!Contains(t) /\ OldEnough(t)
           /\ renews
           /\ NotPassed!LockAndWrite(m, NotPassed!Without(t))
        \/ /\ ~NotPassed!Contains(t) /\ Passed!Contains(t)
           /\ renews
           /\ NotPassed!Lock(m)
        \/ /\ ~NotPassed!Contains(t) /\ ~Passed!Contains(t)
           /\ defers
           /\ NotPassed!LockAndWrite(m, NotPassed!With(t, clock))
           /\ UNCHANGED passedVars
     /\ firstTry' = [firstTry EXCEPT ![t] = IF @ = Never THEN clock ELSE @]
     /\ UNCHANGED <<triplets, todo, current, verdict, envVars>>

UnlockNotPassed(m) ==
  /\ Goes(m, "unlockN", "unlockP")
  /\ NotPassed!Unlock
  /\ UNCHANGED <<passedVars, msgVars, envVars, firstTry>>

UnlockPassed(m) ==
  /\ Goes(m, "unlockP", "next")
  /\ Passed!Unlock
  /\ UNCHANGED <<notPassedVars, msgVars, envVars, firstTry>>

\* The positive reply is forgotten.
Finish_M(m) ==
  /\ pc[m] = "next" /\ todo[m] = <<>>
  /\ Returns(m, IF foundAll[m] THEN "nothing" ELSE "defer")
  /\ UNCHANGED <<passedVars, notPassedVars, triplets, envVars, firstTry>>

Finish(m) ==
  /\ pc[m] = "next" /\ todo[m] = <<>>
  /\ Returns(m, IF foundAll[m] THEN "accept" ELSE "defer")
  /\ UNCHANGED <<passedVars, notPassedVars, triplets, envVars, firstTry>>

\* sync() raises in an unlock and the exception leaves doFilter; in the
\* finally clause the second unlock is not reached after the first one fails.
SyncPassedRaises(m) ==
  /\ "sync" \in Faults
  /\ pc[m] \in {"unlockP1", "unlockP"}
  /\ Passed!UnlockRaises
  /\ Returns(m, "raised")
  /\ UNCHANGED <<notPassedVars, triplets, envVars, firstTry>>

SyncNotPassedRaises(m) ==
  /\ "sync" \in Faults
  /\ pc[m] \in {"unlockN1", "unlockN"}
  /\ NotPassed!UnlockRaises
  /\ Returns(m, "raised")
  /\ UNCHANGED <<passedVars, triplets, envVars, firstTry>>

-----------------------------------------------------------------------------
Tick ==
  /\ clock < MaxClock
  /\ clock' = clock + 1
  /\ UNCHANGED <<passedVars, notPassedVars, pc, msgVars, crashes, firstTry>>

\* The daemon is killed, at the end of its shutdown wait for one, and started
\* again: its threads are gone, the files stay.
Crash ==
  /\ crashes < MaxCrashes
  /\ crashes' = crashes + 1
  /\ Passed!Reopen /\ NotPassed!Reopen
  /\ pc' = [m \in Messages |->
              IF pc[m] \in {"idle", "done"} THEN pc[m] ELSE "killed"]
  /\ todo' = [m \in Messages |-> <<>>]
  /\ current' = [m \in Messages |-> NoTriplet]
  /\ foundAll' = [m \in Messages |-> TRUE]
  /\ UNCHANGED <<triplets, verdict, clock, firstTry>>

MessageStep(m) ==
  \/ PurgePassed(m) \/ PurgePassedUnlock(m)
  \/ PurgeNotPassed(m) \/ PurgeNotPassedUnlock(m)
  \/ NextTriplet(m)
  \/ LockPassed(m) \/ Lookup(m)
  \/ UnlockNotPassed(m) \/ UnlockPassed(m) \/ Finish(m)
  \/ SyncPassedRaises(m) \/ SyncNotPassedRaises(m)

Arrive(m) ==
  \/ \E list \in RecipientLists : Start(m, list)
  \/ ReturnEarly(m)

Next ==
  \/ \E m \in Messages : Arrive(m) \/ MessageStep(m)
  \/ Tick \/ Crash

Spec == Init /\ [][Next]_vars

\* Threads that can run do run; messages need not come and time need not pass.
FairSpec == Spec /\ \A m \in Messages : WF_vars(MessageStep(m))

-----------------------------------------------------------------------------
TypeOK ==
  /\ Passed!TypeOK /\ NotPassed!TypeOK
  /\ pc \in [Messages -> Pcs]
  /\ triplets \in [Messages -> Seq(Triplets)]
  /\ todo \in [Messages -> Seq(Triplets)]
  /\ current \in [Messages -> Triplets \cup {NoTriplet}]
  /\ foundAll \in [Messages -> BOOLEAN]
  /\ verdict \in [Messages -> {"none", "accept", "defer", "raised", "exempt"}]
  /\ clock \in 0..MaxClock /\ crashes \in 0..MaxCrashes
  /\ firstTry \in [Triplets -> 0..MaxClock \cup {Never}]

\* "A triplet must be at as old as greylistTime to be accepted" (lines
\* 39-40), up to the second that int() may add to its age (TtlDb.py:297): no
\* order of messages, purges and crashes lets a younger one through.
GreylistHonoured ==
  \A m \in Messages : verdict[m] = "accept" =>
    \A i \in DOMAIN triplets[m] :
      LET t == triplets[m][i]
      IN firstTry[t] # Never /\ clock - firstTry[t] > GreylistTime - TicksPerSec

\* A triplet is in one db at most, until a crash loses half of a move (lines
\* 144-145).
OneDbAtMost ==
  crashes = 0 =>
    \A t \in Triplets : ~(Passed!Contains(t) /\ NotPassed!Contains(t))

Known(t) == Passed!Contains(t) \/ NotPassed!Contains(t)

Flushed(t) == passed[t] = passedDisk[t] /\ notPassed[t] = notPassedDisk[t]

\* What the filter has learned of a triplet it forgets only by purging it at
\* its TTL (TtlDb.py:280-283), or in a crash before the last change to that
\* triplet was flushed: the purge of one db cannot meet a move from the other.
KnownTripletsKept ==
  \A t \in Triplets : Known(t) /\ ~Known(t)' =>
    \/ /\ Passed!Contains(t) => passed[t] < clock - PassedTTL
       /\ NotPassed!Contains(t) => notPassed[t] < clock - NotPassedTTL
    \/ crashes' # crashes /\ ~Flushed(t)

\* And a message that has purged a db finds no token there that was last used
\* more than a TTL and a purge interval ago, crash or no crash.
NoStaleTokens ==
  \A m \in Messages, t \in Triplets :
    /\ pc[m] = "purgeP" /\ pc'[m] = "unlockP1" /\ passed'[t] # Passed!Missing
         => clock - passed[t] <= PassedTTL + PurgeInterval
    /\ pc[m] = "purgeN" /\ pc'[m] = "unlockN1" /\ notPassed'[t] # NotPassed!Missing
         => clock - notPassed[t] <= NotPassedTTL + PurgeInterval

\* TtlDb.py:271-286: a token is there for its TTL, and not for longer.
TtlsHonoured == [][KnownTripletsKept /\ NoStaleTokens]_vars

\* The two locks are taken in one order and always given back: each message
\* in the filter gets its verdict, if threads that can run do run.
EveryMessageEnds ==
  \A m \in Messages : InFilter(m) ~> ~InFilter(m)
=============================================================================
