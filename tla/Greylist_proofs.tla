-------------------------- MODULE Greylist_proofs --------------------------
(***************************************************************************)
(* Proofs about module Greylist, for every set of messages and triplets,   *)
(* all times and intervals, any number of crashes and failing syncs.       *)
(***************************************************************************)
EXTENDS Greylist, SequenceTheorems, TLAPS

\* int() takes less than a second off a time.
LEMMA StoredTime ==
  ASSUME NEW time \in Nat
  PROVE  /\ Passed!Stored(time) \in Nat /\ NotPassed!Stored(time) \in Nat
         /\ Passed!Stored(time) <= time /\ NotPassed!Stored(time) <= time
         /\ Passed!Stored(time) > time - TicksPerSec
         /\ NotPassed!Stored(time) > time - TicksPerSec
<1> DEFINE q == time \div TicksPerSec
<1>1. TicksPerSec \in Nat \ {0}
  BY GreylistAssumption
<1>2. q \in Nat /\ q * TicksPerSec \in Nat /\ q * TicksPerSec <= time
      /\ q * TicksPerSec > time - TicksPerSec
  BY <1>1
<1> QED BY <1>2 DEF Passed!Stored, NotPassed!Stored

LEMMA Constants ==
  /\ GreylistTime \in Nat /\ PassedTTL \in Nat /\ NotPassedTTL \in Nat
  /\ PurgeInterval \in Nat /\ MaxClock \in Nat /\ MaxCrashes \in Nat
  /\ MaxRecipients \in Nat /\ TicksPerSec \in Nat \ {0}
BY GreylistAssumption

-----------------------------------------------------------------------------
(* Types.                                                                  *)
LEMMA InitTypeOK == Init => TypeOK
<1> SUFFICES ASSUME Init PROVE TypeOK
  OBVIOUS
<1> USE DEF Init
<1>1. Passed!TypeOK /\ NotPassed!TypeOK
  BY DEF Passed!TypeOK, NotPassed!TypeOK, Passed!Open, NotPassed!Open,
         Passed!Missing, NotPassed!Missing
<1>2. pc \in [Messages -> Pcs]
  BY DEF Pcs
<1>3. triplets \in [Messages -> Seq(Triplets)] /\ todo \in [Messages -> Seq(Triplets)]
  BY EmptySeq
<1>4. clock \in 0..MaxClock /\ crashes \in 0..MaxCrashes
  BY Constants
<1>5. firstTry \in [Triplets -> 0..MaxClock \cup {Never}]
  OBVIOUS
<1>6. /\ current \in [Messages -> Triplets \cup {NoTriplet}]
      /\ foundAll \in [Messages -> BOOLEAN]
      /\ verdict \in [Messages -> {"none", "accept", "defer", "raised", "exempt"}]
  OBVIOUS
<1> QED BY <1>1, <1>2, <1>3, <1>4, <1>5, <1>6 DEF TypeOK

\* The steps of a db keep its type.
LEMMA PassedType ==
  ASSUME Passed!TypeOK, clock \in Nat
  PROVE  /\ \A m \in Messages : Passed!LockAndPurge(m, clock) => Passed!TypeOK'
         /\ \A m \in Messages : Passed!Lock(m) => Passed!TypeOK'
         /\ Passed!Unlock \/ Passed!UnlockRaises => Passed!TypeOK'
         /\ \A t \in Triplets \cup {NoTriplet} :
              Passed!Write(Passed!With(t, clock)) => Passed!TypeOK'
         /\ Passed!Reopen => Passed!TypeOK'
         /\ UNCHANGED passedVars => Passed!TypeOK'
<1> USE DEF Passed!TypeOK, Passed!Missing
<1>1. ASSUME NEW m \in Messages, Passed!LockAndPurge(m, clock)
      PROVE  Passed!TypeOK'
  BY <1>1 DEF Passed!LockAndPurge, Passed!Purged
<1>2. ASSUME NEW m \in Messages, Passed!Lock(m) PROVE Passed!TypeOK'
  BY <1>2 DEF Passed!Lock
<1>3. ASSUME Passed!Unlock \/ Passed!UnlockRaises PROVE Passed!TypeOK'
  BY <1>3 DEF Passed!Unlock, Passed!UnlockRaises
<1>4. ASSUME NEW t \in Triplets \cup {NoTriplet},
             Passed!Write(Passed!With(t, clock))
      PROVE  Passed!TypeOK'
  <2>1. Passed!Stored(clock) \in Nat
    BY StoredTime
  <2> QED BY <1>4, <2>1 DEF Passed!Write, Passed!With
<1>5. ASSUME Passed!Reopen PROVE Passed!TypeOK'
  BY <1>5 DEF Passed!Reopen
<1>6. ASSUME UNCHANGED passedVars PROVE Passed!TypeOK'
  BY <1>6 DEF passedVars
<1> QED BY <1>1, <1>2, <1>3, <1>4, <1>5, <1>6

LEMMA NotPassedType ==
  ASSUME NotPassed!TypeOK, clock \in Nat
  PROVE  /\ \A m \in Messages : NotPassed!LockAndPurge(m, clock) => NotPassed!TypeOK'
         /\ \A m \in Messages : NotPassed!Lock(m) => NotPassed!TypeOK'
         /\ NotPassed!Unlock \/ NotPassed!UnlockRaises => NotPassed!TypeOK'
         /\ \A m \in Messages, t \in Triplets \cup {NoTriplet} :
              \/ NotPassed!LockAndWrite(m, NotPassed!With(t, clock))
              \/ NotPassed!LockAndWrite(m, NotPassed!Without(t))
              => NotPassed!TypeOK'
         /\ NotPassed!Reopen => NotPassed!TypeOK'
         /\ UNCHANGED notPassedVars => NotPassed!TypeOK'
<1> USE DEF NotPassed!TypeOK, NotPassed!Missing
<1>1. ASSUME NEW m \in Messages, NotPassed!LockAndPurge(m, clock)
      PROVE  NotPassed!TypeOK'
  BY <1>1 DEF NotPassed!LockAndPurge, NotPassed!Purged
<1>2. ASSUME NEW m \in Messages, NotPassed!Lock(m) PROVE NotPassed!TypeOK'
  BY <1>2 DEF NotPassed!Lock
<1>3. ASSUME NotPassed!Unlock \/ NotPassed!UnlockRaises PROVE NotPassed!TypeOK'
  BY <1>3 DEF NotPassed!Unlock, NotPassed!UnlockRaises
<1>4. ASSUME NEW m \in Messages, NEW t \in Triplets \cup {NoTriplet},
             \/ NotPassed!LockAndWrite(m, NotPassed!With(t, clock))
             \/ NotPassed!LockAndWrite(m, NotPassed!Without(t))
      PROVE  NotPassed!TypeOK'
  <2>1. NotPassed!Stored(clock) \in Nat
    BY StoredTime
  <2> QED BY <1>4, <2>1
          DEF NotPassed!LockAndWrite, NotPassed!With, NotPassed!Without
<1>5. ASSUME NotPassed!Reopen PROVE NotPassed!TypeOK'
  BY <1>5 DEF NotPassed!Reopen
<1>6. ASSUME UNCHANGED notPassedVars PROVE NotPassed!TypeOK'
  BY <1>6 DEF notPassedVars
<1> QED BY <1>1, <1>2, <1>3, <1>4, <1>5, <1>6

LEMMA LocalTypes ==
  ASSUME TypeOK, NEW m \in Messages, NEW v \in {"accept", "defer", "raised", "exempt"},
         Returns(m, v)
  PROVE  /\ pc' \in [Messages -> Pcs]
         /\ todo' \in [Messages -> Seq(Triplets)]
         /\ current' \in [Messages -> Triplets \cup {NoTriplet}]
         /\ foundAll' \in [Messages -> BOOLEAN]
         /\ verdict' \in [Messages -> {"none", "accept", "defer", "raised", "exempt"}]
<1>1. todo' \in [Messages -> Seq(Triplets)]
  BY EmptySeq DEF TypeOK, Returns
<1> QED BY <1>1 DEF TypeOK, Returns, Pcs

LEMMA TypeStep == TypeOK /\ [Next]_vars => TypeOK'
<1> SUFFICES ASSUME TypeOK, [Next]_vars PROVE TypeOK'
  OBVIOUS
<1>1. Passed!TypeOK /\ NotPassed!TypeOK /\ clock \in Nat
  BY Constants DEF TypeOK
<1> USE DEF msgVars, envVars, Goes
<1>2. ASSUME NEW m \in Messages, Arrive(m) PROVE TypeOK'
  <2>1. ASSUME NEW list \in RecipientLists, Start(m, list) PROVE TypeOK'
    <3>1. list \in Seq(Triplets)
      BY SeqDef, Constants DEF RecipientLists
    <3> QED BY <1>1, <2>1, <3>1, PassedType, NotPassedType DEF TypeOK, Start, Pcs
  <2>2. CASE ReturnEarly(m)
    BY <1>1, <2>2, LocalTypes, PassedType, NotPassedType DEF TypeOK, ReturnEarly
  <2> QED BY <1>2, <2>1, <2>2 DEF Arrive
<1>3. ASSUME NEW m \in Messages, MessageStep(m) PROVE TypeOK'
  <2> USE <1>1, PassedType, NotPassedType DEF Pcs, HoldsPassed, HoldsNotPassed
  <2>1. CASE PurgePassed(m) BY <2>1 DEF TypeOK, PurgePassed
  <2>2. CASE PurgePassedUnlock(m) BY <2>2 DEF TypeOK, PurgePassedUnlock
  <2>3. CASE PurgeNotPassed(m) BY <2>3 DEF TypeOK, PurgeNotPassed
  <2>4. CASE PurgeNotPassedUnlock(m) BY <2>4 DEF TypeOK, PurgeNotPassedUnlock
  <2>5. CASE NextTriplet(m)
    <3>1. Tail(todo[m]) \in Seq(Triplets) /\ Head(todo[m]) \in Triplets
      BY <2>5, HeadTailProperties DEF TypeOK, NextTriplet
    <3> QED BY <2>5, <3>1 DEF TypeOK, NextTriplet
  <2>6. CASE LockPassed(m) BY <2>6 DEF TypeOK, LockPassed
  <2>7. CASE Lookup(m)
    <3>1. current[m] \in Triplets \cup {NoTriplet}
      BY DEF TypeOK
    <3>2. Passed!TypeOK' /\ NotPassed!TypeOK'
      BY <2>7, <3>1 DEF Lookup, Found
    <3>3. foundAll' \in [Messages -> BOOLEAN]
      BY <2>7 DEF TypeOK, Lookup, Found
    <3>4. firstTry' \in [Triplets -> 0..MaxClock \cup {Never}]
      BY <2>7 DEF TypeOK, Lookup
    <3> QED BY <2>7, <3>2, <3>3, <3>4 DEF TypeOK, Lookup
  <2>8. CASE UnlockNotPassed(m) BY <2>8 DEF TypeOK, UnlockNotPassed
  <2>9. CASE UnlockPassed(m) BY <2>9 DEF TypeOK, UnlockPassed
  <2>10. CASE Finish(m) BY <2>10, LocalTypes DEF TypeOK, Finish
  <2>11. CASE SyncPassedRaises(m) BY <2>11, LocalTypes DEF TypeOK, SyncPassedRaises
  <2>12. CASE SyncNotPassedRaises(m)
    BY <2>12, LocalTypes DEF TypeOK, SyncNotPassedRaises
  <2> QED BY <1>3, <2>1, <2>2, <2>3, <2>4, <2>5, <2>6, <2>7, <2>8, <2>9,
             <2>10, <2>11, <2>12 DEF MessageStep
<1>4. CASE Tick
  <2>1. clock' \in 0..MaxClock
    BY <1>1, <1>4, Constants DEF Tick, TypeOK
  <2> QED BY <1>1, <1>4, <2>1, PassedType, NotPassedType DEF Tick, TypeOK
<1>5. CASE Crash
  <2>1. crashes' \in 0..MaxCrashes
    BY <1>5, Constants DEF Crash, TypeOK
  <2>2. todo' \in [Messages -> Seq(Triplets)]
    BY <1>5, EmptySeq DEF Crash
  <2>3. Passed!TypeOK' /\ NotPassed!TypeOK'
    BY <1>1, <1>5, PassedType, NotPassedType DEF Crash
  <2> QED BY <1>5, <2>1, <2>2, <2>3 DEF TypeOK, Crash, Pcs
<1>6. CASE UNCHANGED vars
  BY <1>1, <1>6, PassedType, NotPassedType DEF vars, TypeOK
<1> QED BY <1>2, <1>3, <1>4, <1>5, <1>6 DEF Next

\* Every variable keeps its type.
THEOREM TypeCorrect == Spec => []TypeOK
BY InitTypeOK, TypeStep, PTL DEF Spec

-----------------------------------------------------------------------------
(* The locks.                                                              *)
\* Whoever is between lock() and unlock() of a db holds its lock.
LocksOwned ==
  \A m \in Messages :
    /\ pc[m] \in HoldsPassed => passedLock = m
    /\ pc[m] \in HoldsNotPassed => notPassedLock = m

LEMMA LockStep == TypeOK /\ LocksOwned /\ [Next]_vars => LocksOwned'
<1> SUFFICES ASSUME TypeOK, LocksOwned, [Next]_vars PROVE LocksOwned'
  OBVIOUS
<1> USE GreylistAssumption DEF LocksOwned, HoldsPassed, HoldsNotPassed, Goes,
        passedVars, notPassedVars
<1>1. pc \in [Messages -> Pcs]
  BY DEF TypeOK
<1>2. ASSUME NEW m \in Messages, Arrive(m) PROVE LocksOwned'
  <2>1. ASSUME NEW list \in RecipientLists, Start(m, list) PROVE LocksOwned'
    BY <1>1, <2>1 DEF Start
  <2>2. CASE ReturnEarly(m) BY <1>1, <2>2 DEF ReturnEarly, Returns
  <2> QED BY <1>2, <2>1, <2>2 DEF Arrive
<1>3. ASSUME NEW m \in Messages, MessageStep(m) PROVE LocksOwned'
  <2> USE <1>1
  <2>1. CASE PurgePassed(m) BY <2>1 DEF PurgePassed, Passed!LockAndPurge
  <2>2. CASE PurgePassedUnlock(m)
    BY <2>2 DEF PurgePassedUnlock, Passed!Unlock
  <2>3. CASE PurgeNotPassed(m)
    BY <2>3 DEF PurgeNotPassed, NotPassed!LockAndPurge
  <2>4. CASE PurgeNotPassedUnlock(m)
    BY <2>4 DEF PurgeNotPassedUnlock, NotPassed!Unlock
  <2>5. CASE NextTriplet(m) BY <2>5 DEF NextTriplet
  <2>6. CASE LockPassed(m) BY <2>6 DEF LockPassed, Passed!Lock
  <2>7. CASE Lookup(m)
    <3>1. notPassedLock = NoMessage /\ notPassedLock' = m /\ passedLock' = passedLock
      BY <2>7 DEF Lookup, Passed!Write, NotPassed!Lock, NotPassed!LockAndWrite
    <3>2. pc[m] = "lookup" /\ pc' = [pc EXCEPT ![m] = "unlockN"]
      BY <2>7 DEF Lookup
    <3> QED BY <3>1, <3>2
  <2>8. CASE UnlockNotPassed(m) BY <2>8 DEF UnlockNotPassed, NotPassed!Unlock
  <2>9. CASE UnlockPassed(m) BY <2>9 DEF UnlockPassed, Passed!Unlock
  <2>10. CASE Finish(m) BY <2>10 DEF Finish, Returns
  <2>11. CASE SyncPassedRaises(m)
    BY <2>11 DEF SyncPassedRaises, Returns, Passed!UnlockRaises
  <2>12. CASE SyncNotPassedRaises(m)
    BY <2>12 DEF SyncNotPassedRaises, Returns, NotPassed!UnlockRaises
  <2> QED BY <1>3, <2>1, <2>2, <2>3, <2>4, <2>5, <2>6, <2>7, <2>8, <2>9,
             <2>10, <2>11, <2>12 DEF MessageStep
<1>4. CASE Tick BY <1>4 DEF Tick
<1>5. CASE Crash BY <1>5 DEF Crash
<1>6. CASE UNCHANGED vars BY <1>6 DEF vars
<1> QED BY <1>2, <1>3, <1>4, <1>5, <1>6 DEF Next

\* No two threads are between lock() and unlock() of the same db
\* (greylist.py:78-86 and 114-152), whatever raises and whenever it is killed.
THEOREM DbsAreExclusive ==
  Spec => []\A m, k \in Messages :
              /\ pc[m] \in HoldsPassed /\ pc[k] \in HoldsPassed => m = k
              /\ pc[m] \in HoldsNotPassed /\ pc[k] \in HoldsNotPassed => m = k
<1>1. Init => LocksOwned
  BY DEF Init, LocksOwned, HoldsPassed, HoldsNotPassed
<1>2. Spec => []LocksOwned
  BY <1>1, LockStep, TypeCorrect, PTL DEF Spec
<1>3. LocksOwned => \A m, k \in Messages :
        /\ pc[m] \in HoldsPassed /\ pc[k] \in HoldsPassed => m = k
        /\ pc[m] \in HoldsNotPassed /\ pc[k] \in HoldsNotPassed => m = k
  BY DEF LocksOwned
<1> QED BY <1>2, <1>3, PTL

\* A lock that is held is held by a thread that will come to give it back.
LocksHeld ==
  /\ passedLock # NoMessage => pc[passedLock] \in HoldsPassed
  /\ notPassedLock # NoMessage => pc[notPassedLock] \in HoldsNotPassed

LEMMA HeldStep ==
  ASSUME "sync" \notin Faults
  PROVE  TypeOK /\ LocksOwned /\ LocksHeld /\ [Next]_vars => LocksHeld'
<1> SUFFICES ASSUME TypeOK, LocksOwned, LocksHeld, [Next]_vars PROVE LocksHeld'
  OBVIOUS
<1> USE GreylistAssumption DEF LocksOwned, LocksHeld, HoldsPassed, HoldsNotPassed, Goes,
        passedVars, notPassedVars
<1>1. pc \in [Messages -> Pcs]
  BY DEF TypeOK
<1>2. ASSUME NEW m \in Messages, Arrive(m) PROVE LocksHeld'
  <2>1. ASSUME NEW list \in RecipientLists, Start(m, list) PROVE LocksHeld'
    BY <1>1, <2>1 DEF Start
  <2>2. CASE ReturnEarly(m) BY <1>1, <2>2 DEF ReturnEarly, Returns
  <2> QED BY <1>2, <2>1, <2>2 DEF Arrive
<1>3. ASSUME NEW m \in Messages, MessageStep(m) PROVE LocksHeld'
  <2> USE <1>1
  <2>1. CASE PurgePassed(m) BY <2>1 DEF PurgePassed, Passed!LockAndPurge
  <2>2. CASE PurgePassedUnlock(m)
    BY <2>2 DEF PurgePassedUnlock, Passed!Unlock
  <2>3. CASE PurgeNotPassed(m)
    BY <2>3 DEF PurgeNotPassed, NotPassed!LockAndPurge
  <2>4. CASE PurgeNotPassedUnlock(m)
    BY <2>4 DEF PurgeNotPassedUnlock, NotPassed!Unlock
  <2>5. CASE NextTriplet(m) BY <2>5 DEF NextTriplet
  <2>6. CASE LockPassed(m) BY <2>6 DEF LockPassed, Passed!Lock
  <2>7. CASE Lookup(m)
    <3>1. notPassedLock = NoMessage /\ notPassedLock' = m /\ passedLock' = passedLock
      BY <2>7 DEF Lookup, Passed!Write, NotPassed!Lock, NotPassed!LockAndWrite
    <3>2. pc[m] = "lookup" /\ pc' = [pc EXCEPT ![m] = "unlockN"]
      BY <2>7 DEF Lookup
    <3> QED BY <3>1, <3>2
  <2>8. CASE UnlockNotPassed(m) BY <2>8 DEF UnlockNotPassed, NotPassed!Unlock
  <2>9. CASE UnlockPassed(m) BY <2>9 DEF UnlockPassed, Passed!Unlock
  <2>10. CASE Finish(m) BY <2>10 DEF Finish, Returns
  <2>11. CASE SyncPassedRaises(m) \/ SyncNotPassedRaises(m)
    BY <2>11 DEF SyncPassedRaises, SyncNotPassedRaises
  <2> QED BY <1>3, <2>1, <2>2, <2>3, <2>4, <2>5, <2>6, <2>7, <2>8, <2>9,
             <2>10, <2>11 DEF MessageStep
<1>4. CASE Tick BY <1>4 DEF Tick
<1>5. CASE Crash BY <1>5 DEF Crash, Passed!Reopen, NotPassed!Reopen
<1>6. CASE UNCHANGED vars BY <1>6 DEF vars
<1> QED BY <1>2, <1>3, <1>4, <1>5, <1>6 DEF Next

\* Its next step takes a lock that is held.
Waits(m) ==
  \/ pc[m] \in {"purgeP", "lockP"} /\ passedLock # NoMessage
  \/ pc[m] \in {"purgeN", "lookup"} /\ notPassedLock # NoMessage

\* Where flushes do not raise, threads in doFilter never all wait for one
\* another: both locks are taken in one order (greylist.py:129-130), and no
\* thread leaves the filter with one, however it is interleaved or killed.
THEOREM SomebodyGoesOn ==
  ASSUME "sync" \notin Faults
  PROVE  Spec => [](\A m \in Messages : InFilter(m) =>
                      \E k \in Messages : InFilter(k) /\ ~Waits(k))
<1>1. Init => LocksOwned /\ LocksHeld
  BY DEF Init, LocksOwned, LocksHeld, HoldsPassed, HoldsNotPassed, Passed!Open, NotPassed!Open
<1>2. TypeOK /\ LocksOwned /\ LocksHeld /\ [Next]_vars => LocksHeld'
  BY HeldStep
<1>3. Spec => [](TypeOK /\ LocksHeld)
  BY <1>1, <1>2, LockStep, TypeCorrect, PTL DEF Spec
<1>4. TypeOK /\ LocksHeld => \A m \in Messages : InFilter(m) =>
        \E k \in Messages : InFilter(k) /\ ~Waits(k)
  <2> SUFFICES ASSUME TypeOK, LocksHeld, NEW m \in Messages, InFilter(m)
               PROVE  \E k \in Messages : InFilter(k) /\ ~Waits(k)
    OBVIOUS
  <2>1. /\ passedLock \in Messages \cup {NoMessage}
        /\ notPassedLock \in Messages \cup {NoMessage}
    BY DEF TypeOK, Passed!TypeOK, NotPassed!TypeOK
  <2>2. CASE notPassedLock # NoMessage
    <3>1. notPassedLock \in Messages /\ pc[notPassedLock] \in HoldsNotPassed
      BY <2>1, <2>2 DEF LocksHeld
    <3> QED BY <3>1 DEF HoldsNotPassed, InFilter, Waits
  <2>3. CASE notPassedLock = NoMessage /\ passedLock # NoMessage
    <3>1. passedLock \in Messages /\ pc[passedLock] \in HoldsPassed
      BY <2>1, <2>3 DEF LocksHeld
    <3> QED BY <2>3, <3>1 DEF HoldsPassed, InFilter, Waits
  <2>4. CASE notPassedLock = NoMessage /\ passedLock = NoMessage
    BY <2>4 DEF Waits
  <2> QED BY <2>2, <2>3, <2>4
<1> QED BY <1>3, <1>4, PTL

-----------------------------------------------------------------------------
(* The two dbs.                                                            *)
\* Which steps write to a db, and what becomes of its contents.
LEMMA DbSteps ==
  ASSUME TypeOK, [Next]_vars
  PROVE  \/ /\ UNCHANGED <<passed, notPassed>>
            /\ UNCHANGED <<passedPurged, notPassedPurged>>
         \/ /\ passed' = Passed!Purged(clock) /\ passedPurged' = clock
            /\ UNCHANGED <<notPassed, notPassedPurged>>
         \/ /\ notPassed' = NotPassed!Purged(clock) /\ notPassedPurged' = clock
            /\ UNCHANGED <<passed, passedPurged>>
         \/ \E m \in Messages : Lookup(m)
         \/ Crash
<1> USE DEF passedVars, notPassedVars
<1>1. ASSUME NEW m \in Messages, Arrive(m)
      PROVE  UNCHANGED <<passed, notPassed, passedPurged, notPassedPurged>>
  BY <1>1 DEF Arrive, Start, ReturnEarly
<1>2. ASSUME NEW m \in Messages,
             \/ PurgePassedUnlock(m) \/ PurgeNotPassedUnlock(m) \/ NextTriplet(m)
             \/ LockPassed(m) \/ UnlockNotPassed(m) \/ UnlockPassed(m)
             \/ Finish(m) \/ SyncPassedRaises(m) \/ SyncNotPassedRaises(m)
      PROVE  UNCHANGED <<passed, notPassed, passedPurged, notPassedPurged>>
  BY <1>2
  DEF PurgePassedUnlock, PurgeNotPassedUnlock, NextTriplet, LockPassed,
      UnlockNotPassed, UnlockPassed, Finish, SyncPassedRaises,
      SyncNotPassedRaises, Passed!Unlock, NotPassed!Unlock, Passed!Lock,
      Passed!UnlockRaises, NotPassed!UnlockRaises
<1>3. ASSUME NEW m \in Messages, PurgePassed(m)
      PROVE  /\ \/ passed' = Passed!Purged(clock) /\ passedPurged' = clock
                \/ UNCHANGED <<passed, passedPurged>>
             /\ UNCHANGED <<notPassed, notPassedPurged>>
  BY <1>3 DEF PurgePassed, Passed!LockAndPurge
<1>4. ASSUME NEW m \in Messages, PurgeNotPassed(m)
      PROVE  /\ \/ notPassed' = NotPassed!Purged(clock) /\ notPassedPurged' = clock
                \/ UNCHANGED <<notPassed, notPassedPurged>>
             /\ UNCHANGED <<passed, passedPurged>>
  BY <1>4 DEF PurgeNotPassed, NotPassed!LockAndPurge
<1>5. CASE Tick \/ UNCHANGED vars
  BY <1>5 DEF Tick, vars
<1> QED BY <1>1, <1>2, <1>3, <1>4, <1>5 DEF Next, MessageStep

\* What a look-up writes for the triplet it is about.
LEMMA LookupWrites ==
  ASSUME TypeOK, NEW m \in Messages, Lookup(m)
  PROVE  LET t == current[m]
         IN /\ \/ passed' = passed
               \/ passed' = [passed EXCEPT ![t] = Passed!Stored(clock)]
            /\ \/ notPassed' = notPassed
               \/ notPassed' = [notPassed EXCEPT ![t] = NotPassed!Missing]
               \/ notPassed' = [notPassed EXCEPT ![t] = NotPassed!Stored(clock)]
            /\ UNCHANGED <<passedPurged, notPassedPurged, passedDisk,
                          notPassedDisk, clock, crashes>>
BY DEF Lookup, passedVars, notPassedVars, envVars, Found, Passed!Write,
       Passed!With, NotPassed!With, NotPassed!Without, NotPassed!Lock,
       NotPassed!LockAndWrite

LEMMA OneDbStep == TypeOK /\ OneDbAtMost /\ [Next]_vars => OneDbAtMost'
<1> SUFFICES ASSUME TypeOK, OneDbAtMost, [Next]_vars, crashes' = 0,
                    NEW t \in Triplets
             PROVE  ~(passed'[t] # Passed!Missing /\ notPassed'[t] # NotPassed!Missing)
  BY DEF OneDbAtMost, Passed!Contains, NotPassed!Contains
<1>1. ~Crash
  BY DEF Crash, TypeOK
<1>2. crashes = 0
  BY <1>1 DEF Next, Tick, Arrive, MessageStep, Start, ReturnEarly, PurgePassed,
     PurgePassedUnlock, PurgeNotPassed, PurgeNotPassedUnlock, NextTriplet,
     LockPassed, Lookup, UnlockNotPassed, UnlockPassed, Finish,
     SyncPassedRaises, SyncNotPassedRaises, envVars, vars
<1>3. ~(passed[t] # Passed!Missing /\ notPassed[t] # NotPassed!Missing)
  BY <1>2 DEF OneDbAtMost, Passed!Contains, NotPassed!Contains
<1>4. ASSUME NEW m \in Messages, Lookup(m)
      PROVE  ~(passed'[t] # Passed!Missing /\ notPassed'[t] # NotPassed!Missing)
  <2> USE <1>3, <1>4 DEF TypeOK, Passed!TypeOK, NotPassed!TypeOK, Lookup,
          Passed!Contains, NotPassed!Contains, passedVars, Passed!Write,
          Passed!With, NotPassed!With, NotPassed!Without, NotPassed!Lock,
          NotPassed!LockAndWrite
  <2>1. CASE t = current[m] BY <2>1
  <2>2. CASE t # current[m] BY <2>2
  <2> QED BY <2>1, <2>2
<1>5. CASE passed' = Passed!Purged(clock) /\ UNCHANGED notPassed
  BY <1>3, <1>5 DEF Passed!Purged
<1>6. CASE notPassed' = NotPassed!Purged(clock) /\ UNCHANGED passed
  BY <1>3, <1>6 DEF NotPassed!Purged
<1> QED BY <1>1, <1>3, <1>4, <1>5, <1>6, DbSteps

\* A triplet moves from one db to the other in one critical section
\* (greylist.py:144-145), so that without a crash it is never in both.
THEOREM InOneDbAtMost == Spec => []OneDbAtMost
<1>1. Init => OneDbAtMost
  BY DEF Init, OneDbAtMost, Passed!Open, Passed!Contains
<1> QED BY <1>1, OneDbStep, TypeCorrect, PTL DEF Spec

-----------------------------------------------------------------------------
(* The ages of triplets.                                                   *)
\* The triplet was first looked up long enough ago, within a second.
Aged(t) == firstTry[t] # Never /\ clock - firstTry[t] > GreylistTime - TicksPerSec

\* What a db or its file says of a triplet is no older than its first try
\* less a second, and a triplet in Passed has come of age.
AgesInv ==
  \A t \in Triplets :
    /\ firstTry[t] # Never => firstTry[t] <= clock
    /\ passed[t] # Passed!Missing \/ passedDisk[t] # Passed!Missing => Aged(t)
    /\ \A time \in {notPassed[t], notPassedDisk[t]} :
         time # NotPassed!Missing =>
           firstTry[t] # Never /\ firstTry[t] - TicksPerSec < time

\* How many of its triplets a message is done with.
Seen(m) ==
  Len(triplets[m]) - Len(todo[m])
    - (IF pc[m] \in {"lockP", "lookup"} THEN 1 ELSE 0)

\* What is left to look up is the end of the list, after current.
TodoInv(m) ==
  LET done == Len(triplets[m]) - Len(todo[m])
  IN /\ done >= 0
     /\ \A j \in 1..Len(todo[m]) : todo[m][j] = triplets[m][done + j]
     /\ pc[m] \in {"lockP", "lookup"} => done > 0 /\ current[m] = triplets[m][done]

\* Unless one was deferred, what the message is done with has come of age.
MessageInv(m) ==
  /\ InFilter(m) =>
       /\ TodoInv(m)
       /\ foundAll[m] => \A i \in 1..Seen(m) : Aged(triplets[m][i])
  /\ verdict[m] # "none" => pc[m] = "done"
  /\ verdict[m] = "accept" => \A i \in 1..Len(triplets[m]) : Aged(triplets[m][i])

GreylistInv == TypeOK /\ AgesInv /\ \A m \in Messages : MessageInv(m)

\* Time goes on, and a triplet has one first try, at a look-up.
LEMMA TimeStep ==
  ASSUME TypeOK, [Next]_vars
  PROVE  /\ clock \in Nat /\ clock' \in Nat /\ clock <= clock'
         /\ \A t \in Triplets : firstTry[t] \in Nat \cup {Never}
         /\ \A t \in Triplets : firstTry[t] # Never => firstTry'[t] = firstTry[t]
         /\ \A t \in Triplets :
              \/ firstTry'[t] = firstTry[t]
              \/ firstTry'[t] = clock /\ clock' = clock
<1>1. clock \in Nat /\ \A t \in Triplets : firstTry[t] \in Nat \cup {Never}
  BY Constants DEF TypeOK
<1>2. CASE UNCHANGED <<clock, firstTry>>
  BY <1>1, <1>2
<1>3. CASE Tick BY <1>1, <1>3 DEF Tick
<1>4. ASSUME NEW m \in Messages, Lookup(m)
      PROVE  /\ clock' = clock
             /\ firstTry' = [firstTry EXCEPT ![current[m]] =
                              IF @ = Never THEN clock ELSE @]
  BY <1>4 DEF Lookup, envVars
<1>5. Tick \/ (\E m \in Messages : Lookup(m)) \/ UNCHANGED <<clock, firstTry>>
  BY DEF Next, Arrive, MessageStep, Start, ReturnEarly, PurgePassed,
     PurgePassedUnlock, PurgeNotPassed, PurgeNotPassedUnlock, NextTriplet,
     LockPassed, UnlockNotPassed, UnlockPassed, Finish, SyncPassedRaises,
     SyncNotPassedRaises, Crash, envVars, vars
<1>6. CASE \E m \in Messages : Lookup(m)
  <2>1. PICK m \in Messages : Lookup(m)
    BY <1>6
  <2> QED BY <1>1, <1>4, <2>1 DEF TypeOK
<1> QED BY <1>2, <1>3, <1>5, <1>6

LEMMA AgedStays ==
  ASSUME TypeOK, [Next]_vars, NEW t \in Triplets, Aged(t)
  PROVE  Aged(t)'
<1>1. firstTry[t] \in Nat /\ firstTry'[t] = firstTry[t]
  BY TimeStep DEF Aged
<1> QED BY <1>1, TimeStep, Constants DEF Aged, Never

\* What the files hold after a step was in them or in the dbs before.
LEMMA DiskSteps ==
  ASSUME TypeOK, [Next]_vars, NEW t \in Triplets
  PROVE  /\ passedDisk'[t] \in {passed[t], passedDisk[t]}
         /\ notPassedDisk'[t] \in {notPassed[t], notPassedDisk[t]}
         /\ Crash => /\ passed'[t] \in {passed[t], passedDisk[t]}
                     /\ notPassed'[t] \in {notPassed[t], notPassedDisk[t]}
<1> USE DEF passedVars, notPassedVars
<1>1. CASE Crash
  BY <1>1 DEF Crash, Passed!Reopen, NotPassed!Reopen
<1>2. CASE ~Crash
  <2>1. passedDisk' \in {passed, passedDisk} /\ notPassedDisk' \in {notPassed, notPassedDisk}
    BY <1>2
    DEF Next, Tick, Arrive, MessageStep, Start, ReturnEarly, PurgePassed,
        PurgePassedUnlock, PurgeNotPassed, PurgeNotPassedUnlock, NextTriplet,
        LockPassed, Lookup, UnlockNotPassed, UnlockPassed, Finish,
        SyncPassedRaises, SyncNotPassedRaises, vars,
        Passed!LockAndPurge, NotPassed!LockAndPurge, Passed!Unlock,
        NotPassed!Unlock, Passed!UnlockRaises, NotPassed!UnlockRaises,
        Passed!Lock, NotPassed!Lock, Passed!Write, NotPassed!LockAndWrite
  <2> QED BY <1>2, <2>1
<1> QED BY <1>1, <1>2

LEMMA AgesStep ==
  ASSUME TypeOK, AgesInv, [Next]_vars
  PROVE  AgesInv'
<1> DEFINE Since(t, time) ==
             time # NotPassed!Missing =>
               firstTry[t] # Never /\ firstTry[t] - TicksPerSec < time
<1> SUFFICES ASSUME NEW t \in Triplets
             PROVE  /\ firstTry'[t] # Never => firstTry'[t] <= clock'
                    /\ passed'[t] # Passed!Missing \/ passedDisk'[t] # Passed!Missing
                         => Aged(t)'
                    /\ Since(t, notPassed[t])' /\ Since(t, notPassedDisk[t])'
  BY DEF AgesInv
<1>1. firstTry'[t] # Never => firstTry'[t] <= clock'
  BY TimeStep DEF AgesInv, Never
<1>2. \A time : Since(t, time) /\ time # NotPassed!Missing =>
        firstTry'[t] # Never /\ firstTry'[t] - TicksPerSec < time
  BY TimeStep
<1>3. /\ passedDisk'[t] # Passed!Missing => Aged(t)'
      /\ Since(t, notPassedDisk[t])'
  BY <1>2, DiskSteps, AgedStays DEF AgesInv
<1>4. CASE Crash
  BY <1>1, <1>2, <1>3, <1>4, DiskSteps, AgedStays DEF AgesInv
<1>5. CASE \E m \in Messages : Lookup(m)
  <2>1. PICK m \in Messages : Lookup(m)
    BY <1>5
  <2>2. CASE t # current[m]
    <3>1. passed'[t] = passed[t] /\ notPassed'[t] = notPassed[t]
      BY <2>1, <2>2, LookupWrites DEF TypeOK, Passed!TypeOK, NotPassed!TypeOK
    <3> QED BY <1>1, <1>2, <1>3, <3>1, AgedStays DEF AgesInv
  <2>3. CASE t = current[m]
    <3>1. firstTry'[t] = (IF firstTry[t] = Never THEN clock ELSE firstTry[t])
          /\ clock' = clock
      BY <2>1, <2>3 DEF Lookup, TypeOK, envVars
    <3>2. firstTry'[t] \in Nat /\ firstTry'[t] <= clock /\ clock \in Nat
      BY <3>1, TimeStep DEF AgesInv, Never
    <3>3. Since(t, notPassed[t])'
      <4>1. notPassed'[t] \in {notPassed[t], NotPassed!Missing, NotPassed!Stored(clock)}
        BY <2>1, <2>3, LookupWrites DEF TypeOK, NotPassed!TypeOK
      <4>2. NotPassed!Stored(clock) > clock - TicksPerSec
            /\ NotPassed!Stored(clock) \in Nat
        BY <3>2, StoredTime
      <4>3. firstTry'[t] # Never /\ firstTry'[t] - TicksPerSec < NotPassed!Stored(clock)
        BY <3>2, <4>2, Constants DEF Never
      <4> QED BY <1>2, <4>1, <4>3 DEF AgesInv
    <3>4. passed'[t] # Passed!Missing => Aged(t)'
      <4>1. CASE passed[t] # Passed!Missing
        BY <4>1, AgedStays DEF AgesInv
      <4>2. CASE NotPassed!Contains(t) /\ OldEnough(t)
        <5>1. notPassed[t] \in Nat /\ firstTry[t] \in Nat
              /\ firstTry[t] - TicksPerSec < notPassed[t]
          BY <4>2, TimeStep DEF NotPassed!Contains, AgesInv, TypeOK, NotPassed!TypeOK
        <5>2. notPassed[t] + GreylistTime <= clock
          BY <4>2 DEF OldEnough
        <5> QED BY <3>1, <3>2, <5>1, <5>2, Constants DEF Aged, Never
      <4>3. CASE passed[t] = Passed!Missing /\ ~(NotPassed!Contains(t) /\ OldEnough(t))
        <5>1. passed' = passed
          BY <2>1, <2>3, <4>3 DEF Lookup, Passed!Contains, passedVars
        <5> QED BY <4>3, <5>1
      <4> QED BY <4>1, <4>2, <4>3
    <3> QED BY <1>1, <1>3, <3>3, <3>4
  <2> QED BY <2>2, <2>3
<1>6. CASE UNCHANGED <<passed, notPassed>>
  BY <1>1, <1>2, <1>3, <1>6, AgedStays DEF AgesInv
<1>7. CASE passed' = Passed!Purged(clock) /\ UNCHANGED notPassed
  BY <1>1, <1>2, <1>3, <1>7, AgedStays DEF AgesInv, Passed!Purged
<1>8. CASE notPassed' = NotPassed!Purged(clock) /\ UNCHANGED passed
  BY <1>1, <1>2, <1>3, <1>8, AgedStays DEF AgesInv, NotPassed!Purged
<1> QED BY <1>4, <1>5, <1>6, <1>7, <1>8, DbSteps

\* A message is never done with more triplets than it has.
LEMMA SeenBounds ==
  ASSUME TypeOK, NEW m \in Messages
  PROVE  /\ Len(triplets[m]) \in Nat /\ Len(todo[m]) \in Nat
         /\ \A i \in 1..Len(triplets[m]) : triplets[m][i] \in Triplets
         /\ Seen(m) \in Int /\ Seen(m) <= Len(triplets[m])
         /\ \A i \in 1..Seen(m) : i \in 1..Len(triplets[m])
<1>1. triplets[m] \in Seq(Triplets) /\ todo[m] \in Seq(Triplets)
  BY DEF TypeOK
<1>2. PICK a \in Nat, b \in Nat : a = Len(triplets[m]) /\ b = Len(todo[m])
  BY <1>1, LenProperties
<1>3. \A i \in 1..Len(triplets[m]) : triplets[m][i] \in Triplets
  BY <1>1, ElementOfSeq
<1>4. Seen(m) \in Int /\ Seen(m) <= a
  <2>1. PICK k \in {0, 1} : k = IF pc[m] \in {"lockP", "lookup"} THEN 1 ELSE 0
    OBVIOUS
  <2>2. Seen(m) = a - b - k
    BY <1>2, <2>1 DEF Seen
  <2>3. a - b - k \in Int /\ a - b - k <= a
    BY <2>1
  <2> QED BY <2>2, <2>3
<1>5. PICK n \in Int : n = Seen(m)
  BY <1>4
<1>6. \A i \in 1..n : i \in 1..a
  BY <1>4, <1>5
<1> QED BY <1>2, <1>3, <1>4, <1>5, <1>6

\* A message that a step is not about keeps what it is done with.
LEMMA OtherMessage ==
  ASSUME TypeOK, [Next]_vars, NEW m \in Messages, MessageInv(m),
         UNCHANGED <<pc[m], triplets[m], todo[m], current[m], verdict[m]>>,
         foundAll'[m] => foundAll[m]
  PROVE  MessageInv(m)'
<1>3. \A i \in 1..Len(triplets[m]) : Aged(triplets[m][i]) => Aged(triplets[m][i])'
  BY SeenBounds, AgedStays
<1>4. InFilter(m)' <=> InFilter(m)
  BY DEF InFilter
<1>5. TodoInv(m) => TodoInv(m)'
  BY DEF TodoInv
<1>6. Seen(m)' = Seen(m)
  BY DEF Seen
<1> QED BY <1>3, <1>4, <1>5, <1>6, SeenBounds DEF MessageInv

\* A message that is over: its verdict is the last thing to change.
LEMMA Returning ==
  ASSUME TypeOK, [Next]_vars, NEW m \in Messages, MessageInv(m), pc[m] # "done",
         NEW v, Returns(m, v), UNCHANGED triplets,
         v = "accept" => \A i \in 1..Len(triplets[m]) : Aged(triplets[m][i])
  PROVE  MessageInv(m)'
<1>3. \A i \in 1..Len(triplets[m]) : Aged(triplets[m][i]) => Aged(triplets[m][i])'
  BY SeenBounds, AgedStays
<1>4. pc'[m] = "done" /\ verdict'[m] = v
  BY DEF Returns, TypeOK
<1> QED BY <1>3, <1>4 DEF MessageInv, InFilter

\* A step within the filter that keeps the list, at the same triplet.
LEMMA Continuing ==
  ASSUME TypeOK, [Next]_vars, NEW m \in Messages, MessageInv(m), InFilter(m),
         UNCHANGED <<triplets[m], todo[m], current[m], verdict[m]>>,
         InFilter(m)', foundAll'[m] => foundAll[m],
         \/ pc'[m] \in {"lockP", "lookup"} <=> pc[m] \in {"lockP", "lookup"}
         \/ /\ pc[m] = "lookup" /\ pc'[m] = "unlockN"
            /\ foundAll'[m] => Aged(current[m])'
  PROVE  MessageInv(m)'
<1>3. \A i \in 1..Len(triplets[m]) : Aged(triplets[m][i]) => Aged(triplets[m][i])'
  BY SeenBounds, AgedStays
<1>4. TodoInv(m) /\ TodoInv(m)'
  BY DEF MessageInv, TodoInv
<1>5. foundAll'[m] => \A i \in 1..Seen(m)' : Aged(triplets[m][i])'
  <2> SUFFICES ASSUME foundAll'[m] PROVE \A i \in 1..Seen(m)' : Aged(triplets[m][i])'
    OBVIOUS
  <2>1. \A i \in 1..Seen(m) : Aged(triplets[m][i])
    BY DEF MessageInv
  <2>2. CASE pc'[m] \in {"lockP", "lookup"} <=> pc[m] \in {"lockP", "lookup"}
    <3>1. Seen(m)' = Seen(m)
      BY <2>2 DEF Seen
    <3> QED BY <1>3, <2>1, <3>1, SeenBounds
  <2>3. CASE /\ pc[m] = "lookup" /\ pc'[m] = "unlockN"
             /\ Aged(current[m])'
    <3>1. PICK a \in Nat, b \in Nat : a = Len(triplets[m]) /\ b = Len(todo[m])
      BY SeenBounds
    <3>2. Seen(m) = a - b - 1 /\ Seen(m)' = a - b
      BY <2>3, <3>1 DEF Seen
    <3>3. current[m] = triplets[m][a - b]
      BY <1>4, <2>3, <3>1 DEF TodoInv
    <3>4. PICK n \in Int : n = a - b
      OBVIOUS
    <3>5. \A i \in 1..n : i \in 1..(n - 1) \/ i = n
      OBVIOUS
    <3>6. n <= a /\ \A i \in 1..n : i \in 1..a
      BY <3>4
    <3>7. Aged(triplets[m][n])'
      BY <2>3, <3>3, <3>4
    <3> QED BY <1>3, <2>1, <3>1, <3>2, <3>4, <3>5, <3>6, <3>7
  <2> QED BY <2>2, <2>3
<1> QED BY <1>3, <1>4, <1>5 DEF MessageInv, InFilter

\* A message takes its next triplet.
LEMMA Taking ==
  ASSUME TypeOK, [Next]_vars, NEW m \in Messages, MessageInv(m), NextTriplet(m)
  PROVE  MessageInv(m)'
<1>1. triplets[m] \in Seq(Triplets) /\ todo[m] \in Seq(Triplets) /\ todo[m] # <<>>
  BY DEF TypeOK, NextTriplet
<1>2. /\ pc[m] = "next" /\ pc'[m] = "lockP" /\ todo'[m] = Tail(todo[m])
      /\ current'[m] = Head(todo[m]) /\ foundAll'[m] = foundAll[m]
      /\ verdict'[m] = verdict[m] /\ triplets' = triplets
  BY DEF NextTriplet, Goes, TypeOK
<1>3. PICK a \in Nat, b \in Nat : a = Len(triplets[m]) /\ b = Len(todo[m])
  BY SeenBounds
<1>4. /\ b > 0 /\ Head(todo[m]) = todo[m][1] /\ Len(Tail(todo[m])) = b - 1
      /\ \A j \in 1..(b - 1) : Tail(todo[m])[j] = todo[m][j + 1]
  BY <1>1, <1>3, HeadTailProperties, EmptySeq
<1>5. /\ a - b >= 0
      /\ \A j \in 1..b : todo[m][j] = triplets[m][a - b + j]
      /\ foundAll[m] => \A i \in 1..Seen(m) : Aged(triplets[m][i])
  BY <1>2, <1>3 DEF MessageInv, InFilter, TodoInv
<1>6. Seen(m) = a - b /\ Seen(m)' = a - b
  <2>1. Seen(m) = a - b
    BY <1>2, <1>3 DEF Seen
  <2>2. Seen(m)' = a - (b - 1) - 1
    BY <1>2, <1>3, <1>4 DEF Seen
  <2> QED BY <2>1, <2>2
<1>7. TodoInv(m)'
  <2>1. PICK n \in Int : n = a - (b - 1)
    OBVIOUS
  <2>2. Len(triplets[m])' = a /\ Len(todo[m])' = b - 1
    BY <1>2, <1>3, <1>4
  <2>3. n > 0 /\ current'[m] = triplets[m][n]
    <3>1. todo[m][1] = triplets[m][a - b + 1] /\ a - b + 1 = n
      BY <1>4, <1>5, <2>1
    <3> QED BY <1>2, <1>4, <1>5, <2>1, <3>1
  <2>4. ASSUME NEW j \in 1..(b - 1)
        PROVE  Tail(todo[m])[j] = triplets[m][n + j]
    <3>1. j + 1 \in 1..b /\ a - b + (j + 1) = n + j
      BY <2>1
    <3> QED BY <1>4, <1>5, <3>1
  <2>5. Len(triplets'[m]) - Len(todo'[m]) = n /\ n >= 0
    BY <2>1, <2>2, <2>3
  <2>6. \A j \in 1..Len(todo'[m]) : todo'[m][j] = triplets'[m][n + j]
    BY <1>2, <2>2, <2>4
  <2> QED BY <1>2, <2>3, <2>5, <2>6 DEF TodoInv
<1>8. \A i \in 1..Len(triplets[m]) : Aged(triplets[m][i]) => Aged(triplets[m][i])'
  BY <1>2, SeenBounds, AgedStays
<1>9. foundAll'[m] => \A i \in 1..Seen(m)' : Aged(triplets[m][i])'
  BY <1>2, <1>5, <1>6, <1>8, SeenBounds
<1> QED BY <1>2, <1>7, <1>9 DEF MessageInv

\* A triplet that a look-up does not defer has come of age.
LEMMA LookupAges ==
  ASSUME TypeOK, AgesInv, [Next]_vars, NEW m \in Messages, Lookup(m),
         current[m] \in Triplets, foundAll'[m]
  PROVE  foundAll[m] /\ Aged(current[m])'
<1> DEFINE t == current[m]
<1>1. foundAll' # [foundAll EXCEPT ![m] = FALSE]
  BY DEF TypeOK
<1>2. foundAll' = foundAll /\ passed'[t] = Passed!Stored(clock)
  BY <1>1 DEF Lookup, Found, Passed!Write, Passed!With, TypeOK, Passed!TypeOK
<1>3. Passed!Stored(clock) # Passed!Missing
  BY StoredTime, Constants DEF TypeOK, Passed!Missing
<1>4. AgesInv'
  BY AgesStep
<1> QED BY <1>2, <1>3, <1>4 DEF AgesInv, Lookup

LEMMA MessagesStep ==
  ASSUME TypeOK, AgesInv, [Next]_vars, NEW m \in Messages, MessageInv(m)
  PROVE  MessageInv(m)'
<1> USE DEF msgVars
<1>1. ASSUME NEW k \in Messages, k # m, Arrive(k) \/ MessageStep(k)
      PROVE  MessageInv(m)'
  <2>1. /\ UNCHANGED <<pc[m], triplets[m], todo[m], current[m], verdict[m]>>
        /\ foundAll'[m] = foundAll[m]
    BY <1>1
    DEF TypeOK, Goes, Returns, Found, Arrive, MessageStep, Start, ReturnEarly,
        PurgePassed, PurgePassedUnlock, PurgeNotPassed, PurgeNotPassedUnlock,
        NextTriplet, LockPassed, Lookup, UnlockNotPassed, UnlockPassed,
        Finish, SyncPassedRaises, SyncNotPassedRaises
  <2> QED BY <2>1, OtherMessage
<1>2. ASSUME NEW list \in RecipientLists, Start(m, list) PROVE MessageInv(m)'
  <2>1. /\ pc[m] = "idle" /\ pc'[m] = "purgeP" /\ triplets'[m] = list
        /\ todo'[m] = list /\ verdict'[m] = verdict[m]
    BY <1>2 DEF Start, Goes, TypeOK
  <2>2. list \in Seq(Triplets)
    BY SeqDef, Constants DEF RecipientLists
  <2>3. PICK n \in Nat : n = Len(list)
    BY <2>2, LenProperties
  <2>4. TodoInv(m)'
    <3>1. n - n = 0 /\ \A j \in 1..n : n - n + j = j
      OBVIOUS
    <3> QED BY <2>1, <2>3, <3>1 DEF TodoInv
  <2>5. Seen(m)' = 0
    <3>1. Seen(m)' = n - n - 0
      BY <2>1, <2>3 DEF Seen
    <3> QED BY <3>1
  <2> QED BY <2>1, <2>4, <2>5 DEF MessageInv
<1>3. CASE ReturnEarly(m)
  BY <1>3, Returning DEF ReturnEarly
<1>4. CASE \/ PurgePassed(m) \/ PurgePassedUnlock(m) \/ PurgeNotPassed(m)
           \/ PurgeNotPassedUnlock(m) \/ LockPassed(m) \/ UnlockNotPassed(m)
           \/ UnlockPassed(m)
  <2>1. /\ UNCHANGED <<triplets, todo, current, verdict, foundAll>>
        /\ InFilter(m) /\ InFilter(m)'
        /\ pc'[m] \in {"lockP", "lookup"} <=> pc[m] \in {"lockP", "lookup"}
    BY <1>4
    DEF InFilter, Goes, TypeOK, PurgePassed, PurgePassedUnlock, PurgeNotPassed,
        PurgeNotPassedUnlock, LockPassed, UnlockNotPassed, UnlockPassed
  <2> QED BY <2>1, Continuing
<1>5. CASE NextTriplet(m) BY <1>5, Taking
<1>6. CASE Lookup(m)
  <2>1. /\ pc[m] = "lookup" /\ pc'[m] = "unlockN"
        /\ UNCHANGED <<triplets, todo, current, verdict>>
    BY <1>6 DEF Lookup, Goes, TypeOK
  <2>2. InFilter(m) /\ InFilter(m)'
    BY <2>1 DEF InFilter
  <2>3. current[m] \in Triplets
    <3>1. PICK a \in Nat, b \in Nat : a = Len(triplets[m]) /\ b = Len(todo[m])
      BY SeenBounds
    <3>2. a - b > 0 /\ current[m] = triplets[m][a - b]
      BY <2>1, <2>2, <3>1 DEF MessageInv, TodoInv
    <3>3. a - b \in 1..a
      BY <3>2
    <3> QED BY <3>1, <3>2, <3>3, SeenBounds
  <2>4. foundAll'[m] => foundAll[m] /\ Aged(current[m])'
    BY <1>6, <2>3, LookupAges
  <2> QED BY <2>1, <2>2, <2>4, Continuing
<1>7. CASE Finish(m)
  <2>1. pc[m] = "next" /\ todo[m] = <<>> /\ UNCHANGED triplets
    BY <1>7 DEF Finish
  <2>2. Seen(m) = Len(triplets[m])
    <3>1. PICK a \in Nat : a = Len(triplets[m])
      BY SeenBounds
    <3>2. Len(todo[m]) = 0
      BY <2>1, EmptySeq
    <3> QED BY <2>1, <3>1, <3>2 DEF Seen
  <2>3. foundAll[m] => \A i \in 1..Len(triplets[m]) : Aged(triplets[m][i])
    BY <2>1, <2>2 DEF MessageInv, InFilter
  <2> QED BY <1>7, <2>1, <2>3, Returning DEF Finish
<1>8. CASE SyncPassedRaises(m) \/ SyncNotPassedRaises(m)
  BY <1>8, Returning DEF SyncPassedRaises, SyncNotPassedRaises
<1>9. CASE Tick \/ UNCHANGED vars
  BY <1>9, OtherMessage DEF Tick, vars
<1>10. CASE Crash
  <2>1. CASE pc[m] \in {"idle", "done"}
    <3>1. /\ pc'[m] = pc[m] /\ verdict' = verdict /\ triplets' = triplets
      BY <1>10, <2>1 DEF Crash
    <3>2. \A i \in 1..Len(triplets[m]) : Aged(triplets[m][i]) => Aged(triplets[m][i])'
      BY <3>1, SeenBounds, AgedStays
    <3> QED BY <2>1, <3>1, <3>2 DEF MessageInv, InFilter
  <2>2. CASE pc[m] \notin {"idle", "done"}
    <3>1. pc'[m] = "killed" /\ verdict' = verdict /\ verdict[m] = "none"
      BY <1>10, <2>2 DEF Crash, MessageInv
    <3> QED BY <3>1 DEF MessageInv, InFilter
  <2> QED BY <2>1, <2>2
<1> QED
  BY <1>1, <1>2, <1>3, <1>4, <1>5, <1>6, <1>7, <1>8, <1>9, <1>10
  DEF Next, Arrive, MessageStep

\* The ages of what the dbs hold, and how far each message is with its list:
\* together with the types they are inductive.
THEOREM GreylistInvariant == Spec => []GreylistInv
<1>1. Init => GreylistInv
  <2> SUFFICES ASSUME Init PROVE GreylistInv
    OBVIOUS
  <2>1. AgesInv
    BY DEF Init, AgesInv, Passed!Open, NotPassed!Open
  <2>2. \A m \in Messages : MessageInv(m)
    BY DEF Init, MessageInv, InFilter
  <2> QED BY <2>1, <2>2, InitTypeOK DEF GreylistInv
<1>2. GreylistInv /\ [Next]_vars => GreylistInv'
  BY TypeStep, AgesStep, MessagesStep DEF GreylistInv
<1> QED BY <1>1, <1>2, PTL DEF Spec

\* "A triplet must be at as old as greylistTime to be accepted"
\* (greylist.py:39-40), up to the second that int() takes off: for every
\* number of messages and recipients, through purges, failing syncs, crashes.
THEOREM NobodyPassesEarly == Spec => []GreylistHonoured
<1>1. GreylistInv => GreylistHonoured
  <2> SUFFICES ASSUME GreylistInv, NEW m \in Messages, verdict[m] = "accept",
                      NEW i \in DOMAIN triplets[m]
               PROVE  Aged(triplets[m][i])
    BY DEF GreylistHonoured, Aged
  <2>1. DOMAIN triplets[m] = 1..Len(triplets[m])
    BY LenProperties DEF GreylistInv, TypeOK
  <2> QED BY <2>1 DEF GreylistInv, MessageInv
<1> QED BY <1>1, GreylistInvariant, PTL

-----------------------------------------------------------------------------
(* The TTLs.                                                               *)
\* No token in a db was older than its TTL when the db was last purged.
FreshInv ==
  /\ passedPurged <= clock /\ notPassedPurged <= clock
  /\ \A t \in Triplets :
       /\ Passed!Contains(t) => passed[t] >= passedPurged - PassedTTL
       /\ NotPassed!Contains(t) => notPassed[t] >= notPassedPurged - NotPassedTTL

\* A TTL is a whole number of seconds, and this leaves out only 0.
TtlsLast == PassedTTL >= TicksPerSec /\ NotPassedTTL >= TicksPerSec

LEMMA FreshInit == Init => FreshInv
BY Constants DEF Init, FreshInv, Passed!Open, NotPassed!Open, Passed!LongAgo,
   NotPassed!LongAgo, Passed!Contains, NotPassed!Contains

LEMMA FreshStep ==
  ASSUME TtlsLast, TypeOK, FreshInv, [Next]_vars
  PROVE  FreshInv'
<1> USE DEF FreshInv, Passed!Contains, NotPassed!Contains
<1>1. /\ clock \in Nat /\ clock' \in Nat /\ clock <= clock'
      /\ passedPurged \in Int /\ notPassedPurged \in Int
  BY TimeStep, Constants DEF TypeOK, Passed!TypeOK, NotPassed!TypeOK,
     Passed!LongAgo, NotPassed!LongAgo
<1>2. \A t \in Triplets :
        passed[t] \in Nat \cup {Passed!Missing}
        /\ notPassed[t] \in Nat \cup {NotPassed!Missing}
  BY DEF TypeOK, Passed!TypeOK, NotPassed!TypeOK
<1>3. CASE UNCHANGED <<passed, notPassed, passedPurged, notPassedPurged>>
  BY <1>1, <1>3
<1>4. CASE /\ passed' = Passed!Purged(clock) /\ passedPurged' = clock
           /\ UNCHANGED <<notPassed, notPassedPurged>>
  BY <1>1, <1>2, <1>4, Constants DEF Passed!Purged, Passed!Expired, Passed!Missing
<1>5. CASE /\ notPassed' = NotPassed!Purged(clock) /\ notPassedPurged' = clock
           /\ UNCHANGED <<passed, passedPurged>>
  BY <1>1, <1>2, <1>5, Constants
  DEF NotPassed!Purged, NotPassed!Expired, NotPassed!Missing
<1>6. ASSUME NEW m \in Messages, Lookup(m) PROVE FreshInv'
  <2>1. UNCHANGED <<passedPurged, notPassedPurged, clock>>
    BY <1>6, LookupWrites
  <2>2. \A t \in Triplets :
          /\ passed'[t] \in {passed[t], Passed!Stored(clock)}
          /\ notPassed'[t] \in {notPassed[t], NotPassed!Missing, NotPassed!Stored(clock)}
    BY <1>6, LookupWrites DEF TypeOK, Passed!TypeOK, NotPassed!TypeOK
  <2>3. /\ Passed!Stored(clock) >= passedPurged - PassedTTL
        /\ NotPassed!Stored(clock) >= notPassedPurged - NotPassedTTL
    BY <1>1, StoredTime, Constants DEF TtlsLast
  <2> QED BY <1>1, <2>1, <2>2, <2>3
<1>7. CASE Crash
  <2>1. passedPurged' = Passed!LongAgo /\ notPassedPurged' = NotPassed!LongAgo
    BY <1>7 DEF Crash, Passed!Reopen, NotPassed!Reopen
  <2>2. /\ Passed!LongAgo <= clock' /\ Passed!LongAgo - PassedTTL <= 0
        /\ NotPassed!LongAgo <= clock' /\ NotPassed!LongAgo - NotPassedTTL <= 0
        /\ Passed!LongAgo - PassedTTL \in Int
        /\ NotPassed!LongAgo - NotPassedTTL \in Int
    BY <1>1, Constants DEF Passed!LongAgo, NotPassed!LongAgo
  <2>3. \A t \in Triplets :
          passed'[t] \in Nat \cup {Passed!Missing}
          /\ notPassed'[t] \in Nat \cup {NotPassed!Missing}
    BY TypeStep DEF TypeOK, Passed!TypeOK, NotPassed!TypeOK
  <2> QED BY <2>1, <2>2, <2>3
<1> QED BY <1>3, <1>4, <1>5, <1>6, <1>7, DbSteps, LookupWrites

LEMMA KnownStep ==
  ASSUME TypeOK, [Next]_vars
  PROVE  KnownTripletsKept
<1> SUFFICES ASSUME NEW t \in Triplets, Known(t), ~Known(t)'
             PROVE  \/ /\ Passed!Contains(t) => passed[t] < clock - PassedTTL
                       /\ NotPassed!Contains(t) => notPassed[t] < clock - NotPassedTTL
                    \/ crashes' # crashes /\ ~Flushed(t)
  BY DEF KnownTripletsKept
<1> USE DEF Known, Passed!Contains, NotPassed!Contains
<1>1. CASE UNCHANGED <<passed, notPassed>>
  BY <1>1
<1>2. CASE passed' = Passed!Purged(clock) /\ UNCHANGED notPassed
  BY <1>2 DEF Passed!Purged, Passed!Expired
<1>3. CASE notPassed' = NotPassed!Purged(clock) /\ UNCHANGED passed
  BY <1>3 DEF NotPassed!Purged, NotPassed!Expired
<1>4. ASSUME NEW m \in Messages, Lookup(m) PROVE FALSE
  <2>1. Passed!Stored(clock) # Passed!Missing
        /\ NotPassed!Stored(clock) # NotPassed!Missing
    <3>1. clock \in Nat
      BY Constants DEF TypeOK
    <3>2. Passed!Stored(clock) \in Nat /\ NotPassed!Stored(clock) \in Nat
      BY <3>1, StoredTime
    <3> QED BY <3>2 DEF Passed!Missing, NotPassed!Missing
  <2>2. CASE t = current[m]
    BY <1>4, <2>1, <2>2
    DEF Lookup, TypeOK, Passed!TypeOK, NotPassed!TypeOK, Passed!Write,
        Passed!With, NotPassed!With, NotPassed!Lock, NotPassed!LockAndWrite,
        passedVars
  <2>3. CASE t # current[m]
    BY <1>4, <2>3, LookupWrites DEF TypeOK, Passed!TypeOK, NotPassed!TypeOK
  <2> QED BY <2>2, <2>3
<1>5. CASE Crash
  <2>1. crashes' # crashes
    BY <1>5 DEF Crash, TypeOK
  <2> QED BY <1>5, <2>1, DiskSteps DEF Flushed
<1> QED BY <1>1, <1>2, <1>3, <1>4, <1>5, DbSteps

LEMMA PurgeSteps ==
  ASSUME TypeOK, [Next]_vars, NEW m \in Messages
  PROVE  /\ pc[m] = "purgeP" /\ pc'[m] = "unlockP1" => PurgePassed(m)
         /\ pc[m] = "purgeN" /\ pc'[m] = "unlockN1" => PurgeNotPassed(m)
<1> USE DEF TypeOK, Goes
<1>1. ASSUME NEW k \in Messages, k # m, Arrive(k) \/ MessageStep(k)
      PROVE  pc'[m] = pc[m]
  BY <1>1
  DEF Returns, Arrive, MessageStep, Start, ReturnEarly, PurgePassed,
      PurgePassedUnlock, PurgeNotPassed, PurgeNotPassedUnlock, NextTriplet,
      LockPassed, Lookup, UnlockNotPassed, UnlockPassed, Finish,
      SyncPassedRaises, SyncNotPassedRaises
<1>2. CASE Arrive(m) BY <1>2 DEF Arrive, Start, ReturnEarly, Returns
<1>3. CASE MessageStep(m)
  BY <1>3
  DEF Returns, MessageStep, PurgePassedUnlock, PurgeNotPassedUnlock,
      NextTriplet, LockPassed, Lookup, UnlockNotPassed, UnlockPassed, Finish,
      SyncPassedRaises, SyncNotPassedRaises, PurgePassed, PurgeNotPassed
<1>4. CASE Tick \/ UNCHANGED vars BY <1>4 DEF Tick, vars
<1>5. CASE Crash BY <1>5 DEF Crash
<1> QED BY <1>1, <1>2, <1>3, <1>4, <1>5 DEF Next

LEMMA StaleStep ==
  ASSUME TypeOK, FreshInv, [Next]_vars
  PROVE  NoStaleTokens
<1> SUFFICES ASSUME NEW m \in Messages, NEW t \in Triplets
             PROVE  /\ PurgePassed(m) /\ passed'[t] # Passed!Missing =>
                         clock - passed[t] <= PassedTTL + PurgeInterval
                    /\ PurgeNotPassed(m) /\ notPassed'[t] # NotPassed!Missing =>
                         clock - notPassed[t] <= NotPassedTTL + PurgeInterval
  BY PurgeSteps DEF NoStaleTokens
<1>1. /\ clock \in Nat /\ passedPurged \in Int /\ notPassedPurged \in Int
  BY Constants DEF TypeOK, Passed!TypeOK, NotPassed!TypeOK,
     Passed!LongAgo, NotPassed!LongAgo
<1>2. passed[t] \in Nat \cup {Passed!Missing}
      /\ notPassed[t] \in Nat \cup {NotPassed!Missing}
  BY DEF TypeOK, Passed!TypeOK, NotPassed!TypeOK
<1>3. ASSUME PurgePassed(m), passed'[t] # Passed!Missing
      PROVE  clock - passed[t] <= PassedTTL + PurgeInterval
  BY <1>1, <1>2, <1>3, Constants
  DEF FreshInv, PurgePassed, Passed!LockAndPurge, Passed!Purged,
      Passed!Expired, Passed!Contains
<1>4. ASSUME PurgeNotPassed(m), notPassed'[t] # NotPassed!Missing
      PROVE  clock - notPassed[t] <= NotPassedTTL + PurgeInterval
  BY <1>1, <1>2, <1>4, Constants
  DEF FreshInv, PurgeNotPassed, NotPassed!LockAndPurge, NotPassed!Purged,
      NotPassed!Expired, NotPassed!Contains
<1> QED BY <1>3, <1>4

\* A token lives for its TTL, and no purge leaves one that is older by more
\* than a purge interval (TtlDb.py:271-286), in every step of every thread.
THEOREM TtlsAreHonoured ==
  ASSUME TtlsLast
  PROVE  Spec => TtlsHonoured
<1>1. TypeOK /\ FreshInv /\ [Next]_vars => FreshInv'
  BY FreshStep
<1>2. TypeOK /\ FreshInv /\ [Next]_vars => [KnownTripletsKept /\ NoStaleTokens]_vars
  BY KnownStep, StaleStep
<1>3. Spec => []TypeOK
  BY TypeCorrect
<1>4. Spec => []FreshInv
  BY <1>1, <1>3, FreshInit, PTL DEF Spec
<1> QED BY <1>2, <1>3, <1>4, PTL DEF Spec, TtlsHonoured
=============================================================================
