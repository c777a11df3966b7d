------------------------- MODULE Quarantine_proofs -------------------------
(***************************************************************************)
(* Proofs about module Quarantine, for every set of messages and inodes,   *)
(* any number of killed processes and all times, for a db that writes at   *)
(* once and one that writes when it is closed, and whether or not inode    *)
(* numbers are used again.                                                 *)
(***************************************************************************)
EXTENDS Quarantine, TLAPS

LEMMA Kinds ==
  /\ Purger \in Processes /\ Releaser \in Processes /\ Purger # Releaser
  /\ \A m \in Messages : m \in Processes /\ m # Purger /\ m # Releaser
  /\ \A p \in Processes : p # Nobody
  /\ \A p \in Processes : p = Purger \/ p = Releaser \/ p \in Messages
BY QuarantineAssumption DEF Processes

\* Where a process can be, by its kind.
LEMMA PcsOf ==
  /\ OwnPcs(Purger) = {"remove", "removeControls", "forget"}
  /\ OwnPcs(Releaser) = {"open", "check"}
  /\ \A m \in Messages :
       OwnPcs(m) = {"copyBody", "copyControls", "open", "record", "notify",
                    "done", "killed"}
  /\ \A p \in Processes : OwnPcs(p) \subseteq Pcs
  /\ {"idle", "unlock", "close"} \subseteq Pcs
<1>1. OwnPcs(Purger) = {"remove", "removeControls", "forget"}
  BY Kinds DEF OwnPcs
<1>2. OwnPcs(Releaser) = {"open", "check"}
  BY Kinds DEF OwnPcs
<1>3. ASSUME NEW m \in Messages
      PROVE  OwnPcs(m) = {"copyBody", "copyControls", "open", "record",
                          "notify", "done", "killed"}
  BY Kinds DEF OwnPcs
<1>4. ASSUME NEW p \in Processes PROVE OwnPcs(p) \subseteq Pcs
  BY Zenon DEF Pcs
<1>5. {"idle", "unlock", "close"} \subseteq Pcs
  BY DEF Pcs
<1> QED BY <1>1, <1>2, <1>3, <1>4, <1>5

\* A process that goes where its kind goes keeps the type of pc.
LEMMA GoesType ==
  ASSUME TypeOK, NEW p \in Processes,
         NEW to \in OwnPcs(p) \cup {"idle", "unlock", "close"},
         pc' = [pc EXCEPT ![p] = to]
  PROVE  /\ pc' \in [Processes -> Pcs]
         /\ \A q \in Processes : pc'[q] \in OwnPcs(q) \cup {"idle", "unlock", "close"}
BY PcsOf DEF TypeOK

LEMMA InitTypeOK == Init => TypeOK
<1> SUFFICES ASSUME Init PROVE TypeOK
  OBVIOUS
<1> USE DEF Init
<1>1. db \in [Inodes -> 0..MaxClock \cup {None}]
  BY DEF NoDb
<1>2. view \in [Processes -> [Inodes -> 0..MaxClock \cup {None}]]
  BY <1>1
<1>3. pc \in [Processes -> Pcs]
      /\ \A p \in Processes : pc[p] \in OwnPcs(p) \cup {"idle", "unlock", "close"}
  BY PcsOf
<1>4. clock \in 0..MaxClock /\ crashes \in 0..MaxCrashes
  BY QuarantineAssumption
<1> QED BY <1>1, <1>2, <1>3, <1>4 DEF TypeOK

LEMMA TypeStep == TypeOK /\ [Next]_vars => TypeOK'
<1> SUFFICES ASSUME TypeOK, [Next]_vars PROVE TypeOK'
  OBVIOUS
<1> USE Kinds, PcsOf DEF Goes, fileVars, dbVars, envVars, historyVars
<1>0. ASSUME NEW p PROVE Meets(p) \subseteq Messages
  BY DEF Meets
<1>1. clock \in Int /\ MaxClock \in Nat /\ MaxCrashes \in Nat
  BY QuarantineAssumption DEF TypeOK
<1>2. ASSUME NEW p \in Processes, OpenDb(p)
      PROVE  /\ db' \in [Inodes -> 0..MaxClock \cup {None}]
             /\ view' \in [Processes -> [Inodes -> 0..MaxClock \cup {None}]]
             /\ dirty' \in [Processes -> BOOLEAN]
             /\ lock' \in Processes \cup {Nobody}
  BY <1>2 DEF OpenDb, TypeOK
<1>3. ASSUME NEW p \in Processes,
             NEW contents \in [Inodes -> 0..MaxClock \cup {None}],
             WriteDb(p, contents)
      PROVE  /\ db' \in [Inodes -> 0..MaxClock \cup {None}]
             /\ view' \in [Processes -> [Inodes -> 0..MaxClock \cup {None}]]
             /\ dirty' \in [Processes -> BOOLEAN]
             /\ lock' \in Processes \cup {Nobody}
  BY <1>3 DEF WriteDb, TypeOK
<1>4. NoDb \in [Inodes -> 0..MaxClock \cup {None}]
  BY DEF NoDb
<1>5. ASSUME NEW m \in Messages, NEW i \in Inodes, CreateBody(m, i)
      PROVE  TypeOK'
  BY <1>5, GoesType DEF CreateBody, TypeOK
<1>6. ASSUME NEW m \in Messages, CopyBody(m) PROVE TypeOK'
  BY <1>6, GoesType DEF CopyBody, TypeOK
<1>7. ASSUME NEW m \in Messages, CopyControls(m) PROVE TypeOK'
  BY <1>7, GoesType DEF CopyControls, TypeOK
<1>8. ASSUME NEW m \in Messages, OpenToRecord(m) PROVE TypeOK'
  BY <1>0, <1>2, <1>8, GoesType DEF OpenToRecord, TypeOK
<1>9. ASSUME NEW m \in Messages, Record(m) PROVE TypeOK'
  <2>1. [view[m] EXCEPT ![id[m]] = clock] \in [Inodes -> 0..MaxClock \cup {None}]
    BY DEF TypeOK
  <2> QED BY <1>3, <1>9, <2>1, GoesType DEF Record, TypeOK
<1>10. ASSUME NEW m \in Messages, Notify(m) PROVE TypeOK'
  BY <1>10, GoesType DEF Notify, TypeOK
<1>11. CASE StartPurge
  BY <1>0, <1>2, <1>11, GoesType DEF StartPurge, Expired, TypeOK
<1>12. ASSUME NEW i \in Inodes, RemoveBody(i) PROVE TypeOK'
  BY <1>12, GoesType DEF RemoveBody, TypeOK
<1>13. CASE RemoveControls BY <1>13, GoesType DEF RemoveControls, TypeOK
<1>14. CASE Forget
  <2>1. [view[Purger] EXCEPT ![id[Purger]] = None]
          \in [Inodes -> 0..MaxClock \cup {None}]
    BY DEF TypeOK
  <2> QED BY <1>3, <1>14, <2>1, GoesType DEF Forget, TypeOK
<1>15. CASE EndPurge BY <1>15, GoesType DEF EndPurge, TypeOK
<1>16. ASSUME NEW i \in Inodes, Request(i) PROVE TypeOK'
  BY <1>16, GoesType DEF Request, Announced, TypeOK
<1>17. CASE OpenToRelease BY <1>2, <1>17, GoesType DEF OpenToRelease, TypeOK
<1>18. CASE Ends
  BY <1>4, <1>18, GoesType DEF Ends, TypeOK
<1>19. ASSUME NEW p \in Processes, Unlock(p) PROVE TypeOK'
  BY <1>19, GoesType DEF Unlock, TypeOK
<1>20. ASSUME NEW p \in Processes, CloseDb(p) PROVE TypeOK'
  <2>1. After(p) \in OwnPcs(p) \cup {"idle"}
    BY DEF After
  <2> QED BY <1>4, <1>20, <2>1, GoesType DEF CloseDb, TypeOK
<1>21. ASSUME NEW p \in Processes, Crash(p) PROVE TypeOK'
  BY <1>1, <1>4, <1>21, GoesType DEF Crash, TypeOK
<1>22. CASE Tick BY <1>1, <1>22 DEF Tick, TypeOK
<1>23. CASE UNCHANGED vars BY <1>23 DEF vars, TypeOK
<1> QED
  BY <1>5, <1>6, <1>7, <1>8, <1>9, <1>10, <1>11, <1>12, <1>13, <1>14, <1>15,
     <1>16, <1>17, <1>18, <1>19, <1>20, <1>21, <1>22, <1>23 DEF Next, NotFound, NoRecipient, ReleaseRaises

\* Every variable keeps its type, and every process stays where its kind can
\* be, with any db and even if inode numbers are used again.
THEOREM TypeCorrect == Spec => []TypeOK
BY InitTypeOK, TypeStep, PTL DEF Spec

-----------------------------------------------------------------------------
(* The db and its lock.                                                    *)
\* Who has the db open and locked holds the lock; a db that writes at once is
\* then as he sees it.
HoldsLock(p) == pc[p] \in {"record", "remove", "removeControls", "forget", "unlock"}

LockInv ==
  /\ \A p \in Processes :
       HoldsLock(p) => lock = p /\ (~WritesOnClose => view[p] = db)
  /\ ~dirty[Releaser]

\* What p sees of the db may be written to it.
Writes(p) == p # Releaser /\ (HoldsLock(p) \/ Unwritten(p))

-----------------------------------------------------------------------------
(* Ids and files, of all messages.                                         *)
IdInv(m) ==
  /\ IF pc[m] = "idle" THEN id[m] = None ELSE id[m] \in Inodes
  /\ pc[m] \in {"unlock", "close", "notify", "done"} => stamp[m] # None
  /\ pc[m] \in {"unlock", "close"} => dirty[m] /\ view[m][id[m]] = stamp[m]

\* A file is there for the message of its number, and an empty body for one
\* that is not copied yet.
FilesInv ==
  \A i \in Inodes :
    /\ bodies[i] \in Messages => id[bodies[i]] = i
    /\ controls[i] \in Messages => id[controls[i]] = i
    /\ bodies[i] = Empty => \E m \in Messages : id[m] = i /\ pc[m] \in {"copyBody", "killed"}

\* What the purge is about to remove has expired in the db that it sees.
PurgeInv ==
  /\ doomed # {} => pc[Purger] \in {"remove", "removeControls", "forget"}
  /\ \A i \in doomed : view[Purger][i] # None /\ view[Purger][i] < clock - Days
  /\ pc[Purger] \in {"removeControls", "forget"} => id[Purger] \in doomed

-----------------------------------------------------------------------------
(* A message that met no other.                                            *)
\* His record is not on disk yet; it is there, unless it has been purged.
Coming(m) ==
  \/ pc[m] \in {"copyBody", "copyControls", "open", "record"}
  \/ (WritesOnClose /\ pc[m] \in {"unlock", "close"})

Recorded(m) ==
  \/ pc[m] \in {"notify", "done"}
  \/ (~WritesOnClose /\ pc[m] \in {"unlock", "close"})

Stays(m) == Coming(m) \/ (Recorded(m) /\ Live(stamp[m]))

\* Nobody else knows the number of a message on its way in.
AloneInv(m) ==
  /\ Coming(m) =>
       /\ db[id[m]] = None
       /\ \A p \in Processes \ {m} : Writes(p) => view[p][id[m]] = None
  /\ pc[m] = "record" \/ (WritesOnClose /\ pc[m] \in {"unlock", "close"}) =>
       \A p \in Processes : Writes(p) => p = m
  /\ Stays(m) =>
       /\ id[m] \notin doomed
       /\ \A n \in Messages \ {m} : Unfinished(n) => id[n] # id[m]

\* How far its files are.
CopiedInv(m) ==
  /\ pc[m] = "copyBody" => bodies[id[m]] = Empty
  /\ Stays(m) /\ pc[m] # "copyBody" => bodies[id[m]] = m
  /\ Stays(m) /\ pc[m] \notin {"copyBody", "copyControls"} => controls[id[m]] = m

\* The record is in what the db contains until it expires, and until the files
\* are gone.
Known(m, contents) ==
  /\ Live(stamp[m]) => contents[id[m]] = stamp[m]
  /\ contents[id[m]] = None => bodies[id[m]] # m /\ controls[id[m]] # m

RecordedInv(m) ==
  Recorded(m) =>
    /\ Known(m, db)
    /\ \A p \in Processes : Writes(p) => Known(m, view[p])
    /\ id[Purger] = id[m] =>
         /\ pc[Purger] \in {"removeControls", "forget"} => bodies[id[m]] # m
         /\ pc[Purger] = "forget" => controls[id[m]] # m

HeldInv ==
  /\ TypeOK /\ LockInv /\ FilesInv /\ PurgeInv
  /\ \A m \in Messages : IdInv(m)
  /\ \A m \in Messages \ raced : AloneInv(m) /\ CopiedInv(m) /\ RecordedInv(m)

\* What a request asked for, and what the db said of it.
ReleaseInv ==
  pc[Releaser] \in {"open", "unlock", "close", "check"} =>
    /\ id[Releaser] \in Inodes
    /\ \A m \in held :
         /\ pc[m] = "done" /\ id[m] = id[Releaser] /\ m \notin raced
         /\ pc[Releaser] # "open" /\ Live(stamp[m]) => Found

-----------------------------------------------------------------------------
(* The invariant holds initially, and every step keeps it.                 *)
LEMMA InitHeldInv == Init => HeldInv /\ ReleaseInv
<1> SUFFICES ASSUME Init PROVE HeldInv /\ ReleaseInv
  OBVIOUS
<1> USE Kinds DEF Init
<1>1. TypeOK BY InitTypeOK
<1>2. LockInv BY DEF LockInv, HoldsLock
<1>3. FilesInv BY QuarantineAssumption DEF FilesInv, Processes
<1>4. PurgeInv BY DEF PurgeInv
<1>5. \A m \in Messages : IdInv(m)
  BY DEF IdInv
<1>6. \A m \in Messages : AloneInv(m) /\ CopiedInv(m) /\ RecordedInv(m)
  BY DEF AloneInv, CopiedInv, RecordedInv, Stays, Coming, Recorded
<1>7. ReleaseInv BY DEF ReleaseInv
<1> QED BY <1>1, <1>2, <1>3, <1>4, <1>5, <1>6, <1>7 DEF HeldInv

\* The lock is taken when it is free, and only its holder changes the db.
LEMMA LockStep ==
  ASSUME TypeOK, LockInv, [Next]_vars
  PROVE  LockInv'
<1> USE Kinds, PcsOf DEF Goes, fileVars, dbVars, envVars, LockInv,
                         HoldsLock, TypeOK
<1>1. ASSUME NEW m \in Messages, NEW i \in Inodes, CreateBody(m, i)
      PROVE  LockInv'
  BY <1>1 DEF CreateBody
<1>2. ASSUME NEW m \in Messages,
             CopyBody(m) \/ CopyControls(m) \/ Notify(m)
      PROVE  LockInv'
  BY <1>2 DEF CopyBody, CopyControls, Notify
<1>3. ASSUME NEW m \in Messages, OpenToRecord(m) PROVE LockInv'
  BY <1>3 DEF OpenToRecord, OpenDb
<1>4. ASSUME NEW m \in Messages, Record(m) PROVE LockInv'
  BY <1>4 DEF Record, WriteDb
<1>5. CASE StartPurge BY <1>5 DEF StartPurge, OpenDb
<1>6. ASSUME NEW i \in Inodes, RemoveBody(i) PROVE LockInv'
  BY <1>6 DEF RemoveBody
<1>7. CASE RemoveControls BY <1>7 DEF RemoveControls
<1>8. CASE Forget BY <1>8 DEF Forget, WriteDb
<1>9. CASE EndPurge BY <1>9 DEF EndPurge
<1>10. ASSUME NEW i \in Inodes, Request(i) PROVE LockInv'
  BY <1>10 DEF Request
<1>11. CASE OpenToRelease BY <1>11 DEF OpenToRelease, OpenDb
<1>12. ASSUME Ends PROVE LockInv'
  BY <1>12 DEF Ends
<1>13. ASSUME NEW p \in Processes, Unlock(p) PROVE LockInv'
  BY <1>13 DEF Unlock
<1>14. ASSUME NEW p \in Processes, CloseDb(p) PROVE LockInv'
  BY <1>14 DEF CloseDb, After
<1>15. ASSUME NEW p \in Processes, Crash(p) PROVE LockInv'
  BY <1>15 DEF Crash
<1>16. CASE Tick BY <1>16 DEF Tick
<1>17. CASE UNCHANGED vars BY <1>17 DEF vars
<1> QED
  BY <1>1, <1>2, <1>3, <1>4, <1>5, <1>6, <1>7, <1>8, <1>9, <1>10, <1>11, <1>12,
     <1>13, <1>14, <1>15, <1>16, <1>17 DEF Next, NotFound, NoRecipient, ReleaseRaises

\* A message gets its id with its first file and its record before the notice.
LEMMA IdStep ==
  ASSUME TypeOK, [Next]_vars, NEW m \in Messages, IdInv(m)
  PROVE  IdInv(m)'
<1> USE Kinds, PcsOf, QuarantineAssumption
    DEF Goes, fileVars, dbVars, envVars, historyVars, TypeOK, None
<1>1. ASSUME pc'[m] = pc[m], id'[m] = id[m], stamp'[m] = stamp[m],
             dirty'[m] = dirty[m], pc[m] \in {"unlock", "close"} => view'[m] = view[m]
      PROVE  IdInv(m)'
  BY <1>1 DEF IdInv
<1>2. ASSUME NEW n \in Messages, NEW i \in Inodes, CreateBody(n, i)
      PROVE  IdInv(m)'
  BY <1>1, <1>2 DEF CreateBody, IdInv
<1>3. ASSUME NEW n \in Messages, CopyBody(n) \/ CopyControls(n) \/ Notify(n)
      PROVE  IdInv(m)'
  BY <1>1, <1>3 DEF CopyBody, CopyControls, Notify, IdInv
<1>4. ASSUME NEW n \in Messages, OpenToRecord(n) PROVE IdInv(m)'
  BY <1>1, <1>4 DEF OpenToRecord, OpenDb, IdInv
<1>5. ASSUME NEW n \in Messages, Record(n) PROVE IdInv(m)'
  BY <1>1, <1>5 DEF Record, WriteDb, IdInv
<1>6. CASE StartPurge BY <1>1, <1>6 DEF StartPurge, OpenDb
<1>7. ASSUME NEW i \in Inodes, RemoveBody(i) PROVE IdInv(m)'
  BY <1>1, <1>7 DEF RemoveBody
<1>8. CASE RemoveControls \/ EndPurge \/ Tick
  BY <1>1, <1>8 DEF RemoveControls, EndPurge, Tick
<1>9. CASE Forget BY <1>1, <1>9 DEF Forget, WriteDb
<1>10. ASSUME NEW i \in Inodes, Request(i) PROVE IdInv(m)'
  BY <1>1, <1>10 DEF Request
<1>11. CASE OpenToRelease BY <1>1, <1>11 DEF OpenToRelease, OpenDb
<1>12. ASSUME Ends PROVE IdInv(m)'
  BY <1>1, <1>12 DEF Ends
<1>13. ASSUME NEW p \in Processes, Unlock(p) PROVE IdInv(m)'
  BY <1>1, <1>13 DEF Unlock, IdInv
<1>14. ASSUME NEW p \in Processes, CloseDb(p) PROVE IdInv(m)'
  BY <1>1, <1>14 DEF CloseDb, After, IdInv
<1>15. ASSUME NEW p \in Processes, Crash(p) PROVE IdInv(m)'
  BY <1>1, <1>15 DEF Crash, IdInv
<1>16. CASE UNCHANGED vars BY <1>1, <1>16 DEF vars
<1> QED
  BY <1>2, <1>3, <1>4, <1>5, <1>6, <1>7, <1>8, <1>9, <1>10, <1>11, <1>12,
     <1>13, <1>14, <1>15, <1>16 DEF Next, NotFound, NoRecipient, ReleaseRaises

\* Each message writes the files of its own number.
LEMMA FilesStep ==
  ASSUME TypeOK, FilesInv, \A m \in Messages : IdInv(m), [Next]_vars
  PROVE  FilesInv'
<1> USE Kinds, PcsOf, QuarantineAssumption
    DEF Goes, fileVars, dbVars, envVars, historyVars, TypeOK, None, Processes
<1>1. ASSUME \A m \in Messages : id'[m] = id[m] /\ (pc[m] \in {"copyBody", "killed"} => pc'[m] \in {"copyBody", "killed"}),
             UNCHANGED fileVars
      PROVE  FilesInv'
  BY <1>1 DEF FilesInv
<1>2. ASSUME NEW m \in Messages, NEW i \in Inodes, CreateBody(m, i)
      PROVE  FilesInv'
  BY <1>2 DEF CreateBody, FilesInv, IdInv
<1>3. ASSUME NEW m \in Messages, CopyBody(m) PROVE FilesInv'
  BY <1>3 DEF CopyBody, FilesInv, IdInv
<1>4. ASSUME NEW m \in Messages, CopyControls(m) PROVE FilesInv'
  BY <1>4 DEF CopyControls, FilesInv, IdInv
<1>5. ASSUME NEW m \in Messages, OpenToRecord(m) \/ Record(m) \/ Notify(m)
      PROVE  FilesInv'
  BY <1>1, <1>5 DEF OpenToRecord, Record, Notify
<1>6. CASE StartPurge \/ EndPurge \/ Forget \/ OpenToRelease \/ Tick
  BY <1>1, <1>6 DEF StartPurge, EndPurge, Forget, OpenToRelease, Tick
<1>7. ASSUME NEW i \in Inodes, RemoveBody(i) PROVE FilesInv'
  BY <1>7 DEF RemoveBody, FilesInv
<1>8. CASE RemoveControls BY <1>8 DEF RemoveControls, FilesInv
<1>9. ASSUME NEW i \in Inodes, Request(i) PROVE FilesInv'
  BY <1>1, <1>9 DEF Request
<1>10. ASSUME Ends PROVE FilesInv'
  BY <1>1, <1>10 DEF Ends
<1>11. ASSUME NEW p \in Processes, Unlock(p) \/ CloseDb(p) PROVE FilesInv'
  BY <1>1, <1>11 DEF Unlock, CloseDb
<1>12. ASSUME NEW p \in Processes, Crash(p) PROVE FilesInv'
  BY <1>1, <1>12 DEF Crash
<1>13. CASE UNCHANGED vars BY <1>1, <1>13 DEF vars
<1> QED
  BY <1>2, <1>3, <1>4, <1>5, <1>6, <1>7, <1>8, <1>9, <1>10, <1>11, <1>12, <1>13
  DEF Next, NotFound, NoRecipient, ReleaseRaises

\* The purge sees what it removes until it has forgotten it.
LEMMA PurgeStep ==
  ASSUME TypeOK, PurgeInv, [Next]_vars
  PROVE  PurgeInv'
<1> USE Kinds, PcsOf, QuarantineAssumption
    DEF Goes, fileVars, dbVars, envVars, historyVars, TypeOK, None
<1>1. ASSUME pc'[Purger] = pc[Purger], id'[Purger] = id[Purger],
             view'[Purger] = view[Purger], doomed' = doomed, clock' = clock
      PROVE  PurgeInv'
  BY <1>1 DEF PurgeInv
<1>2. ASSUME NEW m \in Messages, NEW i \in Inodes, CreateBody(m, i)
      PROVE  PurgeInv'
  BY <1>1, <1>2 DEF CreateBody
<1>3. ASSUME NEW m \in Messages,
             CopyBody(m) \/ CopyControls(m) \/ Notify(m)
      PROVE  PurgeInv'
  BY <1>1, <1>3 DEF CopyBody, CopyControls, Notify
<1>4. ASSUME NEW m \in Messages, OpenToRecord(m) \/ Record(m) PROVE PurgeInv'
  BY <1>1, <1>4 DEF OpenToRecord, OpenDb, Record, WriteDb
<1>5. CASE StartPurge
  BY <1>5 DEF StartPurge, OpenDb, Expired, PurgeInv
<1>6. ASSUME NEW i \in Inodes, RemoveBody(i) PROVE PurgeInv'
  BY <1>6 DEF RemoveBody, PurgeInv
<1>7. CASE RemoveControls BY <1>7 DEF RemoveControls, PurgeInv
<1>8. CASE Forget BY <1>8 DEF Forget, WriteDb, PurgeInv
<1>9. CASE EndPurge BY <1>9 DEF EndPurge, PurgeInv
<1>10. ASSUME NEW i \in Inodes, Request(i) PROVE PurgeInv'
  BY <1>1, <1>10 DEF Request
<1>11. CASE OpenToRelease BY <1>1, <1>11 DEF OpenToRelease, OpenDb
<1>12. ASSUME Ends PROVE PurgeInv'
  BY <1>1, <1>12 DEF Ends
<1>13. ASSUME NEW p \in Processes, Unlock(p) PROVE PurgeInv'
  BY <1>13 DEF Unlock, PurgeInv
<1>14. ASSUME NEW p \in Processes, CloseDb(p) PROVE PurgeInv'
  BY <1>14 DEF CloseDb, After, PurgeInv
<1>15. ASSUME NEW p \in Processes, Crash(p) PROVE PurgeInv'
  BY <1>15 DEF Crash, PurgeInv
<1>16. CASE Tick BY <1>16 DEF Tick, PurgeInv
<1>17. CASE UNCHANGED vars BY <1>1, <1>17 DEF vars
<1> QED
  BY <1>2, <1>3, <1>4, <1>5, <1>6, <1>7, <1>8, <1>9, <1>10, <1>11, <1>12,
     <1>13, <1>14, <1>15, <1>16, <1>17 DEF Next, NotFound, NoRecipient, ReleaseRaises

-----------------------------------------------------------------------------
(* A message that met no other, step by step.                              *)
OwnInv(m) == AloneInv(m) /\ CopiedInv(m) /\ RecordedInv(m)

\* What is left of the message's time only gets less.
LEMMA LiveLess ==
  ASSUME TypeOK, TypeOK', NEW m \in Messages, stamp'[m] = stamp[m], clock' >= clock
  PROVE  Live(stamp[m])' => Live(stamp[m])
BY QuarantineAssumption DEF Live, TypeOK, None

\* A step that changes neither the message nor what is under its number, and
\* makes nobody write the db or remove files.
LEMMA Undisturbed ==
  ASSUME TypeOK, TypeOK', NEW m \in Messages, IdInv(m), OwnInv(m),
         pc'[m] = pc[m], id'[m] = id[m], stamp'[m] = stamp[m], clock' >= clock,
         id[m] # None =>
           /\ bodies'[id[m]] = bodies[id[m]] /\ controls'[id[m]] = controls[id[m]]
           /\ db'[id[m]] = db[id[m]],
         \A p \in Processes : Writes(p)' => Writes(p) /\ view'[p] = view[p],
         doomed' \subseteq doomed,
         \A n \in Messages \ {m} :
           Stays(m) /\ Unfinished(n)' /\ id'[n] = id[m] => Unfinished(n) /\ id[n] = id[m],
         pc'[Purger] \in {"removeControls", "forget"} =>
           pc[Purger] = pc'[Purger] /\ id'[Purger] = id[Purger]
  PROVE  OwnInv(m)'
<1>1. Live(stamp[m])' => Live(stamp[m])
  BY LiveLess
<1>2. /\ Coming(m)' <=> Coming(m)
      /\ Recorded(m)' <=> Recorded(m)
      /\ Stays(m)' => Stays(m)
  BY <1>1 DEF Coming, Recorded, Stays
<1>3. Coming(m) \/ Recorded(m) \/ pc[m] = "copyBody" => id[m] # None /\ pc[m] # "idle"
  BY QuarantineAssumption DEF Coming, Recorded, IdInv, None
<1>4. AloneInv(m)'
  BY <1>2, <1>3 DEF OwnInv, AloneInv, Stays
<1>5. CopiedInv(m)'
  BY <1>2, <1>3 DEF OwnInv, CopiedInv, Stays
<1>6. RecordedInv(m)'
  BY <1>1, <1>2, <1>3, Kinds DEF OwnInv, RecordedInv, Known
<1> QED BY <1>4, <1>5, <1>6 DEF OwnInv

\* A message that no longer has anything to lose.
LEMMA Over ==
  ASSUME NEW m \in Messages, pc'[m] \in {"idle", "killed"}
  PROVE  OwnInv(m)'
BY DEF OwnInv, AloneInv, CopiedInv, RecordedInv, Stays, Coming, Recorded

\* Who met another stays one who did.
LEMMA RacedGrows ==
  ASSUME [Next]_vars
  PROVE  raced \subseteq raced'
<1> USE DEF historyVars
<1>1. ASSUME NEW m \in Messages, NEW i \in Inodes, CreateBody(m, i)
      PROVE  raced \subseteq raced'
  BY <1>1 DEF CreateBody
<1>2. ASSUME NEW m \in Messages,
             CopyBody(m) \/ CopyControls(m) \/ OpenToRecord(m) \/ Record(m) \/ Notify(m)
      PROVE  raced \subseteq raced'
  BY <1>2 DEF CopyBody, CopyControls, OpenToRecord, Record, Notify
<1>3. CASE StartPurge \/ RemoveControls \/ Forget \/ EndPurge \/ OpenToRelease \/ Tick
  BY <1>3 DEF StartPurge, RemoveControls, Forget, EndPurge, OpenToRelease, Tick
<1>4. ASSUME NEW i \in Inodes, RemoveBody(i) PROVE raced \subseteq raced'
  BY <1>4 DEF RemoveBody
<1>5. ASSUME NEW i \in Inodes, Request(i)
      PROVE  raced \subseteq raced'
  BY <1>5 DEF Request
<1>6. ASSUME Ends PROVE raced \subseteq raced'
  BY <1>6 DEF Ends
<1>7. ASSUME NEW p \in Processes, Unlock(p) \/ CloseDb(p) \/ Crash(p)
      PROVE  raced \subseteq raced'
  BY <1>7 DEF Unlock, CloseDb, Crash
<1>8. CASE UNCHANGED vars BY <1>8 DEF vars
<1> QED BY <1>1, <1>2, <1>3, <1>4, <1>5, <1>6, <1>7, <1>8 DEF Next, NotFound, NoRecipient, ReleaseRaises

LEMMA OwnStep ==
  ASSUME HeldInv, TypeOK', LockInv', [Next]_vars, NEW m \in Messages \ raced'
  PROVE  OwnInv(m)'
<1> USE Kinds, PcsOf, QuarantineAssumption
    DEF Goes, fileVars, dbVars, envVars, historyVars, HeldInv, TypeOK, None
<1>0. m \notin raced
  BY RacedGrows
<1>1. OwnInv(m) /\ IdInv(m)
  BY <1>0 DEF OwnInv
<1>2. ASSUME NEW i \in Inodes, bodies[i] = Nobody
      PROVE  Stays(m) => id[m] # i
  BY <1>1, <1>2 DEF OwnInv, CopiedInv, Processes
<1>3. ASSUME NEW n \in Messages, NEW i \in Inodes, CreateBody(n, i)
      PROVE  OwnInv(m)'
  <2>1. CASE n = m
    <3>1. ~StillUsed(m, i) /\ pc'[m] = "copyBody" /\ id'[m] = i /\ bodies'[i] = Empty
      BY <1>3, <2>1 DEF CreateBody
    <3>2. Coming(m)' /\ ~Recorded(m)' /\ Stays(m)'
      BY <3>1 DEF Coming, Recorded, Stays
    <3>3. ASSUME NEW p \in Processes \ {m}, Writes(p)' PROVE view'[p][i] = None
      BY <1>3, <3>1, <3>3 DEF CreateBody, StillUsed, Writes
    <3>4. i \notin doomed'
      BY <1>3, <3>1 DEF CreateBody, StillUsed, PurgeInv
    <3>5. ASSUME NEW k \in Messages \ {m}, Unfinished(k)' PROVE id'[k] # i
      BY <1>3, <2>1, <3>1, <3>5 DEF CreateBody, StillUsed, Unfinished
    <3>6. db'[i] = None
      BY <1>3, <3>1 DEF CreateBody, StillUsed
    <3> QED BY <3>1, <3>2, <3>3, <3>4, <3>5, <3>6
         DEF OwnInv, AloneInv, CopiedInv, RecordedInv
  <2>2. CASE n # m /\ id[m] # i
    <3>1. \A p \in Processes : Writes(p)' => Writes(p) /\ view'[p] = view[p]
      BY <1>3 DEF CreateBody, Writes, HoldsLock, Unwritten
    <3>2. \A k \in Messages \ {m} :
            Unfinished(k)' /\ id'[k] = id[m] => Unfinished(k) /\ id[k] = id[m]
      BY <1>3, <2>2 DEF CreateBody, Unfinished
    <3> QED BY <1>1, <1>3, <2>2, <3>1, <3>2, Undisturbed DEF CreateBody, IdInv
  <2>3. CASE n # m /\ id[m] = i
    <3>1. ~Stays(m) /\ ~Stays(m)' /\ ~Coming(m)'
      BY <1>2, <1>3, <2>3 DEF CreateBody, Stays, Coming, Recorded, Live
    <3>2. pc'[m] = pc[m] /\ id'[m] = id[m] /\ stamp' = stamp /\ clock' = clock
          /\ bodies'[i] = Empty /\ db' = db /\ controls' = controls /\ pc[m] # "copyBody"
      BY <1>3, <2>3, <3>1 DEF CreateBody, Stays, Coming
    <3>3. \A p \in Processes : Writes(p)' => Writes(p) /\ view'[p] = view[p]
      BY <1>3 DEF CreateBody, Writes, HoldsLock, Unwritten
    <3>4. AloneInv(m)'
      BY <3>1, <3>2 DEF AloneInv, Coming
    <3>5. CopiedInv(m)'
      BY <3>1, <3>2 DEF CopiedInv
    <3>6. RecordedInv(m)'
      BY <1>1, <1>3, <2>3, <3>1, <3>2, <3>3
      DEF CreateBody, OwnInv, RecordedInv, Recorded, Known, Stays, Live, Processes
    <3> QED BY <3>4, <3>5, <3>6 DEF OwnInv
  <2> QED BY <2>1, <2>2, <2>3
<1>4. ASSUME NEW n \in Messages, n # m, Unfinished(n), id'[n] = id[n], NEW i \in Inodes, id[n] = i,
             pc' = [pc EXCEPT ![n] = pc'[n]],
             pc'[n] \in {"copyControls", "open"}, UNCHANGED <<dbVars, id, doomed, envVars, stamp>>,
             \A j \in Inodes \ {i} : bodies'[j] = bodies[j] /\ controls'[j] = controls[j],
             bodies'[i] \in {bodies[i], n}, controls'[i] \in {controls[i], n}
      PROVE  OwnInv(m)'
  <2>1. \A p \in Processes : Writes(p)' => Writes(p) /\ view'[p] = view[p]
    BY <1>4 DEF Writes, HoldsLock, Unwritten
  <2>2. CASE id[m] # i
    <3>1. \A k \in Messages \ {m} :
            Unfinished(k)' /\ id'[k] = id[m] => Unfinished(k) /\ id[k] = id[m]
      BY <1>4 DEF Unfinished
    <3> QED BY <1>1, <1>4, <2>1, <2>2, <3>1, Undisturbed DEF IdInv
  <2>3. CASE id[m] = i
    <3>1. ~Stays(m)
      BY <1>1, <1>4, <2>3 DEF OwnInv, AloneInv
    <3>2. pc'[m] = pc[m] /\ pc'[Purger] = pc[Purger] /\ pc[m] # "copyBody"
      BY <1>4, <3>1 DEF Stays, Coming
    <3>3. ~Stays(m)' /\ ~Coming(m)'
      BY <1>4, <3>1, <3>2 DEF Stays, Coming, Recorded, Live
    <3>4. AloneInv(m)'
      BY <3>2, <3>3 DEF AloneInv, Coming
    <3>5. CopiedInv(m)'
      BY <3>2, <3>3 DEF CopiedInv
    <3>6. RecordedInv(m)'
      BY <1>1, <1>4, <2>1, <2>3, <3>1, <3>2
      DEF OwnInv, RecordedInv, Recorded, Known, Stays, Live
    <3> QED BY <3>4, <3>5, <3>6 DEF OwnInv
  <2> QED BY <2>2, <2>3
<1>5. ASSUME NEW n \in Messages, CopyBody(n) \/ CopyControls(n) PROVE OwnInv(m)'
  <2>1. id[n] \in Inodes /\ Unfinished(n) BY <1>5 DEF CopyBody, CopyControls, IdInv, Unfinished
  <2>2. CASE n # m
    BY <1>4, <1>5, <2>1, <2>2 DEF CopyBody, CopyControls
  <2>3. CASE n = m
    <3>1. /\ Coming(m) /\ Coming(m)' /\ ~Recorded(m)' /\ Stays(m)
          /\ pc[m] \in {"copyBody", "copyControls"} /\ pc'[m] \in {"copyControls", "open"}
          /\ pc[m] = "copyBody" <=> pc'[m] = "copyControls"
          /\ id' = id /\ doomed' = doomed /\ UNCHANGED <<dbVars, stamp, clock>>
      BY <1>5, <2>3 DEF CopyBody, CopyControls, Coming, Recorded, Stays
    <3>2. \A p \in Processes : Writes(p)' => Writes(p) /\ view'[p] = view[p]
      BY <1>5 DEF CopyBody, CopyControls, Writes, HoldsLock, Unwritten
    <3>3. \A k \in Messages \ {m} : Unfinished(k)' => Unfinished(k)
      BY <1>5, <2>3 DEF CopyBody, CopyControls, Unfinished
    <3>4. AloneInv(m)'
      BY <1>1, <3>1, <3>2, <3>3 DEF OwnInv, AloneInv
    <3>5. bodies'[id[m]] = m /\ (pc'[m] = "open" => controls'[id[m]] = m)
      BY <1>1, <1>5, <2>1, <2>3, <3>1 DEF CopyBody, CopyControls, OwnInv, CopiedInv
    <3>6. CopiedInv(m)'
      BY <3>1, <3>5 DEF CopiedInv
    <3>7. RecordedInv(m)'
      BY <3>1 DEF RecordedInv
    <3> QED BY <3>4, <3>6, <3>7 DEF OwnInv
  <2> QED BY <2>2, <2>3
<1>6. ASSUME NEW p \in Processes \ {Releaser}, OpenDb(p), raced' = raced \cup Meets(p),
             pc' = [pc EXCEPT ![p] = pc'[p]], pc'[p] \in {"record", "remove"},
             pc[p] \in {"open", "idle"},
             UNCHANGED <<fileVars, id, envVars, stamp>>
      PROVE  /\ \A q \in Processes :
                  Writes(q)' => (q = p \/ Writes(q)) /\ (q # p => view'[q] = view[q])
             /\ view'[p] = db /\ db' = db
             /\ p = m => \A q \in Processes : ~Writes(q)
             /\ p # m => ~(pc[m] = "record" \/ (WritesOnClose /\ pc[m] \in {"unlock", "close"}))
  <2>1. \A q \in Processes : ~HoldsLock(q)
    BY <1>6 DEF OpenDb, LockInv
  <2>2. \A q \in Processes :
          Writes(q)' => (q = p \/ Writes(q)) /\ (q # p => view'[q] = view[q])
    BY <1>6 DEF OpenDb, Writes, HoldsLock, Unwritten
  <2>3. p = m => \A q \in Processes : ~Writes(q)
    BY <1>6, <2>1 DEF Meets, Writes
  <2>4. WritesOnClose => pc[m] # "close"
    BY <1>1, <1>6 DEF Meets, Unwritten, IdInv
  <2> QED BY <1>6, <2>1, <2>2, <2>3, <2>4 DEF OpenDb, HoldsLock
<1>7. ASSUME NEW n \in Messages, OpenToRecord(n) PROVE OwnInv(m)'
  <2>1. /\ \A q \in Processes :
             Writes(q)' => (q = n \/ Writes(q)) /\ (q # n => view'[q] = view[q])
        /\ view'[n] = db /\ db' = db
        /\ n = m => \A q \in Processes : ~Writes(q)
        /\ n # m => ~(pc[m] = "record" \/ (WritesOnClose /\ pc[m] \in {"unlock", "close"}))
    BY <1>6, <1>7 DEF OpenToRecord
  <2>2. /\ Coming(m)' <=> Coming(m)
        /\ Recorded(m)' <=> Recorded(m)
        /\ Stays(m)' <=> Stays(m)
        /\ pc'[m] = IF n = m THEN "record" ELSE pc[m]
        /\ pc'[Purger] = pc[Purger]
        /\ pc[n] = "open" /\ UNCHANGED <<fileVars, id, doomed, clock, stamp>>
    BY <1>7 DEF OpenToRecord, Coming, Recorded, Stays, Live
  <2>3. \A k \in Messages : Unfinished(k)' => Unfinished(k)
    BY <1>7 DEF OpenToRecord, Unfinished
  <2>4. AloneInv(m)'
    <3>1. Coming(m) => db[id[m]] = None /\ \A p \in Processes \ {m} : Writes(p)' => view'[p][id[m]] = None
      <4> SUFFICES ASSUME Coming(m), NEW p \in Processes \ {m}, Writes(p)'
                   PROVE  db[id[m]] = None /\ view'[p][id[m]] = None
        BY <1>1 DEF OwnInv, AloneInv
      <4>1. db[id[m]] = None /\ (Writes(p) => view[p][id[m]] = None)
        BY <1>1 DEF OwnInv, AloneInv
      <4> QED BY <2>1, <4>1
    <3>2. n = m => \A p \in Processes : Writes(p)' => p = m
      BY <2>1
    <3>3. n # m => ~(pc'[m] = "record" \/ (WritesOnClose /\ pc'[m] \in {"unlock", "close"}))
      BY <2>1, <2>2
    <3>4. Stays(m) => id[m] \notin doomed /\ \A k \in Messages \ {m} : Unfinished(k)' => id[k] # id[m]
      BY <1>1, <2>3 DEF OwnInv, AloneInv
    <3> QED BY <2>1, <2>2, <3>1, <3>2, <3>3, <3>4 DEF AloneInv
  <2>5. CopiedInv(m)'
    BY <1>1, <2>2 DEF OwnInv, CopiedInv
  <2>6. RecordedInv(m)'
    BY <1>1, <2>1, <2>2 DEF OwnInv, RecordedInv, Known, Live
  <2> QED BY <2>4, <2>5, <2>6 DEF OwnInv
<1>8. CASE StartPurge
  <2>1. /\ \A q \in Processes :
             Writes(q)' => (q = Purger \/ Writes(q)) /\ (q # Purger => view'[q] = view[q])
        /\ view'[Purger] = db /\ db' = db
        /\ ~(pc[m] = "record" \/ (WritesOnClose /\ pc[m] \in {"unlock", "close"}))
    BY <1>6, <1>8 DEF StartPurge
  <2>2. /\ Coming(m)' <=> Coming(m)
        /\ Recorded(m)' <=> Recorded(m)
        /\ Stays(m)' <=> Stays(m)
        /\ pc'[m] = pc[m] /\ pc'[Purger] = "remove"
        /\ doomed' = Expired(db) /\ UNCHANGED <<fileVars, id, clock, stamp>>
    BY <1>8 DEF StartPurge, Coming, Recorded, Stays, Live
  <2>3. \A k \in Messages : Unfinished(k)' => Unfinished(k)
    BY <1>8 DEF StartPurge, Unfinished
  <2>4. Stays(m) => id[m] \notin Expired(db)
    BY <1>1 DEF OwnInv, AloneInv, RecordedInv, Known, Stays, Expired, Live
  <2>5. AloneInv(m)'
    BY <1>1, <2>1, <2>2, <2>3, <2>4 DEF OwnInv, AloneInv
  <2>6. CopiedInv(m)'
    BY <1>1, <2>2 DEF OwnInv, CopiedInv
  <2>7. RecordedInv(m)'
    BY <1>1, <2>1, <2>2 DEF OwnInv, RecordedInv, Known, Live
  <2> QED BY <2>5, <2>6, <2>7 DEF OwnInv
<1>9. ASSUME NEW n \in Messages, Record(n) PROVE OwnInv(m)'
  <2>1. /\ pc[n] = "record" /\ pc' = [pc EXCEPT ![n] = "unlock"]
        /\ view' = [view EXCEPT ![n] = [view[n] EXCEPT ![id[n]] = clock]]
        /\ WritesOnClose => db' = db
        /\ ~WritesOnClose => db' = [db EXCEPT ![id[n]] = clock]
        /\ stamp' = [stamp EXCEPT ![n] = clock] /\ clock \in Nat
        /\ UNCHANGED <<fileVars, id, doomed, clock, raced>>
        /\ id[n] \in Inodes
    <3>1. pc[n] = "record" /\ WriteDb(n, [view[n] EXCEPT ![id[n]] = clock])
          /\ pc' = [pc EXCEPT ![n] = "unlock"] /\ stamp' = [stamp EXCEPT ![n] = clock]
          /\ UNCHANGED <<fileVars, id, doomed, clock, raced>>
      BY <1>9 DEF Record
    <3>2. (~WritesOnClose => view[n] = db) /\ id[n] \in Inodes /\ clock \in Nat
      BY <3>1 DEF LockInv, HoldsLock, IdInv
    <3> QED BY <3>1, <3>2 DEF WriteDb
  <2>2. /\ lock = n /\ Unfinished(n) /\ Unfinished(n)' /\ Writes(n)
        /\ pc[Purger] \notin {"removeControls", "forget"}
        /\ \A q \in Processes : Writes(q)' => Writes(q) /\ (q # n => view'[q] = view[q])
    BY <1>9, <2>1 DEF Record, WriteDb, LockInv, HoldsLock, Unfinished, Writes, Unwritten
  <2>3. \A k \in Messages : Unfinished(k)' => Unfinished(k)
    BY <2>1 DEF Unfinished
  <2>4. CASE n = m
    <3>1. /\ Coming(m) /\ Stays(m) /\ (Coming(m)' => WritesOnClose)
          /\ Stays(m)' /\ (Recorded(m)' => ~WritesOnClose)
      BY <2>1, <2>4 DEF Coming, Recorded, Stays, Live
    <3>2. \A q \in Processes : Writes(q)' => q = m
      BY <1>1, <2>1, <2>2, <2>4 DEF OwnInv, AloneInv
    <3>3. AloneInv(m)'
      BY <1>1, <2>1, <2>3, <3>1, <3>2 DEF OwnInv, AloneInv
    <3>4. CopiedInv(m)'
      BY <1>1, <2>1, <2>4, <3>1 DEF OwnInv, CopiedInv
    <3>5. RecordedInv(m)'
      BY <2>1, <2>2, <2>4, <3>1, <3>2 DEF RecordedInv, Known
    <3> QED BY <3>3, <3>4, <3>5 DEF OwnInv
  <2>5. CASE n # m
    <3>1. /\ Coming(m)' <=> Coming(m)
          /\ Recorded(m)' <=> Recorded(m)
          /\ Stays(m)' <=> Stays(m)
          /\ pc'[m] = pc[m] /\ stamp'[m] = stamp[m] /\ pc'[Purger] = pc[Purger]
      BY <2>1, <2>5 DEF Coming, Recorded, Stays, Live
    <3>2. Stays(m) => id[n] # id[m]
      BY <1>1, <2>2, <2>5 DEF OwnInv, AloneInv
    <3>3. id[m] = None \/ id[m] \in Inodes
      OBVIOUS
    <3>4. Coming(m) => id[m] \in Inodes
      BY <1>1 DEF Coming, IdInv
    <3>5. AloneInv(m)'
      BY <1>1, <2>1, <2>2, <2>3, <3>1, <3>2, <3>4 DEF OwnInv, AloneInv, Stays
    <3>6. CopiedInv(m)'
      BY <1>1, <2>1, <3>1 DEF OwnInv, CopiedInv
    <3>7. RecordedInv(m)'
      <4> SUFFICES ASSUME Recorded(m)
                   PROVE  Known(m, db)' /\ \A q \in Processes : Writes(q)' => Known(m, view[q])'
        BY <2>2, <3>1 DEF RecordedInv
      <4>1. id[m] \in Inodes
        BY <1>1 DEF Recorded, IdInv
      <4>2. Known(m, db) /\ \A q \in Processes : Writes(q) => Known(m, view[q])
        BY <1>1 DEF OwnInv, RecordedInv
      <4>3. Live(stamp[m]) => id[n] # id[m]
        BY <3>2 DEF Stays
      <4>4. Known(m, db)'
        BY <2>1, <3>1, <4>1, <4>2, <4>3 DEF Known, Live
      <4>5. ASSUME NEW q \in Processes, Writes(q)' PROVE Known(m, view[q])'
        BY <2>1, <2>2, <3>1, <4>1, <4>2, <4>3, <4>5 DEF Known, Live
      <4> QED BY <4>4, <4>5
    <3> QED BY <3>5, <3>6, <3>7 DEF OwnInv
  <2> QED BY <2>4, <2>5
<1>10. ASSUME NEW n \in Messages, Notify(n) PROVE OwnInv(m)'
  <2>1. \A p \in Processes : Writes(p)' => Writes(p) /\ view'[p] = view[p]
    BY <1>10 DEF Notify, Writes, HoldsLock, Unwritten
  <2>2. \A k \in Messages : Unfinished(k)' => Unfinished(k)
    BY <1>10 DEF Notify, Unfinished
  <2>3. CASE n = m
    <3>1. ~Coming(m)' /\ Recorded(m) /\ Recorded(m)' /\ (Stays(m)' <=> Stays(m))
          /\ pc'[Purger] = pc[Purger] /\ pc[m] = "notify" /\ pc'[m] = "done"
          /\ UNCHANGED <<fileVars, dbVars, id, doomed, stamp, clock>>
      BY <1>10, <2>3 DEF Notify, Coming, Recorded, Stays, Live
    <3>2. AloneInv(m)' BY <1>1, <2>2, <3>1 DEF OwnInv, AloneInv
    <3>3. CopiedInv(m)' BY <1>1, <3>1 DEF OwnInv, CopiedInv
    <3>4. RecordedInv(m)' BY <1>1, <2>1, <3>1 DEF OwnInv, RecordedInv, Known, Live
    <3> QED BY <3>2, <3>3, <3>4 DEF OwnInv
  <2>4. CASE n # m
    BY <1>1, <1>10, <2>1, <2>2, <2>4, Undisturbed DEF Notify
  <2> QED BY <2>3, <2>4
<1>11. ASSUME NEW i \in doomed
       PROVE  Stays(m) => id[m] # i
  BY <1>1 DEF OwnInv, AloneInv
<1>12. ASSUME NEW i \in Inodes, RemoveBody(i) PROVE OwnInv(m)'
  <2>1. \A p \in Processes : Writes(p)' => Writes(p) /\ view'[p] = view[p]
    BY <1>12 DEF RemoveBody, Writes, HoldsLock, Unwritten
  <2>2. /\ (Coming(m)' <=> Coming(m)) /\ (Recorded(m)' <=> Recorded(m))
        /\ (Stays(m)' <=> Stays(m)) /\ \A k \in Messages : Unfinished(k)' => Unfinished(k)
        /\ pc'[m] = pc[m] /\ id'[m] = id[m] /\ \A k \in Messages : id'[k] = id[k]
        /\ pc'[Purger] = "removeControls" /\ id'[Purger] = i
        /\ bodies' = [bodies EXCEPT ![i] = Nobody]
        /\ UNCHANGED <<controls, dbVars, doomed, clock, stamp>>
    BY <1>12 DEF RemoveBody, Coming, Recorded, Stays, Live, Unfinished
  <2>3. Stays(m) => id[m] # i
    BY <1>11, <1>12 DEF RemoveBody
  <2>4. AloneInv(m)'
    BY <1>1, <2>1, <2>2 DEF OwnInv, AloneInv
  <2>5. CopiedInv(m)'
    BY <1>1, <2>2, <2>3 DEF OwnInv, CopiedInv, Stays, Coming
  <2>6. RecordedInv(m)'
    <3> SUFFICES ASSUME Recorded(m) PROVE RecordedInv(m)'
      BY <2>2 DEF RecordedInv
    <3>1. id[m] \in Inodes
      BY <1>1 DEF Recorded, IdInv
    <3> QED BY <1>1, <2>1, <2>2, <3>1, QuarantineAssumption DEF OwnInv, RecordedInv, Known, Live
  <2> QED BY <2>4, <2>5, <2>6 DEF OwnInv
<1>13. CASE RemoveControls
  <2>1. \A p \in Processes : Writes(p)' => Writes(p) /\ view'[p] = view[p]
    BY <1>13 DEF RemoveControls, Writes, HoldsLock, Unwritten
  <2>2. /\ (Coming(m)' <=> Coming(m)) /\ (Recorded(m)' <=> Recorded(m))
        /\ (Stays(m)' <=> Stays(m)) /\ \A k \in Messages : Unfinished(k)' => Unfinished(k)
        /\ pc'[m] = pc[m] /\ pc[Purger] = "removeControls" /\ pc'[Purger] = "forget"
        /\ controls' = [controls EXCEPT ![id[Purger]] = Nobody]
        /\ UNCHANGED <<bodies, dbVars, id, doomed, clock, stamp>>
    BY <1>13 DEF RemoveControls, Coming, Recorded, Stays, Live, Unfinished
  <2>3. id[Purger] \in doomed /\ (Stays(m) => id[m] # id[Purger])
    BY <1>11, <2>2 DEF PurgeInv
  <2>4. AloneInv(m)'
    BY <1>1, <2>1, <2>2 DEF OwnInv, AloneInv
  <2>5. CopiedInv(m)'
    BY <1>1, <2>2, <2>3 DEF OwnInv, CopiedInv
  <2>6. RecordedInv(m)'
    <3> SUFFICES ASSUME Recorded(m) PROVE RecordedInv(m)'
      BY <2>2 DEF RecordedInv
    <3>1. id[m] \in Inodes
      BY <1>1 DEF Recorded, IdInv
    <3> QED BY <1>1, <2>1, <2>2, <3>1, QuarantineAssumption DEF OwnInv, RecordedInv, Known, Live
  <2> QED BY <2>4, <2>5, <2>6 DEF OwnInv
<1>14. CASE Forget
  <2> DEFINE i == id[Purger]
  <2>1. /\ pc[Purger] = "forget" /\ i \in doomed /\ i \in Inodes
        /\ pc' = [pc EXCEPT ![Purger] = "remove"] /\ doomed' = doomed \ {i}
        /\ view' = [view EXCEPT ![Purger] = [view[Purger] EXCEPT ![i] = None]]
        /\ WritesOnClose => db' = db
        /\ ~WritesOnClose => db' = [db EXCEPT ![i] = None]
        /\ id' = [id EXCEPT ![Purger] = None]
        /\ UNCHANGED <<fileVars, clock, stamp>>
    <3>1. pc[Purger] = "forget" /\ WriteDb(Purger, [view[Purger] EXCEPT ![i] = None])
          /\ pc' = [pc EXCEPT ![Purger] = "remove"] /\ doomed' = doomed \ {i}
          /\ id' = [id EXCEPT ![Purger] = None] /\ UNCHANGED <<fileVars, clock, stamp>>
      BY <1>14 DEF Forget
    <3>2. (~WritesOnClose => view[Purger] = db) /\ i \in doomed /\ i \in Inodes
      BY <3>1 DEF LockInv, HoldsLock, PurgeInv
    <3> QED BY <3>1, <3>2 DEF WriteDb
  <2>2. /\ Writes(Purger) /\ pc'[m] = pc[m] /\ id'[m] = id[m]
        /\ \A k \in Messages : id'[k] = id[k]
        /\ \A p \in Processes : Writes(p)' => Writes(p) /\ (p # Purger => view'[p] = view[p])
    BY <1>14, <2>1 DEF Forget, WriteDb, Writes, HoldsLock, Unwritten
  <2>3. /\ (Coming(m)' <=> Coming(m)) /\ (Recorded(m)' <=> Recorded(m))
        /\ (Stays(m)' <=> Stays(m)) /\ \A k \in Messages : Unfinished(k)' => Unfinished(k)
    BY <2>1 DEF Coming, Recorded, Stays, Live, Unfinished
  <2>4. Stays(m) => id[m] # i
    BY <1>11, <2>1
  <2>5. Coming(m) \/ Recorded(m) => id[m] \in Inodes
    BY <1>1 DEF Coming, Recorded, IdInv
  <2>6. AloneInv(m)'
    BY <1>1, <2>1, <2>2, <2>3, <2>4, <2>5 DEF OwnInv, AloneInv
  <2>7. CopiedInv(m)'
    BY <1>1, <2>1, <2>2, <2>3 DEF OwnInv, CopiedInv
  <2>8. RecordedInv(m)'
    <3> SUFFICES ASSUME Recorded(m) PROVE RecordedInv(m)'
      BY <2>3 DEF RecordedInv
    <3>1. Live(stamp[m]) => id[m] # i
      BY <2>4 DEF Stays
    <3>2. id[m] = i => bodies[i] # m /\ controls[i] # m
      BY <1>1, <2>1 DEF OwnInv, RecordedInv
    <3>3. Known(m, db) /\ \A p \in Processes : Writes(p) => Known(m, view[p])
      BY <1>1 DEF OwnInv, RecordedInv
    <3>4. Known(m, db)'
      BY <2>1, <2>2, <2>5, <3>1, <3>2, <3>3 DEF Known, Live
    <3>5. ASSUME NEW p \in Processes, Writes(p)' PROVE Known(m, view[p])'
      BY <2>1, <2>2, <2>5, <3>1, <3>2, <3>3, <3>5 DEF Known, Live
    <3>6. pc'[Purger] = "remove"
      BY <2>1
    <3> QED BY <3>4, <3>5, <3>6 DEF RecordedInv
  <2> QED BY <2>6, <2>7, <2>8 DEF OwnInv
<1>15. CASE EndPurge
  <2>1. \A p \in Processes : Writes(p)' => Writes(p) /\ view'[p] = view[p]
    BY <1>15 DEF EndPurge, Writes, HoldsLock, Unwritten
  <2>2. \A k \in Messages : Unfinished(k)' => Unfinished(k)
    BY <1>15 DEF EndPurge, Unfinished
  <2> QED BY <1>1, <1>15, <2>1, <2>2, Undisturbed DEF EndPurge
<1>16. ASSUME NEW i \in Inodes, Request(i) PROVE OwnInv(m)'
  <2>1. \A p \in Processes : Writes(p)' => Writes(p) /\ view'[p] = view[p]
    BY <1>16 DEF Request, Writes, HoldsLock, Unwritten
  <2>2. \A k \in Messages : Unfinished(k)' => Unfinished(k) /\ id'[k] = id[k]
    BY <1>16 DEF Request, Unfinished
  <2> QED BY <1>1, <1>16, <2>1, <2>2, Undisturbed DEF Request
<1>17. CASE OpenToRelease
  <2>1. \A p \in Processes : Writes(p)' => Writes(p) /\ view'[p] = view[p]
    BY <1>17 DEF OpenToRelease, OpenDb, Writes, HoldsLock, Unwritten
  <2>2. \A k \in Messages : Unfinished(k)' => Unfinished(k)
    BY <1>17 DEF OpenToRelease, Unfinished
  <2> QED BY <1>1, <1>17, <2>1, <2>2, Undisturbed DEF OpenToRelease, OpenDb
<1>18. ASSUME Ends PROVE OwnInv(m)'
  <2>1. \A p \in Processes : Writes(p)' => Writes(p) /\ view'[p] = view[p]
    BY <1>18 DEF Ends, Writes, HoldsLock, Unwritten
  <2>2. \A k \in Messages : Unfinished(k)' => Unfinished(k) /\ id'[k] = id[k]
    BY <1>18 DEF Ends, Unfinished
  <2> QED BY <1>1, <1>18, <2>1, <2>2, Undisturbed DEF Ends
<1>19. ASSUME NEW p \in Processes, Unlock(p) PROVE OwnInv(m)'
  <2>1. \A q \in Processes : Writes(q)' => Writes(q) /\ view'[q] = view[q]
    BY <1>19 DEF Unlock, Writes, HoldsLock, Unwritten
  <2>2. \A k \in Messages : Unfinished(k)' => Unfinished(k)
    BY <1>19 DEF Unlock, Unfinished
  <2>3. CASE p # m
    BY <1>1, <1>19, <2>1, <2>2, <2>3, Undisturbed DEF Unlock
  <2>4. CASE p = m
    <3>1. /\ (Coming(m)' <=> Coming(m)) /\ (Recorded(m)' <=> Recorded(m))
          /\ (Stays(m)' <=> Stays(m)) /\ pc[m] = "unlock" /\ pc'[m] = "close"
          /\ pc'[Purger] = pc[Purger] /\ UNCHANGED <<fileVars, db, view, id, doomed, clock, stamp>>
      BY <1>19, <2>4 DEF Unlock, Coming, Recorded, Stays, Live
    <3>2. AloneInv(m)' BY <1>1, <2>1, <2>2, <3>1 DEF OwnInv, AloneInv
    <3>3. CopiedInv(m)' BY <1>1, <3>1 DEF OwnInv, CopiedInv
    <3>4. RecordedInv(m)' BY <1>1, <2>1, <3>1 DEF OwnInv, RecordedInv, Known, Live
    <3> QED BY <3>2, <3>3, <3>4 DEF OwnInv
  <2> QED BY <2>3, <2>4
<1>20. ASSUME NEW p \in Processes, CloseDb(p) PROVE OwnInv(m)'
  <2>1. /\ \A q \in Processes : Writes(q)' => Writes(q) /\ q # p /\ view'[q] = view[q]
        /\ pc[p] = "close" /\ pc' = [pc EXCEPT ![p] = After(p)]
        /\ pc'[Purger] \notin {"removeControls", "forget"} \/ pc'[Purger] = pc[Purger]
        /\ UNCHANGED <<fileVars, id, doomed, clock, stamp>>
    BY <1>20 DEF CloseDb, After, Writes, HoldsLock, Unwritten
  <2>2. \A k \in Messages : Unfinished(k)' => Unfinished(k)
    BY <2>1 DEF After, Unfinished
  <2>3. CASE db' = db /\ p # m
    <3>1. pc'[m] = pc[m] /\ clock' >= clock
      BY <2>1, <2>3
    <3>2. pc'[Purger] \in {"removeControls", "forget"} => pc[Purger] = pc'[Purger]
      BY <2>1
    <3> QED BY <1>1, <2>1, <2>2, <2>3, <3>1, <3>2, Undisturbed
  <2>4. CASE db' # db /\ p # m
    <3>1. WritesOnClose /\ db' = view[p] /\ Writes(p)
      BY <1>20, <2>1, <2>4 DEF CloseDb, LockInv, Writes, Unwritten
    <3>2. /\ (Coming(m)' <=> Coming(m)) /\ (Recorded(m)' <=> Recorded(m))
          /\ (Stays(m)' <=> Stays(m)) /\ pc'[m] = pc[m]
      BY <2>1, <2>4 DEF Coming, Recorded, Stays, Live
    <3>3. AloneInv(m)'
      BY <1>1, <2>1, <2>2, <2>4, <3>1, <3>2 DEF OwnInv, AloneInv
    <3>4. CopiedInv(m)'
      BY <1>1, <2>1, <3>2 DEF OwnInv, CopiedInv
    <3>5. RecordedInv(m)'
      BY <1>1, <2>1, <3>1, <3>2 DEF OwnInv, RecordedInv, Known, Live
    <3> QED BY <3>3, <3>4, <3>5 DEF OwnInv
  <2>5. CASE p = m
    <3>1. /\ pc[m] = "close" /\ pc'[m] = "notify" /\ ~Coming(m)' /\ Recorded(m)'
          /\ (Stays(m)' <=> Live(stamp[m])) /\ (Live(stamp[m])' <=> Live(stamp[m]))
          /\ (Live(stamp[m]) => Stays(m)) /\ pc'[Purger] = pc[Purger]
          /\ id[m] \in Inodes
      BY <1>1, <2>1, <2>5 DEF After, Coming, Recorded, Stays, Live, IdInv
    <3>2. AloneInv(m)'
      BY <1>1, <2>1, <2>2, <3>1 DEF OwnInv, AloneInv
    <3>3. CopiedInv(m)'
      BY <1>1, <2>1, <3>1 DEF OwnInv, CopiedInv
    <3>4. CASE ~WritesOnClose
      <4>1. Recorded(m) /\ db' = db
        BY <1>20, <3>1, <3>4 DEF CloseDb, Recorded
      <4> QED BY <1>1, <2>1, <3>1, <3>2, <3>3, <4>1 DEF OwnInv, RecordedInv, Known
    <3>5. CASE WritesOnClose
      <4>1. Coming(m) /\ Stays(m)
        BY <3>1, <3>5 DEF Coming, Stays
      <4>2. db' = view[m] /\ db'[id[m]] = stamp[m] /\ stamp[m] # None
        BY <1>1, <1>20, <2>5, <3>1, <3>5 DEF CloseDb, IdInv
      <4>3. \A q \in Processes : ~Writes(q)'
        BY <1>1, <2>1, <2>5, <3>1, <3>5 DEF OwnInv, AloneInv
      <4>4. ~(id[Purger] = id[m] /\ pc[Purger] \in {"removeControls", "forget"})
        BY <1>1, <4>1 DEF OwnInv, AloneInv, PurgeInv
      <4>5. RecordedInv(m)'
        BY <2>1, <3>1, <4>2, <4>3, <4>4 DEF RecordedInv, Known
      <4> QED BY <3>2, <3>3, <4>5 DEF OwnInv
    <3> QED BY <3>4, <3>5
  <2> QED BY <2>3, <2>4, <2>5
<1>21. ASSUME NEW p \in Processes, Crash(p) PROVE OwnInv(m)'
  <2>1. CASE p = m
    BY <1>21, <2>1, Over DEF Crash
  <2>2. CASE p # m
    <3>1. \A q \in Processes : Writes(q)' => Writes(q) /\ view'[q] = view[q]
      BY <1>21 DEF Crash, Writes, HoldsLock, Unwritten
    <3>2. \A k \in Messages : id'[k] = id[k] /\ (Unfinished(k)' => Unfinished(k))
      BY <1>21 DEF Crash, Unfinished
    <3>3. pc'[Purger] \in {"removeControls", "forget"} =>
            pc[Purger] = pc'[Purger] /\ id'[Purger] = id[Purger]
      BY <1>21 DEF Crash
    <3>4. /\ pc'[m] = pc[m] /\ id'[m] = id[m] /\ clock' >= clock /\ doomed' \subseteq doomed
          /\ UNCHANGED <<bodies, controls, db, stamp>>
      BY <1>21, <2>2 DEF Crash
    <3> QED BY <1>1, <3>1, <3>2, <3>3, <3>4, Undisturbed
  <2> QED BY <2>1, <2>2
<1>22. CASE Tick
  <2>1. \A p \in Processes : Writes(p)' => Writes(p) /\ view'[p] = view[p]
    BY <1>22 DEF Tick, Writes, HoldsLock, Unwritten
  <2>2. \A k \in Messages : Unfinished(k)' => Unfinished(k)
    BY <1>22 DEF Tick, Unfinished
  <2> QED BY <1>1, <1>22, <2>1, <2>2, Undisturbed DEF Tick
<1>23. CASE UNCHANGED vars
  <2>1. \A p \in Processes : Writes(p)' => Writes(p) /\ view'[p] = view[p]
    BY <1>23 DEF vars, Writes, HoldsLock, Unwritten
  <2>2. \A k \in Messages : Unfinished(k)' => Unfinished(k)
    BY <1>23 DEF vars, Unfinished
  <2> QED BY <1>1, <1>23, <2>1, <2>2, Undisturbed DEF vars
<1> QED
  BY <1>3, <1>5, <1>7, <1>8, <1>9, <1>10, <1>12, <1>13, <1>14, <1>15, <1>16, <1>17,
     <1>18, <1>19, <1>20, <1>21, <1>22, <1>23 DEF Next, NotFound, NoRecipient, ReleaseRaises

LEMMA HeldStep ==
  ASSUME HeldInv, [Next]_vars
  PROVE  HeldInv'
<1>1. TypeOK' BY TypeStep DEF HeldInv
<1>2. LockInv' BY LockStep DEF HeldInv
<1>3. FilesInv' BY FilesStep DEF HeldInv
<1>4. PurgeInv' BY PurgeStep DEF HeldInv
<1>5. \A m \in Messages : IdInv(m)' BY IdStep DEF HeldInv
<1>6. \A m \in Messages \ raced' : OwnInv(m)' BY <1>1, <1>2, OwnStep
<1> QED BY <1>1, <1>2, <1>3, <1>4, <1>5, <1>6 DEF HeldInv, OwnInv

\* A message that met no other goes through its files, its record and its
\* notice in that order and alone, whoever else writes the db has its record,
\* and the purge removes nothing of it but what has expired.
THEOREM QuarantineInvariant == Spec => []HeldInv
BY InitHeldInv, HeldStep, PTL DEF Spec

\* From the notice on, until the message expires, the record and the files
\* are there, whatever purges, requests, other quarantines and crashes do,
\* unless it met another on its way in.
THEOREM NothingIsLost == Spec => []HeldUnlessRaced
<1>1. ASSUME HeldInv PROVE HeldUnlessRaced
  <2> SUFFICES ASSUME NEW m \in Messages \ raced,
                      pc[m] \in {"notify", "done"}, Live(stamp[m])
               PROVE  db[id[m]] = stamp[m] /\ bodies[id[m]] = m /\ controls[id[m]] = m
    BY DEF HeldUnlessRaced, Kept
  <2>1. Recorded(m) /\ Stays(m)
    BY DEF Recorded, Stays
  <2> QED BY <1>1, <2>1 DEF HeldInv, CopiedInv, RecordedInv, Known
<1> QED BY <1>1, QuarantineInvariant, PTL

\* A file without a record belongs to a message on its way into the
\* quarantine, whose thread was killed there, or which met another.
THEOREM NoFileIsForgotten == Spec => []FilesAreRecorded
<1>1. ASSUME HeldInv PROVE FilesAreRecorded
  <2> SUFFICES ASSUME NEW i \in Inodes, bodies[i] # Nobody \/ controls[i] # Nobody,
                      db[i] = None
               PROVE  \E m \in Messages :
                        id[m] = i /\ (pc[m] \notin {"notify", "done"} \/ m \in raced)
    BY DEF FilesAreRecorded
  <2>1. CASE bodies[i] = Empty
    BY <1>1, <2>1 DEF HeldInv, FilesInv
  <2>2. CASE bodies[i] # Empty
    <3>1. PICK m \in Messages : m = bodies[i] \/ m = controls[i]
      BY <1>1, <2>2 DEF HeldInv, TypeOK
    <3>2. id[m] = i
      BY <1>1, <3>1 DEF HeldInv, FilesInv
    <3>3. ASSUME m \notin raced, pc[m] \in {"notify", "done"} PROVE FALSE
      BY <1>1, <3>1, <3>2, <3>3 DEF HeldInv, RecordedInv, Recorded, Known
    <3> QED BY <3>2, <3>3
  <2> QED BY <2>1, <2>2
<1> QED BY <1>1, QuarantineInvariant, PTL

-----------------------------------------------------------------------------
(* Requests.                                                               *)
\* A message that is announced stays so, with its id and its stamp, and has
\* met no other since.
LEMMA StaysAnnounced ==
  ASSUME HeldInv, [Next]_vars, NEW m \in Messages, pc[m] = "done"
  PROVE  /\ pc'[m] = "done" /\ id'[m] = id[m] /\ stamp'[m] = stamp[m]
         /\ m \in raced' => m \in raced
         /\ Live(stamp[m])' => Live(stamp[m])
<1> DEFINE Same == /\ pc'[m] = "done" /\ id'[m] = id[m] /\ stamp'[m] = stamp[m]
                   /\ (m \in raced' => m \in raced) /\ clock' >= clock
<1> USE Kinds, PcsOf, QuarantineAssumption
    DEF Goes, envVars, historyVars, HeldInv, TypeOK
<1>1. Same
  <2>1. ASSUME NEW n \in Messages, NEW i \in Inodes, CreateBody(n, i)
        PROVE  Same
    BY <2>1 DEF CreateBody
  <2>2. ASSUME NEW n \in Messages,
               CopyBody(n) \/ CopyControls(n) \/ Notify(n)
        PROVE  Same
    BY <2>2 DEF CopyBody, CopyControls, Notify
  <2>3. ASSUME NEW n \in Messages, OpenToRecord(n)
        PROVE  Same
    BY <2>3 DEF OpenToRecord, Meets, Unwritten
  <2>4. ASSUME NEW n \in Messages, Record(n)
        PROVE  Same
    BY <2>4 DEF Record
  <2>5. CASE StartPurge
    BY <2>5 DEF StartPurge, Meets, Unwritten
  <2>6. ASSUME RemoveControls \/ Forget \/ EndPurge \/ OpenToRelease
        PROVE  Same
    BY <2>6 DEF RemoveControls, Forget, EndPurge, OpenToRelease
  <2>7. ASSUME NEW i \in Inodes, RemoveBody(i)
        PROVE  Same
    BY <2>7 DEF RemoveBody
  <2>8. ASSUME NEW i \in Inodes, Request(i)
        PROVE  Same
    BY <2>8 DEF Request
  <2>9. CASE Ends
    BY <2>9 DEF Ends
  <2>10. ASSUME NEW p \in Processes, Unlock(p) \/ CloseDb(p) \/ Crash(p)
        PROVE  Same
    BY <2>10 DEF Unlock, CloseDb, Crash
  <2>11. CASE Tick BY <2>11 DEF Tick
  <2>12. CASE UNCHANGED vars BY <2>12 DEF vars
  <2> QED
    BY <2>1, <2>2, <2>3, <2>4, <2>5, <2>6, <2>7, <2>8, <2>9, <2>10, <2>11, <2>12
    DEF Next, NotFound, NoRecipient, ReleaseRaises
<1> QED BY <1>1, TypeStep, LiveLess

\* The request finds what was there: the db is read after it came, and from
\* then on a message only ceases to be announced.
LEMMA ReleaseStep ==
  ASSUME HeldInv, ReleaseInv, [Next]_vars
  PROVE  ReleaseInv'
<1> USE Kinds, PcsOf DEF Goes, fileVars, dbVars, envVars
<1> DEFINE Busy == {"open", "unlock", "close", "check"}
<1>1. TypeOK /\ \A m \in Messages \ raced : RecordedInv(m)
  BY DEF HeldInv
<1>2. ASSUME pc'[Releaser] \in Busy => pc[Releaser] \in Busy,
             pc'[Releaser] \in Busy \ {"open"} => pc[Releaser] # "open",
             pc'[Releaser] \in Busy =>
               id'[Releaser] = id[Releaser] /\ view'[Releaser] = view[Releaser],
             held' = held
      PROVE  ReleaseInv'
  <2> SUFFICES ASSUME pc'[Releaser] \in Busy
               PROVE  /\ id[Releaser] \in Inodes
                      /\ \A m \in held :
                           /\ pc'[m] = "done" /\ id'[m] = id[Releaser] /\ m \notin raced'
                           /\ pc'[Releaser] # "open" /\ Live(stamp[m])' => Found
    BY <1>2 DEF ReleaseInv, Found
  <2>1. held \subseteq Messages
    BY <1>1 DEF TypeOK
  <2> QED BY <1>2, <2>1, StaysAnnounced DEF ReleaseInv
<1> USE DEF TypeOK
<1>4. ASSUME NEW m \in Messages, NEW i \in Inodes, CreateBody(m, i)
      PROVE  ReleaseInv'
  BY <1>1, <1>2, <1>4 DEF CreateBody
<1>5. ASSUME NEW m \in Messages, CopyBody(m) \/ CopyControls(m) \/ Notify(m)
      PROVE  ReleaseInv'
  BY <1>1, <1>2, <1>5 DEF CopyBody, CopyControls, Notify
<1>6. ASSUME NEW m \in Messages, OpenToRecord(m) PROVE ReleaseInv'
  BY <1>1, <1>2, <1>6 DEF OpenToRecord, OpenDb
<1>7. ASSUME NEW m \in Messages, Record(m) PROVE ReleaseInv'
  BY <1>1, <1>2, <1>7 DEF Record, WriteDb
<1>8. CASE StartPurge BY <1>1, <1>2, <1>8 DEF StartPurge, OpenDb
<1>9. CASE Forget BY <1>1, <1>2, <1>9 DEF Forget, WriteDb
<1>10. ASSUME NEW i \in Inodes, RemoveBody(i) PROVE ReleaseInv'
  BY <1>1, <1>2, <1>10 DEF RemoveBody
<1>11. CASE RemoveControls \/ EndPurge \/ Tick
  BY <1>1, <1>2, <1>11 DEF RemoveControls, EndPurge, Tick
<1>12. ASSUME NEW i \in Inodes, Request(i) PROVE ReleaseInv'
  BY <1>1, <1>12 DEF Request, Announced, ReleaseInv, historyVars
<1>13. CASE OpenToRelease
  <2> SUFFICES ASSUME NEW m \in held
               PROVE  /\ pc'[m] = "done" /\ id'[m] = id[Releaser] /\ m \notin raced'
                      /\ Live(stamp[m])' => db[id[Releaser]] # None
    BY <1>1, <1>13 DEF OpenToRelease, OpenDb, ReleaseInv, Found
  <2>1. m \in Messages /\ pc[m] = "done" /\ id[m] = id[Releaser] /\ m \notin raced
    BY <1>1, <1>13 DEF OpenToRelease, ReleaseInv
  <2>2. Live(stamp[m]) => db[id[m]] # None
    BY <1>1, <2>1 DEF RecordedInv, Recorded, Known, Live
  <2> QED BY <2>1, <2>2, StaysAnnounced
<1>14. ASSUME Ends PROVE ReleaseInv'
  BY <1>1, <1>14 DEF Ends, ReleaseInv
<1>15. ASSUME NEW p \in Processes, Unlock(p) PROVE ReleaseInv'
  BY <1>1, <1>2, <1>15 DEF Unlock
<1>16. ASSUME NEW p \in Processes, CloseDb(p) PROVE ReleaseInv'
  BY <1>1, <1>2, <1>16 DEF CloseDb, After
<1>17. ASSUME NEW p \in Processes, Crash(p) PROVE ReleaseInv'
  BY <1>1, <1>2, <1>17 DEF Crash
<1>18. CASE UNCHANGED vars BY <1>1, <1>2, <1>18 DEF vars
<1> QED
  BY <1>4, <1>5, <1>6, <1>7, <1>8, <1>9, <1>10, <1>11, <1>12, <1>13, <1>14,
     <1>15, <1>16, <1>17, <1>18 DEF Next, NotFound, NoRecipient, ReleaseRaises

\* Whoever asks for a message that was announced, and met no other, is not
\* told that it was not found, unless it has expired in between.
THEOREM NobodyIsRefused == Spec => NotRefused
<1>1. HeldInv /\ ReleaseInv => [NotFound => \A m \in held : ~Live(stamp[m])]_vars
  BY DEF NotFound, ReleaseInv
<1>2. HeldInv /\ ReleaseInv /\ [Next]_vars => (HeldInv /\ ReleaseInv)'
  BY HeldStep, ReleaseStep
<1> QED BY <1>1, <1>2, InitHeldInv, PTL DEF Spec, NotRefused
=============================================================================
