----------------------------- MODULE Quarantine -----------------------------
(***************************************************************************)
(* The quarantine: a directory of files and a db of what they are, shared  *)
(* by the threads of the daemon that quarantine a message, by runs of      *)
(* "pythonfilter-quarantine -purge" and of "-release".  The id of a        *)
(* quarantined message is the inode number of its body file.  A lock file  *)
(* guards the db, not the files.  A name ending in _M is what follows it   *)
(* with a mistake, for mutation checks.                                    *)
(***************************************************************************)
EXTENDS Integers, FiniteSets

CONSTANTS
  Messages,       \* messages that a filter quarantines, a thread for each
  Purger,         \* the process of pythonfilter-quarantine -purge
  Releaser,       \* the process of pythonfilter-quarantine -release
  Nobody,         \* holds the lock when it is free; sent no message
  Empty,          \* what a body file holds until the message is copied
  Inodes,         \* inode numbers of body files
  Days,           \* how long a message is kept, in clock ticks
  MaxClock,       \* bound: the last tick considered
  MaxCrashes,     \* bound: how many processes are killed
  WritesOnClose,  \* the db type writes its changes when it is closed
  Faults          \* "reuse": the number of a removed file is used again

Processes == Messages \cup {Purger, Releaser}

ASSUME QuarantineAssumption ==
  /\ IsFiniteSet(Inodes) /\ -1 \notin Inodes
  /\ Purger # Releaser /\ Messages \cap {Purger, Releaser} = {}
  /\ Nobody \notin Processes /\ Empty \notin Processes \cup {Nobody}
  /\ Days \in Nat /\ MaxClock \in Nat /\ MaxCrashes \in Nat
  /\ WritesOnClose \in BOOLEAN
  /\ Faults \subseteq {"reuse"}

VARIABLES
  bodies,    \* what the file D<id> holds
  controls,  \* whose control files the files C<id>... are
  db,        \* when the message of an id was quarantined, on disk
  view,      \* the db as the process that opened it sees it
  dirty,     \* it has changed what it sees
  lock,      \* the process that holds the lock
  pc,        \* where each process is
  id,        \* the id each process works on
  doomed,    \* the expired ids that the purge has not come to yet
  clock, crashes,
  stamp,     \* history: when each message was recorded
  held,      \* history: the messages of the id that was requested, at the request
  raced      \* history: the messages that met another on their way in

fileVars    == <<bodies, controls>>
dbVars      == <<db, view, dirty, lock>>
envVars     == <<clock, crashes>>
historyVars == <<stamp, raced>>
vars == <<fileVars, dbVars, pc, id, doomed, held, envVars, historyVars>>

None == -1

NoDb == [i \in Inodes |-> None]

Init ==
  /\ bodies = [i \in Inodes |-> Nobody] /\ controls = bodies
  /\ db = NoDb
  /\ view = [p \in Processes |-> db] /\ dirty = [p \in Processes |-> FALSE]
  /\ lock = Nobody
  /\ pc = [p \in Processes |-> "idle"] /\ id = [p \in Processes |-> None]
  /\ doomed = {}
  /\ clock = 0 /\ crashes = 0
  /\ stamp = [m \in Messages |-> None]
  /\ held = {} /\ raced = {}

-----------------------------------------------------------------------------
(* _getDb and _closeDb.                                                    *)
Goes(p, from, to) == pc[p] = from /\ pc' = [pc EXCEPT ![p] = to]

\* The lock is free, but the db of p is not closed, and not written, yet.
Unwritten(p) == WritesOnClose /\ pc[p] = "close" /\ dirty[p]

OpenDb(p) ==
  /\ lock = Nobody /\ lock' = p
  /\ view' = [view EXCEPT ![p] = db]
  /\ UNCHANGED <<db, dirty>>

\* Whom it meets that p, which will write the db, opens it now.
Meets(p) ==
  LET others == {q \in Processes : Unwritten(q)}
  IN IF others = {} THEN {} ELSE (others \cup {p}) \cap Messages

WriteDb(p, contents) ==
  /\ view' = [view EXCEPT ![p] = contents]
  /\ dirty' = [dirty EXCEPT ![p] = TRUE]
  /\ db' = IF WritesOnClose THEN db ELSE contents
  /\ UNCHANGED lock

Unlock(p) ==
  /\ Goes(p, "unlock", "close")
  /\ lock' = Nobody
  /\ UNCHANGED <<fileVars, db, view, dirty, id, doomed, held, envVars,
                 historyVars>>

\* Where a process goes after it has closed the db.
After(p) == CASE p = Purger -> "idle" [] p = Releaser -> "check" [] OTHER -> "notify"

CloseDb(p) ==
  /\ Goes(p, "close", After(p))
  /\ db' = IF WritesOnClose /\ dirty[p] THEN view[p] ELSE db
  /\ view' = IF p = Releaser THEN view ELSE [view EXCEPT ![p] = NoDb]
  /\ dirty' = [dirty EXCEPT ![p] = FALSE]
  /\ UNCHANGED <<fileVars, lock, id, doomed, held, envVars, historyVars>>

-----------------------------------------------------------------------------
(* quarantine(), for message m.                                            *)
Unfinished(m) == pc[m] \in {"copyBody", "copyControls", "open", "record", "unlock", "close"}

\* The db, a process that has it open, or another message on its way in still
\* has the number i.
StillUsed(m, i) ==
  \/ db[i] # None
  \/ \E p \in Processes \ {Releaser} : view[p][i] # None
  \/ \E n \in Messages \ {m} : id[n] = i /\ Unfinished(n)

CreateBody(m, i) ==
  /\ bodies[i] = Nobody
  /\ "reuse" \in Faults \/ \A n \in Messages : id[n] # i
  /\ Goes(m, "idle", "copyBody")
  /\ id' = [id EXCEPT ![m] = i]
  /\ bodies' = [bodies EXCEPT ![i] = Empty]
  /\ raced' = IF StillUsed(m, i) THEN raced \cup {m} ELSE raced
  /\ UNCHANGED <<controls, dbVars, doomed, held, envVars, stamp>>

\* A body that was removed in the meantime is created again; it is taken to
\* get the number that its name has.
CopyBody(m) ==
  /\ Goes(m, "copyBody", "copyControls")
  /\ bodies' = [bodies EXCEPT ![id[m]] = m]
  /\ UNCHANGED <<controls, dbVars, id, doomed, held, envVars, historyVars>>

\* The record is made before the control files are there.
CopyControls_M(m) ==
  /\ Goes(m, "copyControls", "open")
  /\ UNCHANGED <<fileVars, dbVars, id, doomed, held, envVars, historyVars>>

CopyControls(m) ==
  /\ Goes(m, "copyControls", "open")
  /\ controls' = [controls EXCEPT ![id[m]] = m]
  /\ UNCHANGED <<bodies, dbVars, id, doomed, held, envVars, historyVars>>

OpenToRecord(m) ==
  /\ m \in Messages
  /\ Goes(m, "open", "record")
  /\ OpenDb(m)
  /\ raced' = raced \cup Meets(m)
  /\ UNCHANGED <<fileVars, id, doomed, held, envVars, stamp>>

Record(m) ==
  /\ Goes(m, "record", "unlock")
  /\ WriteDb(m, [view[m] EXCEPT ![id[m]] = clock])
  /\ stamp' = [stamp EXCEPT ![m] = clock]
  /\ UNCHANGED <<fileVars, id, doomed, held, envVars, raced>>

\* The recipients are removed and told: see module ControlFiles.
Notify(m) ==
  /\ Goes(m, "notify", "done")
  /\ UNCHANGED <<fileVars, dbVars, id, doomed, held, envVars, historyVars>>

-----------------------------------------------------------------------------
(* purge().                                                                *)
\* A message is removed on its last day.
Expired_M(contents) == {i \in Inodes : contents[i] # None /\ contents[i] <= clock - Days}

Expired(contents) == {i \in Inodes : contents[i] # None /\ contents[i] < clock - Days}

\* The purge goes through the records, not through their ids.
StartPurge_M ==
  /\ Goes(Purger, "idle", "remove")
  /\ OpenDb(Purger)
  /\ doomed' = {db[i] : i \in Expired(db)}
  /\ raced' = raced \cup Meets(Purger)
  /\ UNCHANGED <<fileVars, id, held, envVars, stamp>>

StartPurge ==
  /\ Goes(Purger, "idle", "remove")
  /\ OpenDb(Purger)
  /\ doomed' = Expired(db)
  /\ raced' = raced \cup Meets(Purger)
  /\ UNCHANGED <<fileVars, id, held, envVars, stamp>>

RemoveBody(i) ==
  /\ i \in doomed
  /\ Goes(Purger, "remove", "removeControls")
  /\ id' = [id EXCEPT ![Purger] = i]
  /\ bodies' = [bodies EXCEPT ![i] = Nobody]
  /\ UNCHANGED <<controls, dbVars, doomed, held, envVars, historyVars>>

\* The control files stay when the body file is gone.
RemoveControls_M ==
  /\ Goes(Purger, "removeControls", "forget")
  /\ UNCHANGED <<fileVars, dbVars, id, doomed, held, envVars, historyVars>>

RemoveControls ==
  /\ Goes(Purger, "removeControls", "forget")
  /\ controls' = [controls EXCEPT ![id[Purger]] = Nobody]
  /\ UNCHANGED <<bodies, dbVars, id, doomed, held, envVars, historyVars>>

Forget ==
  /\ Goes(Purger, "forget", "remove")
  /\ WriteDb(Purger, [view[Purger] EXCEPT ![id[Purger]] = None])
  /\ doomed' = doomed \ {id[Purger]}
  /\ id' = [id EXCEPT ![Purger] = None]
  /\ UNCHANGED <<fileVars, held, envVars, historyVars>>

EndPurge ==
  /\ doomed = {}
  /\ Goes(Purger, "remove", "unlock")
  /\ UNCHANGED <<fileVars, dbVars, id, doomed, held, envVars, historyVars>>

-----------------------------------------------------------------------------
(* release().                                                              *)
Live(t) == t # None /\ t >= clock - Days

\* The messages that were announced under the id and have not expired.
Announced(i) == {m \in Messages : pc[m] = "done" /\ id[m] = i /\ Live(stamp[m])}

Request(i) ==
  /\ Goes(Releaser, "idle", "open")
  /\ id' = [id EXCEPT ![Releaser] = i]
  /\ held' = Announced(i) \ raced
  /\ UNCHANGED <<fileVars, dbVars, doomed, envVars, historyVars>>

\* The paths of the files are read while the lock is held.
OpenToRelease ==
  /\ Goes(Releaser, "open", "unlock")
  /\ OpenDb(Releaser)
  /\ UNCHANGED <<fileVars, id, doomed, held, envVars, historyVars>>

Found == view[Releaser][id[Releaser]] # None

Ends ==
  /\ Goes(Releaser, "check", "idle")
  /\ held' = {}
  /\ id' = [id EXCEPT ![Releaser] = None]
  /\ view' = [view EXCEPT ![Releaser] = NoDb]
  /\ UNCHANGED <<fileVars, db, dirty, lock, doomed, envVars, historyVars>>

\* There is no record of the id, and the sender of the request is told so.
NotFound == pc[Releaser] = "check" /\ ~Found /\ Ends

HasControls == controls[id[Releaser]] # Nobody

\* The sender is not among the recipients in the control files: the answer is
\* the same.
NoRecipient == pc[Releaser] = "check" /\ Found /\ HasControls /\ Ends

\* The control files cannot be opened, or he is one of them and the path of
\* the body is read as if it were a file: an exception ends the program.
ReleaseRaises == pc[Releaser] = "check" /\ Found /\ Ends

-----------------------------------------------------------------------------
Tick ==
  /\ clock < MaxClock /\ clock' = clock + 1
  /\ UNCHANGED <<fileVars, dbVars, pc, id, doomed, held, crashes, historyVars>>

\* The kernel releases the lock of a killed process.  What it had changed in
\* the db and not written is lost.
Crash(p) ==
  /\ crashes < MaxCrashes /\ pc[p] \notin {"idle", "done", "killed"}
  /\ crashes' = crashes + 1
  /\ pc' = [pc EXCEPT ![p] = IF p \in Messages THEN "killed" ELSE "idle"]
  /\ lock' = IF lock = p THEN Nobody ELSE lock
  /\ doomed' = IF p = Purger THEN {} ELSE doomed
  /\ view' = [view EXCEPT ![p] = NoDb] /\ dirty' = [dirty EXCEPT ![p] = FALSE]
  /\ id' = IF p \in Messages THEN id ELSE [id EXCEPT ![p] = None]
  /\ UNCHANGED <<fileVars, db, held, clock, historyVars>>

Next ==
  \/ \E m \in Messages :
       \/ \E i \in Inodes : CreateBody(m, i)
       \/ CopyBody(m) \/ CopyControls(m) \/ OpenToRecord(m) \/ Record(m) \/ Notify(m)
  \/ StartPurge \/ RemoveControls \/ Forget \/ EndPurge
  \/ \E i \in Inodes : RemoveBody(i)
  \/ \E i \in Inodes : Request(i)
  \/ OpenToRelease \/ NotFound \/ NoRecipient \/ ReleaseRaises
  \/ \E p \in Processes : Unlock(p) \/ CloseDb(p) \/ Crash(p)
  \/ Tick

Spec == Init /\ [][Next]_vars

-----------------------------------------------------------------------------
OwnPcs(p) ==
  CASE p = Purger -> {"remove", "removeControls", "forget"}
    [] p = Releaser -> {"open", "check"}
    [] OTHER -> {"copyBody", "copyControls", "open", "record", "notify", "done", "killed"}

Pcs == {"idle", "unlock", "close"} \cup UNION {OwnPcs(p) : p \in Processes}

TypeOK ==
  /\ bodies \in [Inodes -> Messages \cup {Nobody, Empty}]
  /\ controls \in [Inodes -> Messages \cup {Nobody}]
  /\ db \in [Inodes -> 0..MaxClock \cup {None}]
  /\ view \in [Processes -> [Inodes -> 0..MaxClock \cup {None}]]
  /\ dirty \in [Processes -> BOOLEAN]
  /\ lock \in Processes \cup {Nobody}
  /\ pc \in [Processes -> Pcs]
  /\ \A p \in Processes : pc[p] \in OwnPcs(p) \cup {"idle", "unlock", "close"}
  /\ id \in [Processes -> Inodes \cup {None}]
  /\ doomed \subseteq Inodes
  /\ held \subseteq Messages /\ raced \subseteq Messages
  /\ clock \in 0..MaxClock /\ crashes \in 0..MaxCrashes
  /\ stamp \in [Messages -> 0..MaxClock \cup {None}]

\* "This message will be held in the quarantine until" its last day (line
\* 158): from the notice on, whatever purges, requests, other quarantines
\* and crashes do, the record, the body and the control files are there.
Kept(m) ==
  pc[m] \in {"notify", "done"} /\ Live(stamp[m])
    => /\ db[id[m]] = stamp[m]
       /\ bodies[id[m]] = m /\ controls[id[m]] = m

HeldUntilExpiry == \A m \in Messages : Kept(m)

\* The same, but for a message that met another: one of the two opened the db
\* while the other had unlocked it (line 59) and not yet closed it (line 61),
\* with a db that is written then; or his body file was given the number of
\* one that the db, or somebody who is changing it, still has.
HeldUnlessRaced == \A m \in Messages \ raced : Kept(m)

\* Lines 111-126 and 216-228: a file the db does not know of, which no purge
\* will ever remove, belongs to a message on its way into the quarantine,
\* whose thread was killed there, or which met another; a purge that is killed
\* leaves none.
FilesAreRecorded ==
  \A i \in Inodes :
    (bodies[i] # Nobody \/ controls[i] # Nobody) /\ db[i] = None
      => \E m \in Messages : id[m] = i /\ (pc[m] \notin {"notify", "done"} \/ m \in raced)

\* Lines 187-198: whoever asks for a message that was announced, met no other
\* and has not expired is not told that it was not found.
NotRefused ==
  [][NotFound => \A m \in held : ~Live(stamp[m])]_vars
=============================================================================
