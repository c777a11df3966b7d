---------------------------- MODULE Pythonfilter ----------------------------
(***************************************************************************)
(* The pythonfilter daemon: the main thread that sets up the filter        *)
(* socket, accepts connections from courierfilter and shuts down, and one  *)
(* thread per accepted connection running processMessage.  The threads     *)
(* share the counter activeFilters and its lock.  What the filters decide  *)
(* is the business of module FilterLoop; here they only take time.         *)
(* An action whose name ends in _M is the one after it with a mistake in   *)
(* it; the mutation checks put it in the place of the right one.           *)
(***************************************************************************)
EXTENDS Integers, FiniteSets

CONSTANTS
  Conns,        \* the connections clients may make, one message each
  NoConn,       \* the value of activeSocket before the first of them
  MaxRestarts,  \* how often courierfilter starts the program again
  Faults        \* which of the faults below the environment may cause

(***************************************************************************)
(* "client": a client hangs up before it is answered, or sends a request   *)
(* processMessage cannot read.  "thread": no thread can be started.        *)
(* "accept": accept() raises.  "load": a configured filter cannot be       *)
(* loaded.  "setup": a step of the socket setup raises.  "kill": the       *)
(* process is killed.                                                      *)
(***************************************************************************)
ASSUME ConnsAssumption == IsFiniteSet(Conns) /\ NoConn \notin Conns
ASSUME RestartsAssumption == MaxRestarts \in Nat
ASSUME FaultsAssumption ==
  Faults \subseteq {"client", "thread", "accept", "load", "setup", "kill"}

VARIABLES
  mainPc,         \* where the main thread is
  mainTmp,        \* activeFilters as read by the main thread
  lastAccepted,   \* the main thread's variable activeSocket
  activeFilters,  \* the shared count of running filters
  locked,         \* activeFiltersLock is held
  wpc,            \* where the thread of each connection is
  wtmp,           \* activeFilters as read by that thread
  conn,           \* each connection as its client sees it
  request,        \* what has come from that client: no whole request yet
                  \* ("awaited"), one ("whole"), or a malformed one ("bad")
  backlog,        \* connections waiting in the kernel to be accepted
  dotPath,        \* the file .pythonfilter exists
  path,           \* the file pythonfilter exists
  listening,      \* the socket accepts connections
  stdinClosed,    \* courierfilter has closed our standard input
  overdue,        \* the 10 seconds of grace at shutdown are over
  restarts        \* how often the program was started again

mainVars   == <<mainPc, mainTmp, lastAccepted>>
countVars  == <<activeFilters, locked>>
workerVars == <<wpc, wtmp>>
fileVars   == <<dotPath, path, listening>>
envVars    == <<request, stdinClosed, overdue, restarts>>
vars == <<mainVars, countVars, workerVars, conn, backlog, fileVars, envVars>>

SetupPcs == {"bind", "rename", "listen"}
LoopPcs  == {"select", "accept", "acquire", "load", "store", "spawn",
             "release", "recover"}
DownPcs  == {"loadFailed", "setupFailed", "exited", "crashed"}
MainPcs  == {"init", "unlink", "close", "unlinkPath", "drain"}
              \cup SetupPcs \cup LoopPcs \cup DownPcs

\* A thread that has not answered yet, one that has, one that is no more.
BusyPcs   == {"read", "filter", "send"}
FinishPcs == {"acquire", "load", "store", "release", "close"}
LivePcs   == BusyPcs \cup FinishPcs
WorkerPcs == LivePcs \cup {"none", "unborn", "done", "died", "killed"}

Init ==
  /\ mainPc = "init" /\ mainTmp = 0 /\ lastAccepted = NoConn
  /\ activeFilters = 0 /\ locked = FALSE
  /\ wpc = [c \in Conns |-> "none"] /\ wtmp = [c \in Conns |-> 0]
  /\ conn = [c \in Conns |-> "idle"] /\ backlog = {}
  /\ request = [c \in Conns |-> "awaited"]
  /\ dotPath \in BOOLEAN /\ path \in BOOLEAN /\ listening = FALSE
  /\ stdinClosed = FALSE /\ overdue = FALSE /\ restarts = 0

-----------------------------------------------------------------------------
(* The end of the process takes every thread and every socket with it.     *)
EndProcess(pc) ==
  /\ mainPc' = pc
  /\ activeFilters' = 0 /\ locked' = FALSE
  /\ wpc' = [c \in Conns |->
               IF wpc[c] \in {"none", "done"} THEN wpc[c] ELSE "killed"]
  /\ conn' = [c \in Conns |->
                IF conn[c] = "connected" THEN "dropped" ELSE conn[c]]
  /\ backlog' = {}
  /\ listening' = FALSE
  /\ lastAccepted' = NoConn
  /\ UNCHANGED <<mainTmp, wtmp, envVars>>

MainGoes(from, to) == mainPc = from /\ mainPc' = to

-----------------------------------------------------------------------------
(* Start-up: load the filters, then set the socket up.                     *)
LoadFilters ==
  /\ MainGoes("init", "unlink")
  /\ UNCHANGED <<mainTmp, lastAccepted, countVars, workerVars, conn, backlog,
                 fileVars, envVars>>

LoadFails ==
  /\ "load" \in Faults
  /\ mainPc = "init"
  /\ EndProcess("loadFailed")
  /\ UNCHANGED <<dotPath, path>>

UnlinkStale ==
  /\ MainGoes("unlink", "bind")
  /\ path' = FALSE /\ dotPath' = FALSE
  /\ UNCHANGED <<mainTmp, lastAccepted, countVars, workerVars, conn, backlog,
                 listening, envVars>>

BindSocket ==
  /\ MainGoes("bind", "rename")
  /\ dotPath' = TRUE
  /\ UNCHANGED <<mainTmp, lastAccepted, countVars, workerVars, conn, backlog,
                 path, listening, envVars>>

RenameSocket ==
  /\ MainGoes("rename", "listen")
  /\ dotPath' = FALSE /\ path' = TRUE
  /\ UNCHANGED <<mainTmp, lastAccepted, countVars, workerVars, conn, backlog,
                 listening, envVars>>

Listen ==
  /\ MainGoes("listen", "select")
  /\ listening' = TRUE
  /\ UNCHANGED <<mainTmp, lastAccepted, countVars, workerVars, conn, backlog,
                 dotPath, path, envVars>>

\* The file is left behind when chmod or listen fail.
SetupFails_M ==
  /\ "setup" \in Faults
  /\ mainPc \in SetupPcs
  /\ dotPath' = FALSE /\ UNCHANGED path
  /\ EndProcess("setupFailed")

SetupFails ==
  /\ "setup" \in Faults
  /\ mainPc \in SetupPcs
  /\ dotPath' = FALSE /\ path' = FALSE
  /\ EndProcess("setupFailed")

-----------------------------------------------------------------------------
(* The accept loop.                                                        *)
SelectStdin ==
  /\ stdinClosed
  /\ MainGoes("select", "close")
  /\ UNCHANGED <<mainTmp, lastAccepted, countVars, workerVars, conn, backlog,
                 fileVars, envVars>>

SelectSocket ==
  /\ ~stdinClosed
  /\ backlog # {}
  /\ MainGoes("select", "accept")
  /\ UNCHANGED <<mainTmp, lastAccepted, countVars, workerVars, conn, backlog,
                 fileVars, envVars>>

\* The last socket is closed although its thread still runs.
AcceptConn_M(c) ==
  /\ c \in backlog
  /\ MainGoes("accept", "acquire")
  /\ backlog' = backlog \ {c}
  /\ lastAccepted' = c
  /\ conn' = [d \in Conns |->
                IF d = lastAccepted /\ conn[d] = "connected"
                THEN "dropped" ELSE conn[d]]
  /\ UNCHANGED <<mainTmp, countVars, workerVars, fileVars, envVars>>

\* Binding activeSocket again frees a socket that no thread owns any more.
AcceptConn(c) ==
  /\ c \in backlog
  /\ MainGoes("accept", "acquire")
  /\ backlog' = backlog \ {c}
  /\ lastAccepted' = c
  /\ conn' = [d \in Conns |->
                IF /\ d = lastAccepted /\ conn[d] = "connected"
                   /\ wpc[d] \in {"unborn", "died"}
                THEN "dropped" ELSE conn[d]]
  /\ UNCHANGED <<mainTmp, countVars, workerVars, fileVars, envVars>>

AcceptFails ==
  /\ "accept" \in Faults
  /\ MainGoes("accept", "recover")
  /\ UNCHANGED <<mainTmp, lastAccepted, countVars, workerVars, conn, backlog,
                 fileVars, envVars>>

MainAcquire ==
  /\ ~locked
  /\ MainGoes("acquire", "load")
  /\ locked' = TRUE
  /\ UNCHANGED <<mainTmp, lastAccepted, activeFilters, workerVars,
                 conn, backlog, fileVars, envVars>>

MainLoad ==
  /\ MainGoes("load", "store")
  /\ mainTmp' = activeFilters
  /\ UNCHANGED <<lastAccepted, countVars, workerVars, conn, backlog,
                 fileVars, envVars>>

MainStore ==
  /\ MainGoes("store", "spawn")
  /\ activeFilters' = mainTmp + 1
  /\ UNCHANGED <<mainTmp, lastAccepted, locked, workerVars, conn, backlog,
                 fileVars, envVars>>

\* The thread is not started.
StartThread_M ==
  /\ MainGoes("spawn", "release")
  /\ UNCHANGED <<mainTmp, lastAccepted, countVars, workerVars, conn, backlog,
                 fileVars, envVars>>

\* The new thread is the only one left.
StartThreadAlone_M ==
  /\ MainGoes("spawn", "release")
  /\ wpc' = [c \in {lastAccepted} |-> "read"]
  /\ UNCHANGED <<mainTmp, lastAccepted, countVars, wtmp, conn, backlog,
                 fileVars, envVars>>

StartThread ==
  /\ MainGoes("spawn", "release")
  /\ wpc' = [wpc EXCEPT ![lastAccepted] = "read"]
  /\ UNCHANGED <<mainTmp, lastAccepted, countVars, wtmp, conn, backlog,
                 fileVars, envVars>>

StartThreadFails ==
  /\ "thread" \in Faults
  /\ MainGoes("spawn", "recover")
  /\ wpc' = [wpc EXCEPT ![lastAccepted] = "unborn"]
  /\ UNCHANGED <<mainTmp, lastAccepted, countVars, wtmp, conn, backlog,
                 fileVars, envVars>>

\* release() of a lock nobody holds raises: in the try block that leads to
\* the except clause, in the except clause to the end of the main thread.
MainRelease ==
  /\ mainPc = "release"
  /\ mainPc' = IF locked THEN "select" ELSE "recover"
  /\ locked' = FALSE
  /\ UNCHANGED <<mainTmp, lastAccepted, activeFilters, workerVars,
                 conn, backlog, fileVars, envVars>>

RecoverRelease ==
  /\ locked
  /\ MainGoes("recover", "select")
  /\ locked' = FALSE
  /\ UNCHANGED <<mainTmp, lastAccepted, activeFilters, workerVars,
                 conn, backlog, fileVars, envVars>>

RecoverRaises ==
  /\ mainPc = "recover" /\ ~locked
  /\ EndProcess("crashed")
  /\ UNCHANGED <<dotPath, path>>

-----------------------------------------------------------------------------
(* Shutdown: no more connections, then wait for the filters, not for ever. *)
CloseSocket ==
  /\ MainGoes("close", "unlinkPath")
  /\ listening' = FALSE
  /\ backlog' = {}
  /\ conn' = [c \in Conns |-> IF c \in backlog /\ conn[c] = "connected"
                              THEN "dropped" ELSE conn[c]]
  /\ UNCHANGED <<mainTmp, lastAccepted, countVars, workerVars, dotPath, path,
                 envVars>>

UnlinkPath ==
  /\ MainGoes("unlinkPath", "drain")
  /\ path' = FALSE
  /\ UNCHANGED <<mainTmp, lastAccepted, countVars, workerVars, conn, backlog,
                 dotPath, listening, envVars>>

\* The wait has no deadline.
ExitNever_M ==
  /\ mainPc = "drain"
  /\ activeFilters <= 0
  /\ EndProcess("exited")
  /\ UNCHANGED <<dotPath, path>>

Exit ==
  /\ mainPc = "drain"
  /\ activeFilters <= 0 \/ overdue
  /\ EndProcess("exited")
  /\ UNCHANGED <<dotPath, path>>

-----------------------------------------------------------------------------
(* processMessage, in the thread of connection c.                          *)
WorkerGoes(c, from, to) == wpc[c] = from /\ wpc' = [wpc EXCEPT ![c] = to]

\* An exception outside the filter loop ends the thread where it stands.
\* The socket lives on while the main thread's activeSocket refers to it.
Dies(c) ==
  /\ wpc' = [wpc EXCEPT ![c] = "died"]
  /\ conn' = [conn EXCEPT ![c] =
                IF @ = "connected" /\ c # lastAccepted THEN "dropped" ELSE @]

\* readline() blocks without a limit until the client has sent its lines.
ReadRequest(c) ==
  /\ request[c] = "whole"
  /\ WorkerGoes(c, "read", "filter")
  /\ UNCHANGED <<mainVars, countVars, wtmp, conn, backlog, fileVars, envVars>>

\* An empty line in the wrong place, or the end of the input, has no [0].
ReadRaises(c) ==
  /\ wpc[c] = "read"
  /\ request[c] = "bad" \/ (conn[c] = "gone" /\ request[c] = "awaited")
  /\ Dies(c)
  /\ UNCHANGED <<mainVars, countVars, wtmp, backlog, fileVars, envVars>>

RunFilters(c) ==
  /\ WorkerGoes(c, "filter", "send")
  /\ UNCHANGED <<mainVars, countVars, wtmp, conn, backlog, fileVars, envVars>>

SendReply(c) ==
  /\ conn[c] = "connected"
  /\ WorkerGoes(c, "send", "acquire")
  /\ conn' = [conn EXCEPT ![c] = "answered"]
  /\ UNCHANGED <<mainVars, countVars, wtmp, backlog, fileVars, envVars>>

SendRaises(c) ==
  /\ wpc[c] = "send" /\ conn[c] = "gone"
  /\ Dies(c)
  /\ UNCHANGED <<mainVars, countVars, wtmp, backlog, fileVars, envVars>>

\* The count is updated without its lock.
WorkerAcquire_M(c) ==
  /\ WorkerGoes(c, "acquire", "load")
  /\ locked' = TRUE
  /\ UNCHANGED <<mainVars, activeFilters, wtmp, conn, backlog, fileVars,
                 envVars>>

WorkerAcquire(c) ==
  /\ ~locked
  /\ WorkerGoes(c, "acquire", "load")
  /\ locked' = TRUE
  /\ UNCHANGED <<mainVars, activeFilters, wtmp, conn, backlog,
                 fileVars, envVars>>

WorkerLoad(c) ==
  /\ WorkerGoes(c, "load", "store")
  /\ wtmp' = [wtmp EXCEPT ![c] = activeFilters]
  /\ UNCHANGED <<mainVars, countVars, conn, backlog, fileVars, envVars>>

WorkerStore(c) ==
  /\ WorkerGoes(c, "store", "release")
  /\ activeFilters' = wtmp[c] - 1
  /\ UNCHANGED <<mainVars, locked, wtmp, conn, backlog, fileVars, envVars>>

\* The lock is kept.
WorkerRelease_M(c) ==
  /\ WorkerGoes(c, "release", "close")
  /\ UNCHANGED <<mainVars, countVars, wtmp, conn, backlog, fileVars, envVars>>

WorkerRelease(c) ==
  /\ wpc[c] = "release"
  /\ IF locked
     THEN /\ wpc' = [wpc EXCEPT ![c] = "close"] /\ UNCHANGED conn
     ELSE Dies(c)
  /\ locked' = FALSE
  /\ UNCHANGED <<mainVars, activeFilters, wtmp, backlog, fileVars,
                 envVars>>

CloseConn(c) ==
  /\ WorkerGoes(c, "close", "done")
  /\ UNCHANGED <<mainVars, countVars, wtmp, conn, backlog, fileVars, envVars>>

-----------------------------------------------------------------------------
(* courierfilter, the clients, the clock and the operating system.         *)
Connect(c) ==
  /\ conn[c] = "idle" /\ path /\ listening
  /\ conn' = [conn EXCEPT ![c] = "connected"]
  /\ backlog' = backlog \cup {c}
  /\ UNCHANGED <<mainVars, countVars, workerVars, fileVars, envVars>>

\* Nothing makes a client send: there is no fairness on this step.
SendRequest(c) ==
  /\ conn[c] = "connected" /\ request[c] = "awaited"
  /\ \E sent \in {"whole", "bad"} :
       /\ sent = "bad" => "client" \in Faults
       /\ request' = [request EXCEPT ![c] = sent]
  /\ UNCHANGED <<mainVars, countVars, workerVars, conn, backlog, fileVars,
                 stdinClosed, overdue, restarts>>

HangUp(c) ==
  /\ "client" \in Faults
  /\ conn[c] = "connected"
  /\ conn' = [conn EXCEPT ![c] = "gone"]
  /\ UNCHANGED <<mainVars, countVars, workerVars, backlog, fileVars, envVars>>

StdinCloses ==
  /\ mainPc \notin DownPcs /\ ~stdinClosed
  /\ stdinClosed' = TRUE
  /\ UNCHANGED <<mainVars, countVars, workerVars, conn, backlog, fileVars,
                 request, overdue, restarts>>

DeadlinePasses ==
  /\ mainPc = "drain" /\ ~overdue
  /\ overdue' = TRUE
  /\ UNCHANGED <<mainVars, countVars, workerVars, conn, backlog, fileVars,
                 request, stdinClosed, restarts>>

Kill ==
  /\ "kill" \in Faults
  /\ mainPc \notin DownPcs
  /\ EndProcess("crashed")
  /\ UNCHANGED <<dotPath, path>>

Restart ==
  /\ mainPc \in DownPcs /\ restarts < MaxRestarts
  /\ mainPc' = "init"
  /\ stdinClosed' = FALSE /\ overdue' = FALSE /\ restarts' = restarts + 1
  /\ UNCHANGED <<mainTmp, lastAccepted, countVars, workerVars, conn, backlog,
                 request, fileVars>>

-----------------------------------------------------------------------------
MainStep ==
  \/ LoadFilters \/ LoadFails \/ UnlinkStale \/ BindSocket \/ RenameSocket \/ Listen
  \/ SetupFails
  \/ SelectStdin \/ SelectSocket
  \/ \E c \in Conns : AcceptConn(c)
  \/ AcceptFails \/ MainAcquire \/ MainLoad \/ MainStore
  \/ StartThread \/ StartThreadFails
  \/ MainRelease \/ RecoverRelease \/ RecoverRaises
  \/ CloseSocket \/ UnlinkPath \/ Exit

\* What a thread does apart from running the filters.
WorkerStep(c) ==
  \/ ReadRequest(c) \/ ReadRaises(c) \/ SendReply(c) \/ SendRaises(c)
  \/ WorkerAcquire(c) \/ WorkerLoad(c) \/ WorkerStore(c) \/ WorkerRelease(c)
  \/ CloseConn(c)

EnvStep ==
  \/ \E c \in Conns : Connect(c) \/ SendRequest(c) \/ HangUp(c)
  \/ StdinCloses \/ DeadlinePasses \/ Kill \/ Restart

Next ==
  \/ MainStep
  \/ \E c \in Conns : WorkerStep(c) \/ RunFilters(c)
  \/ EnvStep

Spec == Init /\ [][Next]_vars

\* Threads that can run do run, and time passes.  A thread that waits for
\* its client's request cannot.  That a filter returns is a promise of the
\* filters, not of the daemon, and kept apart.
Fairness ==
  /\ WF_vars(MainStep)
  /\ \A c \in Conns : WF_vars(WorkerStep(c))
  /\ WF_vars(DeadlinePasses)

FiltersReturn == \A c \in Conns : WF_vars(RunFilters(c))

FairSpec == Spec /\ Fairness

-----------------------------------------------------------------------------
TypeOK ==
  /\ mainPc \in MainPcs /\ mainTmp \in Int
  /\ lastAccepted \in Conns \cup {NoConn}
  /\ activeFilters \in Int /\ locked \in BOOLEAN
  /\ wpc \in [Conns -> WorkerPcs] /\ wtmp \in [Conns -> Int]
  /\ conn \in [Conns -> {"idle", "connected", "gone", "answered", "dropped"}]
  /\ request \in [Conns -> {"awaited", "whole", "bad"}]
  /\ backlog \subseteq Conns
  /\ dotPath \in BOOLEAN /\ path \in BOOLEAN /\ listening \in BOOLEAN
  /\ stdinClosed \in BOOLEAN /\ overdue \in BOOLEAN
  /\ restarts \in 0..MaxRestarts

\* The connections the count stands for: a thread that has not taken itself
\* off again, or never will because it died or was never started.
Accounted ==
  {c \in Conns :
     \/ wpc[c] \in BusyPcs \cup {"acquire", "load", "store", "died", "unborn"}
     \/ mainPc = "spawn" /\ c = lastAccepted}

\* No update of activeFilters is lost between the main thread's increment
\* (line 275) and the threads' decrements (line 240), each a read and a
\* write: the count is always the number of connections it stands for.
CountExact == activeFilters = Cardinality(Accounted)

\* "exit when filters are complete" (lines 287-288): the process leaves the
\* shutdown wait before its deadline only if no client still waits for an
\* answer, whatever the clients and threads did before.
NoMessageCutOff ==
  [][mainPc = "drain" /\ mainPc' = "exited" /\ ~overdue
       => \A c \in Conns : conn[c] # "connected"]_vars

\* Lines 155-163 and 292-293: a program that ends by itself after it began
\* to set up the socket leaves no socket file courier would try to use.
StoppedLeavesNoSocket ==
  mainPc \in {"setupFailed", "exited"} => ~path /\ ~dotPath

\* A waiting client waits for someone: the kernel queue, the main thread
\* about to start its thread, or a thread that is still going to answer it
\* (lines 271-277 and 230-236).  The exceptions are the client whose thread
\* could not be started and the one whose malformed request ended its
\* thread: their socket stays open until activeSocket is bound again.
WaitingIsOwned ==
  \A c \in Conns : conn[c] = "connected" =>
    \/ c \in backlog
    \/ c = lastAccepted /\ mainPc \in {"acquire", "load", "store", "spawn"}
    \/ wpc[c] \in BusyPcs
    \/ c = lastAccepted /\ (wpc[c] = "unborn" \/ (wpc[c] = "died" /\ request[c] = "bad"))

\* "Do not wait more than 10 seconds" (lines 288-289): once stdin closes the
\* program ends, even if no filter ever returns.
ShutdownCompletes == stdinClosed ~> mainPc \in DownPcs

\* If the filters return, every client that has sent its whole request is
\* answered or finds its socket closed, however many others keep silent or
\* send nonsense, whoever else's thread died, whatever the lock went
\* through, except one whose thread could not be started (line 277).
EveryMessageResolved ==
  FiltersReturn =>
    \A c \in Conns :
      conn[c] = "connected" /\ request[c] = "whole"
        ~> conn[c] # "connected" \/ wpc[c] = "unborn"

-----------------------------------------------------------------------------
(* The inductive invariant behind the properties: WayInv under all faults, *)
(* the lock and the count as long as accept() does not fail, for a failure *)
(* makes the main thread release what it does not hold.                    *)
MainHolds   == {"load", "store", "spawn", "release", "recover"}
WorkerHolds == {"load", "store", "release"}

\* The lock is held by exactly the one thread that is where it is held.
LockInv ==
  /\ locked <=> mainPc \in MainHolds \/ \E c \in Conns : wpc[c] \in WorkerHolds
  /\ mainPc \in MainHolds => \A c \in Conns : wpc[c] \notin WorkerHolds
  /\ \A c, d \in Conns : wpc[c] \in WorkerHolds /\ wpc[d] \in WorkerHolds => c = d

\* What a thread has read of the count is still the count when it writes.
ReadInv ==
  /\ mainPc = "store" => mainTmp = activeFilters
  /\ \A c \in Conns : wpc[c] = "store" => wtmp[c] = activeFilters

\* A connection goes from its client to the kernel, to the main thread and
\* to its own thread, and is in one place at a time.
HandOverInv ==
  /\ \A c \in Conns : conn[c] = "idle" \/ c \in backlog => wpc[c] = "none"
  /\ \A c \in backlog : conn[c] # "idle" /\ c # lastAccepted
  /\ lastAccepted \in Conns => conn[lastAccepted] # "idle"
  /\ mainPc \in {"acquire", "load", "store", "spawn"}
       => lastAccepted \in Conns /\ wpc[lastAccepted] = "none"
  /\ \A c \in Conns : wpc[c] \in {"filter", "send"} => request[c] = "whole"

\* The socket and its files at each point of the main thread's life.
SocketInv ==
  /\ listening <=> mainPc \in LoopPcs \cup {"close"}
  /\ ~listening => backlog = {}
  /\ dotPath => mainPc \notin {"bind", "listen", "setupFailed", "exited", "close",
                               "unlinkPath", "drain"} \cup LoopPcs
  /\ path => mainPc \notin {"bind", "rename", "setupFailed", "exited", "drain"}

\* No client is left waiting by a process that is not there.
QuietInv ==
  mainPc \notin LoopPcs \cup {"close", "unlinkPath", "drain"}
    => \A c \in Conns : conn[c] # "connected"

WayInv == TypeOK /\ HandOverInv /\ SocketInv /\ WaitingIsOwned /\ QuietInv

DaemonInv == WayInv /\ LockInv /\ ReadInv /\ CountExact

-----------------------------------------------------------------------------
(* The daemon implements the service its clients see.                      *)
service ==
  IF mainPc = "crashed" THEN "crashed"
  ELSE IF listening THEN "up"
  ELSE IF mainPc \in {"unlinkPath", "drain"} THEN "draining"
  ELSE "down"

FS == INSTANCE FilterService WITH client <- conn, asked <- request, late <- overdue

\* Every client is answered at most once, and only if it asked, and it is
\* dropped only where the abstract service may drop it: for a malformed
\* request, at the closing of the socket (line 292), by an exit after the
\* deadline (line 295) or by a crash.
ImplementsFilterService == FS!Spec
=============================================================================
