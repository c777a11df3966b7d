------------------------ MODULE Pythonfilter_proofs ------------------------
(***************************************************************************)
(* Proofs about module Pythonfilter, for every set of connections, every   *)
(* number of restarts and all faults.  Only what rests on the lock and the *)
(* count excepts a failing accept(), which does break the count            *)
(* (Pythonfilter!RecoverRelease).                                          *)
(***************************************************************************)
EXTENDS Pythonfilter, FiniteSetTheorems, TLAPS

LEMMA InitTypeOK == Init => TypeOK
<1> SUFFICES ASSUME Init PROVE TypeOK
  OBVIOUS
<1> USE DEF Init
<1>1. mainPc \in MainPcs /\ wpc \in [Conns -> WorkerPcs]
  BY DEF MainPcs, WorkerPcs
<1>2. restarts \in 0..MaxRestarts
  BY RestartsAssumption
<1>3. wtmp \in [Conns -> Int] /\ mainTmp \in Int /\ activeFilters \in Int
  OBVIOUS
<1>4. /\ conn \in [Conns -> {"idle", "connected", "gone", "answered", "dropped"}]
      /\ request \in [Conns -> {"awaited", "whole", "bad"}]
  OBVIOUS
<1>5. /\ locked \in BOOLEAN /\ dotPath \in BOOLEAN /\ path \in BOOLEAN
      /\ listening \in BOOLEAN /\ stdinClosed \in BOOLEAN
      /\ overdue \in BOOLEAN
  OBVIOUS
<1> QED BY <1>1, <1>2, <1>3, <1>4, <1>5 DEF TypeOK

LEMMA EndProcessTypeOK ==
  ASSUME TypeOK, NEW pc \in DownPcs, EndProcess(pc),
         dotPath' \in BOOLEAN, path' \in BOOLEAN
  PROVE  TypeOK'
<1>1. mainPc' \in MainPcs
  BY DEF EndProcess, MainPcs
<1>2. wpc' \in [Conns -> WorkerPcs]
  BY DEF TypeOK, EndProcess, WorkerPcs
<1>3. conn' \in [Conns -> {"idle", "connected", "gone", "answered", "dropped"}]
  BY DEF TypeOK, EndProcess
<1>4. locked' \in BOOLEAN /\ listening' \in BOOLEAN
  BY DEF EndProcess
<1>5. UNCHANGED <<mainTmp, wtmp, request, stdinClosed, overdue, restarts>>
  BY DEF EndProcess, envVars
<1>6. activeFilters' = 0 /\ lastAccepted' = NoConn /\ backlog' = {}
  BY DEF EndProcess
<1> QED BY <1>1, <1>2, <1>3, <1>4, <1>5, <1>6 DEF TypeOK

LEMMA TypeStep == TypeOK /\ [Next]_vars => TypeOK'
<1> SUFFICES ASSUME TypeOK, [Next]_vars PROVE TypeOK'
  OBVIOUS
<1> USE DEF TypeOK, MainGoes, WorkerGoes, mainVars, countVars, workerVars,
            fileVars, envVars
<1>1. CASE LoadFilters BY <1>1 DEF LoadFilters, MainPcs
<1>2. CASE LoadFails BY <1>2, EndProcessTypeOK DEF LoadFails, DownPcs
<1>3. CASE UnlinkStale BY <1>3 DEF UnlinkStale, MainPcs, SetupPcs
<1>4. CASE BindSocket BY <1>4 DEF BindSocket, MainPcs, SetupPcs
<1>5. CASE RenameSocket BY <1>5 DEF RenameSocket, MainPcs, SetupPcs
<1>6. CASE Listen BY <1>6 DEF Listen, MainPcs, LoopPcs
<1>7. CASE SetupFails BY <1>7, EndProcessTypeOK DEF SetupFails, DownPcs
<1>8. CASE SelectStdin BY <1>8 DEF SelectStdin, MainPcs
<1>9. CASE SelectSocket BY <1>9 DEF SelectSocket, MainPcs, LoopPcs
<1>10. ASSUME NEW c \in Conns, AcceptConn(c) PROVE TypeOK'
  BY <1>10 DEF AcceptConn, MainPcs, LoopPcs
<1>11. CASE AcceptFails BY <1>11 DEF AcceptFails, MainPcs, LoopPcs
<1>12. CASE MainAcquire BY <1>12 DEF MainAcquire, MainPcs, LoopPcs
<1>13. CASE MainLoad BY <1>13 DEF MainLoad, MainPcs, LoopPcs
<1>14. CASE MainStore BY <1>14 DEF MainStore, MainPcs, LoopPcs
<1>15. CASE StartThread
  BY <1>15 DEF StartThread, MainPcs, LoopPcs, WorkerPcs, LivePcs, BusyPcs
<1>16. CASE StartThreadFails
  BY <1>16 DEF StartThreadFails, MainPcs, LoopPcs, WorkerPcs
<1>17. CASE MainRelease BY <1>17 DEF MainRelease, MainPcs, LoopPcs
<1>18. CASE RecoverRelease BY <1>18 DEF RecoverRelease, MainPcs, LoopPcs
<1>19. CASE RecoverRaises
  BY <1>19, EndProcessTypeOK DEF RecoverRaises, DownPcs
<1>20. CASE CloseSocket BY <1>20 DEF CloseSocket, MainPcs
<1>21. CASE UnlinkPath BY <1>21 DEF UnlinkPath, MainPcs
<1>22. CASE Exit BY <1>22, EndProcessTypeOK DEF Exit, DownPcs
<1>23. ASSUME NEW c \in Conns, WorkerStep(c) \/ RunFilters(c) PROVE TypeOK'
  <2> USE DEF WorkerPcs, LivePcs, BusyPcs, FinishPcs
  <2>1. CASE ReadRequest(c) BY <2>1 DEF ReadRequest
  <2>2. CASE ReadRaises(c) BY <2>2 DEF ReadRaises, Dies
  <2>3. CASE RunFilters(c) BY <2>3 DEF RunFilters
  <2>4. CASE SendReply(c) BY <2>4 DEF SendReply
  <2>5. CASE SendRaises(c) BY <2>5 DEF SendRaises, Dies
  <2>6. CASE WorkerAcquire(c) BY <2>6 DEF WorkerAcquire
  <2>7. CASE WorkerLoad(c) BY <2>7 DEF WorkerLoad
  <2>8. CASE WorkerStore(c) BY <2>8 DEF WorkerStore
  <2>9. CASE WorkerRelease(c) BY <2>9 DEF WorkerRelease, Dies
  <2>10. CASE CloseConn(c) BY <2>10 DEF CloseConn
  <2> QED BY <1>23, <2>1, <2>2, <2>3, <2>4, <2>5, <2>6, <2>7, <2>8, <2>9,
             <2>10 DEF WorkerStep
<1>24. ASSUME NEW c \in Conns, Connect(c) \/ SendRequest(c) \/ HangUp(c) PROVE TypeOK'
  BY <1>24 DEF Connect, SendRequest, HangUp
<1>25. CASE StdinCloses BY <1>25 DEF StdinCloses
<1>26. CASE DeadlinePasses BY <1>26 DEF DeadlinePasses
<1>27. CASE Kill BY <1>27, EndProcessTypeOK DEF Kill, DownPcs
<1>28. CASE Restart
  <2>1. restarts' \in 0..MaxRestarts
    BY <1>28, RestartsAssumption DEF Restart
  <2> QED BY <1>28, <2>1 DEF Restart, MainPcs
<1>29. CASE UNCHANGED vars BY <1>29 DEF vars
<1> QED
  BY <1>1, <1>2, <1>3, <1>4, <1>5, <1>6, <1>7, <1>8, <1>9, <1>10, <1>11,
     <1>12, <1>13, <1>14, <1>15, <1>16, <1>17, <1>18, <1>19, <1>20, <1>21,
     <1>22, <1>23, <1>24, <1>25, <1>26, <1>27, <1>28, <1>29
  DEF Next, MainStep, EnvStep

\* Every variable keeps its type, under all faults.
THEOREM TypeCorrect == Spec => []TypeOK
BY InitTypeOK, TypeStep, PTL DEF Spec

-----------------------------------------------------------------------------
(* The lock.                                                               *)
LEMMA EndProcessLock ==
  ASSUME TypeOK, NEW pc \in DownPcs, EndProcess(pc)
  PROVE  LockInv' /\ ReadInv'
BY DEF TypeOK, EndProcess, LockInv, ReadInv, MainHolds, WorkerHolds, DownPcs

LEMMA LockStep ==
  ASSUME "accept" \notin Faults, TypeOK, LockInv, [Next]_vars
  PROVE  LockInv'
<1> USE DEF TypeOK, LockInv, MainGoes, WorkerGoes, MainHolds, WorkerHolds,
            mainVars, countVars, workerVars, fileVars, envVars
<1>1. CASE LoadFilters \/ UnlinkStale \/ BindSocket \/ RenameSocket \/ Listen
           \/ SelectStdin \/ SelectSocket \/ CloseSocket \/ UnlinkPath
  BY <1>1 DEF LoadFilters, UnlinkStale, BindSocket, RenameSocket, Listen,
              SelectStdin, SelectSocket, CloseSocket, UnlinkPath
<1>2. CASE LoadFails \/ SetupFails \/ RecoverRaises \/ Exit \/ Kill
  BY <1>2, EndProcessLock
  DEF LoadFails, SetupFails, RecoverRaises, Exit, Kill, DownPcs
<1>3. ASSUME NEW c \in Conns, AcceptConn(c) PROVE LockInv'
  BY <1>3 DEF AcceptConn
<1>4. CASE AcceptFails BY <1>4 DEF AcceptFails
<1>5. CASE MainAcquire BY <1>5 DEF MainAcquire
<1>6. CASE MainLoad \/ MainStore BY <1>6 DEF MainLoad, MainStore
<1>7. CASE StartThread BY <1>7 DEF StartThread
<1>8. CASE StartThreadFails BY <1>8 DEF StartThreadFails
<1>9. CASE MainRelease \/ RecoverRelease
  BY <1>9 DEF MainRelease, RecoverRelease
<1>10. ASSUME NEW c \in Conns,
              ReadRequest(c) \/ RunFilters(c) \/ SendReply(c) \/ CloseConn(c)
       PROVE  LockInv'
  BY <1>10 DEF ReadRequest, RunFilters, SendReply, CloseConn
<1>11. ASSUME NEW c \in Conns, ReadRaises(c) \/ SendRaises(c) PROVE LockInv'
  BY <1>11 DEF ReadRaises, SendRaises, Dies
<1>12. ASSUME NEW c \in Conns, WorkerAcquire(c) PROVE LockInv'
  BY <1>12 DEF WorkerAcquire
<1>13. ASSUME NEW c \in Conns, WorkerLoad(c) \/ WorkerStore(c) PROVE LockInv'
  BY <1>13 DEF WorkerLoad, WorkerStore
<1>14. ASSUME NEW c \in Conns, WorkerRelease(c) PROVE LockInv'
  BY <1>14 DEF WorkerRelease
<1>15. ASSUME NEW c \in Conns, Connect(c) \/ SendRequest(c) \/ HangUp(c) PROVE LockInv'
  BY <1>15 DEF Connect, SendRequest, HangUp
<1>16. CASE StdinCloses \/ DeadlinePasses
  BY <1>16 DEF StdinCloses, DeadlinePasses
<1>17. CASE Restart BY <1>17 DEF Restart, DownPcs
<1>18. CASE UNCHANGED vars BY <1>18 DEF vars
<1> QED
  BY <1>1, <1>2, <1>3, <1>4, <1>5, <1>6, <1>7, <1>8, <1>9, <1>10, <1>11,
     <1>12, <1>13, <1>14, <1>15, <1>16, <1>17, <1>18
  DEF Next, MainStep, WorkerStep, EnvStep

LEMMA ReadStep ==
  ASSUME "accept" \notin Faults, TypeOK, LockInv, ReadInv, [Next]_vars
  PROVE  ReadInv'
<1> USE DEF TypeOK, MainGoes, WorkerGoes, mainVars, countVars, workerVars,
            fileVars, envVars, LockInv, ReadInv,
            MainHolds, WorkerHolds
<1>1. CASE LoadFilters \/ UnlinkStale \/ BindSocket \/ RenameSocket \/ Listen \/
           SelectStdin \/ SelectSocket \/ UnlinkPath
  BY <1>1
  DEF LoadFilters, UnlinkStale, BindSocket, RenameSocket, Listen, SelectStdin,
      SelectSocket, UnlinkPath
<1>2. CASE LoadFails \/ SetupFails \/ RecoverRaises \/ Exit \/ Kill
  BY <1>2, EndProcessLock
  DEF LoadFails, SetupFails, RecoverRaises, Exit, Kill, DownPcs
<1>3. ASSUME NEW c \in Conns, AcceptConn(c) PROVE ReadInv'
  BY <1>3 DEF AcceptConn
<1>4. CASE AcceptFails
  BY <1>4 DEF AcceptFails
<1>5. CASE MainAcquire
  BY <1>5 DEF MainAcquire
<1>6. CASE MainLoad
  BY <1>6 DEF MainLoad
<1>7. CASE MainStore
  BY <1>7 DEF MainStore
<1>8. CASE StartThread
  BY <1>8 DEF StartThread
<1>9. CASE StartThreadFails
  BY <1>9 DEF StartThreadFails
<1>10. CASE MainRelease \/ RecoverRelease
  BY <1>10 DEF MainRelease, RecoverRelease
<1>11. CASE CloseSocket
  BY <1>11 DEF CloseSocket
<1>12. ASSUME NEW c \in Conns, ReadRequest(c) \/ RunFilters(c) \/ CloseConn(c)
       PROVE  ReadInv'
  BY <1>12 DEF ReadRequest, RunFilters, CloseConn
<1>13. ASSUME NEW c \in Conns, SendReply(c) PROVE ReadInv'
  BY <1>13 DEF SendReply
<1>14. ASSUME NEW c \in Conns, ReadRaises(c) \/ SendRaises(c) PROVE ReadInv'
  BY <1>14 DEF ReadRaises, SendRaises, Dies
<1>15. ASSUME NEW c \in Conns, WorkerAcquire(c) PROVE ReadInv'
  BY <1>15 DEF WorkerAcquire
<1>16. ASSUME NEW c \in Conns, WorkerLoad(c) PROVE ReadInv'
  BY <1>16 DEF WorkerLoad
<1>17. ASSUME NEW c \in Conns, WorkerStore(c) PROVE ReadInv'
  BY <1>17 DEF WorkerStore
<1>18. ASSUME NEW c \in Conns, WorkerRelease(c) PROVE ReadInv'
  BY <1>18 DEF WorkerRelease, Dies
<1>19. ASSUME NEW c \in Conns, Connect(c) \/ SendRequest(c) \/ HangUp(c) PROVE ReadInv'
  BY <1>19 DEF Connect, SendRequest, HangUp
<1>20. CASE StdinCloses \/ DeadlinePasses
  BY <1>20 DEF StdinCloses, DeadlinePasses
<1>21. CASE Restart
  BY <1>21 DEF Restart, DownPcs
<1>22. CASE UNCHANGED vars
  BY <1>22 DEF vars
<1> QED
  BY <1>1, <1>2, <1>3, <1>4, <1>5, <1>6, <1>7, <1>8, <1>9, <1>10, <1>11,
     <1>12, <1>13, <1>14, <1>15, <1>16, <1>17, <1>18, <1>19, <1>20,
     <1>21, <1>22
  DEF Next, MainStep, WorkerStep, EnvStep


-----------------------------------------------------------------------------
(* The way of a connection.                                                *)
LEMMA EndProcessQuiet ==
  ASSUME TypeOK, HandOverInv, NEW pc \in DownPcs, EndProcess(pc)
  PROVE  HandOverInv' /\ QuietInv' /\ WaitingIsOwned'
BY ConnsAssumption
DEF TypeOK, EndProcess, HandOverInv, QuietInv, WaitingIsOwned, DownPcs, LoopPcs


LEMMA HandOverStep ==
  ASSUME TypeOK, HandOverInv, [Next]_vars
  PROVE  HandOverInv'
<1> USE DEF TypeOK, MainGoes, WorkerGoes, mainVars, countVars, workerVars,
            fileVars, envVars, HandOverInv
<1>1. CASE LoadFilters \/ UnlinkStale \/ BindSocket \/ RenameSocket \/ Listen \/
           SelectStdin \/ SelectSocket \/ UnlinkPath
  BY <1>1
  DEF LoadFilters, UnlinkStale, BindSocket, RenameSocket, Listen, SelectStdin,
      SelectSocket, UnlinkPath
<1>2. CASE LoadFails \/ SetupFails \/ RecoverRaises \/ Exit \/ Kill
  BY <1>2, EndProcessQuiet
  DEF LoadFails, SetupFails, RecoverRaises, Exit, Kill, DownPcs
<1>3. ASSUME NEW c \in Conns, AcceptConn(c) PROVE HandOverInv'
  BY <1>3 DEF AcceptConn
<1>4. CASE AcceptFails
  BY <1>4 DEF AcceptFails
<1>5. CASE MainAcquire
  BY <1>5 DEF MainAcquire
<1>6. CASE MainLoad
  BY <1>6 DEF MainLoad
<1>7. CASE MainStore
  BY <1>7 DEF MainStore
<1>8. CASE StartThread
  BY <1>8 DEF StartThread
<1>9. CASE StartThreadFails
  BY <1>9 DEF StartThreadFails
<1>10. CASE MainRelease \/ RecoverRelease
  BY <1>10 DEF MainRelease, RecoverRelease
<1>11. CASE CloseSocket
  BY <1>11 DEF CloseSocket
<1>12. ASSUME NEW c \in Conns, ReadRequest(c) \/ RunFilters(c) \/ CloseConn(c)
       PROVE  HandOverInv'
  BY <1>12 DEF ReadRequest, RunFilters, CloseConn
<1>13. ASSUME NEW c \in Conns, SendReply(c) PROVE HandOverInv'
  BY <1>13 DEF SendReply
<1>14. ASSUME NEW c \in Conns, ReadRaises(c) \/ SendRaises(c) PROVE HandOverInv'
  BY <1>14 DEF ReadRaises, SendRaises, Dies
<1>15. ASSUME NEW c \in Conns, WorkerAcquire(c) PROVE HandOverInv'
  BY <1>15 DEF WorkerAcquire
<1>16. ASSUME NEW c \in Conns, WorkerLoad(c) PROVE HandOverInv'
  BY <1>16 DEF WorkerLoad
<1>17. ASSUME NEW c \in Conns, WorkerStore(c) PROVE HandOverInv'
  BY <1>17 DEF WorkerStore
<1>18. ASSUME NEW c \in Conns, WorkerRelease(c) PROVE HandOverInv'
  BY <1>18 DEF WorkerRelease, Dies
<1>19. ASSUME NEW c \in Conns, Connect(c) \/ SendRequest(c) \/ HangUp(c) PROVE HandOverInv'
  BY <1>19 DEF Connect, SendRequest, HangUp
<1>20. CASE StdinCloses \/ DeadlinePasses
  BY <1>20 DEF StdinCloses, DeadlinePasses
<1>21. CASE Restart
  BY <1>21 DEF Restart, DownPcs
<1>22. CASE UNCHANGED vars
  BY <1>22 DEF vars
<1> QED
  BY <1>1, <1>2, <1>3, <1>4, <1>5, <1>6, <1>7, <1>8, <1>9, <1>10, <1>11,
     <1>12, <1>13, <1>14, <1>15, <1>16, <1>17, <1>18, <1>19, <1>20,
     <1>21, <1>22
  DEF Next, MainStep, WorkerStep, EnvStep


LEMMA SocketStep ==
  ASSUME TypeOK, SocketInv, [Next]_vars
  PROVE  SocketInv'
<1> USE DEF TypeOK, MainGoes, WorkerGoes, mainVars, countVars, workerVars,
            fileVars, envVars, SocketInv,
            SetupPcs, LoopPcs
<1>1. CASE LoadFilters \/ UnlinkStale \/ BindSocket \/ RenameSocket \/ Listen \/
           SelectStdin \/ SelectSocket \/ UnlinkPath
  BY <1>1
  DEF LoadFilters, UnlinkStale, BindSocket, RenameSocket, Listen, SelectStdin,
      SelectSocket, UnlinkPath
<1>2. CASE LoadFails \/ SetupFails \/ RecoverRaises \/ Exit \/ Kill
  BY <1>2
  DEF LoadFails, SetupFails, RecoverRaises, Exit, Kill, EndProcess, DownPcs
<1>3. ASSUME NEW c \in Conns, AcceptConn(c) PROVE SocketInv'
  BY <1>3 DEF AcceptConn
<1>4. CASE AcceptFails
  BY <1>4 DEF AcceptFails
<1>5. CASE MainAcquire
  BY <1>5 DEF MainAcquire
<1>6. CASE MainLoad
  BY <1>6 DEF MainLoad
<1>7. CASE MainStore
  BY <1>7 DEF MainStore
<1>8. CASE StartThread
  BY <1>8 DEF StartThread
<1>9. CASE StartThreadFails
  BY <1>9 DEF StartThreadFails
<1>10. CASE MainRelease \/ RecoverRelease
  BY <1>10 DEF MainRelease, RecoverRelease
<1>11. CASE CloseSocket
  BY <1>11 DEF CloseSocket
<1>12. ASSUME NEW c \in Conns, ReadRequest(c) \/ RunFilters(c) \/ CloseConn(c)
       PROVE  SocketInv'
  BY <1>12 DEF ReadRequest, RunFilters, CloseConn
<1>13. ASSUME NEW c \in Conns, SendReply(c) PROVE SocketInv'
  BY <1>13 DEF SendReply
<1>14. ASSUME NEW c \in Conns, ReadRaises(c) \/ SendRaises(c) PROVE SocketInv'
  BY <1>14 DEF ReadRaises, SendRaises, Dies
<1>15. ASSUME NEW c \in Conns, WorkerAcquire(c) PROVE SocketInv'
  BY <1>15 DEF WorkerAcquire
<1>16. ASSUME NEW c \in Conns, WorkerLoad(c) PROVE SocketInv'
  BY <1>16 DEF WorkerLoad
<1>17. ASSUME NEW c \in Conns, WorkerStore(c) PROVE SocketInv'
  BY <1>17 DEF WorkerStore
<1>18. ASSUME NEW c \in Conns, WorkerRelease(c) PROVE SocketInv'
  BY <1>18 DEF WorkerRelease, Dies
<1>19. ASSUME NEW c \in Conns, Connect(c) \/ SendRequest(c) \/ HangUp(c) PROVE SocketInv'
  BY <1>19 DEF Connect, SendRequest, HangUp
<1>20. CASE StdinCloses \/ DeadlinePasses
  BY <1>20 DEF StdinCloses, DeadlinePasses
<1>21. CASE Restart
  BY <1>21 DEF Restart, DownPcs
<1>22. CASE UNCHANGED vars
  BY <1>22 DEF vars
<1> QED
  BY <1>1, <1>2, <1>3, <1>4, <1>5, <1>6, <1>7, <1>8, <1>9, <1>10, <1>11,
     <1>12, <1>13, <1>14, <1>15, <1>16, <1>17, <1>18, <1>19, <1>20,
     <1>21, <1>22
  DEF Next, MainStep, WorkerStep, EnvStep

LEMMA WaitingStep ==
  ASSUME TypeOK, HandOverInv, SocketInv,
         WaitingIsOwned, [Next]_vars
  PROVE  WaitingIsOwned'
<1> USE DEF TypeOK, MainGoes, WorkerGoes, mainVars, countVars, workerVars,
            fileVars, envVars, WaitingIsOwned,
            HandOverInv, BusyPcs
<1>1. CASE LoadFilters \/ UnlinkStale \/ BindSocket \/ RenameSocket \/ Listen \/
           SelectStdin \/ SelectSocket \/ UnlinkPath
  BY <1>1
  DEF LoadFilters, UnlinkStale, BindSocket, RenameSocket, Listen, SelectStdin,
      SelectSocket, UnlinkPath
<1>2. CASE LoadFails \/ SetupFails \/ RecoverRaises \/ Exit \/ Kill
  BY <1>2, EndProcessQuiet
  DEF LoadFails, SetupFails, RecoverRaises, Exit, Kill, DownPcs
<1>3. ASSUME NEW c \in Conns, AcceptConn(c) PROVE WaitingIsOwned'
  BY <1>3 DEF AcceptConn
<1>4. CASE AcceptFails
  BY <1>4 DEF AcceptFails
<1>5. CASE MainAcquire
  BY <1>5 DEF MainAcquire
<1>6. CASE MainLoad
  BY <1>6 DEF MainLoad
<1>7. CASE MainStore
  BY <1>7 DEF MainStore
<1>8. CASE StartThread
  BY <1>8 DEF StartThread
<1>9. CASE StartThreadFails
  BY <1>9 DEF StartThreadFails
<1>10. CASE MainRelease \/ RecoverRelease
  BY <1>10 DEF MainRelease, RecoverRelease
<1>11. CASE CloseSocket
  BY <1>11 DEF CloseSocket
<1>12. ASSUME NEW c \in Conns, ReadRequest(c) \/ RunFilters(c) \/ CloseConn(c)
       PROVE  WaitingIsOwned'
  BY <1>12 DEF ReadRequest, RunFilters, CloseConn
<1>13. ASSUME NEW c \in Conns, SendReply(c) PROVE WaitingIsOwned'
  BY <1>13 DEF SendReply
<1>14. ASSUME NEW c \in Conns, ReadRaises(c) \/ SendRaises(c)
       PROVE  WaitingIsOwned'
  BY <1>14 DEF ReadRaises, SendRaises, Dies
<1>15. ASSUME NEW c \in Conns, WorkerAcquire(c) PROVE WaitingIsOwned'
  BY <1>15 DEF WorkerAcquire
<1>16. ASSUME NEW c \in Conns, WorkerLoad(c) PROVE WaitingIsOwned'
  BY <1>16 DEF WorkerLoad
<1>17. ASSUME NEW c \in Conns, WorkerStore(c) PROVE WaitingIsOwned'
  BY <1>17 DEF WorkerStore
<1>18. ASSUME NEW c \in Conns, WorkerRelease(c) PROVE WaitingIsOwned'
  BY <1>18 DEF WorkerRelease, Dies
<1>19. ASSUME NEW c \in Conns, Connect(c) \/ SendRequest(c) \/ HangUp(c) PROVE WaitingIsOwned'
  BY <1>19 DEF Connect, SendRequest, HangUp
<1>20. CASE StdinCloses \/ DeadlinePasses
  BY <1>20 DEF StdinCloses, DeadlinePasses
<1>21. CASE Restart
  BY <1>21 DEF Restart, DownPcs
<1>22. CASE UNCHANGED vars
  BY <1>22 DEF vars
<1> QED
  BY <1>1, <1>2, <1>3, <1>4, <1>5, <1>6, <1>7, <1>8, <1>9, <1>10, <1>11,
     <1>12, <1>13, <1>14, <1>15, <1>16, <1>17, <1>18, <1>19, <1>20,
     <1>21, <1>22
  DEF Next, MainStep, WorkerStep, EnvStep


LEMMA QuietStep ==
  ASSUME TypeOK, HandOverInv, SocketInv,
         WaitingIsOwned, QuietInv, [Next]_vars
  PROVE  QuietInv'
<1> USE DEF TypeOK, MainGoes, WorkerGoes, mainVars, countVars, workerVars,
            fileVars, envVars, QuietInv,
            SocketInv, LoopPcs
<1>1. CASE LoadFilters \/ UnlinkStale \/ BindSocket \/ RenameSocket \/ Listen \/
           SelectStdin \/ SelectSocket \/ UnlinkPath
  BY <1>1
  DEF LoadFilters, UnlinkStale, BindSocket, RenameSocket, Listen, SelectStdin,
      SelectSocket, UnlinkPath
<1>2. CASE LoadFails \/ SetupFails \/ RecoverRaises \/ Exit \/ Kill
  BY <1>2, EndProcessQuiet
  DEF LoadFails, SetupFails, RecoverRaises, Exit, Kill, DownPcs
<1>3. ASSUME NEW c \in Conns, AcceptConn(c) PROVE QuietInv'
  BY <1>3 DEF AcceptConn
<1>4. CASE AcceptFails
  BY <1>4 DEF AcceptFails
<1>5. CASE MainAcquire
  BY <1>5 DEF MainAcquire
<1>6. CASE MainLoad
  BY <1>6 DEF MainLoad
<1>7. CASE MainStore
  BY <1>7 DEF MainStore
<1>8. CASE StartThread
  BY <1>8 DEF StartThread
<1>9. CASE StartThreadFails
  BY <1>9 DEF StartThreadFails
<1>10. CASE MainRelease \/ RecoverRelease
  BY <1>10 DEF MainRelease, RecoverRelease
<1>11. CASE CloseSocket
  BY <1>11 DEF CloseSocket
<1>12. ASSUME NEW c \in Conns, ReadRequest(c) \/ RunFilters(c) \/ CloseConn(c)
       PROVE  QuietInv'
  BY <1>12 DEF ReadRequest, RunFilters, CloseConn
<1>13. ASSUME NEW c \in Conns, SendReply(c) PROVE QuietInv'
  BY <1>13 DEF SendReply
<1>14. ASSUME NEW c \in Conns, ReadRaises(c) \/ SendRaises(c) PROVE QuietInv'
  BY <1>14 DEF ReadRaises, SendRaises, Dies
<1>15. ASSUME NEW c \in Conns, WorkerAcquire(c) PROVE QuietInv'
  BY <1>15 DEF WorkerAcquire
<1>16. ASSUME NEW c \in Conns, WorkerLoad(c) PROVE QuietInv'
  BY <1>16 DEF WorkerLoad
<1>17. ASSUME NEW c \in Conns, WorkerStore(c) PROVE QuietInv'
  BY <1>17 DEF WorkerStore
<1>18. ASSUME NEW c \in Conns, WorkerRelease(c) PROVE QuietInv'
  BY <1>18 DEF WorkerRelease, Dies
<1>19. ASSUME NEW c \in Conns, Connect(c) \/ SendRequest(c) \/ HangUp(c) PROVE QuietInv'
  BY <1>19 DEF Connect, SendRequest, HangUp
<1>20. CASE StdinCloses \/ DeadlinePasses
  BY <1>20 DEF StdinCloses, DeadlinePasses
<1>21. CASE Restart
  BY <1>21 DEF Restart, DownPcs
<1>22. CASE UNCHANGED vars
  BY <1>22 DEF vars
<1> QED
  BY <1>1, <1>2, <1>3, <1>4, <1>5, <1>6, <1>7, <1>8, <1>9, <1>10, <1>11,
     <1>12, <1>13, <1>14, <1>15, <1>16, <1>17, <1>18, <1>19, <1>20,
     <1>21, <1>22
  DEF Next, MainStep, WorkerStep, EnvStep

-----------------------------------------------------------------------------
(* The count.                                                              *)
LEMMA AccountedFinite == IsFiniteSet(Accounted) /\ IsFiniteSet(Accounted')
BY ConnsAssumption, FS_Subset DEF Accounted

LEMMA CountStep ==
  ASSUME "accept" \notin Faults, TypeOK, LockInv, ReadInv, HandOverInv,
         CountExact, [Next]_vars
  PROVE  CountExact'
<1> DEFINE Same == Accounted' = Accounted /\ activeFilters' = activeFilters
<1> USE DEF TypeOK, MainGoes, WorkerGoes, mainVars, countVars, workerVars,
            fileVars, envVars
<1>1. SUFFICES ASSUME ~Same PROVE CountExact'
  BY DEF CountExact
<1>2. CASE MainStore
  <2>1. Accounted' = Accounted \cup {lastAccepted}
    BY <1>2 DEF MainStore, Accounted, HandOverInv
  <2>2. lastAccepted \notin Accounted
    BY <1>2 DEF MainStore, Accounted, HandOverInv, BusyPcs
  <2>3. Cardinality(Accounted') = Cardinality(Accounted) + 1
    BY <2>1, <2>2, AccountedFinite, FS_AddElement
  <2>4. activeFilters' = activeFilters + 1
    BY <1>2 DEF MainStore, ReadInv
  <2> QED BY <2>3, <2>4 DEF CountExact
<1>3. ASSUME NEW c \in Conns, WorkerStore(c) PROVE CountExact'
  <2>1. Accounted' = Accounted \ {c}
    BY <1>3 DEF WorkerStore, Accounted, BusyPcs, HandOverInv, LockInv,
                MainHolds, WorkerHolds
  <2>2. c \in Accounted
    BY <1>3 DEF WorkerStore, Accounted
  <2>3. Cardinality(Accounted') = Cardinality(Accounted) - 1
    BY <2>1, <2>2, AccountedFinite, FS_RemoveElement
  <2>4. activeFilters' = activeFilters - 1
    BY <1>3 DEF WorkerStore, ReadInv
  <2> QED BY <2>3, <2>4 DEF CountExact
<1>4. CASE LoadFails \/ SetupFails \/ RecoverRaises \/ Exit \/ Kill
  <2>1. PICK pc \in DownPcs : EndProcess(pc)
    BY <1>4 DEF LoadFails, SetupFails, RecoverRaises, Exit, Kill, DownPcs
  <2>2. Accounted' = {}
    BY <2>1 DEF EndProcess, Accounted, BusyPcs, DownPcs
  <2> QED BY <2>1, <2>2, FS_EmptySet DEF CountExact, EndProcess
<1>5. ASSUME LoadFilters \/ UnlinkStale \/ BindSocket \/ RenameSocket \/ Listen
           \/ SelectStdin \/ SelectSocket \/ UnlinkPath
      PROVE  Same
  BY <1>5
  DEF LoadFilters, UnlinkStale, BindSocket, RenameSocket, Listen, SelectStdin,
      SelectSocket, UnlinkPath, Accounted, BusyPcs
<1>6. ASSUME NEW c \in Conns, AcceptConn(c) PROVE Same
  BY <1>6 DEF AcceptConn, Accounted, BusyPcs, HandOverInv
<1>7. ASSUME AcceptFails PROVE Same
  BY <1>7 DEF AcceptFails, Accounted, BusyPcs
<1>8. ASSUME MainAcquire PROVE Same
  BY <1>8 DEF MainAcquire, Accounted, BusyPcs
<1>9. ASSUME MainLoad PROVE Same
  BY <1>9 DEF MainLoad, Accounted, BusyPcs
<1>10. ASSUME StartThread PROVE Same
  BY <1>10 DEF StartThread, Accounted, BusyPcs, HandOverInv
<1>11. ASSUME StartThreadFails PROVE Same
  BY <1>11 DEF StartThreadFails, Accounted, BusyPcs, HandOverInv
<1>12. ASSUME MainRelease \/ RecoverRelease PROVE Same
  BY <1>12 DEF MainRelease, RecoverRelease, Accounted, BusyPcs
<1>13. ASSUME CloseSocket PROVE Same
  BY <1>13 DEF CloseSocket, Accounted, BusyPcs
<1>14. ASSUME NEW c \in Conns, ReadRequest(c) \/ RunFilters(c) \/ CloseConn(c)
       PROVE  Same
  BY <1>14 DEF ReadRequest, RunFilters, CloseConn, Accounted, BusyPcs
<1>15. ASSUME NEW c \in Conns, SendReply(c) PROVE Same
  BY <1>15 DEF SendReply, Accounted, BusyPcs
<1>16. ASSUME NEW c \in Conns, ReadRaises(c) \/ SendRaises(c) PROVE Same
  BY <1>16 DEF ReadRaises, SendRaises, Dies, Accounted, BusyPcs
<1>17. ASSUME NEW c \in Conns, WorkerAcquire(c) PROVE Same
  BY <1>17 DEF WorkerAcquire, Accounted, BusyPcs
<1>18. ASSUME NEW c \in Conns, WorkerLoad(c) PROVE Same
  BY <1>18 DEF WorkerLoad, Accounted, BusyPcs
<1>19. ASSUME NEW c \in Conns, WorkerRelease(c) PROVE Same
  BY <1>19 DEF WorkerRelease, Dies, Accounted, BusyPcs, LockInv,
     WorkerHolds
<1>20. ASSUME NEW c \in Conns, Connect(c) \/ SendRequest(c) \/ HangUp(c) PROVE Same
  BY <1>20 DEF Connect, SendRequest, HangUp, Accounted, BusyPcs
<1>21. ASSUME StdinCloses \/ DeadlinePasses PROVE Same
  BY <1>21 DEF StdinCloses, DeadlinePasses, Accounted, BusyPcs
<1>22. ASSUME Restart PROVE Same
  BY <1>22 DEF Restart, DownPcs, Accounted, BusyPcs
<1>23. ASSUME UNCHANGED vars PROVE Same
  BY <1>23 DEF vars, Accounted, BusyPcs
<1> QED
  BY <1>1, <1>2, <1>3, <1>4, <1>5, <1>6, <1>7, <1>8, <1>9, <1>10, <1>11,
     <1>12, <1>13, <1>14, <1>15, <1>16, <1>17, <1>18, <1>19, <1>20,
     <1>21, <1>22, <1>23
  DEF Next, MainStep, WorkerStep, EnvStep

-----------------------------------------------------------------------------
(* The properties.                                                         *)
LEMMA DaemonInvInit == Init => DaemonInv
<1> SUFFICES ASSUME Init PROVE DaemonInv
  OBVIOUS
<1> USE DEF Init
<1>1. TypeOK
  BY InitTypeOK
<1>2. LockInv /\ ReadInv
  BY DEF LockInv, ReadInv, MainHolds, WorkerHolds
<1>3. HandOverInv /\ WaitingIsOwned /\ QuietInv
  BY ConnsAssumption DEF HandOverInv, WaitingIsOwned, QuietInv
<1>4. SocketInv
  BY DEF SocketInv, LoopPcs
<1>5. CountExact
  <2>1. Accounted = {}
    BY DEF Accounted, BusyPcs
  <2> QED BY <2>1, FS_EmptySet DEF CountExact
<1> QED BY <1>1, <1>2, <1>3, <1>4, <1>5 DEF DaemonInv, WayInv

LEMMA WayInvStep == WayInv /\ [Next]_vars => WayInv'
BY TypeStep, HandOverStep, SocketStep, WaitingStep, QuietStep DEF WayInv

LEMMA DaemonInvStep ==
  ASSUME "accept" \notin Faults, DaemonInv, [Next]_vars
  PROVE  DaemonInv'
BY WayInvStep, LockStep, ReadStep, CountStep DEF DaemonInv, WayInv

\* A connection's way from its client to its thread is never lost, under all
\* faults.
THEOREM WayInvariant == Spec => []WayInv
<1>1. Init => WayInv
  BY DaemonInvInit DEF DaemonInv
<1> QED BY <1>1, WayInvStep, PTL DEF Spec

\* The inductive invariant holds of every behaviour without a failing
\* accept(), and with it the properties it names.
THEOREM DaemonInvariant ==
  ASSUME "accept" \notin Faults
  PROVE  Spec => []DaemonInv
BY DaemonInvInit, DaemonInvStep, PTL DEF Spec

\* No update of activeFilters is lost, whatever threads die.
THEOREM CountIsExact ==
  ASSUME "accept" \notin Faults
  PROVE  Spec => []CountExact
<1>1. DaemonInv => CountExact
  BY DEF DaemonInv
<1> QED BY <1>1, DaemonInvariant, PTL

\* A waiting client is always in somebody's hands, under all faults.
THEOREM WaitingClientsAreOwned == Spec => []WaitingIsOwned
<1>1. WayInv => WaitingIsOwned
  BY DEF WayInv
<1> QED BY <1>1, WayInvariant, PTL

\* A program that ends by itself leaves no socket file behind, under all
\* faults.
THEOREM NoSocketLeft == Spec => []StoppedLeavesNoSocket
<1>1. WayInv => StoppedLeavesNoSocket
  BY DEF WayInv, SocketInv, StoppedLeavesNoSocket
<1> QED BY <1>1, WayInvariant, PTL

LEMMA PatientExit ==
  ASSUME DaemonInv, Exit, ~overdue
  PROVE  \A c \in Conns : conn[c] # "connected"
<1>1. Cardinality(Accounted) <= 0
  BY DEF Exit, DaemonInv, CountExact
<1>2. Accounted = {}
  BY <1>1, AccountedFinite, FS_CardinalityType, FS_EmptySet
<1>3. ASSUME NEW c \in Conns, conn[c] = "connected" PROVE c \in Accounted
  BY <1>3 DEF Exit, DaemonInv, WayInv, WaitingIsOwned, SocketInv, LoopPcs, Accounted
<1> QED BY <1>2, <1>3

\* Leaving the shutdown wait before the deadline cuts off nobody: the exact
\* count is 0 only if no client waits.
THEOREM ExitCutsNobodyOff ==
  ASSUME "accept" \notin Faults
  PROVE  Spec => NoMessageCutOff
<1> DEFINE Patient ==
      mainPc = "drain" /\ mainPc' = "exited" /\ ~overdue
        => \A c \in Conns : conn[c] # "connected"
<1>1. ASSUME DaemonInv, [Next]_vars PROVE [Patient]_vars
  <2> SUFFICES ASSUME mainPc = "drain", mainPc' = "exited", ~overdue,
                      NEW c \in Conns, conn[c] = "connected"
               PROVE  FALSE
    OBVIOUS
  <2>1. Exit
    <3>1. \/ Exit \/ Kill \/ UNCHANGED vars
          \/ \E d \in Conns : \/ WorkerStep(d) \/ RunFilters(d)
                              \/ Connect(d) \/ SendRequest(d) \/ HangUp(d)
          \/ StdinCloses \/ DeadlinePasses
      BY <1>1 DEF Next, MainStep, EnvStep, MainGoes, LoadFilters, LoadFails,
         UnlinkStale, BindSocket, RenameSocket, Listen, SetupFails, SetupPcs,
         SelectStdin, SelectSocket, AcceptConn, AcceptFails, MainAcquire,
         MainLoad, MainStore, StartThread, StartThreadFails, MainRelease,
         RecoverRelease, RecoverRaises, CloseSocket, UnlinkPath, Restart, DownPcs
    <3>2. Exit \/ mainPc' = mainPc \/ mainPc' = "crashed"
      BY <3>1 DEF vars, mainVars, Kill, EndProcess, WorkerStep, RunFilters,
         Connect, SendRequest, HangUp, StdinCloses, DeadlinePasses, ReadRequest, ReadRaises,
         SendReply, SendRaises, WorkerAcquire, WorkerLoad, WorkerStore,
         WorkerRelease, CloseConn
    <3> QED BY <3>2
  <2> QED BY <1>1, <2>1, PatientExit
<1>2. DaemonInv /\ [Next]_vars => [Patient]_vars
  BY <1>1
<1> QED BY <1>2, DaemonInvariant, PTL DEF Spec, NoMessageCutOff

-----------------------------------------------------------------------------
(* The daemon implements the service.                                      *)
NoUnborn == \A c \in Conns : wpc[c] # "unborn"


LEMMA NoUnbornStep ==
  ASSUME "thread" \notin Faults, TypeOK, NoUnborn, [Next]_vars
  PROVE  NoUnborn'
<1> USE DEF TypeOK, MainGoes, WorkerGoes, mainVars, countVars, workerVars,
            fileVars, envVars, NoUnborn
<1>1. CASE LoadFilters \/ UnlinkStale \/ BindSocket \/ RenameSocket \/ Listen \/
           SelectStdin \/ SelectSocket \/ UnlinkPath
  BY <1>1
  DEF LoadFilters, UnlinkStale, BindSocket, RenameSocket, Listen, SelectStdin,
      SelectSocket, UnlinkPath
<1>2. CASE LoadFails \/ SetupFails \/ RecoverRaises \/ Exit \/ Kill
  BY <1>2
  DEF LoadFails, SetupFails, RecoverRaises, Exit, Kill, DownPcs, EndProcess
<1>3. ASSUME NEW c \in Conns, AcceptConn(c) PROVE NoUnborn'
  BY <1>3 DEF AcceptConn
<1>4. CASE AcceptFails
  BY <1>4 DEF AcceptFails
<1>5. CASE MainAcquire
  BY <1>5 DEF MainAcquire
<1>6. CASE MainLoad
  BY <1>6 DEF MainLoad
<1>7. CASE MainStore
  BY <1>7 DEF MainStore
<1>8. CASE StartThread
  BY <1>8 DEF StartThread
<1>9. CASE StartThreadFails
  BY <1>9 DEF StartThreadFails
<1>10. CASE MainRelease \/ RecoverRelease
  BY <1>10 DEF MainRelease, RecoverRelease
<1>11. CASE CloseSocket
  BY <1>11 DEF CloseSocket
<1>12. ASSUME NEW c \in Conns, ReadRequest(c) \/ RunFilters(c) \/ CloseConn(c)
       PROVE  NoUnborn'
  BY <1>12 DEF ReadRequest, RunFilters, CloseConn
<1>13. ASSUME NEW c \in Conns, SendReply(c) PROVE NoUnborn'
  BY <1>13 DEF SendReply
<1>14. ASSUME NEW c \in Conns, ReadRaises(c) \/ SendRaises(c) PROVE NoUnborn'
  BY <1>14 DEF ReadRaises, SendRaises, Dies
<1>15. ASSUME NEW c \in Conns, WorkerAcquire(c) PROVE NoUnborn'
  BY <1>15 DEF WorkerAcquire
<1>16. ASSUME NEW c \in Conns, WorkerLoad(c) PROVE NoUnborn'
  BY <1>16 DEF WorkerLoad
<1>17. ASSUME NEW c \in Conns, WorkerStore(c) PROVE NoUnborn'
  BY <1>17 DEF WorkerStore
<1>18. ASSUME NEW c \in Conns, WorkerRelease(c) PROVE NoUnborn'
  BY <1>18 DEF WorkerRelease, Dies
<1>19. ASSUME NEW c \in Conns, Connect(c) \/ SendRequest(c) \/ HangUp(c) PROVE NoUnborn'
  BY <1>19 DEF Connect, SendRequest, HangUp
<1>20. CASE StdinCloses \/ DeadlinePasses
  BY <1>20 DEF StdinCloses, DeadlinePasses
<1>21. CASE Restart
  BY <1>21 DEF Restart, DownPcs
<1>22. CASE UNCHANGED vars
  BY <1>22 DEF vars
<1> QED
  BY <1>1, <1>2, <1>3, <1>4, <1>5, <1>6, <1>7, <1>8, <1>9, <1>10, <1>11,
     <1>12, <1>13, <1>14, <1>15, <1>16, <1>17, <1>18, <1>19, <1>20,
     <1>21, <1>22
  DEF Next, MainStep, WorkerStep, EnvStep

LEMMA EndImplements ==
  ASSUME DaemonInv, NEW pc \in DownPcs, EndProcess(pc),
         pc # "crashed" => \/ ~listening /\ mainPc \notin {"unlinkPath", "drain", "crashed"}
                           \/ mainPc = "drain" /\ (overdue \/ FS!Waiting = {})
  PROVE  [FS!Next]_(FS!vars)
<1> USE DEF DaemonInv, WayInv, TypeOK, QuietInv, SocketInv, EndProcess, service, envVars
<1>1. FS!DropAll(FS!Waiting) /\ UNCHANGED <<request, overdue>>
  BY DEF FS!DropAll, FS!Waiting
<1>2. CASE pc = "crashed"
  <2>1. service' = "crashed"
    BY <1>2
  <2> QED BY <1>1, <2>1 DEF FS!Next, FS!Crash
<1>3. CASE pc # "crashed" /\ mainPc = "drain"
  <2>1. service = "draining" /\ service' = "down"
    BY <1>3 DEF LoopPcs, DownPcs
  <2> QED BY <1>1, <1>3, <2>1 DEF FS!Next, FS!Stop
<1>4. CASE pc # "crashed" /\ mainPc # "drain"
  <2>1. service = "down" /\ service' = "down"
    BY <1>4 DEF DownPcs
  <2>2. conn' = conn
    BY <1>4 DEF LoopPcs
  <2> QED BY <1>1, <2>1, <2>2 DEF FS!vars
<1> QED BY <1>2, <1>3, <1>4

LEMMA StepImplements ==
  ASSUME "accept" \notin Faults, "thread" \notin Faults, DaemonInv, NoUnborn,
         [Next]_vars
  PROVE  [FS!Next]_(FS!vars)
<1> DEFINE Stutter == UNCHANGED <<service, conn, request, overdue>>
<1> USE DEF DaemonInv, WayInv, TypeOK, MainGoes, WorkerGoes, mainVars, countVars,
            workerVars, fileVars, envVars, service
<1>1. SUFFICES ASSUME ~Stutter PROVE FS!Next
  BY DEF FS!vars
<1>2. CASE Listen
  <2>1. service = "down" /\ service' = "up" /\ UNCHANGED <<conn, request, overdue>>
    BY <1>2 DEF Listen, SocketInv, LoopPcs
  <2> QED BY <2>1 DEF FS!Next, FS!Open
<1>3. CASE CloseSocket
  <2>1. service = "up" /\ service' = "draining" /\ UNCHANGED <<request, overdue>>
    BY <1>3 DEF CloseSocket, SocketInv
  <2>2. backlog \cap FS!Waiting \in SUBSET FS!Waiting
    OBVIOUS
  <2>3. FS!DropAll(backlog \cap FS!Waiting)
    BY <1>3 DEF CloseSocket, FS!DropAll, FS!Waiting
  <2> QED BY <2>1, <2>2, <2>3 DEF FS!Next, FS!CloseDoor
<1>4. ASSUME NEW c \in Conns, SendReply(c) PROVE FS!Next
  <2>1. /\ conn[c] = "connected" /\ request[c] = "whole"
        /\ conn' = [conn EXCEPT ![c] = "answered"]
    BY <1>4 DEF SendReply, HandOverInv
  <2>2. mainPc \in LoopPcs \cup {"close", "unlinkPath", "drain"}
    BY <2>1 DEF QuietInv
  <2>3. service \in {"up", "draining"}
    BY <2>2 DEF SocketInv, LoopPcs
  <2>4. UNCHANGED <<service, request, overdue>>
    BY <1>4 DEF SendReply
  <2> QED BY <2>1, <2>3, <2>4 DEF FS!Next, FS!Answer
<1>5. ASSUME NEW c \in Conns, Connect(c) PROVE FS!Next
  <2>1. service = "up"
    BY <1>5 DEF Connect, SocketInv, LoopPcs
  <2> QED BY <1>5, <2>1 DEF Connect, FS!Next, FS!Connect
<1>6. ASSUME NEW c \in Conns, SendRequest(c) \/ HangUp(c) PROVE FS!Next
  BY <1>6 DEF SendRequest, HangUp, FS!Next, FS!Ask, FS!HangUp
<1>7. CASE DeadlinePasses
  <2>1. service = "draining"
    BY <1>7 DEF DeadlinePasses, SocketInv, LoopPcs
  <2> QED BY <1>7, <2>1 DEF DeadlinePasses, FS!Next, FS!GraceOver
<1>8. CASE Restart
  <2>1. ~listening /\ ~listening'
    BY <1>8 DEF Restart, SocketInv, LoopPcs, DownPcs
  <2>2. service \in {"down", "crashed"} /\ service' = "down"
    BY <1>8, <2>1 DEF Restart, DownPcs
  <2> QED BY <1>8, <2>2 DEF Restart, FS!Next, FS!Reset
<1>9. CASE LoadFails \/ SetupFails \/ RecoverRaises \/ Kill
  <2>1. PICK pc \in DownPcs :
          /\ EndProcess(pc)
          /\ pc # "crashed" => mainPc \in {"init"} \cup SetupPcs
    BY <1>9 DEF LoadFails, SetupFails, RecoverRaises, Kill, DownPcs
  <2>2. pc # "crashed" => ~listening /\ mainPc \notin {"unlinkPath", "drain", "crashed"}
    BY <2>1 DEF SocketInv, SetupPcs, LoopPcs
  <2> QED BY <1>1, <2>1, <2>2, EndImplements DEF FS!vars
<1>10. CASE Exit
  <2>1. overdue \/ FS!Waiting = {}
    BY <1>10, PatientExit DEF FS!Waiting
  <2>2. EndProcess("exited") /\ "exited" \in DownPcs /\ mainPc = "drain"
    BY <1>10 DEF Exit, DownPcs
  <2> QED BY <1>1, <2>1, <2>2, EndImplements DEF FS!vars
<1>11. ASSUME LoadFilters \/ UnlinkStale \/ BindSocket \/ RenameSocket \/
            SelectStdin \/ SelectSocket \/ UnlinkPath
       PROVE  Stutter
  BY <1>11
  DEF LoadFilters, UnlinkStale, BindSocket, RenameSocket, SelectStdin,
      SelectSocket, UnlinkPath, SocketInv,
     LoopPcs
<1>12. ASSUME NEW c \in Conns, AcceptConn(c) PROVE FS!Next
  <2>1. service = "up" /\ UNCHANGED <<service, request, overdue>>
    BY <1>12 DEF AcceptConn, SocketInv, LoopPcs
  <2>2. PICK d \in Conns : d = lastAccepted /\ conn[d] = "connected" /\ wpc[d] = "died"
    BY <1>1, <1>12, <2>1 DEF AcceptConn, NoUnborn
  <2>3. request[d] = "bad"
    BY <1>12, <2>2 DEF AcceptConn, WaitingIsOwned, HandOverInv, BusyPcs
  <2>4. FS!DropAll({d})
    BY <1>12, <2>2 DEF AcceptConn, FS!DropAll
  <2> QED BY <2>1, <2>2, <2>3, <2>4 DEF FS!Next, FS!Refuse
<1>13. ASSUME AcceptFails PROVE Stutter
  BY <1>13 DEF AcceptFails
<1>14. ASSUME MainAcquire PROVE Stutter
  BY <1>14 DEF MainAcquire
<1>15. ASSUME MainLoad PROVE Stutter
  BY <1>15 DEF MainLoad
<1>16. ASSUME MainStore PROVE Stutter
  BY <1>16 DEF MainStore
<1>17. ASSUME StartThread PROVE Stutter
  BY <1>17 DEF StartThread
<1>18. ASSUME StartThreadFails PROVE Stutter
  BY <1>18 DEF StartThreadFails
<1>19. ASSUME MainRelease \/ RecoverRelease PROVE Stutter
  BY <1>19 DEF MainRelease, RecoverRelease
<1>20. ASSUME NEW c \in Conns, ReadRequest(c) \/ RunFilters(c) \/ CloseConn(c)
       PROVE  Stutter
  BY <1>20 DEF ReadRequest, RunFilters, CloseConn
<1>21. ASSUME NEW c \in Conns, ReadRaises(c) \/ SendRaises(c) PROVE FS!Next
  <2>1. /\ UNCHANGED <<service, request, overdue>>
        /\ conn[c] = "connected" /\ conn' = [conn EXCEPT ![c] = "dropped"]
    BY <1>1, <1>21 DEF ReadRaises, SendRaises, Dies
  <2>2. request[c] = "bad"
    BY <1>21, <2>1 DEF ReadRaises, SendRaises
  <2>3. service \in {"up", "draining"}
    BY <2>1 DEF QuietInv, SocketInv, LoopPcs
  <2>4. FS!DropAll({c})
    BY <2>1 DEF FS!DropAll
  <2> QED BY <2>1, <2>2, <2>3, <2>4 DEF FS!Next, FS!Refuse
<1>22. ASSUME NEW c \in Conns, WorkerAcquire(c) PROVE Stutter
  BY <1>22 DEF WorkerAcquire
<1>23. ASSUME NEW c \in Conns, WorkerLoad(c) PROVE Stutter
  BY <1>23 DEF WorkerLoad
<1>24. ASSUME NEW c \in Conns, WorkerStore(c) PROVE Stutter
  BY <1>24 DEF WorkerStore
<1>25. ASSUME NEW c \in Conns, WorkerRelease(c) PROVE Stutter
  BY <1>25 DEF WorkerRelease, Dies, LockInv, WorkerHolds
<1>26. ASSUME StdinCloses PROVE Stutter
  BY <1>26 DEF StdinCloses
<1>27. ASSUME UNCHANGED vars PROVE Stutter
  BY <1>27 DEF vars
<1> QED
  BY <1>1, <1>2, <1>3, <1>4, <1>5, <1>6, <1>7, <1>8, <1>9, <1>10, <1>11,
     <1>12, <1>13, <1>14, <1>15, <1>16, <1>17, <1>18, <1>19, <1>20,
     <1>21, <1>22, <1>23, <1>24, <1>25, <1>26, <1>27
  DEF Next, MainStep, WorkerStep, EnvStep

\* As long as accept() and the start of a thread do not fail, whatever the
\* daemon, its clients and the system do is a behaviour of the service.
THEOREM DaemonImplementsService ==
  ASSUME "accept" \notin Faults, "thread" \notin Faults
  PROVE  Spec => ImplementsFilterService
<1>1. Init => FS!Init
  BY DEF Init, FS!Init, service
<1>2. Init => NoUnborn
  BY DEF Init, NoUnborn
<1>3. DaemonInv /\ NoUnborn /\ [Next]_vars => NoUnborn'
  BY NoUnbornStep DEF DaemonInv, WayInv
<1>4. DaemonInv /\ NoUnborn /\ [Next]_vars => [FS!Next]_(FS!vars)
  BY StepImplements
<1> QED BY <1>1, <1>2, <1>3, <1>4, DaemonInvariant, PTL
        DEF Spec, FS!Spec, ImplementsFilterService

=============================================================================
