--------------------------- MODULE UaSystem_proofs ---------------------------
(***************************************************************************)
(* Theorems about UaSystem for every set of clients and every bound: the   *)
(* ones that rest on where the threads are (CoreInv), then those that rest *)
(* on what is true of the messages still to be handled (IInv).             *)
(***************************************************************************)
EXTENDS UaSystem, AlpcPort_proofs

LEMMA NextDataType ==
    ASSUME ClientTypeOK, NEW c \in Clients, MaySend(c)
    PROVE  NextData(c) \in Data /\ sends[c] + 1 \in 0..MaxSends
  BY PortAssumption DEF ClientTypeOK, MaySend, NextData, Data

LEMMA TypeInit == Init => TypeOK
<1> SUFFICES ASSUME Init PROVE TypeOK
  OBVIOUS
<1>1. PortTypeOK
  BY DEF Init, PortInit, PortTypeOK
<1>2. ServerTypeOK
  BY PortAssumption DEF Init, ServerInit, ServerTypeOK
<1>3. ClientTypeOK
  BY MessageTypes, PortAssumption DEF Init, ClientInit, ClientTypeOK
<1> QED BY <1>1, <1>2, <1>3 DEF TypeOK

-----------------------------------------------------------------------------
(***************************************************************************)
(* Type correctness of the server's steps, one action after another.       *)
(***************************************************************************)
LEMMA OwnerTypeStep ==
    ASSUME PortTypeOK, ServerTypeOK
    PROVE  /\ AllocateServer \/ UaCreateServer => PortTypeOK' /\ ServerTypeOK'
           /\ TerminateClosesPort \/ TerminateFrees \/ ReuseHandle
                => PortTypeOK' /\ ServerTypeOK'
<1> USE DEF Allocations, workerVars
<1>1. AllocateServer => PortTypeOK' /\ ServerTypeOK'
  BY PortTypeStutter DEF AllocateServer, Allocate, ServerTypeOK
<1>2. AllocateAttributes => PortTypeOK' /\ ServerTypeOK'
  BY PortTypeStutter DEF AllocateAttributes, Allocate, CreateFails, ServerTypeOK
<1>3. AllocateMessage => PortTypeOK' /\ ServerTypeOK'
  BY PortTypeStutter DEF AllocateMessage, Allocate, CreateFails, ServerTypeOK
<1>4. CreatePort => PortTypeOK' /\ ServerTypeOK'
  BY PortTypeStutter, PortTypeStep DEF CreatePort, CreateFails, ServerTypeOK
<1>5. StartWorker => PortTypeOK' /\ ServerTypeOK'
  BY PortTypeStutter DEF StartWorker, CreateFails, ServerTypeOK
<1>6. Cleanup => PortTypeOK' /\ ServerTypeOK'
  BY PortTypeStutter, PortTypeStep DEF Cleanup, ServerTypeOK
<1>7. TerminateClosesPort => PortTypeOK' /\ ServerTypeOK'
  BY PortTypeStep DEF TerminateClosesPort, ServerTypeOK
<1>8. TerminateFrees => PortTypeOK' /\ ServerTypeOK'
  BY PortTypeStutter DEF TerminateFrees, ServerTypeOK
<1>9. ReuseHandle => PortTypeOK' /\ ServerTypeOK'
  BY PortTypeStutter DEF ReuseHandle, ServerTypeOK
<1> QED
  BY <1>1, <1>2, <1>3, <1>4, <1>5, <1>6, <1>7, <1>8, <1>9 DEF UaCreateServer

LEMMA WorkerTypeStep ==
    ASSUME PortTypeOK, ServerTypeOK, MessageInHand
    PROVE  /\ UaServerWorker => PortTypeOK' /\ ServerTypeOK'
           /\ AstrayReceive \/ AstrayReceiveFails => PortTypeOK' /\ ServerTypeOK'
<1> USE DEF ownerVars, clientState, GoTo, Exit, Returns
<1>0. InHand => /\ msg.client \in Clients
                /\ msg.data \in Data
                /\ msg.data.n \in 0..MaxSends
                /\ [msg EXCEPT !.data.answered = TRUE] \in Message
  BY MessageFields DEF MessageInHand
<1>1. EnterReceive => PortTypeOK' /\ ServerTypeOK'
  BY PortTypeStutter DEF EnterReceive, ServerTypeOK
<1>2. Receive => PortTypeOK' /\ ServerTypeOK'
  BY PortTypeStep DEF Receive, ServerTypeOK
<1>3. ReceiveFails => PortTypeOK' /\ ServerTypeOK'
  BY PortTypeStutter DEF ReceiveFails, AfterFailedReceive, ServerTypeOK
<1>4. AstrayReceive \/ AstrayReceiveFails => PortTypeOK' /\ ServerTypeOK'
  BY PortTypeStutter DEF AstrayReceive, AstrayReceiveFails, ServerTypeOK
<1>5. UaAlpcRequest => PortTypeOK' /\ ServerTypeOK'
  BY <1>0, PortTypeStutter
  DEF UaAlpcRequest, Processing, Hand, InHand, ServerTypeOK
<1>6. UaAlpcRequestReplies => PortTypeOK' /\ ServerTypeOK'
  BY <1>0, PortTypeStutter, PortTypeStep
  DEF UaAlpcRequestReplies, LeftWaiting, ReplyStatus, InHand, ServerTypeOK
<1>7. UaAlpcDatagram => PortTypeOK' /\ ServerTypeOK'
  BY <1>0, PortTypeStutter
  DEF UaAlpcDatagram, Processing, Hand, InHand, ServerTypeOK
<1>8. UaAlpcDatagramCancels => PortTypeOK' /\ ServerTypeOK'
  BY <1>0, PortTypeStutter, PortTypeStep
  DEF UaAlpcDatagramCancels, InHand, ServerTypeOK
<1>9. UaAlpcDisconnect => PortTypeOK' /\ ServerTypeOK'
  BY <1>0, PortTypeStutter
  DEF UaAlpcDisconnect, Processing, DisconnectTypes, FreeContext, InHand,
      ServerTypeOK
<1>10. UaAlpcConnect => PortTypeOK' /\ ServerTypeOK'
  BY <1>0, PortTypeStutter
  DEF UaAlpcConnect, Processing, WithoutContext, InHand, ServerTypeOK
<1>11. UaAlpcConnectAccepts => PortTypeOK' /\ ServerTypeOK'
  BY <1>0, PortTypeStutter, PortTypeStep
  DEF UaAlpcConnectAccepts, InHand, ServerTypeOK
<1>12. UaAlpcConnectRejects => PortTypeOK' /\ ServerTypeOK'
  BY <1>0, PortTypeStutter, PortTypeStep
  DEF UaAlpcConnectRejects, LeftWaiting, FreeContext, InHand, ServerTypeOK
<1>13. ProcessOther \/ UaProcessStray => PortTypeOK' /\ ServerTypeOK'
  BY PortTypeStutter
  DEF ProcessOther, UaProcessStray, ProcessStray, ServerTypeOK
<1> QED
  BY <1>1, <1>2, <1>3, <1>4, <1>5, <1>6, <1>7, <1>8, <1>9, <1>10, <1>11,
     <1>12, <1>13
  DEF UaServerWorker, UaProcessMessage

-----------------------------------------------------------------------------
(***************************************************************************)
(* Type correctness of the clients' steps.                                 *)
(***************************************************************************)
LEMMA EarlyTypeStep ==
    ASSUME PortTypeOK, ClientTypeOK, NEW c \in Clients, ReturnEarly(c)
    PROVE  PortTypeOK' /\ ClientTypeOK'
  BY PortTypeStutter DEF ReturnEarly, ClientTypeOK

LEMMA ClientTypeStep ==
    ASSUME PortTypeOK, ClientTypeOK, CallInv, NEW c \in Clients, ClientStep(c)
    PROVE  PortTypeOK' /\ ClientTypeOK'
<1>1. CASE UaConnectServer(c)
  <2>1. CASE ReturnEarly(c)
    BY <2>1, EarlyTypeStep
  <2>2. CASE ~ReturnEarly(c)
    BY <1>1, <2>2, MessageTypes, PortTypeStep DEF UaConnectServer, ClientTypeOK
  <2> QED BY <2>1, <2>2
<1>2. CASE UaSendSynchronousRequest(c)
  <2>1. CASE ReturnEarly(c)
    BY <2>1, EarlyTypeStep
  <2>2. CASE ~ReturnEarly(c)
    BY <1>2, <2>2, NextDataType, PortTypeStep
    DEF UaSendSynchronousRequest, ClientTypeOK
  <2> QED BY <2>1, <2>2
<1>3. CASE UaSendDatagram(c)
  <2>1. CASE ReturnEarly(c)
    BY <2>1, EarlyTypeStep
  <2>2. CASE ~ReturnEarly(c)
    BY <1>3, <2>2, NextDataType, PortTypeStep DEF UaSendDatagram, ClientTypeOK
  <2> QED BY <2>1, <2>2
<1>4. CASE UaDisconnectServer(c)
  <2>1. <<Notice("PORT_CLOSED", c)>> \in Seq(Message)
    BY MessageTypes DEF Types
  <2> QED BY <1>4, <2>1, PortTypeStep DEF UaDisconnectServer, ClientTypeOK
<1>5. CASE ClientDies(c)
  <2>1. \A t \in {"PORT_CLOSED", "CLIENT_DIED"} :
          /\ <<Notice(t, c)>> \in Seq(Message)
          /\ <<Notice("OTHER", c), Notice(t, c)>> \in Seq(Message)
    BY MessageTypes DEF Types
  <2> QED BY <1>5, <2>1, PortTypeStep DEF ClientDies, ClientTypeOK
<1>6. CASE UaConnectServerReturns(c)
  BY <1>6, PortTypeStep DEF UaConnectServerReturns, ClientTypeOK
<1>7. CASE UaSendSynchronousRequestReturns(c)
  <2>1. cmsg[c] \in Data
    BY <1>7 DEF UaSendSynchronousRequestReturns, CallInv, CallOK, PortTypeOK
  <2> QED
    BY <1>7, <2>1, PortTypeStep
    DEF UaSendSynchronousRequestReturns, CopyBack, ClientTypeOK
<1> QED
  BY <1>1, <1>2, <1>3, <1>4, <1>5, <1>6, <1>7
  DEF ClientStep, ClientCalls, ClientReturns

-----------------------------------------------------------------------------
(***************************************************************************)
(* What is allocated, what the handle is worth, and whose turn it is.      *)
(***************************************************************************)
LEMMA OwnerInit == Init => OwnerInv
  BY DEF Init, PortInit, ServerInit, OwnerInv

LEMMA OwnerStep ==
    ASSUME ServerTypeOK, OwnerInv, ServerNext
    PROVE  OwnerInv'
<1> USE DEF OwnerInv, ServerTypeOK, Allocations, portVars, workerVars, ownerVars, clientState,
            GoTo, Exit, Returns
<1>1. CASE AllocateServer
  BY <1>1 DEF AllocateServer, Allocate
<1>2. CASE AllocateAttributes
  BY <1>2 DEF AllocateAttributes, Allocate, CreateFails
<1>3. CASE AllocateMessage
  BY <1>3 DEF AllocateMessage, Allocate, CreateFails
<1>4. CASE CreatePort
  BY <1>4 DEF CreatePort, SysCreatePort, CreateFails
<1>5. CASE StartWorker
  BY <1>5 DEF StartWorker, CreateFails
<1>6. CASE Cleanup
  BY <1>6 DEF Cleanup, SysClosePort
<1>7. CASE TerminateClosesPort
  BY <1>7 DEF TerminateClosesPort, SysClosePort
<1>8. CASE TerminateFrees
  BY <1>8 DEF TerminateFrees, WorkerIsDone
<1>9. CASE ReuseHandle
  BY <1>9 DEF ReuseHandle
<1>10. CASE EnterReceive
  BY <1>10 DEF EnterReceive
<1>11. CASE Receive
  BY <1>11 DEF Receive, SysReceive
<1>12. CASE ReceiveFails
  BY <1>12 DEF ReceiveFails, AfterFailedReceive
<1>13. CASE AstrayReceive \/ AstrayReceiveFails
  BY <1>13 DEF AstrayReceive, AstrayReceiveFails
<1>14. CASE UaAlpcRequest
  BY <1>14 DEF UaAlpcRequest, Processing
<1>15. CASE UaAlpcRequestReplies
  BY <1>15 DEF UaAlpcRequestReplies, LeftWaiting, ReplyStatus, SysReply
<1>16. CASE UaAlpcDatagram
  BY <1>16 DEF UaAlpcDatagram, Processing
<1>17. CASE UaAlpcDatagramCancels
  BY <1>17 DEF UaAlpcDatagramCancels, SysCancel
<1>18. CASE UaAlpcDisconnect
  BY <1>18 DEF UaAlpcDisconnect, Processing, DisconnectTypes
<1>19. CASE UaAlpcConnect
  BY <1>19 DEF UaAlpcConnect, Processing, WithoutContext
<1>20. CASE UaAlpcConnectAccepts
  BY <1>20 DEF UaAlpcConnectAccepts, SysAccept
<1>21. CASE UaAlpcConnectRejects
  BY <1>21 DEF UaAlpcConnectRejects, LeftWaiting, SysReject
<1>22. CASE ProcessOther \/ UaProcessStray
  BY <1>22 DEF ProcessOther, Processing, UaProcessStray, ProcessStray
<1> QED
  BY <1>1, <1>2, <1>3, <1>4, <1>5, <1>6, <1>7, <1>8, <1>9, <1>10, <1>11, <1>12, <1>13, <1>14, <1>15, <1>16, <1>17, <1>18, <1>19, <1>20, <1>21, <1>22
  DEF ServerNext, UaCreateServer, UaServerWorker, UaProcessMessage

LEMMA OwnerClientStep ==
    ASSUME OwnerInv, NEW c \in Clients, ClientStep(c), UNCHANGED serverVars
    PROVE  OwnerInv'
<1>1. UNCHANGED port
  BY DEF ClientStep, ClientCalls, ClientReturns, ReturnEarly, portVars,
         UaConnectServer, UaConnectServerReturns, UaSendSynchronousRequest,
         UaSendSynchronousRequestReturns, UaSendDatagram, UaDisconnectServer,
         ClientDies, SysConnect, SysRequest, SysDatagram, SysReturn, SysHangup
<1> QED BY <1>1 DEF OwnerInv, serverVars

-----------------------------------------------------------------------------
(***************************************************************************)
(* The worker's message and the clients' buffers.                          *)
(***************************************************************************)
LEMMA InHandStep ==
    ASSUME PortTypeOK, ServerTypeOK, OwnerInv, MessageInHand, ServerNext
    PROVE  MessageInHand'
<1> USE DEF MessageInHand, InHand, GoTo, Exit, Returns
<1>1. CASE AllocateServer \/ UaCreateServer
  <2>1. CASE Cleanup
    BY <2>1 DEF Cleanup, OwnerInv, workerVars
  <2>2. CASE ~Cleanup
    BY <1>1, <2>2
    DEF AllocateServer, UaCreateServer, AllocateAttributes, AllocateMessage,
        CreatePort, StartWorker, Allocate, CreateFails, workerVars
  <2> QED BY <2>1, <2>2
<1>2. CASE TerminateClosesPort \/ TerminateFrees \/ ReuseHandle
  BY <1>2
  DEF TerminateClosesPort, TerminateFrees, WorkerIsDone, ReuseHandle, workerVars
<1>3. CASE Receive
  BY <1>3, PortTypeStep DEF Receive
<1>4. CASE EnterReceive \/ ReceiveFails \/ AstrayReceive \/ AstrayReceiveFails
  BY <1>4
  DEF EnterReceive, ReceiveFails, AfterFailedReceive, AstrayReceive,
      AstrayReceiveFails
<1>5. CASE UaAlpcRequest
  BY <1>5, MessageFields DEF UaAlpcRequest, Processing
<1>6. CASE /\ UaProcessMessage
           /\ ~UaAlpcRequest
  BY <1>6
  DEF UaProcessMessage, UaAlpcRequestReplies, ReplyStatus, UaAlpcDatagram,
      UaAlpcDatagramCancels, UaAlpcDisconnect, UaAlpcConnect,
      UaAlpcConnectAccepts, UaAlpcConnectRejects, ProcessOther, Processing,
      WithoutContext, UaProcessStray, ProcessStray
<1> QED
  BY <1>1, <1>2, <1>3, <1>4, <1>5, <1>6 DEF ServerNext, UaServerWorker

\* The worker comes to another port only by the closed handle's value.
LEMMA StrayInvStep ==
    ASSUME ServerTypeOK, OwnerInv, StrayInv, ServerNext
    PROVE  StrayInv'
<1> USE DEF StrayInv, OwnerInv, GoTo, Exit, Returns
<1>1. CASE AllocateServer \/ UaCreateServer
  BY <1>1
  DEF AllocateServer, UaCreateServer, AllocateAttributes, AllocateMessage,
      CreatePort, StartWorker, Cleanup, Allocate, CreateFails, workerVars
<1>2. CASE TerminateClosesPort \/ TerminateFrees \/ ReuseHandle
  BY <1>2
  DEF TerminateClosesPort, TerminateFrees, WorkerIsDone, ReuseHandle, workerVars
<1>3. CASE EnterReceive
  BY <1>3 DEF EnterReceive, ownerVars, ServerTypeOK
<1>4. CASE Receive \/ ReceiveFails \/ AstrayReceive \/ AstrayReceiveFails
  BY <1>4
  DEF Receive, ReceiveFails, AfterFailedReceive, AstrayReceive,
      AstrayReceiveFails, ownerVars
<1>5. CASE UaProcessMessage
  BY <1>5
  DEF UaProcessMessage, UaAlpcRequest, UaAlpcRequestReplies, ReplyStatus,
      UaAlpcDatagram, UaAlpcDatagramCancels, UaAlpcDisconnect, UaAlpcConnect,
      UaAlpcConnectAccepts, UaAlpcConnectRejects, ProcessOther, Processing,
      WithoutContext, UaProcessStray, ProcessStray, ownerVars
<1> QED
  BY <1>1, <1>2, <1>3, <1>4, <1>5 DEF ServerNext, UaServerWorker

\* The server's system calls move a client only along the paths of CallInv.
LEMMA CallSysStep ==
    ASSUME PortTypeOK, ClientTypeOK, CallInv, UNCHANGED clientVars
    PROVE  /\ SysCreatePort => CallInv'
           /\ SysClosePort => CallInv'
           /\ SysReceive => CallInv'
           /\ \A c \in Clients, d \in Data : SysReply(c, d) => CallInv'
           /\ \A c \in Clients : SysAccept(c) => CallInv'
           /\ \A c \in Clients : SysReject(c) => CallInv'
           /\ \A c \in Clients : SysCancel(c) => CallInv'
           /\ UNCHANGED portVars => CallInv'
<1>0. SUFFICES ASSUME NEW x \in Clients
      PROVE  /\ SysCreatePort => CallOK(x)'
             /\ SysClosePort => CallOK(x)'
             /\ SysReceive => CallOK(x)'
             /\ \A c \in Clients, d \in Data : SysReply(c, d) => CallOK(x)'
             /\ \A c \in Clients : SysAccept(c) => CallOK(x)'
             /\ \A c \in Clients : SysReject(c) => CallOK(x)'
             /\ \A c \in Clients : SysCancel(c) => CallOK(x)'
             /\ UNCHANGED portVars => CallOK(x)'
  BY DEF CallInv
<1> CallOK(x)
  BY DEF CallInv
<1> USE DEF CallOK, PortTypeOK, clientVars
<1>1. SysCreatePort => CallOK(x)'
  BY DEF SysCreatePort
<1>2. SysClosePort => CallOK(x)'
  BY DEF SysClosePort, Blocked
<1>3. SysReceive => CallOK(x)'
  BY DEF SysReceive
<1>4. \A c \in Clients, d \in Data : SysReply(c, d) => CallOK(x)'
  <2> SUFFICES ASSUME NEW c \in Clients, NEW d \in Data, SysReply(c, d)
               PROVE  CallOK(x)'
    OBVIOUS
  <2>1. d # Null
    BY PortAssumption
  <2>2. CASE call[c] = "request" /\ x = c
    <3>1. cpc[x] = "requesting" /\ cmsg'[x] = d /\ call'[x] = "ok"
      BY <2>2 DEF SysReply, ClientTypeOK
    <3> QED BY <2>1, <2>2, <3>1 DEF SysReply
  <2>3. CASE call[c] # "request" \/ x # c
    BY <2>3 DEF SysReply
  <2> QED BY <2>2, <2>3
<1>5. \A c \in Clients : SysAccept(c) => CallOK(x)'
  BY DEF SysAccept, CanAccept
<1>6. \A c \in Clients : SysReject(c) => CallOK(x)'
  BY DEF SysReject, CanAccept
<1>7. \A c \in Clients : SysCancel(c) => CallOK(x)'
  BY DEF SysCancel
<1>8. UNCHANGED portVars => CallOK(x)'
  BY DEF portVars
<1> QED BY <1>1, <1>2, <1>3, <1>4, <1>5, <1>6, <1>7, <1>8

\* A step of the server is one of its system calls or none.
LEMMA ServerStepIsSysCall ==
    ASSUME MessageInHand, ServerNext
    PROVE  \/ SysCreatePort \/ SysClosePort \/ SysReceive
           \/ \E c \in Clients, d \in Data : SysReply(c, d)
           \/ \E c \in Clients : SysAccept(c) \/ SysReject(c) \/ SysCancel(c)
           \/ UNCHANGED portVars
<1>1. InHand => msg.client \in Clients /\ msg.data \in Data
  BY MessageFields DEF MessageInHand
<1>2. CASE AllocateServer \/ UaCreateServer
  BY <1>2
  DEF AllocateServer, UaCreateServer, AllocateAttributes, AllocateMessage,
      CreatePort, StartWorker, Cleanup, Allocate, CreateFails
<1>3. CASE TerminateClosesPort \/ TerminateFrees \/ ReuseHandle
  BY <1>3 DEF TerminateClosesPort, TerminateFrees, ReuseHandle
<1>4. CASE \/ EnterReceive \/ Receive \/ ReceiveFails
           \/ AstrayReceive \/ AstrayReceiveFails
  BY <1>4
  DEF EnterReceive, Receive, ReceiveFails, AstrayReceive, AstrayReceiveFails
<1>5. CASE UaProcessMessage
  BY <1>1, <1>5
  DEF UaProcessMessage, UaAlpcRequest, UaAlpcRequestReplies, UaAlpcDatagram,
      UaAlpcDatagramCancels, UaAlpcDisconnect, UaAlpcConnect,
      UaAlpcConnectAccepts, UaAlpcConnectRejects, ProcessOther, LeftWaiting,
      UaProcessStray, ProcessStray, InHand
<1> QED
  BY <1>2, <1>3, <1>4, <1>5 DEF ServerNext, UaServerWorker

LEMMA CallServerStep ==
    ASSUME PortTypeOK, ClientTypeOK, MessageInHand, CallInv, ServerNext,
           UNCHANGED clientVars
    PROVE  CallInv'
  BY ServerStepIsSysCall, CallSysStep

LEMMA CallClientStep ==
    ASSUME PortTypeOK, ClientTypeOK, CallInv, NEW c \in Clients, ClientStep(c)
    PROVE  CallInv'
<1> SUFFICES ASSUME NEW x \in Clients PROVE CallOK(x)'
  BY DEF CallInv
<1> CallOK(x) /\ CallOK(c)
  BY DEF CallInv
<1> USE DEF CallOK, PortTypeOK
<1>0. /\ cpc \in [Clients -> {"idle", "connecting", "connected", "requesting",
                             "closed", "dead"}]
      /\ cpc' = [cpc EXCEPT ![c] = cpc'[c]]
  BY DEF ClientTypeOK, ClientStep, ClientCalls, ClientReturns, ReturnEarly,
         UaConnectServer, UaConnectServerReturns, UaSendSynchronousRequest,
         UaSendSynchronousRequestReturns, UaSendDatagram, UaDisconnectServer,
         ClientDies
<1>1. CASE ReturnEarly(c)
  BY <1>1 DEF ReturnEarly, portVars
<1>2. CASE UaConnectServer(c) /\ ~ReturnEarly(c)
  <2>1. NoData(c) # Null
    BY MessageTypes, PortAssumption
  <2>2. SysConnect(c, NoData(c)) /\ cpc[c] = "idle" /\ cpc'[c] = "connecting"
    BY <1>0, <1>2 DEF UaConnectServer
  <2> QED BY <1>0, <2>1, <2>2 DEF SysConnect
<1>3. CASE UaSendSynchronousRequest(c) /\ ~ReturnEarly(c)
  <2>1. NextData(c) \in Data
    BY <1>3, NextDataType DEF UaSendSynchronousRequest
  <2>2. NextData(c) # Null
    BY <2>1, PortAssumption
  <2>3. /\ SysRequest(c, NextData(c))
        /\ cpc[c] = "connected" /\ cpc'[c] = "requesting"
    BY <1>0, <1>3 DEF UaSendSynchronousRequest, MaySend
  <2> QED BY <1>0, <2>2, <2>3 DEF SysRequest, CanSend
<1>4. CASE UaSendDatagram(c) /\ ~ReturnEarly(c)
  BY <1>4 DEF UaSendDatagram, SysDatagram
<1>5. CASE UaDisconnectServer(c)
  BY <1>0, <1>5 DEF UaDisconnectServer, SysHangup
<1>6. CASE ClientDies(c)
  BY <1>0, <1>6 DEF ClientDies, SysHangup
<1>7. CASE UaConnectServerReturns(c)
  BY <1>0, <1>7 DEF UaConnectServerReturns, SysReturn
<1>8. CASE UaSendSynchronousRequestReturns(c)
  BY <1>0, <1>8 DEF UaSendSynchronousRequestReturns, SysReturn
<1> QED
  BY <1>1, <1>2, <1>3, <1>4, <1>5, <1>6, <1>7, <1>8
  DEF ClientStep, ClientCalls, ClientReturns

-----------------------------------------------------------------------------
(***************************************************************************)
(* CoreInv is inductive, and what follows from it.                         *)
(***************************************************************************)
LEMMA CoreInit == Init => CoreInv
<1> SUFFICES ASSUME Init PROVE CoreInv
  OBVIOUS
<1>1. MessageInHand
  BY DEF Init, ServerInit, MessageInHand, InHand
<1>0. StrayInv
  BY DEF Init, ServerInit, StrayInv
<1>2. CallInv
  BY DEF Init, PortInit, ClientInit, CallInv, CallOK
<1> QED BY <1>0, <1>1, <1>2, TypeInit, OwnerInit DEF CoreInv

LEMMA CoreStep == CoreInv /\ [Next]_vars => CoreInv'
<1> SUFFICES ASSUME CoreInv, [Next]_vars PROVE CoreInv'
  OBVIOUS
<1> USE DEF CoreInv, TypeOK
<1>1. CASE ServerStep
  <2>1. PortTypeOK' /\ ServerTypeOK'
    BY <1>1, OwnerTypeStep, WorkerTypeStep DEF ServerStep, ServerNext
  <2>2. ClientTypeOK'
    BY <1>1 DEF ServerStep, clientVars, ClientTypeOK
  <2> QED
    BY <1>1, <2>1, <2>2, InHandStep, StrayInvStep, CallServerStep, OwnerStep
    DEF ServerStep
<1>2. CASE \E c \in Clients : ClientStep(c) /\ UNCHANGED serverVars
  <2>1. PICK c \in Clients : ClientStep(c) /\ UNCHANGED serverVars
    BY <1>2
  <2>2. PortTypeOK' /\ ClientTypeOK'
    BY <2>1, ClientTypeStep
  <2>3. ServerTypeOK' /\ MessageInHand' /\ StrayInv'
    BY <2>1 DEF serverVars, ServerTypeOK, MessageInHand, InHand, StrayInv
  <2> QED BY <2>1, <2>2, <2>3, CallClientStep, OwnerClientStep
<1>3. CASE UNCHANGED vars
  BY <1>3
  DEF vars, portVars, serverVars, clientVars, PortTypeOK, ServerTypeOK,
      ClientTypeOK, MessageInHand, InHand, StrayInv, CallInv, CallOK, OwnerInv
<1> QED BY <1>1, <1>2, <1>3 DEF Next

THEOREM CoreInvariant == Spec => []CoreInv
  BY CoreInit, CoreStep, PTL DEF Spec

\* Every variable keeps its type, for any clients and bounds.
THEOREM TypeCorrect == Spec => []TypeOK
<1>1. CoreInv => TypeOK
  BY DEF CoreInv
<1> QED BY <1>1, CoreInvariant, PTL

\* UaTerminateServer and UaCreateServer's cleanup never free what the worker
\* may still touch, in any interleaving with the clients and with the rest of
\* the process reusing the closed handle's value.
THEOREM MemoryIsSafe == Spec => []NoUseAfterFree
<1>1. CoreInv => NoUseAfterFree
  BY DEF CoreInv, TypeOK, ServerTypeOK, OwnerInv, NoUseAfterFree, WorkerRuns
<1> QED BY <1>1, CoreInvariant, PTL

\* A failed or not yet begun UaCreateServer leaves nothing behind and nobody
\* waiting.
THEOREM CreationIsAllOrNothing == Spec => []CreateAllOrNothing
<1>1. CoreInv => CreateAllOrNothing
  <2> SUFFICES ASSUME CoreInv, opc = "off" PROVE CreateAllOrNothing
    BY DEF CreateAllOrNothing
  <2>1. heap = {} /\ port # "open" /\ wpc = "none"
    BY DEF CoreInv, OwnerInv
  <2>2. \A c \in Clients : ~Blocked(c)
    BY <2>1 DEF CoreInv, TypeOK, ClientTypeOK, CallInv, CallOK, Blocked
  <2> QED BY <2>1, <2>2 DEF CreateAllOrNothing
<1> QED BY <1>1, CoreInvariant, PTL

-----------------------------------------------------------------------------
(***************************************************************************)
(* How a step moves the messages that are still to be handled.             *)
(***************************************************************************)
LEMMA ToDoTypes ==
    ASSUME PortTypeOK, MessageInHand
    PROVE  /\ \A i \in ToDoPositions : i \in Nat /\ ToDo(i) \in Message
           /\ \A i \in DOMAIN queue : i > 0 /\ ToDo(i) = queue[i]
  BY DEF ToDoPositions, ToDo, PortTypeOK, MessageInHand, InHand

\* Nothing moves but the message in hand, whose handling may begin or end.
LEMMA ToDoSame ==
    ASSUME PortTypeOK, UNCHANGED queue, wpc' = wpc \/ wpc' # "process",
           wpc' = "process" => UNCHANGED msg
    PROVE  /\ ToDoPositions' \subseteq ToDoPositions
           /\ \A i \in ToDoPositions' : ToDo(i)' = ToDo(i)
           /\ wpc' = wpc => ToDoPositions' = ToDoPositions
           /\ ToDoPositions \ ToDoPositions' \subseteq {0}
  BY DEF ToDoPositions, ToDo, PortTypeOK

\* The oldest message is received.
LEMMA ToDoReceive ==
    ASSUME PortTypeOK, wpc = "waiting", Receive
    PROVE  /\ \A i \in ToDoPositions' :
                /\ i + 1 \in ToDoPositions
                /\ ToDo(i)' = ToDo(i + 1)
           /\ \A i \in ToDoPositions :
                /\ i \in Nat \ {0}
                /\ i - 1 \in ToDoPositions'
                /\ ToDo(i - 1)' = ToDo(i)
<1>1. /\ queue \in Seq(Message) /\ queue # <<>>
      /\ queue' = Tail(queue) /\ msg' = Head(queue)
      /\ wpc' = "process"
  BY DEF Receive, SysReceive, PortTypeOK, GoTo
<1>2. /\ DOMAIN queue = 1..Len(queue) /\ Len(queue) \in Nat \ {0}
      /\ DOMAIN queue' = 1..(Len(queue) - 1)
      /\ \A i \in 1..(Len(queue) - 1) : queue'[i] = queue[i + 1]
      /\ msg' = queue[1]
  BY <1>1
<1>3. ToDoPositions = 1..Len(queue) /\ ToDoPositions' = 0..(Len(queue) - 1)
  BY <1>1, <1>2 DEF ToDoPositions
<1>4. \A i \in 0..(Len(queue) - 1) : ToDo(i)' = ToDo(i + 1)
  BY <1>2 DEF ToDo
<1> QED BY <1>2, <1>3, <1>4

\* A client's messages join the queue.
LEMMA ToDoJoin ==
    ASSUME PortTypeOK, NEW s \in Seq(Message), queue' = queue \o s,
           UNCHANGED <<wpc, msg>>
    PROVE  /\ \A i \in ToDoPositions :
                /\ i \in ToDoPositions' /\ ToDo(i)' = ToDo(i)
                /\ i \in Nat /\ i <= Len(queue)
           /\ \A i \in ToDoPositions' :
                \/ i \in ToDoPositions
                \/ /\ i \in Nat /\ i > Len(queue)
                   /\ i - Len(queue) \in 1..Len(s)
                   /\ ToDo(i)' = s[i - Len(queue)]
           /\ \A k \in 1..Len(s) :
                /\ k + Len(queue) \in ToDoPositions'
                /\ \A i : i = k + Len(queue) => ToDo(i)' = s[k]
<1>1. /\ Len(queue) \in Nat /\ DOMAIN queue = 1..Len(queue) /\ Len(s) \in Nat
      /\ DOMAIN queue' = 1..(Len(queue) + Len(s))
      /\ \A i \in 1..Len(queue) : queue'[i] = queue[i]
      /\ \A i \in (Len(queue) + 1)..(Len(queue) + Len(s)) :
           queue'[i] = s[i - Len(queue)]
  BY DEF PortTypeOK
<1>2. ToDoPositions' = ToDoPositions \cup
                         ((Len(queue) + 1)..(Len(queue) + Len(s)))
  BY <1>1 DEF ToDoPositions
<1>3. \A i \in ToDoPositions : i \in 0..Len(queue)
  BY <1>1 DEF ToDoPositions
<1>4. \A i \in ToDoPositions : ToDo(i)' = ToDo(i)
  <2>1. \A i \in 1..Len(queue) : ToDo(i)' = ToDo(i)
    BY <1>1 DEF ToDo
  <2>2. ToDo(0)' = ToDo(0)
    BY DEF ToDo
  <2> QED BY <1>3, <2>1, <2>2
<1>5. \A i \in (Len(queue) + 1)..(Len(queue) + Len(s)) :
        ToDo(i)' = s[i - Len(queue)]
  BY <1>1 DEF ToDo
<1>6. ASSUME NEW k \in 1..Len(s)
      PROVE  /\ k + Len(queue) \in ToDoPositions'
             /\ \A i : i = k + Len(queue) => ToDo(i)' = s[k]
  <2>1. k + Len(queue) \in (Len(queue) + 1)..(Len(queue) + Len(s))
    BY <1>1
  <2>2. (k + Len(queue)) - Len(queue) = k
    BY <1>1
  <2> QED BY <1>2, <1>5, <2>1, <2>2
<1> QED BY <1>1, <1>2, <1>3, <1>4, <1>5, <1>6

\* What messages that join must satisfy for MessagesOK and QueueInOrder.
LEMMA JoinInOrder ==
    ASSUME PortTypeOK, MessageInHand, MessagesOK, QueueInOrder,
           NEW s \in Seq(Message), queue' = queue \o s, UNCHANGED <<wpc, msg>>,
           \A i \in ToDoPositions, m \in Message : m = ToDo(i) => MessageOK(m)',
           \A k \in 1..Len(s), m \in Message : m = s[k] => MessageOK(m)',
           \A i \in ToDoPositions, k \in 1..Len(s) : InOrder(ToDo(i), s[k]),
           \A k, l \in 1..Len(s) : k < l => InOrder(s[k], s[l])
    PROVE  MessagesOK' /\ QueueInOrder'
<1>1. /\ Len(queue) \in Nat /\ Len(s) \in Nat
      /\ \A k \in 1..Len(s) : s[k] \in Message
  BY DEF PortTypeOK
<1>2. \A i \in ToDoPositions : ToDo(i) \in Message /\ MessageOK(ToDo(i))
  BY ToDoTypes DEF MessagesOK
<1>3. MessagesOK'
  <2> SUFFICES ASSUME NEW i \in ToDoPositions' PROVE MessageOK(ToDo(i))'
    BY DEF MessagesOK
  <2>1. CASE i \in ToDoPositions
    BY <1>2, <2>1, ToDoJoin
  <2>2. CASE i \notin ToDoPositions
    <3>1. /\ i - Len(queue) \in 1..Len(s)
          /\ ToDo(i)' = s[i - Len(queue)]
      BY <2>2, ToDoJoin
    <3> QED BY <1>1, <3>1
  <2> QED BY <2>1, <2>2
<1>4. QueueInOrder'
  <2> SUFFICES ASSUME NEW i \in ToDoPositions', NEW j \in ToDoPositions', i < j
               PROVE  InOrder(ToDo(i)', ToDo(j)')
    BY DEF QueueInOrder, InOrder
  <2>1. CASE i \in ToDoPositions /\ j \in ToDoPositions
    BY <2>1, ToDoJoin DEF QueueInOrder
  <2>2. CASE i \in ToDoPositions /\ j \notin ToDoPositions
    BY <1>2, <2>2, ToDoJoin
  <2>3. CASE i \notin ToDoPositions /\ j \in ToDoPositions
    BY <1>1, <2>3, ToDoJoin
  <2>4. CASE i \notin ToDoPositions /\ j \notin ToDoPositions
    <3>1. /\ i \in Nat /\ j \in Nat
          /\ i - Len(queue) \in 1..Len(s) /\ j - Len(queue) \in 1..Len(s)
          /\ ToDo(i)' = s[i - Len(queue)] /\ ToDo(j)' = s[j - Len(queue)]
      BY <2>4, ToDoJoin
    <3>2. i - Len(queue) < j - Len(queue)
      BY <1>1, <3>1
    <3> QED BY <3>1, <3>2
  <2> QED BY <2>1, <2>2, <2>3, <2>4
<1> QED BY <1>3, <1>4

\* What is known of the message in hand before it is handled, and of the queue.
LEMMA MessageFacts ==
    ASSUME PortTypeOK, MessagesOK, QueueInOrder
    PROVE  /\ wpc = "process" =>
                /\ MessageOK(msg)
                /\ \A j \in DOMAIN queue : InOrder(msg, queue[j])
           /\ \A j \in DOMAIN queue : MessageOK(queue[j]) /\ queue[j] \in Message
<1>1. \A j \in DOMAIN queue : /\ j \in ToDoPositions /\ j > 0
                              /\ ToDo(j) = queue[j] /\ queue[j] \in Message
  BY DEF PortTypeOK, ToDoPositions, ToDo
<1>2. wpc = "process" => 0 \in ToDoPositions /\ ToDo(0) = msg
  BY DEF ToDoPositions, ToDo
<1> QED BY <1>1, <1>2 DEF MessagesOK, QueueInOrder

\* When the message in hand leaves, what is known of the queue is enough.
LEMMA QueueOnly ==
    ASSUME PortTypeOK, QueueInOrder, wpc' # "process", UNCHANGED queue,
           \A j \in DOMAIN queue, m \in Message : m = queue[j] => MessageOK(m)'
    PROVE  MessagesOK' /\ QueueInOrder'
<1>1. /\ ToDoPositions' \subseteq ToDoPositions
      /\ ToDoPositions' = DOMAIN queue
      /\ \A i \in ToDoPositions' : ToDo(i)' = ToDo(i)
  BY ToDoSame DEF ToDoPositions
<1>2. \A i \in DOMAIN queue : ToDo(i)' = queue[i] /\ queue[i] \in Message
  BY <1>1 DEF PortTypeOK, ToDo
<1>3. MessagesOK'
  BY <1>1, <1>2 DEF MessagesOK
<1>4. QueueInOrder'
  BY <1>1 DEF QueueInOrder
<1> QED BY <1>3, <1>4

\* When the message in hand leaves, a client it is not of is still remembered.
LEMMA HandledIsNotForgotten ==
    ASSUME PortTypeOK, NoForgottenClient, wpc = "process", wpc' # "process",
           UNCHANGED queue, NEW c \in Clients \ unanswered
    PROVE  /\ call[c] = "connect" =>
                \/ msg.type = "CONNECTION_REQUEST" /\ msg.client = c
                \/ \E i \in ToDoPositions' :
                     /\ (ToDo(i)').type = "CONNECTION_REQUEST"
                     /\ (ToDo(i)').client = c
           /\ call[c] = "request" =>
                \/ msg.type = "REQUEST" /\ msg.client = c
                \/ \E i \in ToDoPositions' : /\ (ToDo(i)').type = "REQUEST"
                                             /\ (ToDo(i)').client = c
<1>1. ToDoPositions = DOMAIN queue \cup {0} /\ ToDoPositions' = DOMAIN queue
  BY DEF ToDoPositions
<1>2. ToDo(0) = msg /\ \A i \in DOMAIN queue : ToDo(i)' = ToDo(i)
  BY DEF ToDo, PortTypeOK
<1> QED BY <1>1, <1>2 DEF NotForgotten, NoForgottenClient

-----------------------------------------------------------------------------
(***************************************************************************)
(* Steps that leave everything but the places of the two threads, the heap *)
(* and the handle as it is.                                                *)
(***************************************************************************)
LEMMA QuietStep ==
    ASSUME CoreInv, WorkInv, ExitInv', wexit' # "process" => wexit # "process",
           UNCHANGED portVars, UNCHANGED clientVars,
           UNCHANGED clientState,
           UNCHANGED msg \/ (~InHand /\ ~InHand'),
           \/ wpc' = wpc
           \/ /\ ~InHand'
              /\ ~InHand \/ (wpc = "process" /\ msg.type = "OTHER")
    PROVE  WorkInv'
<1> USE DEF WorkInv, CoreInv, TypeOK
<1>1. /\ ToDoPositions' \subseteq ToDoPositions
      /\ \A i \in ToDoPositions' : ToDo(i)' = ToDo(i)
      /\ wpc' = wpc => ToDoPositions' = ToDoPositions
      /\ ToDoPositions \ ToDoPositions' \subseteq {0}
  BY ToDoSame DEF portVars, InHand, ToDoPositions
<1>2. \A m \in Message : MessageOK(m) => MessageOK(m)'
  BY DEF MessageOK, portVars, clientVars, clientState
<1>3. MessagesOK'
  BY <1>1, <1>2, ToDoTypes DEF MessagesOK
<1>4. QueueInOrder'
  BY <1>1 DEF QueueInOrder
<1>5. HandlerInv'
  BY DEF HandlerInv, InHand, portVars, clientVars, clientState
<1>6. ContextHoldsHandle'
  BY DEF ContextHoldsHandle, InHand, clientState
<1>7. HeldInv'
  <2>1. CASE wpc' = wpc /\ UNCHANGED msg
    BY <2>1 DEF HeldInv, portVars
  <2>2. CASE wpc = "process" /\ msg.type = "OTHER"
    <3>1. ~msg.cont
      BY <2>2, MessageFacts DEF MessageOK
    <3>2. held = {}
      BY <3>1 DEF HeldInv
    <3> QED BY <3>2 DEF HeldInv, portVars
  <2>3. CASE ~InHand
    BY <2>3 DEF HeldInv, InHand, portVars
  <2> QED BY <2>1, <2>2, <2>3
<1>8. ClosedInv' /\ ConnInv' /\ DataInv'
  BY DEF ClosedInv, ConnInv, DataInv, portVars, clientVars, clientState
<1>9. NotForgotten'
  <2>1. \A i \in ToDoPositions \ ToDoPositions' : ToDo(i).type = "OTHER"
    <3>1. 0 \in ToDoPositions => wpc = "process" /\ ToDo(0) = msg
      BY DEF ToDoPositions, ToDo, PortTypeOK
    <3> QED BY <1>1, <3>1 DEF InHand
  <2> QED BY <1>1, <2>1
         DEF NotForgotten, NoForgottenClient, InHand, portVars, clientState
<1> QED BY <1>3, <1>4, <1>5, <1>6, <1>7, <1>8, <1>9

-----------------------------------------------------------------------------
(***************************************************************************)
(* The steps of the owner that touch the port.                             *)
(***************************************************************************)
LEMMA CreatePortStep ==
    ASSUME CoreInv, WorkInv, CreatePort, UNCHANGED clientVars
    PROVE  WorkInv'
<1> USE DEF WorkInv, CoreInv, TypeOK
<1>1. CASE CreateFails
  BY <1>1, QuietStep DEF CreateFails, workerVars, clientState, ExitInv
<1>2. CASE SysCreatePort /\ UNCHANGED <<heap, msg, workerVars>>
  <2>1. wpc = "none" /\ wpc' = "none" /\ port # "open" /\ port' = "open"
    BY <1>2 DEF CreatePort, OwnerInv, SysCreatePort, workerVars
  <2>2. queue = <<>> /\ queue' = <<>>
    BY <1>2, <2>1 DEF ClosedInv, SysCreatePort
  <2>3. ToDoPositions' = {}
    BY <2>1, <2>2 DEF ToDoPositions
  <2>4. MessagesOK' /\ QueueInOrder'
    BY <2>3 DEF MessagesOK, QueueInOrder
  <2>5. HandlerInv' /\ ContextHoldsHandle' /\ HeldInv'
    BY <1>2, <2>1
    DEF HandlerInv, ContextHoldsHandle, HeldInv, SysCreatePort, workerVars
  <2>6. ClosedInv' /\ ConnInv' /\ DataInv'
    BY <1>2, <2>1
    DEF ClosedInv, ConnInv, DataInv, SysCreatePort,
        workerVars, clientVars
  <2>7. \A c \in Clients : call[c] \notin {"connect", "request"}
    BY <2>1 DEF CallInv, CallOK, ClientTypeOK
  <2>8. NotForgotten' /\ ExitInv'
    BY <1>2, <2>7
    DEF NotForgotten, NoForgottenClient, ExitInv, SysCreatePort, workerVars
  <2> QED BY <2>4, <2>5, <2>6, <2>8
<1> QED BY <1>1, <1>2 DEF CreatePort

LEMMA ClosePortStep ==
    ASSUME CoreInv, WorkInv, SysClosePort, UNCHANGED workerVars,
           UNCHANGED clientVars,
           UNCHANGED msg \/ wpc = "none"
    PROVE  WorkInv'
<1> USE DEF WorkInv, CoreInv, TypeOK
<1>0. /\ port' = "closed" /\ queue' = <<>> /\ held' = {} /\ wpc' = wpc
      /\ ToDoPositions' \subseteq ToDoPositions \cap {0}
      /\ \A i \in ToDoPositions' : ToDo(i)' = ToDo(i)
  BY DEF SysClosePort, workerVars, ToDoPositions, ToDo
<1>1. /\ \A c \in Clients : /\ conn[c] \in {"open", "closed"} => conn'[c] = conn[c]
                            /\ conn[c] \in {"none", "pending"} => conn'[c] = "none"
      /\ \A c \in Clients : /\ call[c] \in {"ok"} => call'[c] = "ok"
                            /\ call[c] # "ok" => call'[c] # "ok"
                            /\ call'[c] \notin {"connect", "request"}
  BY DEF SysClosePort, PortTypeOK, Blocked
<1>2. \A m \in Message : MessageOK(m) => MessageOK(m)'
  BY <1>0, <1>1, MessageFields
  DEF MessageOK, Notices, workerVars, clientVars
<1>3. MessagesOK'
  BY <1>0, <1>2, ToDoTypes DEF MessagesOK
<1>4. QueueInOrder'
  BY <1>0 DEF QueueInOrder
<1>5. HandlerInv' /\ ContextHoldsHandle' /\ HeldInv' /\ ClosedInv'
  BY <1>0 DEF HandlerInv, ContextHoldsHandle, HeldInv, ClosedInv, workerVars
<1>6. ConnInv'
  BY <1>1 DEF ConnInv, workerVars, PortTypeOK
<1>7. DataInv'
  BY <1>1 DEF DataInv, SysClosePort, workerVars, clientVars
<1>8. NotForgotten' /\ ExitInv'
  BY <1>1 DEF NotForgotten, NoForgottenClient, ExitInv, workerVars
<1> QED BY <1>3, <1>4, <1>5, <1>6, <1>7, <1>8

\* The message buffer is freed when there is no worker.
LEMMA FreedStep ==
    ASSUME CoreInv, WorkInv, wpc \in {"none", "exited"},
           UNCHANGED portVars, UNCHANGED workerVars, UNCHANGED clientVars
    PROVE  WorkInv'
<1> USE DEF WorkInv, CoreInv, TypeOK
<1>1. /\ ToDoPositions' = ToDoPositions
      /\ \A i \in ToDoPositions' : ToDo(i)' = ToDo(i)
  BY ToDoSame DEF portVars, workerVars
<1>2. \A m \in Message : MessageOK(m) => MessageOK(m)'
  BY DEF MessageOK, portVars, workerVars, clientVars
<1>3. MessagesOK' /\ QueueInOrder'
  BY <1>1, <1>2, ToDoTypes DEF MessagesOK, QueueInOrder
<1>4. HandlerInv' /\ ContextHoldsHandle' /\ HeldInv'
  BY DEF HandlerInv, ContextHoldsHandle, HeldInv, portVars, workerVars
<1>5. ClosedInv' /\ ConnInv' /\ DataInv'
  BY DEF ClosedInv, ConnInv, DataInv, portVars, workerVars,
         clientVars
<1>6. NotForgotten' /\ ExitInv'
  BY <1>1 DEF NotForgotten, NoForgottenClient, ExitInv, portVars, workerVars
<1> QED BY <1>3, <1>4, <1>5, <1>6

LEMMA OwnerWorkStep ==
    ASSUME CoreInv, WorkInv, UNCHANGED clientVars,
           \/ AllocateServer \/ UaCreateServer
           \/ TerminateClosesPort \/ TerminateFrees \/ ReuseHandle
    PROVE  WorkInv'
<1>1. CASE CreatePort
  BY <1>1, CreatePortStep
<1>2. CASE Cleanup
  <2>1. wpc = "none"
    BY <1>2 DEF Cleanup, CoreInv, OwnerInv
  <2>2. CASE hport # "unset"
    BY <1>2, <2>1, <2>2, ClosePortStep DEF Cleanup
  <2>3. CASE hport = "unset"
    BY <1>2, <2>1, <2>3, FreedStep DEF Cleanup
  <2> QED BY <2>2, <2>3
<1>3. CASE TerminateClosesPort
  BY <1>3, ClosePortStep DEF TerminateClosesPort
<1>4. CASE TerminateFrees
  BY <1>4, FreedStep DEF TerminateFrees, WorkerIsDone
<1>5. CASE \/ AllocateServer \/ AllocateAttributes \/ AllocateMessage
           \/ StartWorker \/ ReuseHandle
  <2>1. /\ UNCHANGED portVars
        /\ UNCHANGED <<wexit, msg, clientState>>
        /\ wpc' = wpc \/ (StartWorker /\ wpc' = "receive")
    <3>1. CASE StartWorker
      BY <3>1 DEF StartWorker, CreateFails, workerVars, clientState
    <3>2. CASE ~StartWorker
      BY <1>5, <3>2
      DEF AllocateServer, AllocateAttributes, AllocateMessage, ReuseHandle,
          Allocate, CreateFails, workerVars, clientState
    <3> QED BY <3>1, <3>2
  <2>2. StartWorker => wpc = "none"
    BY DEF StartWorker, CoreInv, OwnerInv
  <2>3. wpc' = wpc \/ (~InHand' /\ ~InHand)
    BY <2>1, <2>2 DEF InHand
  <2>4. ExitInv'
    BY <2>1, <2>2 DEF WorkInv, ExitInv
  <2> QED BY <2>1, <2>3, <2>4, QuietStep
<1> QED BY <1>1, <1>2, <1>3, <1>4, <1>5 DEF UaCreateServer

-----------------------------------------------------------------------------
(***************************************************************************)
(* The steps of the worker.                                                *)
(***************************************************************************)
LEMMA ReceiveStep ==
    ASSUME CoreInv, WorkInv, Receive, UNCHANGED clientVars
    PROVE  WorkInv'
<1> USE DEF WorkInv, CoreInv, TypeOK
<1>1. /\ wpc = "waiting" /\ wpc' = "process" /\ msg' = Head(queue)
      /\ queue # <<>>
      /\ UNCHANGED <<port, conn, call, cmsg, wexit, contexts, commHandles,
                     handled, unanswered>>
      /\ held' = IF Head(queue).cont THEN held \cup {Head(queue).client} ELSE held
  BY DEF Receive, SysReceive, GoTo, clientState
<1>2. /\ \A i \in ToDoPositions' :
           i + 1 \in ToDoPositions /\ ToDo(i)' = ToDo(i + 1)
      /\ \A i \in ToDoPositions :
           /\ i \in Nat \ {0}
           /\ i - 1 \in ToDoPositions'
           /\ ToDo(i - 1)' = ToDo(i)
  BY <1>1, ToDoReceive
<1>3. \A i \in ToDoPositions' : i \in Nat
  BY <1>1 DEF ToDoPositions, PortTypeOK, Receive, SysReceive
<1>4. \A m \in Message : MessageOK(m) => MessageOK(m)'
  BY <1>1 DEF MessageOK, clientVars
<1>5. MessagesOK'
  BY <1>2, <1>4, ToDoTypes DEF MessagesOK
<1>6. QueueInOrder'
  <2> SUFFICES ASSUME NEW i \in ToDoPositions', NEW j \in ToDoPositions', i < j
               PROVE  InOrder(ToDo(i)', ToDo(j)')
    BY DEF QueueInOrder, InOrder
  <2>1. i + 1 < j + 1
    BY <1>3
  <2> QED BY <1>2, <2>1 DEF QueueInOrder
<1>7. HandlerInv' /\ ContextHoldsHandle'
  BY <1>1 DEF HandlerInv, ContextHoldsHandle
<1>8. held = {}
  BY <1>1 DEF HeldInv
<1>9. HeldInv'
  BY <1>1, <1>8 DEF HeldInv
<1>10. ClosedInv' /\ ConnInv' /\ DataInv'
  BY <1>1 DEF ClosedInv, ConnInv, DataInv, clientVars
<1>11. NotForgotten'
  <2> SUFFICES ASSUME wexit # "process", NEW c \in Clients \ unanswered
               PROVE  /\ call[c] = "connect" =>
                           \E i \in ToDoPositions' :
                             /\ (ToDo(i)').type = "CONNECTION_REQUEST"
                             /\ (ToDo(i)').client = c
                      /\ call[c] = "request" =>
                           \E i \in ToDoPositions' :
                             /\ (ToDo(i)').type = "REQUEST"
                             /\ (ToDo(i)').client = c
    BY <1>1 DEF NotForgotten, NoForgottenClient
  <2> QED BY <1>1, <1>2 DEF NotForgotten, NoForgottenClient
<1>12. ExitInv'
  BY <1>1 DEF ExitInv
<1> QED BY <1>5, <1>6, <1>7, <1>9, <1>10, <1>11, <1>12

LEMMA RequestStep ==
    ASSUME CoreInv, WorkInv, UaAlpcRequest, UNCHANGED clientVars
    PROVE  WorkInv'
<1> USE DEF WorkInv, CoreInv, TypeOK
<1>1. /\ wpc = "process" /\ wpc' = "reply" /\ msg.type = "REQUEST"
      /\ msg' = [msg EXCEPT !.data.answered = TRUE]
      /\ handled' = [handled EXCEPT ![msg.client] = msg.data.n]
      /\ UNCHANGED <<port, queue, conn, call, cmsg, held, wexit, contexts,
                     commHandles, unanswered>>
  BY DEF UaAlpcRequest, Processing, Hand, GoTo, portVars
<1>2. msg \in Message /\ msg.client \in Clients /\ msg.data \in Data
  BY <1>1, MessageFields DEF MessageInHand, InHand
<1>3. /\ msg'.type = "REQUEST" /\ msg'.client = msg.client
      /\ msg'.data = Answer(msg.data)
  BY <1>1, <1>2 DEF Message, Answer
<1>4. /\ MessageOK(msg)
      /\ \A j \in DOMAIN queue : /\ MessageOK(queue[j]) /\ queue[j] \in Message
                                 /\ InOrder(msg, queue[j])
  BY <1>1, MessageFacts
<1>5. \A j \in DOMAIN queue : queue[j].client = msg.client =>
        queue[j].type \notin Sends
  BY <1>1, <1>4 DEF InOrder
<1>6. MessagesOK' /\ QueueInOrder'
  <2>1. \A j \in DOMAIN queue, m \in Message : m = queue[j] => MessageOK(m)'
    BY <1>1, <1>2, <1>4, <1>5, MessageFields
    DEF MessageOK, clientVars, ServerTypeOK
  <2> QED BY <1>1, <2>1, QueueOnly
<1>7. HandlerInv'
  BY <1>1, <1>3, <1>4, <1>5 DEF HandlerInv, MessageOK, clientVars, Sends
<1>8. ContextHoldsHandle'
  BY <1>1 DEF ContextHoldsHandle
<1>9. HeldInv'
  BY <1>1, <1>4 DEF HeldInv, MessageOK
<1>10. DataInv'
  BY <1>1, <1>2, <1>4 DEF DataInv, MessageOK, Sends, clientVars, ServerTypeOK
<1>11. ClosedInv' /\ ConnInv' /\ ExitInv'
  BY <1>1
  DEF ClosedInv, ConnInv, ExitInv, clientVars
<1>12. NotForgotten'
  BY <1>1, <1>3, HandledIsNotForgotten DEF NotForgotten, NoForgottenClient
<1> QED BY <1>6, <1>7, <1>8, <1>9, <1>10, <1>11, <1>12

\* A client that is blocked in a request is one whose buffers DataInv describes.
LEMMA BlockedFacts ==
    ASSUME CoreInv, NEW c \in Clients
    PROVE  /\ call[c] = "request" =>
                cpc[c] = "requesting" /\ conn[c] = "open" /\ port = "open"
           /\ call[c] = "connect" =>
                cpc[c] = "connecting" /\ conn[c] = "pending" /\ port = "open"
           /\ conn[c] = "pending" => call[c] = "connect"
  BY DEF CoreInv, TypeOK, ClientTypeOK, CallInv, CallOK

LEMMA RepliesStep ==
    ASSUME CoreInv, WorkInv, UaAlpcRequestReplies, UNCHANGED clientVars
    PROVE  WorkInv'
<1> USE DEF WorkInv, CoreInv, TypeOK
<1> DEFINE d == msg.client
<1>1. /\ wpc = "reply" /\ wpc' = "receive"
      /\ UNCHANGED <<port, queue, conn, held, msg, wexit, contexts, commHandles,
                     handled>>
  BY DEF UaAlpcRequestReplies, LeftWaiting, ReplyStatus, Returns, GoTo, SysReply,
         portVars
<1>2. msg \in Message /\ d \in Clients
  BY <1>1, MessageFields DEF MessageInHand, InHand
<1>3. \/ /\ call[d] = "request"
         /\ call' = [call EXCEPT ![d] = "ok"]
         /\ UNCHANGED unanswered
      \/ call[d] # "request" /\ UNCHANGED <<call, unanswered>>
      \/ UNCHANGED call /\ unanswered' = unanswered \cup {d}
  <2>1. call[d] = "request" => hport = "valid"
    BY <1>2, BlockedFacts DEF OwnerInv
  <2> QED
    BY <2>1 DEF UaAlpcRequestReplies, LeftWaiting, SysReply, portVars
<1>4. \A c \in Clients : /\ c # d => call'[c] = call[c]
                         /\ call'[d] = "request" => d \in unanswered'
                         /\ c \in unanswered => c \in unanswered'
                         /\ call'[c] = "connect" => call[c] = "connect"
                         /\ call'[c] = "request" => call[c] = "request"
  BY <1>2, <1>3 DEF PortTypeOK
<1>5. MessagesOK' /\ QueueInOrder'
  <2>1. \A j \in DOMAIN queue, m \in Message : m = queue[j] => MessageOK(m)'
    <3> SUFFICES ASSUME NEW j \in DOMAIN queue, NEW m \in Message, m = queue[j]
                 PROVE  MessageOK(m)'
      OBVIOUS
    <3>1. MessageOK(m) /\ m.client \in Clients
      BY MessageFacts, MessageFields
    <3>2. m.client = d => m.type # "REQUEST"
      BY <1>1 DEF HandlerInv, Sends
    <3> QED BY <1>1, <1>4, <3>1, <3>2 DEF MessageOK, clientVars
  <2> QED BY <1>1, <2>1, QueueOnly
<1>6. HandlerInv' /\ ContextHoldsHandle' /\ HeldInv'
  BY <1>1 DEF HandlerInv, ContextHoldsHandle, HeldInv
<1>7. DataInv'
  BY <1>1 DEF DataInv, clientVars
<1>8. ClosedInv' /\ ConnInv' /\ ExitInv'
  BY <1>1
  DEF ClosedInv, ConnInv, ExitInv, clientVars
<1>9. NotForgotten'
  <2>1. /\ ToDoPositions' = ToDoPositions
        /\ \A i \in ToDoPositions : ToDo(i)' = ToDo(i)
    BY <1>1 DEF ToDoPositions, ToDo
  <2> QED BY <1>1, <1>4, <2>1 DEF NotForgotten, NoForgottenClient
<1> QED BY <1>5, <1>6, <1>7, <1>8, <1>9

LEMMA DatagramStep ==
    ASSUME CoreInv, WorkInv, UaAlpcDatagram, UNCHANGED clientVars
    PROVE  WorkInv'
<1> USE DEF WorkInv, CoreInv, TypeOK
<1>0. HasContextAttribute
  BY DEF UaAlpcDatagram, Processing, HasContextAttribute, OwnerInv, ServerTypeOK,
         Allocations
<1>1. /\ wpc = "process" /\ msg.type = "DATAGRAM"
      /\ handled' = [handled EXCEPT ![msg.client] = msg.data.n]
      /\ wpc' = IF msg.cont THEN "cancel" ELSE "receive"
      /\ UNCHANGED <<port, queue, conn, call, cmsg, held, msg, wexit, contexts,
                     commHandles, unanswered>>
  BY <1>0
  DEF UaAlpcDatagram, Processing, Hand, NeedsCancel, Returns, GoTo, portVars
<1>2. msg \in Message /\ msg.client \in Clients
  BY <1>1, MessageFields DEF MessageInHand, InHand
<1>3. /\ MessageOK(msg)
      /\ \A j \in DOMAIN queue : /\ MessageOK(queue[j]) /\ queue[j] \in Message
                                 /\ InOrder(msg, queue[j])
  BY <1>1, MessageFacts
<1>4. MessagesOK' /\ QueueInOrder'
  <2>1. \A j \in DOMAIN queue, m \in Message : m = queue[j] => MessageOK(m)'
    <3> SUFFICES ASSUME NEW j \in DOMAIN queue, NEW m \in Message, m = queue[j]
                 PROVE  MessageOK(m)'
      OBVIOUS
    <3>1. MessageOK(m) /\ InOrder(msg, m) /\ m.client \in Clients
      BY <1>3, MessageFields
    <3>2. m.type \in Sends => m.data.n > handled'[m.client]
      BY <1>1, <1>2, <3>1
      DEF MessageOK, InOrder, Sends, ServerTypeOK
    <3> QED BY <1>1, <3>1, <3>2 DEF MessageOK, clientVars
  <2> QED BY <1>1, <2>1, QueueOnly
<1>5. HandlerInv' /\ ContextHoldsHandle'
  BY <1>1 DEF HandlerInv, ContextHoldsHandle
<1>6. HeldInv'
  BY <1>1 DEF HeldInv
<1>7. DataInv'
  BY <1>1, <1>2, <1>3 DEF DataInv, MessageOK, Sends, clientVars, ServerTypeOK
<1>8. ClosedInv' /\ ConnInv' /\ ExitInv'
  BY <1>1
  DEF ClosedInv, ConnInv, ExitInv, clientVars
<1>9. NotForgotten'
  BY <1>1, HandledIsNotForgotten DEF NotForgotten, NoForgottenClient
<1> QED BY <1>4, <1>5, <1>6, <1>7, <1>8, <1>9

LEMMA CancelsStep ==
    ASSUME CoreInv, WorkInv, UaAlpcDatagramCancels, UNCHANGED clientVars
    PROVE  WorkInv'
<1> USE DEF WorkInv, CoreInv, TypeOK
<1>1. /\ wpc = "cancel" /\ wpc' = "receive"
      /\ UNCHANGED <<port, queue, conn, call, cmsg, msg, wexit, contexts,
                     commHandles, handled, unanswered>>
  BY DEF UaAlpcDatagramCancels, Returns, GoTo, SysCancel, portVars,
         clientState
<1>2. held' = {}
  <2>1. CASE hport = "valid"
    BY <1>1, <2>1 DEF UaAlpcDatagramCancels, SysCancel, HeldInv
  <2>2. CASE hport # "valid"
    BY <2>2 DEF UaAlpcDatagramCancels, portVars, OwnerInv, ClosedInv
  <2> QED BY <2>1, <2>2
<1>3. /\ ToDoPositions' = ToDoPositions
      /\ \A i \in ToDoPositions : ToDo(i)' = ToDo(i)
  BY <1>1 DEF ToDoPositions, ToDo
<1>4. MessagesOK' /\ QueueInOrder'
  <2>1. \A m \in Message : MessageOK(m) => MessageOK(m)'
    BY <1>1 DEF MessageOK, clientVars
  <2> QED BY <1>3, <2>1, ToDoTypes DEF MessagesOK, QueueInOrder
<1>5. HandlerInv' /\ ContextHoldsHandle' /\ HeldInv'
  BY <1>1, <1>2 DEF HandlerInv, ContextHoldsHandle, HeldInv
<1>6. ClosedInv' /\ ConnInv' /\ DataInv'
  BY <1>1, <1>2 DEF ClosedInv, ConnInv, DataInv, clientVars
<1>7. NotForgotten' /\ ExitInv'
  BY <1>1, <1>3 DEF NotForgotten, NoForgottenClient, ExitInv
<1> QED BY <1>4, <1>5, <1>6, <1>7

LEMMA DisconnectStep ==
    ASSUME CoreInv, WorkInv, UaAlpcDisconnect, UNCHANGED clientVars
    PROVE  WorkInv'
<1> USE DEF WorkInv, CoreInv, TypeOK
<1> DEFINE d == msg.client
<1>0. HasContextAttribute
  BY DEF UaAlpcDisconnect, Processing, DisconnectTypes, HasContextAttribute, OwnerInv,
         ServerTypeOK, Allocations
<1>1. /\ wpc = "process" /\ msg.type \in Notices
      /\ commHandles' = commHandles \ {d} /\ contexts' = contexts \ {d}
      /\ Returns(d \in commHandles)
      /\ UNCHANGED <<port, queue, conn, call, cmsg, held, msg, handled,
                     unanswered>>
  BY <1>0
  DEF UaAlpcDisconnect, Processing, DisconnectTypes, FreeContext, portVars, Notices
<1>2. msg \in Message /\ d \in Clients
  BY <1>1, MessageFields DEF MessageInHand, InHand
<1>3. /\ MessageOK(msg)
      /\ \A j \in DOMAIN queue : /\ MessageOK(queue[j]) /\ queue[j] \in Message
                                 /\ InOrder(msg, queue[j])
  BY <1>1, MessageFacts
<1>4. d \in commHandles /\ conn[d] = "closed"
  BY <1>1, <1>3 DEF MessageOK, Notices
<1>5. wpc' = "receive" /\ UNCHANGED wexit
  BY <1>1, <1>4 DEF Returns, GoTo
<1>6. MessagesOK' /\ QueueInOrder'
  <2>1. \A j \in DOMAIN queue, m \in Message : m = queue[j] => MessageOK(m)'
    <3> SUFFICES ASSUME NEW j \in DOMAIN queue, NEW m \in Message, m = queue[j]
                 PROVE  MessageOK(m)'
      OBVIOUS
    <3>1. MessageOK(m) /\ m.client # d
      BY <1>1, <1>3 DEF InOrder
    <3> QED BY <1>1, <3>1 DEF MessageOK, clientVars
  <2> QED BY <1>1, <1>5, <2>1, QueueOnly
<1>7. HandlerInv' /\ ContextHoldsHandle'
  BY <1>1, <1>5 DEF HandlerInv, ContextHoldsHandle
<1>8. HeldInv'
  <2>1. ~msg.cont
    BY <1>1, <1>3 DEF MessageOK, Notices
  <2>2. held = {}
    BY <2>1 DEF HeldInv
  <2> QED BY <1>1, <2>2 DEF HeldInv
<1>9. ConnInv'
  BY <1>1, <1>4 DEF ConnInv
<1>10. ClosedInv' /\ DataInv' /\ ExitInv'
  BY <1>1, <1>5
  DEF ClosedInv, DataInv, ExitInv, clientVars
<1>11. NotForgotten'
  BY <1>1, <1>5, HandledIsNotForgotten DEF NotForgotten, NoForgottenClient, Notices
<1> QED BY <1>6, <1>7, <1>8, <1>9, <1>10, <1>11

LEMMA ConnectStep ==
    ASSUME CoreInv, WorkInv, UaAlpcConnect, UNCHANGED clientVars
    PROVE  WorkInv'
<1> USE DEF WorkInv, CoreInv, TypeOK
<1> DEFINE d == msg.client
<1>1. /\ wpc = "process" /\ msg.type = "CONNECTION_REQUEST"
      /\ \/ contexts' = contexts \cup {d} /\ wpc' = "accept"
         \/ contexts' = contexts /\ wpc' = "reject"
      /\ UNCHANGED <<port, queue, conn, call, cmsg, held, msg, wexit,
                     commHandles, handled, unanswered>>
  BY DEF UaAlpcConnect, Processing, WithoutContext, GoTo, portVars
<1>2. msg \in Message /\ d \in Clients
  BY <1>1, MessageFields DEF MessageInHand, InHand
<1>3. /\ MessageOK(msg)
      /\ \A j \in DOMAIN queue : /\ MessageOK(queue[j]) /\ queue[j] \in Message
                                 /\ InOrder(msg, queue[j])
  BY <1>1, MessageFacts
<1>4. \A j \in DOMAIN queue : queue[j].client # d
  BY <1>1, <1>3 DEF InOrder
<1>5. /\ d \notin contexts /\ d \notin commHandles
      /\ port = "open" => conn[d] \in {"pending", "closed"}
  BY <1>1, <1>3 DEF MessageOK
<1>6. MessagesOK' /\ QueueInOrder'
  <2>1. \A j \in DOMAIN queue, m \in Message : m = queue[j] => MessageOK(m)'
    BY <1>1, <1>3, <1>4 DEF MessageOK, clientVars
  <2> QED BY <1>1, <2>1, QueueOnly
<1>7. HandlerInv'
  BY <1>1, <1>4, <1>5 DEF HandlerInv
<1>8. ContextHoldsHandle'
  BY <1>1, <1>5 DEF ContextHoldsHandle
<1>9. HeldInv'
  <2>1. held = {}
    BY <1>1, <1>3 DEF HeldInv, MessageOK
  <2> QED BY <1>1, <2>1 DEF HeldInv
<1>10. ClosedInv' /\ ConnInv' /\ DataInv'
       /\ ExitInv'
  BY <1>1
  DEF ClosedInv, ConnInv, DataInv, ExitInv,
      clientVars
<1>11. NotForgotten'
  BY <1>1, HandledIsNotForgotten DEF NotForgotten, NoForgottenClient
<1> QED BY <1>6, <1>7, <1>8, <1>9, <1>10, <1>11

LEMMA AcceptsStep ==
    ASSUME CoreInv, WorkInv, UaAlpcConnectAccepts, UNCHANGED clientVars
    PROVE  WorkInv'
<1> USE DEF WorkInv, CoreInv, TypeOK
<1> DEFINE d == msg.client
<1>1. /\ wpc = "accept" /\ wpc' \in {"receive", "reject"}
      /\ UNCHANGED <<port, queue, cmsg, held, msg, wexit, contexts, handled,
                     unanswered>>
  BY DEF UaAlpcConnectAccepts, Returns, GoTo, SysAccept, portVars
<1>2. msg \in Message /\ d \in Clients
  BY <1>1, MessageFields DEF MessageInHand, InHand
<1>3. /\ d \notin commHandles /\ d \in contexts
      /\ \A j \in DOMAIN queue : queue[j].client # d
      /\ port = "open" => conn[d] \in {"pending", "closed"}
      /\ contexts = commHandles \cup {d}
  BY <1>1 DEF HandlerInv, ContextHoldsHandle
<1>4. /\ ToDoPositions' = ToDoPositions /\ ToDoPositions = DOMAIN queue
      /\ \A i \in ToDoPositions : ToDo(i)' = ToDo(i) /\ ToDo(i) = queue[i]
  <2>1. ToDoPositions' = ToDoPositions /\ ToDoPositions = DOMAIN queue
    BY <1>1 DEF ToDoPositions
  <2>2. \A i \in ToDoPositions : ToDo(i)' = ToDo(i) /\ ToDo(i) = queue[i]
    BY <1>1, <2>1 DEF ToDo, PortTypeOK
  <2> QED BY <2>1, <2>2
<1>5. CASE UNCHANGED <<commHandles, portVars>> /\ GoTo("reject")
  <2>1. wpc' = "reject" /\ UNCHANGED <<conn, call, commHandles>>
    BY <1>5 DEF GoTo, portVars
  <2>2. MessagesOK' /\ QueueInOrder'
    <3>1. \A m \in Message : MessageOK(m) => MessageOK(m)'
      BY <1>1, <2>1 DEF MessageOK, clientVars
    <3> QED BY <1>4, <3>1, ToDoTypes DEF MessagesOK, QueueInOrder
  <2>3. HandlerInv' /\ ContextHoldsHandle' /\ HeldInv'
    BY <1>1, <1>3, <2>1 DEF HandlerInv, ContextHoldsHandle, HeldInv
  <2>4. ClosedInv' /\ ConnInv' /\ DataInv'
        /\ ExitInv'
    BY <1>1, <2>1
    DEF ClosedInv, ConnInv, DataInv, ExitInv,
        clientVars
  <2>5. NotForgotten'
    BY <1>1, <1>4, <2>1 DEF NotForgotten, NoForgottenClient
  <2> QED BY <2>2, <2>3, <2>4, <2>5
<1>6. CASE SysAccept(d) /\ commHandles' = commHandles \cup {d} /\ Returns(TRUE)
  <2>1. /\ wpc' = "receive" /\ port = "open" /\ conn[d] = "pending"
        /\ conn' = [conn EXCEPT ![d] = "open"]
        /\ call' = [call EXCEPT ![d] = "ok"]
    BY <1>6 DEF Returns, GoTo, SysAccept, CanAccept
  <2>2. /\ conn'[d] = "open" /\ call'[d] = "ok" /\ cpc[d] = "connecting"
        /\ \A c \in Clients : c # d => conn'[c] = conn[c] /\ call'[c] = call[c]
    BY <1>2, <2>1, BlockedFacts DEF PortTypeOK
  <2>3. MessagesOK' /\ QueueInOrder'
    <3>1. \A m \in Message : MessageOK(m) /\ m.client # d => MessageOK(m)'
      BY <1>1, <1>6, <2>2, MessageFields DEF MessageOK, clientVars
    <3> QED BY <1>3, <1>4, <3>1, ToDoTypes DEF MessagesOK, QueueInOrder
  <2>4. HandlerInv' /\ ContextHoldsHandle' /\ HeldInv'
    BY <1>1, <1>3, <1>6, <2>1 DEF HandlerInv, ContextHoldsHandle, HeldInv
  <2>5. ClosedInv' /\ ConnInv' /\ ExitInv'
    BY <1>1, <1>6, <2>1, <2>2
    DEF ClosedInv, ConnInv, ExitInv, clientVars
  <2>6. DataInv'
    BY <1>1, <2>2 DEF DataInv, clientVars, Answer
  <2>7. NotForgotten'
    BY <1>1, <1>4, <2>2 DEF NotForgotten, NoForgottenClient
  <2> QED BY <2>3, <2>4, <2>5, <2>6, <2>7
<1> QED BY <1>5, <1>6 DEF UaAlpcConnectAccepts

LEMMA RejectsStep ==
    ASSUME CoreInv, WorkInv, UaAlpcConnectRejects, UNCHANGED clientVars
    PROVE  WorkInv'
<1> USE DEF WorkInv, CoreInv, TypeOK
<1> DEFINE d == msg.client
<1>1. /\ wpc = "reject" /\ wpc' = "receive"
      /\ contexts' = contexts \ {d}
      /\ UNCHANGED <<port, queue, cmsg, held, msg, wexit, commHandles, handled>>
  BY DEF UaAlpcConnectRejects, Returns, LeftWaiting, GoTo, FreeContext,
         SysReject, portVars
<1>2. msg \in Message /\ d \in Clients
  BY <1>1, MessageFields DEF MessageInHand, InHand
<1>3. /\ d \notin commHandles
      /\ \A j \in DOMAIN queue : queue[j].client # d
      /\ contexts = commHandles \cup (contexts \cap {d})
  BY <1>1 DEF HandlerInv, ContextHoldsHandle
<1>4. /\ ToDoPositions' = ToDoPositions /\ ToDoPositions = DOMAIN queue
      /\ \A i \in ToDoPositions : ToDo(i)' = ToDo(i) /\ ToDo(i) = queue[i]
  BY <1>1 DEF ToDoPositions, ToDo, PortTypeOK
<1>5. /\ \A c \in Clients : c # d => conn'[c] = conn[c] /\ call'[c] = call[c]
      /\ conn'[d] = conn[d] \/ conn'[d] = "none"
      /\ call'[d] \in {"connect", "request"} => d \in unanswered'
      /\ unanswered \subseteq unanswered'
      /\ cpc[d] = "requesting" => call'[d] = call[d]
  <2>1. CASE hport = "valid" /\ CanAccept(d)
    BY <1>2, <2>1, BlockedFacts
    DEF UaAlpcConnectRejects, LeftWaiting, SysReject, CanAccept, PortTypeOK,
        portVars
  <2>2. CASE ~(hport = "valid" /\ CanAccept(d))
    <3>1. UNCHANGED <<conn, call, unanswered>>
      BY <2>2 DEF UaAlpcConnectRejects, Refusable, SysReject, portVars
    <3>2. call[d] \notin {"connect", "request"}
      BY <1>1, <1>2, <2>2, BlockedFacts DEF CanAccept, HandlerInv, OwnerInv
    <3> QED BY <3>1, <3>2
  <2> QED BY <2>1, <2>2
<1>6. MessagesOK' /\ QueueInOrder'
  <2>1. \A m \in Message : MessageOK(m) /\ m.client # d => MessageOK(m)'
    BY <1>1, <1>5, MessageFields DEF MessageOK, clientVars
  <2> QED BY <1>3, <1>4, <2>1, ToDoTypes DEF MessagesOK, QueueInOrder
<1>7. HandlerInv' /\ ContextHoldsHandle' /\ HeldInv'
  BY <1>1, <1>3 DEF HandlerInv, ContextHoldsHandle, HeldInv
<1>8. ConnInv'
  BY <1>1, <1>3, <1>5 DEF ConnInv
<1>9. ClosedInv' /\ ExitInv'
  BY <1>1 DEF ClosedInv, ExitInv, clientVars
<1>10. DataInv'
  BY <1>1, <1>2, <1>5 DEF DataInv, clientVars, Answer
<1>11. NotForgotten'
  BY <1>1, <1>4, <1>5 DEF NotForgotten, NoForgottenClient
<1> QED BY <1>6, <1>7, <1>8, <1>9, <1>10, <1>11

LEMMA WorkerWorkStep ==
    ASSUME CoreInv, WorkInv,
           UaServerWorker \/ AstrayReceive \/ AstrayReceiveFails,
           UNCHANGED clientVars
    PROVE  WorkInv'
<1>1. CASE \/ EnterReceive \/ ReceiveFails \/ ProcessOther
           \/ AstrayReceive \/ AstrayReceiveFails \/ UaProcessStray
  <2>1. /\ UNCHANGED portVars
        /\ UNCHANGED clientState
        /\ ~InHand \/ (UNCHANGED msg /\ wpc = "process" /\ msg.type = "OTHER")
        /\ ~InHand'
    BY <1>1
    DEF EnterReceive, ReceiveFails, AstrayReceive, AstrayReceiveFails,
        ProcessOther, UaProcessStray, ProcessStray, Processing, Types,
        DisconnectTypes, AfterFailedReceive, Returns, GoTo, Exit, InHand
  <2>2. /\ wpc # "exited"
        /\ wexit' = wexit \/ wpc' = "exited"
    BY <1>1
    DEF EnterReceive, ReceiveFails, AstrayReceive, AstrayReceiveFails,
        ProcessOther, UaProcessStray, ProcessStray, Processing,
        AfterFailedReceive, Returns, GoTo, Exit
  <2>3. wexit = "none" /\ ExitInv'
    BY <2>2 DEF WorkInv, ExitInv
  <2> QED BY <2>1, <2>2, <2>3, QuietStep
<1> QED
  BY <1>1, ReceiveStep, RequestStep, RepliesStep, DatagramStep, CancelsStep,
     DisconnectStep, ConnectStep, AcceptsStep, RejectsStep
  DEF UaServerWorker, UaProcessMessage

-----------------------------------------------------------------------------
(***************************************************************************)
(* The steps of a client.                                                  *)
(***************************************************************************)

\* What every step of a client leaves true of the messages to be handled, when
\* the messages s it sends, if any, are in order and true themselves.
LEMMA ClientQueueStep ==
    ASSUME CoreInv, WorkInv, NEW c \in Clients, UNCHANGED serverVars,
           UNCHANGED <<port, held>>,
           NEW s \in Seq(Message), queue' = queue \o s,
           s # <<>> => port = "open" /\ conn[c] \in {"none", "open"},
           conn[c] # "closed",
           \/ conn'[c] = conn[c]
           \/ conn'[c] = "closed"
           \/ conn[c] = "none" /\ conn'[c] = "pending",
           conn'[c] = "open" => call[c] # "request",
           sends'[c] = sends[c] \/ sends'[c] = sends[c] + 1,
           \A d \in Clients : d # c =>
             /\ conn'[d] = conn[d] /\ call'[d] = call[d]
             /\ buf'[d] = buf[d] /\ sends'[d] = sends[d],
           \A k \in 1..Len(s) :
             /\ s[k].client = c
             /\ s[k].type \in Sends =>
                  conn[c] = "open" /\ conn'[c] = "open" /\ s[k].data.n > sends[c],
           \A k \in 1..Len(s), m \in Message : m = s[k] => MessageOK(m)',
           \A k, l \in 1..Len(s) : k < l => InOrder(s[k], s[l])
    PROVE  /\ MessagesOK' /\ QueueInOrder' /\ HandlerInv'
           /\ ContextHoldsHandle' /\ HeldInv' /\ ClosedInv'
           /\ ExitInv'
<1> USE DEF WorkInv, CoreInv, TypeOK
<1>0. UNCHANGED <<wpc, msg>> /\ UNCHANGED <<wexit, contexts, commHandles, handled>>
  BY DEF serverVars
<1>1. /\ Len(s) \in Nat /\ Len(queue) \in Nat
      /\ \A k \in 1..Len(s) : s[k] \in Message
      /\ s # <<>> <=> Len(s) > 0
      /\ \A j \in DOMAIN queue' :
           \/ j \in DOMAIN queue /\ queue'[j] = queue[j]
           \/ \E k \in 1..Len(s) : queue'[j] = s[k]
  <2>1. /\ Len(s) \in Nat /\ Len(queue) \in Nat /\ DOMAIN queue = 1..Len(queue)
        /\ \A k \in 1..Len(s) : s[k] \in Message
        /\ s # <<>> <=> Len(s) > 0
        /\ DOMAIN queue' = 1..(Len(queue) + Len(s))
        /\ \A j \in 1..Len(queue) : queue'[j] = queue[j]
        /\ \A j \in (Len(queue) + 1)..(Len(queue) + Len(s)) :
             queue'[j] = s[j - Len(queue)]
    BY DEF PortTypeOK
  <2>2. \A j \in (Len(queue) + 1)..(Len(queue) + Len(s)) :
          j - Len(queue) \in 1..Len(s)
    BY <2>1
  <2> QED BY <2>1, <2>2
<1>2. \A i \in ToDoPositions :
        /\ ToDo(i) \in Message /\ ToDo(i).client \in Clients
        /\ MessageOK(ToDo(i))
        /\ ToDo(i).type \in Sends => ToDo(i).data.n \in Nat
  <2> SUFFICES ASSUME NEW i \in ToDoPositions
               PROVE  /\ ToDo(i) \in Message /\ ToDo(i).client \in Clients
                      /\ MessageOK(ToDo(i))
                      /\ ToDo(i).type \in Sends => ToDo(i).data.n \in Nat
    OBVIOUS
  <2>1. ToDo(i) \in Message /\ MessageOK(ToDo(i))
    BY ToDoTypes DEF MessagesOK
  <2> QED BY <2>1 DEF Message, Data, PortAssumption
<1>3. sends[c] \in Nat
  BY DEF ClientTypeOK, PortAssumption
<1>4. ASSUME NEW i \in ToDoPositions, NEW m \in Message, m = ToDo(i)
      PROVE  MessageOK(m)'
  <2>1. MessageOK(m) /\ m.client \in Clients
    BY <1>2, <1>4
  <2>2. CASE m.client # c
    BY <1>0, <2>1, <2>2 DEF MessageOK
  <2>3. CASE m.client = c
    <3>1. m.type \in Sends => m.data.n \in Nat
      BY <1>2, <1>4
    <3> QED BY <1>0, <1>3, <2>1, <2>3, <3>1 DEF MessageOK
  <2> QED BY <2>2, <2>3
<1>5. ASSUME NEW i \in ToDoPositions, NEW k \in 1..Len(s)
      PROVE  InOrder(ToDo(i), s[k])
  <2>1. s # <<>> /\ s[k].client = c
    <3>1. Len(s) \in Nat /\ (s # <<>> <=> Len(s) > 0)
      BY <1>1
    <3>2. s # <<>>
      BY <3>1
    <3>3. s[k].client = c
      OBVIOUS
    <3> QED BY <3>2, <3>3
  <2>2. MessageOK(ToDo(i))
    BY <1>2
  <2>3. s[k].type \in Sends => s[k].data.n > sends[c] /\ s[k].data.n \in Nat
    BY <1>1 DEF Message, Data, PortAssumption
  <2> QED BY <1>2, <1>3, <2>1, <2>2, <2>3 DEF MessageOK, InOrder
<1>6. MessagesOK' /\ QueueInOrder'
  BY <1>0, <1>4, <1>5, JoinInOrder
<1>7. HandlerInv'
  <2>1. wpc \in {"reply", "accept", "reject"} => msg.client \in Clients
    BY MessageFields DEF MessageInHand, InHand
  <2>2. ASSUME wpc = "reply" PROVE HandlerInv'
    <3>1. \A j \in DOMAIN queue' :
            (queue'[j]).client = msg.client => (queue'[j]).type \notin Sends
      BY <1>1, <2>2 DEF HandlerInv
    <3>2. port = "open" /\ conn'[msg.client] = "open" =>
            call'[msg.client] = "request" /\ msg.data = Answer(buf'[msg.client])
      BY <2>1, <2>2 DEF HandlerInv
    <3> QED BY <1>0, <2>2, <3>1, <3>2 DEF HandlerInv
  <2>3. ASSUME wpc \in {"accept", "reject"} PROVE HandlerInv'
    <3>1. s # <<>> => msg.client # c
      BY <2>3 DEF HandlerInv
    <3>2. \A j \in DOMAIN queue' : (queue'[j]).client # msg.client
      BY <1>1, <2>3, <3>1 DEF HandlerInv
    <3>3. port = "open" => conn'[msg.client] \in {"pending", "closed"}
      BY <2>1, <2>3 DEF HandlerInv
    <3> QED BY <1>0, <2>3, <3>2, <3>3 DEF HandlerInv
  <2> QED BY <1>0, <2>2, <2>3 DEF HandlerInv
<1>8. ContextHoldsHandle' /\ HeldInv' /\ ClosedInv' /\ ExitInv'
  BY <1>0, <1>1
  DEF ContextHoldsHandle, HeldInv, ClosedInv, ExitInv, PortTypeOK
<1> QED BY <1>6, <1>7, <1>8

\* A client that sends nothing.
LEMMA ClientQuietStep ==
    ASSUME CoreInv, WorkInv, NEW c \in Clients, UNCHANGED serverVars,
           UNCHANGED <<port, queue, held>>,
           conn[c] # "closed", conn'[c] = conn[c],
           call[c] # "request",
           sends'[c] = sends[c] \/ sends'[c] = sends[c] + 1,
           \A d \in Clients : d # c =>
             /\ conn'[d] = conn[d] /\ call'[d] = call[d]
             /\ buf'[d] = buf[d] /\ sends'[d] = sends[d],
           call'[c] \notin {"connect", "request"}
    PROVE  /\ MessagesOK' /\ QueueInOrder' /\ HandlerInv'
           /\ ContextHoldsHandle' /\ HeldInv' /\ ClosedInv'
           /\ ExitInv' /\ ConnInv' /\ NotForgotten'
<1> DEFINE s == <<>>
<1>1. /\ s \in Seq(Message) /\ queue' = queue \o s /\ s = <<>>
      /\ 1..Len(s) = {}
  BY DEF CoreInv, TypeOK, PortTypeOK
<1> HIDE DEF s
<1>2. /\ MessagesOK' /\ QueueInOrder' /\ HandlerInv'
      /\ ContextHoldsHandle' /\ HeldInv' /\ ClosedInv'
      /\ ExitInv'
  BY <1>1, ClientQueueStep
<1>3. ConnInv'
  BY DEF WorkInv, ConnInv, serverVars
<1>4. NotForgotten'
  <2>1. ToDoPositions' = ToDoPositions /\ \A i \in ToDoPositions : ToDo(i)' = ToDo(i)
    BY DEF ToDoPositions, ToDo, serverVars
  <2> QED BY <2>1 DEF WorkInv, NotForgotten, NoForgottenClient, serverVars
<1> QED BY <1>2, <1>3, <1>4

LEMMA ReturnsStep ==
    ASSUME CoreInv, WorkInv, NEW c \in Clients, UNCHANGED serverVars,
           UaConnectServerReturns(c) \/ UaSendSynchronousRequestReturns(c)
    PROVE  WorkInv'
<1> USE DEF CoreInv, TypeOK
<1>1. /\ UNCHANGED <<port, queue, conn, held, sends>>
      /\ call[c] \in {"ok", "fail"} /\ call'[c] = "idle"
      /\ cpc[c] \in {"connecting", "requesting"}
      /\ cpc'[c] \in {"connected", "idle"}
      /\ \A d \in Clients : d # c =>
           /\ call'[d] = call[d] /\ cmsg'[d] = cmsg[d]
           /\ buf'[d] = buf[d] /\ cpc'[d] = cpc[d] /\ result'[d] = result[d]
  BY DEF UaConnectServerReturns, UaSendSynchronousRequestReturns, SysReturn,
         PortTypeOK, ClientTypeOK
<1>2. conn[c] # "closed"
  BY <1>1 DEF CallInv, CallOK
<1>3. /\ MessagesOK' /\ QueueInOrder' /\ HandlerInv'
      /\ ContextHoldsHandle' /\ HeldInv' /\ ClosedInv'
      /\ ExitInv' /\ ConnInv' /\ NotForgotten'
  BY <1>1, <1>2, ClientQuietStep
<1>4. DataInv'
  BY <1>1 DEF WorkInv, DataInv, serverVars
<1> QED BY <1>3, <1>4 DEF WorkInv

\* A call that returns before its system call changes the status only.
LEMMA EarlyWorkStep ==
    ASSUME CoreInv, WorkInv, NEW c \in Clients, UNCHANGED serverVars,
           cpc[c] \in {"idle", "connected"}, ReturnEarly(c)
    PROVE  WorkInv'
<1> USE DEF CoreInv, TypeOK
<1>1. /\ UNCHANGED <<port, queue, conn, call, cmsg, held, cpc, buf, sends>>
      /\ result'[c] \in EarlyStatus
      /\ \A d \in Clients : d # c => result'[d] = result[d]
  BY DEF ReturnEarly, portVars, ClientTypeOK
<1>2. conn[c] # "closed" /\ call[c] = "idle"
  BY DEF CallInv, CallOK
<1>3. /\ MessagesOK' /\ QueueInOrder' /\ HandlerInv'
      /\ ContextHoldsHandle' /\ HeldInv' /\ ClosedInv'
      /\ ExitInv' /\ ConnInv' /\ NotForgotten'
  BY <1>1, <1>2, ClientQuietStep
<1>4. DataInv'
  BY <1>1 DEF WorkInv, DataInv, serverVars, EarlyStatus
<1> QED BY <1>3, <1>4 DEF WorkInv

\* What NotForgotten says of one client.
Remembered(c) ==
    wexit # "process" /\ c \notin unanswered =>
      /\ call[c] = "connect" =>
           \/ \E i \in ToDoPositions : /\ ToDo(i).type = "CONNECTION_REQUEST"
                                       /\ ToDo(i).client = c
           \/ wpc \in {"accept", "reject"} /\ msg.client = c
      /\ call[c] = "request" =>
           \/ \E i \in ToDoPositions : /\ ToDo(i).type = "REQUEST"
                                       /\ ToDo(i).client = c
           \/ wpc = "reply" /\ msg.client = c

LEMMA RememberedAll ==
    /\ NotForgotten => \A c \in Clients : Remembered(c)
    /\ (\A c \in Clients : Remembered(c)') => NotForgotten'
  BY DEF NotForgotten, NoForgottenClient, Remembered

\* Who was remembered is remembered when a client's messages join.
LEMMA JoinRemembers ==
    ASSUME PortTypeOK, NotForgotten, NEW s \in Seq(Message),
           queue' = queue \o s, UNCHANGED <<wpc, wexit, msg, unanswered>>,
           NEW d \in Clients, call'[d] = call[d]
    PROVE  Remembered(d)'
<1>1. \A i \in ToDoPositions : i \in ToDoPositions' /\ ToDo(i)' = ToDo(i)
  BY ToDoJoin
<1>2. Remembered(d)
  BY RememberedAll
<1> QED BY <1>1, <1>2 DEF Remembered

\* One message joins.
LEMMA OneJoins ==
    ASSUME PortTypeOK, NEW m \in Message, queue' = Append(queue, m),
           UNCHANGED <<wpc, msg>>
    PROVE  /\ <<m>> \in Seq(Message) /\ queue' = queue \o <<m>>
           /\ 1..Len(<<m>>) = {1} /\ <<m>>[1] = m
           /\ \E i \in ToDoPositions' : ToDo(i)' = m
<1>1. /\ <<m>> \in Seq(Message) /\ queue' = queue \o <<m>>
      /\ 1..Len(<<m>>) = {1} /\ <<m>>[1] = m
  BY DEF PortTypeOK
<1> DEFINE s == <<m>>
<1>2. s \in Seq(Message) /\ queue' = queue \o s /\ 1 \in 1..Len(s) /\ s[1] = m
  BY <1>1
<1> HIDE DEF s
<1>3. \E i : i \in ToDoPositions' /\ ToDo(i)' = s[1]
  BY <1>2, ToDoJoin
<1> QED BY <1>1, <1>2, <1>3

\* A client sends one message.
LEMMA OneMessageStep ==
    ASSUME CoreInv, WorkInv, NEW c \in Clients, UNCHANGED serverVars,
           UNCHANGED <<port, held>>,
           NEW m \in Message, m.client = c, queue' = Append(queue, m),
           port = "open", conn[c] \in {"none", "open"},
           conn'[c] = conn[c] \/ (conn[c] = "none" /\ conn'[c] = "pending"),
           call[c] # "request",
           sends'[c] = sends[c] \/ sends'[c] = sends[c] + 1,
           \A d \in Clients : d # c =>
             /\ conn'[d] = conn[d] /\ call'[d] = call[d]
             /\ buf'[d] = buf[d] /\ sends'[d] = sends[d],
           m.type \in Sends =>
             conn[c] = "open" /\ conn'[c] = "open" /\ m.data.n > sends[c],
           MessageOK(m)'
    PROVE  /\ MessagesOK' /\ QueueInOrder' /\ HandlerInv'
           /\ ContextHoldsHandle' /\ HeldInv' /\ ClosedInv'
           /\ ExitInv'
           /\ \A d \in Clients : d # c => Remembered(d)'
           /\ \E i \in ToDoPositions' : ToDo(i)' = m
<1> DEFINE s == <<m>>
<1>1. PortTypeOK /\ NotForgotten /\ UNCHANGED <<wpc, wexit, msg, unanswered>>
  BY DEF CoreInv, TypeOK, WorkInv, serverVars
<1>2. /\ s \in Seq(Message) /\ queue' = queue \o s
      /\ 1..Len(s) = {1} /\ s[1] = m
      /\ \E i \in ToDoPositions' : ToDo(i)' = m
  BY <1>1, OneJoins
<1> HIDE DEF s
<1>3. /\ \A k \in 1..Len(s) : k = 1 /\ s[k] = m
      /\ \A k, l \in 1..Len(s) : k < l => InOrder(s[k], s[l])
  <2>1. \A k \in 1..Len(s) : k = 1
    BY <1>2
  <2>2. \A k, l \in 1..Len(s) : ~(k < l)
    BY <2>1
  <2> QED BY <1>2, <2>1, <2>2
<1>4. /\ MessagesOK' /\ QueueInOrder' /\ HandlerInv'
      /\ ContextHoldsHandle' /\ HeldInv' /\ ClosedInv'
      /\ ExitInv'
  BY <1>2, <1>3, ClientQueueStep
<1>5. \A d \in Clients : d # c => Remembered(d)'
  BY <1>1, <1>2, JoinRemembers
<1> QED BY <1>2, <1>4, <1>5

LEMMA ConnectsWorkStep ==
    ASSUME CoreInv, WorkInv, NEW c \in Clients, UNCHANGED serverVars,
           UaConnectServer(c)
    PROVE  WorkInv'
<1> USE DEF CoreInv, TypeOK
<1>1. /\ cpc[c] = "idle" /\ conn[c] = "none" /\ call[c] = "idle"
      /\ UNCHANGED <<wpc, msg, contexts, commHandles, handled>>
  BY DEF UaConnectServer, CallInv, CallOK, serverVars
<1>2. CASE ReturnEarly(c)
  BY <1>1, <1>2, EarlyWorkStep
<1>3. CASE /\ SysConnect(c, NoData(c))
           /\ cpc' = [cpc EXCEPT ![c] = "connecting"]
           /\ result' = [result EXCEPT ![c] = "none"]
           /\ UNCHANGED <<buf, sends>>
  <2>1. /\ UNCHANGED <<port, held, buf, sends>>
        /\ cpc'[c] = "connecting" /\ result'[c] = "none"
        /\ \A d \in Clients : d # c =>
             /\ conn'[d] = conn[d] /\ call'[d] = call[d] /\ cmsg'[d] = cmsg[d]
             /\ cpc'[d] = cpc[d] /\ result'[d] = result[d]
    BY <1>3 DEF SysConnect, PortTypeOK, ClientTypeOK
  <2>2. DataInv'
    BY <1>1, <2>1 DEF WorkInv, DataInv
  <2>3. CASE port = "open"
    <3>0. PICK m \in Message : m = Msg("CONNECTION_REQUEST", c, NoData(c), FALSE)
      BY MessageTypes DEF Msg, Message, Types
    <3>1. m.type = "CONNECTION_REQUEST" /\ m.client = c /\ ~m.cont
      BY <3>0 DEF Msg
    <3>2. /\ queue' = Append(queue, m)
          /\ conn'[c] = "pending" /\ call'[c] = "connect"
      BY <1>3, <2>3, <3>0 DEF SysConnect, PortTypeOK
    <3>3. c \notin commHandles /\ c \notin contexts
      BY <1>1, <2>3 DEF WorkInv, ConnInv, ContextHoldsHandle, HandlerInv
    <3>4. MessageOK(m)'
      BY <1>1, <3>1, <3>2, <3>3 DEF MessageOK, Notices, Sends
    <3>7. /\ MessagesOK' /\ QueueInOrder' /\ HandlerInv'
          /\ ContextHoldsHandle' /\ HeldInv' /\ ClosedInv'
          /\ ExitInv'
          /\ \A d \in Clients : d # c => Remembered(d)'
          /\ \E i \in ToDoPositions' : ToDo(i)' = m
      BY <1>1, <2>1, <2>3, <3>1, <3>2, <3>4, OneMessageStep DEF Sends
    <3>8. ConnInv'
      BY <1>1, <2>1, <3>2, <3>3 DEF WorkInv, ConnInv
    <3>9. NotForgotten'
      <4>1. Remembered(c)'
        BY <3>1, <3>2, <3>7 DEF Remembered
      <4> QED BY <3>7, <4>1, RememberedAll
    <3> QED BY <2>2, <3>7, <3>8, <3>9 DEF WorkInv
  <2>4. CASE port # "open"
    <3>1. UNCHANGED <<queue, conn>> /\ call'[c] = "fail"
      BY <1>3, <2>4 DEF SysConnect, PortTypeOK
    <3>2. /\ MessagesOK' /\ QueueInOrder' /\ HandlerInv'
          /\ ContextHoldsHandle' /\ HeldInv' /\ ClosedInv'
          /\ ExitInv' /\ ConnInv' /\ NotForgotten'
      BY <1>1, <2>1, <3>1, ClientQuietStep
    <3> QED BY <2>2, <3>2 DEF WorkInv
  <2> QED BY <2>3, <2>4
<1> QED BY <1>2, <1>3 DEF UaConnectServer

LEMMA RequestsWorkStep ==
    ASSUME CoreInv, WorkInv, NEW c \in Clients, UNCHANGED serverVars,
           UaSendSynchronousRequest(c)
    PROVE  WorkInv'
<1> USE DEF CoreInv, TypeOK
<1>1. /\ cpc[c] = "connected" /\ conn[c] = "open" /\ call[c] = "idle"
      /\ UNCHANGED <<wpc, msg, contexts, commHandles, handled>>
  BY DEF UaSendSynchronousRequest, MaySend, CallInv, CallOK, serverVars
<1>2. CASE ReturnEarly(c)
  BY <1>1, <1>2, EarlyWorkStep
<1>3. CASE /\ SysRequest(c, NextData(c))
           /\ cpc' = [cpc EXCEPT ![c] = "requesting"]
           /\ buf' = [buf EXCEPT ![c] = NextData(c)]
           /\ sends' = [sends EXCEPT ![c] = @ + 1]
           /\ result' = [result EXCEPT ![c] = "none"]
  <2>1. /\ UNCHANGED <<port, conn, held>>
        /\ cpc'[c] = "requesting" /\ result'[c] = "none"
        /\ buf'[c] = NextData(c) /\ cmsg'[c] = NextData(c)
        /\ sends'[c] = sends[c] + 1 /\ call'[c] # "ok"
        /\ \A d \in Clients : d # c =>
             /\ conn'[d] = conn[d] /\ call'[d] = call[d] /\ cmsg'[d] = cmsg[d]
             /\ cpc'[d] = cpc[d] /\ result'[d] = result[d]
             /\ buf'[d] = buf[d] /\ sends'[d] = sends[d]
    BY <1>3 DEF SysRequest, PortTypeOK, ClientTypeOK
  <2>2. /\ NextData(c) \in Data /\ sends[c] \in Nat
        /\ NextData(c) = [from |-> c, n |-> sends[c] + 1, answered |-> FALSE]
    <3>1. MaySend(c) /\ ClientTypeOK
      BY DEF UaSendSynchronousRequest
    <3> QED BY <3>1, NextDataType, PortAssumption DEF NextData, ClientTypeOK
  <2>3. handled[c] \in Nat /\ handled[c] <= sends[c]
    <3>1. ServerTypeOK /\ DataInv
      BY DEF WorkInv
    <3>2. handled[c] \in Nat
      BY <3>1, PortAssumption DEF ServerTypeOK
    <3>3. handled[c] <= sends[c]
      BY <3>1 DEF DataInv
    <3> QED BY <3>2, <3>3
  <2>4. DataInv'
    <3>1. handled'[c] <= sends'[c]
      BY <1>1, <2>1, <2>2, <2>3
    <3> QED BY <1>1, <2>1, <2>2, <3>1 DEF WorkInv, DataInv
  <2>6. ConnInv'
    BY <1>1, <2>1 DEF WorkInv, ConnInv
  <2>7. CASE CanSend(c)
    <3>0. PICK m \in Message : m = Msg("REQUEST", c, NextData(c), FALSE)
      BY <2>2 DEF Msg, Message, Types
    <3>1. /\ m.type = "REQUEST" /\ m.client = c /\ ~m.cont
          /\ m.data = NextData(c) /\ m.data.n = sends[c] + 1
      BY <2>2, <3>0 DEF Msg
    <3>2. queue' = Append(queue, m) /\ call'[c] = "request" /\ port = "open"
      BY <1>3, <2>7, <3>0 DEF SysRequest, CanSend, PortTypeOK
    <3>3. c \in commHandles /\ c \in contexts
      BY <1>1 DEF WorkInv, ConnInv, ContextHoldsHandle
    <3>4. MessageOK(m)'
      BY <1>1, <2>1, <2>2, <2>3, <3>1, <3>2, <3>3 DEF MessageOK, Notices, Sends
    <3>5. /\ MessagesOK' /\ QueueInOrder' /\ HandlerInv'
          /\ ContextHoldsHandle' /\ HeldInv' /\ ClosedInv'
          /\ ExitInv'
          /\ \A d \in Clients : d # c => Remembered(d)'
          /\ \E i \in ToDoPositions' : ToDo(i)' = m
      BY <1>1, <2>1, <2>2, <3>1, <3>2, <3>4, OneMessageStep
    <3>6. Remembered(c)'
      BY <3>1, <3>2, <3>5 DEF Remembered
    <3> QED BY <2>4, <2>6, <3>5, <3>6, RememberedAll DEF WorkInv
  <2>8. CASE ~CanSend(c)
    <3>1. UNCHANGED queue /\ call'[c] = "fail"
      BY <1>3, <2>8 DEF SysRequest, PortTypeOK
    <3>2. /\ MessagesOK' /\ QueueInOrder' /\ HandlerInv'
          /\ ContextHoldsHandle' /\ HeldInv' /\ ClosedInv'
          /\ ExitInv' /\ ConnInv' /\ NotForgotten'
      BY <1>1, <2>1, <3>1, ClientQuietStep
    <3> QED BY <2>4, <3>2 DEF WorkInv
  <2> QED BY <2>7, <2>8
<1> QED BY <1>2, <1>3 DEF UaSendSynchronousRequest

LEMMA DatagramsWorkStep ==
    ASSUME CoreInv, WorkInv, NEW c \in Clients, UNCHANGED serverVars,
           UaSendDatagram(c)
    PROVE  WorkInv'
<1> USE DEF CoreInv, TypeOK
<1>1. /\ cpc[c] = "connected" /\ conn[c] = "open" /\ call[c] = "idle"
      /\ UNCHANGED <<wpc, msg, contexts, commHandles, handled>>
  BY DEF UaSendDatagram, MaySend, CallInv, CallOK, serverVars
<1>2. CASE ReturnEarly(c)
  BY <1>1, <1>2, EarlyWorkStep
<1>3. ASSUME NEW k \in BOOLEAN, SysDatagram(c, NextData(c), k),
             sends' = [sends EXCEPT ![c] = @ + 1],
             result' = [result EXCEPT
                          ![c] = IF CanSend(c) THEN "sent" ELSE "dropped"],
             UNCHANGED <<cpc, buf>>
      PROVE  WorkInv'
  <2>1. /\ UNCHANGED <<port, conn, held, call, cmsg>>
        /\ result'[c] \in {"sent", "dropped"}
        /\ sends'[c] = sends[c] + 1
        /\ \A d \in Clients : d # c =>
             result'[d] = result[d] /\ sends'[d] = sends[d]
    BY <1>3 DEF SysDatagram, ClientTypeOK
  <2>2. /\ NextData(c) \in Data /\ sends[c] \in Nat
        /\ NextData(c) = [from |-> c, n |-> sends[c] + 1, answered |-> FALSE]
        /\ \A d \in Clients : sends[d] \in Nat /\ handled[d] \in Nat
    <3>1. MaySend(c) /\ ClientTypeOK /\ ServerTypeOK
      BY DEF UaSendDatagram
    <3> QED BY <3>1, NextDataType, PortAssumption
            DEF NextData, ClientTypeOK, ServerTypeOK
  <2>3. handled[c] <= sends[c]
    BY DEF WorkInv, DataInv
  <2>4. DataInv'
    <3>1. handled'[c] <= sends'[c]
      BY <1>1, <2>1, <2>2, <2>3
    <3> QED BY <1>1, <1>3, <2>1, <3>1 DEF WorkInv, DataInv
  <2>6. ConnInv'
    BY <1>1, <2>1 DEF WorkInv, ConnInv
  <2>7. CASE CanSend(c)
    <3>0. PICK m \in Message : m = Msg("DATAGRAM", c, NextData(c), k)
      BY <2>2 DEF Msg, Message, Types
    <3>1. /\ m.type = "DATAGRAM" /\ m.client = c /\ m.data.n = sends[c] + 1
      BY <2>2, <3>0 DEF Msg
    <3>2. queue' = Append(queue, m) /\ port = "open"
      BY <1>3, <2>7, <3>0 DEF SysDatagram, CanSend
    <3>3. c \in commHandles /\ c \in contexts
      BY <1>1 DEF WorkInv, ConnInv, ContextHoldsHandle
    <3>4. MessageOK(m)'
      BY <1>1, <2>1, <2>2, <2>3, <3>1, <3>3 DEF MessageOK, Notices, Sends
    <3>5. /\ MessagesOK' /\ QueueInOrder' /\ HandlerInv'
          /\ ContextHoldsHandle' /\ HeldInv' /\ ClosedInv'
          /\ ExitInv'
          /\ \A d \in Clients : d # c => Remembered(d)'
      BY <1>1, <1>3, <2>1, <2>2, <3>1, <3>2, <3>4, OneMessageStep
    <3>6. Remembered(c)'
      BY <1>1, <2>1 DEF Remembered
    <3> QED BY <2>4, <2>6, <3>5, <3>6, RememberedAll DEF WorkInv
  <2>8. CASE ~CanSend(c)
    <3>1. UNCHANGED queue
      BY <1>3, <2>8 DEF SysDatagram
    <3>2. /\ MessagesOK' /\ QueueInOrder' /\ HandlerInv'
          /\ ContextHoldsHandle' /\ HeldInv' /\ ClosedInv'
          /\ ExitInv' /\ ConnInv' /\ NotForgotten'
      BY <1>1, <1>3, <2>1, <3>1, ClientQuietStep
    <3> QED BY <2>4, <3>2 DEF WorkInv
  <2> QED BY <2>7, <2>8
<1> QED BY <1>2, <1>3 DEF UaSendDatagram

LEMMA HangsUpWorkStep ==
    ASSUME CoreInv, WorkInv, NEW c \in Clients, UNCHANGED serverVars,
           UaDisconnectServer(c) \/ ClientDies(c)
    PROVE  WorkInv'
<1> USE DEF CoreInv, TypeOK
<1>1. /\ conn[c] # "closed"
      /\ conn[c] = "open" => c \in commHandles /\ c \in contexts
      /\ UNCHANGED <<wpc, wexit, msg, contexts, commHandles, handled,
                     unanswered>>
  BY DEF UaDisconnectServer, ClientDies, CallInv, CallOK, serverVars, WorkInv,
         ConnInv, ContextHoldsHandle, ClientTypeOK
<1>2. PICK notices \in Seq(Message) :
        /\ SysHangup(c, notices)
        /\ \A k \in 1..Len(notices) :
             /\ notices[k].client = c /\ ~notices[k].cont
             /\ notices[k].type \in {"PORT_CLOSED", "CLIENT_DIED", "OTHER"}
        /\ \A k, l \in 1..Len(notices) : k < l => notices[k].type = "OTHER"
  <2>1. ASSUME NEW t \in Notices, SysHangup(c, <<Notice(t, c)>>)
        PROVE  \E s \in Seq(Message) :
                 /\ SysHangup(c, s)
                 /\ \A k \in 1..Len(s) :
                      /\ s[k].client = c /\ ~s[k].cont
                      /\ s[k].type \in {"PORT_CLOSED", "CLIENT_DIED", "OTHER"}
                 /\ \A k, l \in 1..Len(s) : k < l => s[k].type = "OTHER"
    <3>1. /\ Notice(t, c) \in Message
          /\ Notice(t, c).client = c /\ Notice(t, c).type = t
          /\ ~Notice(t, c).cont
      BY MessageTypes DEF Notice, Msg, Notices, Types
    <3> DEFINE s == <<Notice(t, c)>>
    <3>2. /\ s \in Seq(Message) /\ SysHangup(c, s)
          /\ \A k \in 1..Len(s) : k = 1 /\ s[k] = Notice(t, c)
      BY <2>1, <3>1
    <3> HIDE DEF s
    <3> QED BY <3>1, <3>2 DEF Notices
  <2>2. ASSUME NEW t \in Notices,
               SysHangup(c, <<Notice("OTHER", c), Notice(t, c)>>)
        PROVE  \E s \in Seq(Message) :
                 /\ SysHangup(c, s)
                 /\ \A k \in 1..Len(s) :
                      /\ s[k].client = c /\ ~s[k].cont
                      /\ s[k].type \in {"PORT_CLOSED", "CLIENT_DIED", "OTHER"}
                 /\ \A k, l \in 1..Len(s) : k < l => s[k].type = "OTHER"
    <3>1. \A u \in Notices \cup {"OTHER"} :
            /\ Notice(u, c) \in Message
            /\ Notice(u, c).client = c /\ Notice(u, c).type = u
            /\ ~Notice(u, c).cont
      BY MessageTypes DEF Notice, Msg, Notices, Types
    <3> DEFINE s == <<Notice("OTHER", c), Notice(t, c)>>
    <3>2. /\ s \in Seq(Message) /\ SysHangup(c, s)
          /\ 1..Len(s) = {1, 2}
          /\ s[1] = Notice("OTHER", c) /\ s[2] = Notice(t, c)
      BY <2>2, <3>1
    <3> HIDE DEF s
    <3>3. \A k, l \in 1..Len(s) : k < l => k = 1
      BY <3>2
    <3> QED BY <3>1, <3>2, <3>3 DEF Notices
  <2> QED BY <2>1, <2>2 DEF UaDisconnectServer, ClientDies, Notices
<1>3. /\ UNCHANGED <<port, held, buf, sends, result>>
      /\ conn'[c] = "closed" /\ call'[c] = "idle" /\ cpc'[c] \in {"closed", "dead"}
      /\ \A d \in Clients : d # c =>
           /\ conn'[d] = conn[d] /\ call'[d] = call[d] /\ cmsg'[d] = cmsg[d]
           /\ cpc'[d] = cpc[d]
  BY <1>2
  DEF SysHangup, UaDisconnectServer, ClientDies, PortTypeOK, ClientTypeOK
<1>4. PICK s \in Seq(Message) :
        /\ queue' = queue \o s
        /\ s = notices \/ 1..Len(s) = {}
        /\ s # <<>> => CanSend(c)
        /\ 1..Len(s) # {} => CanSend(c)
  <2>1. CASE CanSend(c)
    BY <1>2, <2>1 DEF SysHangup
  <2>2. CASE ~CanSend(c)
    <3>1. queue' = queue \o <<>> /\ <<>> \in Seq(Message) /\ 1..Len(<<>>) = {}
      BY <1>2, <2>2 DEF SysHangup, PortTypeOK
    <3> QED BY <3>1
  <2> QED BY <2>1, <2>2
<1>5. /\ \A k \in 1..Len(s) :
           /\ s[k].client = c /\ ~s[k].cont
           /\ s[k].type \in {"PORT_CLOSED", "CLIENT_DIED", "OTHER"}
      /\ \A k, l \in 1..Len(s) : k < l => InOrder(s[k], s[l])
  BY <1>2, <1>4 DEF InOrder, Notices, Sends
<1>6. \A k \in 1..Len(s), m \in Message : m = s[k] => MessageOK(m)'
  <2> SUFFICES ASSUME NEW k \in 1..Len(s), NEW m \in Message, m = s[k]
               PROVE  MessageOK(m)'
    OBVIOUS
  <2>1. /\ m.client = c /\ ~m.cont
        /\ m.type \in {"PORT_CLOSED", "CLIENT_DIED", "OTHER"}
        /\ conn[c] = "open"
    BY <1>4, <1>5 DEF CanSend
  <2> QED BY <1>1, <1>3, <2>1 DEF MessageOK, Notices, Sends
<1>7. /\ MessagesOK' /\ QueueInOrder' /\ HandlerInv'
      /\ ContextHoldsHandle' /\ HeldInv' /\ ClosedInv'
      /\ ExitInv'
  BY <1>1, <1>3, <1>4, <1>5, <1>6, ClientQueueStep DEF CanSend, Sends
<1>8. ConnInv' /\ DataInv'
  BY <1>1, <1>3 DEF WorkInv, ConnInv, DataInv
<1>9. NotForgotten'
  <2>1. ASSUME NEW d \in Clients, d # c PROVE Remembered(d)'
    BY <1>1, <1>3, <1>4, <2>1, JoinRemembers DEF WorkInv
  <2>2. Remembered(c)'
    BY <1>3 DEF Remembered
  <2> QED BY <2>1, <2>2, RememberedAll
<1> QED BY <1>7, <1>8, <1>9 DEF WorkInv

LEMMA ClientWorkStep ==
    ASSUME CoreInv, WorkInv, NEW c \in Clients, ClientStep(c),
           UNCHANGED serverVars
    PROVE  WorkInv'
  BY ReturnsStep, ConnectsWorkStep, RequestsWorkStep, DatagramsWorkStep,
     HangsUpWorkStep
  DEF ClientStep, ClientCalls, ClientReturns

-----------------------------------------------------------------------------
(***************************************************************************)
(* IInv is inductive, and what follows from it.                            *)
(***************************************************************************)
LEMMA WorkInit == Init => WorkInv
<1> SUFFICES ASSUME Init PROVE WorkInv
  OBVIOUS
<1> USE DEF Init, PortInit, ServerInit, ClientInit
<1>1. ToDoPositions = {}
  BY DEF ToDoPositions
<1>2. MessagesOK /\ QueueInOrder
  BY <1>1 DEF MessagesOK, QueueInOrder
<1>3. HandlerInv /\ ContextHoldsHandle /\ HeldInv /\ ClosedInv /\ ConnInv
  BY DEF HandlerInv, ContextHoldsHandle, HeldInv, ClosedInv, ConnInv
<1>4. DataInv /\ NotForgotten /\ ExitInv
  BY DEF DataInv, NotForgotten, NoForgottenClient, ExitInv
<1> QED BY <1>2, <1>3, <1>4 DEF WorkInv

LEMMA WorkStep == CoreInv /\ WorkInv /\ [Next]_vars => WorkInv'
<1> SUFFICES ASSUME CoreInv, WorkInv, [Next]_vars PROVE WorkInv'
  OBVIOUS
<1>1. CASE ServerStep
  BY <1>1, OwnerWorkStep, WorkerWorkStep DEF ServerStep, ServerNext
<1>2. ASSUME NEW c \in Clients, ClientStep(c), UNCHANGED serverVars
      PROVE  WorkInv'
  BY <1>2, ClientWorkStep
<1>3. CASE UNCHANGED vars
  <2>1. /\ UNCHANGED portVars /\ UNCHANGED clientVars
        /\ UNCHANGED <<msg, clientState>>
        /\ UNCHANGED <<wpc, wexit>>
    BY <1>3 DEF vars, serverVars, clientState
  <2>2. ExitInv'
    BY <2>1 DEF WorkInv, ExitInv
  <2> QED BY <2>1, <2>2, QuietStep
<1> QED BY <1>1, <1>2, <1>3 DEF Next

-----------------------------------------------------------------------------
(***************************************************************************)
(* What ua.c adds: a reply is the answer to the request, and no handler    *)
(* ends the worker.                                                        *)
(***************************************************************************)

\* No handler of ua.c fails on a message of the port: the attributes are there,
\* and a notice finds the handle it closes.
LEMMA HandlersSucceed ==
    ASSUME CoreInv, WorkInv, UaServerWorker, ~UaProcessStray
    PROVE  wexit' = wexit \/ wexit' = "receive"
<1> USE DEF Returns, GoTo, Exit
<1>0. wpc = "process" => HasContextAttribute
  BY DEF CoreInv, TypeOK, ServerTypeOK, OwnerInv, HasContextAttribute, Allocations
<1>1. CASE UaAlpcDatagram
  BY <1>0, <1>1 DEF UaAlpcDatagram, Processing
<1>2. CASE UaAlpcDisconnect
  <2>1. wpc = "process" /\ msg.type \in Notices
    BY <1>2 DEF UaAlpcDisconnect, Processing, DisconnectTypes, Notices
  <2>2. MessageOK(msg)
    BY <2>1, MessageFacts DEF CoreInv, TypeOK, WorkInv
  <2>3. msg.client \in commHandles
    BY <2>1, <2>2 DEF MessageOK, Notices
  <2> QED BY <1>0, <1>2, <2>1, <2>3 DEF UaAlpcDisconnect
<1>3. CASE ~(UaAlpcDatagram \/ UaAlpcDisconnect)
  BY <1>3
  DEF UaServerWorker, EnterReceive, Receive, ReceiveFails,
      AfterFailedReceive, UaProcessMessage, UaAlpcRequest, UaAlpcRequestReplies,
      ReplyStatus, UaAlpcDatagramCancels, UaAlpcConnect, WithoutContext,
      UaAlpcConnectAccepts, UaAlpcConnectRejects, ProcessOther
<1> QED BY <1>1, <1>2, <1>3

\* One that fails on a stray does so after the close of the worker's own port,
\* which no step opens again while the UA_SERVER has a worker.
LEMMA EndsStep ==
    ASSUME CoreInv, WorkInv, WorkerEndsAtReceive, ServerNext
    PROVE  WorkerEndsAtReceive'
<1> USE DEF WorkerEndsAtReceive
<1>1. CASE UaProcessStray
  <2>1. /\ wpc = "stray" /\ msg \in Strays /\ HandleReuse /\ port # "open"
    BY <1>1
    DEF UaProcessStray, ProcessStray, CoreInv, MessageInHand, StrayInv, OwnerInv
  <2>2. UNCHANGED <<msg, port>>
    BY <1>1 DEF UaProcessStray, ProcessStray, portVars
  <2> QED BY <2>1, <2>2
<1>2. CASE UaServerWorker /\ ~UaProcessStray
  <2>1. wpc # "exited"
    BY <1>2
    DEF UaServerWorker, EnterReceive, Receive, ReceiveFails, UaProcessMessage,
        UaAlpcRequest, UaAlpcRequestReplies, UaAlpcDatagram,
        UaAlpcDatagramCancels, UaAlpcDisconnect, UaAlpcConnect,
        UaAlpcConnectAccepts, UaAlpcConnectRejects, ProcessOther, Processing
  <2>2. wexit = "none"
    BY <2>1 DEF WorkInv, ExitInv, CoreInv, TypeOK, ServerTypeOK
  <2> QED BY <1>2, <2>2, HandlersSucceed
<1>3. CASE AstrayReceive \/ AstrayReceiveFails
  <2>1. wpc # "exited" /\ (wexit' = wexit \/ wexit' = "receive")
    BY <1>3 DEF AstrayReceive, AstrayReceiveFails, GoTo, Exit
  <2>2. wexit = "none"
    BY <2>1 DEF WorkInv, ExitInv, CoreInv, TypeOK, ServerTypeOK
  <2> QED BY <2>1, <2>2
<1>4. CASE \/ AllocateServer \/ UaCreateServer \/ TerminateClosesPort
           \/ TerminateFrees \/ ReuseHandle
  <2>1. /\ UNCHANGED wexit
        /\ UNCHANGED msg \/ msg' = Null
        /\ UNCHANGED port \/ CreatePort \/ port' = "closed"
    BY <1>4
    DEF AllocateServer, UaCreateServer, TerminateClosesPort, TerminateFrees,
        ReuseHandle, AllocateAttributes, AllocateMessage, StartWorker, Cleanup,
        CreatePort, Allocate, CreateFails, workerVars, SysClosePort, portVars
  <2>2. wexit = "process" => ~CreatePort
    BY DEF CreatePort, WorkInv, ExitInv, CoreInv, OwnerInv
  <2> QED BY <2>1, <2>2
<1> QED BY <1>1, <1>2, <1>3, <1>4 DEF ServerNext

LEMMA AnswersServerStep ==
    ASSUME CoreInv, WorkInv, AnswersInv, ServerStep
    PROVE  AnswersInv'
<1> USE DEF CoreInv, TypeOK, AnswersInv, ServerStep
<1>1. WorkerEndsAtReceive'
  BY EndsStep
<1>2. ReplyMatchesRequest'
  BY DEF ReplyMatchesRequest, clientVars
<1>3. CopyInv'
  <2> SUFFICES ASSUME NEW c \in Clients, cpc[c] = "requesting"
               PROVE  cmsg'[c] = IF call'[c] = "ok" THEN Answer(buf[c])
                                                    ELSE buf[c]
    BY DEF CopyInv, clientVars, Answer
  <2>0. cmsg[c] = IF call[c] = "ok" THEN Answer(buf[c]) ELSE buf[c]
    BY DEF CopyInv
  <2>1. CASE UaAlpcRequestReplies
    <3>1. wpc = "reply" /\ msg.client \in Clients
      BY <2>1, MessageFields DEF UaAlpcRequestReplies, MessageInHand, InHand
    <3>2. \/ UNCHANGED <<call, cmsg>>
          \/ /\ call[msg.client] = "request"
             /\ call' = [call EXCEPT ![msg.client] = "ok"]
             /\ cmsg' = [cmsg EXCEPT ![msg.client] = msg.data]
      BY <2>1 DEF UaAlpcRequestReplies, LeftWaiting, SysReply, portVars
    <3>3. call[msg.client] = "request" => msg.data = Answer(buf[msg.client])
      BY <3>1, BlockedFacts DEF WorkInv, HandlerInv
    <3> QED BY <2>0, <3>1, <3>2, <3>3 DEF PortTypeOK
  <2>2. CASE ~UaAlpcRequestReplies
    <3>1. \/ SysClosePort \/ SysAccept(msg.client) \/ SysReject(msg.client)
          \/ UNCHANGED <<call, cmsg>>
      BY <2>2
      DEF ServerNext, AllocateServer, UaCreateServer, TerminateClosesPort,
          TerminateFrees, ReuseHandle, UaServerWorker, AstrayReceive,
          AstrayReceiveFails,
          AllocateAttributes, AllocateMessage, CreatePort, StartWorker, Cleanup,
          Allocate, CreateFails, EnterReceive, Receive, ReceiveFails,
          UaProcessMessage, UaAlpcRequest, UaAlpcDatagram, UaAlpcDatagramCancels,
          UaAlpcDisconnect, UaAlpcConnect, UaAlpcConnectAccepts,
          UaAlpcConnectRejects, ProcessOther, UaProcessStray, ProcessStray,
          LeftWaiting, SysCreatePort, SysReceive, SysCancel, portVars
    <3>2. CASE SysClosePort
      BY <2>0, <3>2 DEF SysClosePort, Blocked, PortTypeOK
    <3>3. CASE SysAccept(msg.client) \/ SysReject(msg.client)
      <4>1. UNCHANGED cmsg
        BY <3>3 DEF SysAccept, SysReject
      <4>2. call'[c] = call[c]
        BY <3>3, BlockedFacts DEF SysAccept, SysReject, CanAccept, PortTypeOK
      <4> QED BY <2>0, <4>1, <4>2
    <3> QED BY <2>0, <3>1, <3>2, <3>3
  <2> QED BY <2>1, <2>2
<1> QED BY <1>1, <1>2, <1>3

LEMMA AnswersClientStep ==
    ASSUME CoreInv, WorkInv, AnswersInv, NEW c \in Clients, ClientStep(c),
           UNCHANGED serverVars
    PROVE  AnswersInv'
<1> USE DEF CoreInv, TypeOK, AnswersInv
<1>1. WorkerEndsAtReceive'
  <2>1. UNCHANGED port
    BY DEF ClientStep, ClientCalls, ClientReturns, UaConnectServer,
           UaConnectServerReturns, UaSendSynchronousRequest,
           UaSendSynchronousRequestReturns, UaSendDatagram, UaDisconnectServer,
           ClientDies, ReturnEarly, SysConnect, SysRequest, SysDatagram,
           SysReturn, SysHangup, portVars
  <2> QED BY <2>1 DEF WorkerEndsAtReceive, serverVars
<1>2. CASE UaSendSynchronousRequestReturns(c)
  <2>1. /\ cpc[c] = "requesting" /\ cpc'[c] = "connected"
        /\ buf'[c] = cmsg[c] /\ UNCHANGED sends
        /\ result'[c] = IF call[c] = "ok" THEN "answered" ELSE "failed"
        /\ \A d \in Clients : d # c =>
             /\ call'[d] = call[d] /\ cmsg'[d] = cmsg[d] /\ cpc'[d] = cpc[d]
             /\ buf'[d] = buf[d] /\ result'[d] = result[d]
    BY <1>2
    DEF UaSendSynchronousRequestReturns, SysReturn, CopyBack, PortTypeOK,
        ClientTypeOK
  <2>2. /\ buf[c] = [from |-> c, n |-> sends[c], answered |-> FALSE]
        /\ cmsg[c] = IF call[c] = "ok" THEN Answer(buf[c]) ELSE buf[c]
    BY <2>1 DEF WorkInv, DataInv, CopyInv
  <2>3. /\ buf'[c].from = c /\ buf'[c].n = sends[c]
        /\ buf'[c].answered <=> call[c] = "ok"
    BY <2>1, <2>2 DEF Answer
  <2>4. CopyInv'
    BY <2>1 DEF CopyInv, Answer
  <2>5. ReplyMatchesRequest'
    BY <2>1, <2>3 DEF ReplyMatchesRequest
  <2> QED BY <1>1, <2>4, <2>5
<1>3. CASE UaSendSynchronousRequest(c) /\ ~ReturnEarly(c)
  <2>1. /\ cpc'[c] = "requesting" /\ result'[c] = "none"
        /\ buf'[c] = NextData(c) /\ cmsg'[c] = NextData(c) /\ call'[c] # "ok"
        /\ \A d \in Clients : d # c =>
             /\ call'[d] = call[d] /\ cmsg'[d] = cmsg[d] /\ cpc'[d] = cpc[d]
             /\ buf'[d] = buf[d] /\ sends'[d] = sends[d]
             /\ result'[d] = result[d]
    <3>1. /\ SysRequest(c, NextData(c))
          /\ cpc' = [cpc EXCEPT ![c] = "requesting"]
          /\ buf' = [buf EXCEPT ![c] = NextData(c)]
          /\ sends' = [sends EXCEPT ![c] = @ + 1]
          /\ result' = [result EXCEPT ![c] = "none"]
      BY <1>3 DEF UaSendSynchronousRequest
    <3> QED BY <3>1 DEF SysRequest, PortTypeOK, ClientTypeOK
  <2>2. CopyInv'
    BY <2>1 DEF CopyInv, Answer
  <2>3. ReplyMatchesRequest'
    BY <2>1 DEF ReplyMatchesRequest
  <2> QED BY <1>1, <2>2, <2>3
<1>4. CASE /\ ~UaSendSynchronousRequestReturns(c)
           /\ ~UaSendSynchronousRequest(c) \/ ReturnEarly(c)
  <2>1. /\ UNCHANGED buf
        /\ cpc'[c] = "requesting" => UNCHANGED <<cpc, call, cmsg>>
        /\ \/ result'[c] \notin {"answered", "failed"}
           \/ UNCHANGED <<result, sends>>
        /\ \A d \in Clients : d # c =>
             /\ call'[d] = call[d] /\ cmsg'[d] = cmsg[d] /\ cpc'[d] = cpc[d]
             /\ sends'[d] = sends[d] /\ result'[d] = result[d]
    <3>1. CASE ReturnEarly(c)
      BY <3>1 DEF ReturnEarly, EarlyStatus, portVars, ClientTypeOK
    <3>2. CASE UaConnectServer(c) /\ ~ReturnEarly(c)
      <4>1. /\ SysConnect(c, NoData(c))
            /\ cpc' = [cpc EXCEPT ![c] = "connecting"]
            /\ result' = [result EXCEPT ![c] = "none"]
            /\ UNCHANGED <<buf, sends>>
        BY <3>2 DEF UaConnectServer
      <4> QED BY <4>1 DEF SysConnect, PortTypeOK, ClientTypeOK
    <3>3. CASE UaConnectServerReturns(c)
      BY <3>3 DEF UaConnectServerReturns, SysReturn, PortTypeOK, ClientTypeOK
    <3>4. CASE UaSendDatagram(c) /\ ~ReturnEarly(c)
      BY <3>4 DEF UaSendDatagram, SysDatagram, ClientTypeOK
    <3>5. CASE UaDisconnectServer(c) \/ ClientDies(c)
      BY <3>5
      DEF UaDisconnectServer, ClientDies, SysHangup, PortTypeOK, ClientTypeOK
    <3> QED
      BY <1>4, <3>1, <3>2, <3>3, <3>4, <3>5
      DEF ClientStep, ClientCalls, ClientReturns
  <2>2. CopyInv'
    BY <2>1 DEF CopyInv, Answer
  <2>3. ReplyMatchesRequest'
    BY <2>1 DEF ReplyMatchesRequest
  <2> QED BY <1>1, <2>2, <2>3
<1> QED BY <1>2, <1>3, <1>4

LEMMA AnswersInit == Init => AnswersInv
  BY DEF Init, PortInit, ServerInit, ClientInit, AnswersInv, CopyInv,
         ReplyMatchesRequest, WorkerEndsAtReceive

LEMMA AnswersStep == IInv /\ [Next]_vars => AnswersInv'
<1>1. IInv /\ UNCHANGED vars => AnswersInv'
  BY DEF IInv, AnswersInv, CopyInv, ReplyMatchesRequest, WorkerEndsAtReceive,
         vars, portVars, serverVars, clientVars
<1> QED BY <1>1, AnswersServerStep, AnswersClientStep DEF IInv, Next

\* The inductive invariant of the composed system.
THEOREM Invariant == Spec => []IInv
<1>1. Init => IInv
  BY CoreInit, WorkInit, AnswersInit DEF IInv
<1>2. IInv /\ [Next]_vars => IInv'
  BY CoreStep, WorkStep, AnswersStep DEF IInv
<1> QED BY <1>1, <1>2, PTL DEF Spec

LEMMA WorkFindsContext == CoreInv /\ WorkInv => NoticeFindsContext
<1> SUFFICES ASSUME CoreInv, WorkInv PROVE NoticeFindsContext
  OBVIOUS
<1>1. \A i \in ToDoPositions : i \in Nat /\ ToDo(i) \in Message
  BY ToDoTypes DEF CoreInv, TypeOK
<1>2. \A i \in ToDoPositions : MessageOK(ToDo(i))
  BY DEF WorkInv, MessagesOK
<1>3. \A i, j \in ToDoPositions : i < j => InOrder(ToDo(i), ToDo(j))
  BY DEF WorkInv, QueueInOrder
<1>4. ASSUME NEW i \in ToDoPositions, ToDo(i).type \in Notices
      PROVE  /\ ToDo(i).client \in contexts
             /\ ToDo(i).client \in commHandles
             /\ \A j \in ToDoPositions : j > i => ToDo(j).client # ToDo(i).client
  BY <1>1, <1>2, <1>3, <1>4 DEF MessageOK, InOrder, Notices
<1>5. wpc = "stray" => HandleReuse /\ opc = "joining"
  BY DEF CoreInv, StrayInv
<1> QED BY <1>4, <1>5 DEF NoticeFindsContext

\* UaAlpcDisconnect finds the context and the handle of the client whose notice
\* it handles (ua.c:88-112), and meets a notice of another port only on a reused
\* handle value while UaTerminateServer waits.
THEOREM NoticesFindContexts == Spec => []NoticeFindsContext
<1>1. IInv => NoticeFindsContext
  BY WorkFindsContext DEF IInv
<1> QED BY <1>1, Invariant, PTL

\* Context and handle of a client live and die together.
THEOREM ContextsHoldHandles == Spec => []ContextHoldsHandle
<1>1. IInv => ContextHoldsHandle
  BY DEF IInv, WorkInv
<1> QED BY <1>1, Invariant, PTL

\* A successful synchronous request returns the answer to itself.
THEOREM RepliesMatchRequests == Spec => []ReplyMatchesRequest
<1>1. IInv => ReplyMatchesRequest
  BY DEF IInv, AnswersInv
<1> QED BY <1>1, Invariant, PTL

\* No message of the server's own port makes the worker end (ua.c:241-248).
THEOREM WorkerEndsOnlyAtReceive == Spec => []WorkerEndsAtReceive
<1>1. IInv => WorkerEndsAtReceive
  BY DEF IInv, AnswersInv
<1> QED BY <1>1, Invariant, PTL

\* A blocked client is known to the worker or to the queue, or its reply or
\* refusal was made and failed.
THEOREM NoClientIsForgotten == Spec => []NoForgottenClient
<1>1. ASSUME IInv PROVE NoForgottenClient
  <2>1. CASE wexit # "process"
    BY <1>1, <2>1 DEF IInv, WorkInv, NotForgotten
  <2>2. CASE wexit = "process"
    <3>1. port # "open"
      BY <1>1, <2>2 DEF IInv, AnswersInv, WorkerEndsAtReceive
    <3>2. \A c \in Clients : call[c] \notin {"connect", "request"}
      BY <1>1, <3>1, BlockedFacts DEF IInv
    <3> QED BY <3>2 DEF NoForgottenClient
  <2> QED BY <2>1, <2>2
<1> QED BY <1>1, Invariant, PTL

\* The kernel retains nothing while the worker waits.
THEOREM NothingIsRetained == Spec => []NothingRetained
<1>1. IInv => NothingRetained
  BY DEF IInv, WorkInv, HeldInv, NothingRetained
<1> QED BY <1>1, Invariant, PTL

\* The two handlers that call a callback of the user.
LEMMA HandsOver ==
    ASSUME CoreInv, UaAlpcRequest \/ UaAlpcDatagram
    PROVE  /\ wpc = "process" /\ wpc' # "process" /\ msg.type \in Sends
           /\ handled' = [handled EXCEPT ![msg.client] = msg.data.n]
<1>1. HasContextAttribute
  BY DEF UaAlpcRequest, UaAlpcDatagram, Processing, CoreInv, TypeOK,
         ServerTypeOK, OwnerInv, HasContextAttribute, Allocations
<1> QED BY <1>1 DEF UaAlpcRequest, UaAlpcDatagram, Processing, Hand, Sends,
                    Returns, GoTo

LEMMA OnlyTwoHandOver ==
    ASSUME [Next]_vars, ~(UaAlpcRequest \/ UaAlpcDatagram)
    PROVE  UNCHANGED handled
  BY DEF Next, vars, ServerStep, ServerNext, serverVars, AllocateServer,
         UaCreateServer, TerminateClosesPort, TerminateFrees, ReuseHandle,
         UaServerWorker, AstrayReceive, AstrayReceiveFails, AllocateAttributes,
         AllocateMessage, CreatePort, StartWorker, Cleanup, Allocate,
         CreateFails, workerVars, EnterReceive, Receive, ReceiveFails,
         UaProcessMessage, UaAlpcRequestReplies, UaAlpcDatagramCancels,
         UaAlpcDisconnect, UaAlpcConnect, UaAlpcConnectAccepts,
         UaAlpcConnectRejects, ProcessOther, UaProcessStray, ProcessStray,
         clientState

\* A callback is given the sends of a client in the order they were made, none
\* of them twice: a message still to be handled is later than the last handled.
THEOREM HandlingIsInOrder == Spec => HandledInOrder
<1> DEFINE Ordered ==
      \A c \in Clients : IF HandedOver(c) THEN handled'[c] > handled[c]
                                         ELSE handled'[c] = handled[c]
<1>1. ASSUME IInv, [Next]_vars PROVE [Ordered]_vars
  <2>0. CoreInv /\ WorkInv
    BY <1>1 DEF IInv
  <2>1. CASE UaAlpcRequest \/ UaAlpcDatagram
    <3>1. /\ wpc = "process" /\ wpc' # "process" /\ msg.type \in Sends
          /\ handled' = [handled EXCEPT ![msg.client] = msg.data.n]
      BY <2>0, <2>1, HandsOver
    <3>2. msg \in Message /\ MessageOK(msg)
      BY <2>0, <3>1, MessageFacts
      DEF CoreInv, TypeOK, WorkInv, MessageInHand, InHand
    <3>3. msg.data.n > handled[msg.client]
      BY <3>1, <3>2 DEF MessageOK
    <3>4. msg.client \in Clients /\ handled \in [Clients -> 0..MaxSends]
      BY <2>0, <3>2, MessageFields DEF CoreInv, TypeOK, ServerTypeOK
    <3> QED BY <3>1, <3>3, <3>4 DEF HandedOver
  <2>2. CASE ~(UaAlpcRequest \/ UaAlpcDatagram)
    <3>1. UNCHANGED handled
      BY <1>1, <2>2, OnlyTwoHandOver
    <3>2. wpc = "process" /\ wpc' # "process" =>
            UaAlpcDisconnect \/ UaAlpcConnect \/ ProcessOther
      BY <1>1, <2>0, <2>2
      DEF CoreInv, OwnerInv,
          Next, vars, ServerStep, ServerNext, serverVars, AllocateServer,
          UaCreateServer, TerminateClosesPort, TerminateFrees, ReuseHandle,
          UaServerWorker, AstrayReceive, AstrayReceiveFails, AllocateAttributes,
          AllocateMessage, CreatePort, StartWorker, Cleanup, Allocate,
          CreateFails, workerVars, EnterReceive, Receive, ReceiveFails,
          UaProcessMessage, UaAlpcRequestReplies, UaAlpcDatagramCancels,
          UaAlpcConnectAccepts, UaAlpcConnectRejects, UaProcessStray,
          ProcessStray
    <3>3. \A c \in Clients : ~HandedOver(c)
      BY <3>2
      DEF HandedOver, UaAlpcDisconnect, UaAlpcConnect, ProcessOther, Processing,
          DisconnectTypes, Sends
    <3> QED BY <3>1, <3>3
  <2> QED BY <2>1, <2>2
<1>2. Spec => [][Next]_vars
  BY PTL DEF Spec
<1>3. (Spec => [][Ordered]_vars) => (Spec => HandledInOrder)
  BY DEF HandledInOrder
<1> QED BY <1>1, <1>2, <1>3, Invariant, PTL
=============================================================================
